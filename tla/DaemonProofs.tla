----------------------------- MODULE DaemonProofs -----------------------------
(***************************************************************************)
(* Proofs about Daemon, for every set of daemons and calls, every choice   *)
(* of configurations and of faults and every bound on connections: its     *)
(* types, that a request runs connected and alone, that a serving daemon   *)
(* can be reached, and that it keeps AccountService.                       *)
(***************************************************************************)
EXTENDS Daemon, TLAPS

\* The stretches of a daemon's life over which it has something.
Booting   == {"look", "probe", "clear", "bind", "listen", "open", "connect", "undoing"}
Replacing == {"clear", "bind", "listen", "open", "connect", "undoing"}
Opening   == {"listen", "open", "connect", "undoing"}
Bound     == {"listen", "open", "connect", "serving", "retire"}
Up        == {"open", "connect", "serving", "retire", "unbind"}
Owning    == {"connect", "serving", "retire", "unbind", "closing"}
Talking   == Up \cup {"undoing", "closing"}

-----------------------------------------------------------------------------
(* What is true of the daemons.                                             *)

\* bootstrap.lock is held by the one daemon that is starting.
BootHeld == \A d \in Daemons : bootLock = d <=> pc[d] \in Booting

\* The session lock is held by a daemon that has opened the account, or by a call that
\* runs without one.
KeyHeld ==
  /\ \A d \in Daemons : key = d <=> pc[d] \in Owning
  /\ \A c \in Clients : key = c <=> call[c] \in {"holding", "leaving"}

\* The run lock is held by a daemon that is opening the account, or by the request it runs.
RunHeld ==
  /\ \A d \in Daemons : runLock[d] = d <=> pc[d] \in Opening
  /\ \A d \in Daemons, c \in Clients :
       runLock[d] = c <=> server[c] = d /\ task[c] = "running"

Listeners == \A d \in Daemons : d \in listening <=> pc[d] \in Up

\* The path is the socket of whoever bound it and has not unlinked it.
PathTaken == \A d \in Daemons : pc[d] \in Bound => path = d

\* Nobody replaces the socket of a daemon that serves, or has yet to unlink it.
NoRival == \A d, e \in Daemons : pc[d] \in {"serving", "retire"} => pc[e] \notin Replacing

-----------------------------------------------------------------------------
(* What is true of a call.                                                  *)

\* A connection is one of a daemon that talks; a daemon that closed its listener has none
\* it did not accept.
Connection(c) ==
  /\ task[c] # "none" => server[c] \in Daemons /\ pc[server[c]] \in Talking
  /\ task[c] = "backlog" => server[c] \in listening

\* How often it was started follows from where it is: before it runs not at all, and
\* whoever has its answer knows.
Counted(c) ==
  /\ call[c] \in {"asking", "local", "holding"} => ran[c] = 0 /\ task[c] = "none"
  /\ call[c] = "asking" => reply[c] = "none"
  /\ call[c] = "leaving" => ran[c] = 1
  /\ task[c] \in {"backlog", "reading", "queued"} => ran[c] = 0
  /\ task[c] = "running" => ran[c] = 1
  /\ task[c] # "none" => reply[c] = "none"
  /\ reply[c] = "mismatch" /\ call[c] = "waiting" => ran[c] = 0
  /\ reply[c] = "done" => ran[c] = 1

Inv ==
  /\ TypeOK
  /\ BootHeld /\ KeyHeld /\ RunHeld /\ Listeners /\ PathTaken /\ NoRival
  /\ \A c \in Clients : Connection(c) /\ Counted(c)

-----------------------------------------------------------------------------
(* The steps, told apart.                                                   *)

DaemonStep(d) ==
  \/ Boot(d) \/ Look(d) \/ Probe(d) \/ Clear(d) \/ Bind(d) \/ Listen(d) \/ OpenSession(d)
  \/ Connected(d) \/ Undone(d) \/ Await(d) \/ OpenFails(d) \/ IdleStop(d) \/ Signal(d)
  \/ RemoveSocket(d) \/ CloseListener(d) \/ CloseSession(d) \/ Crash(d)

CallStep(c) ==
  \/ Accept(c) \/ Read(c) \/ Grant(c) \/ Finish(c)
  \/ WithoutDaemon(c) \/ Connect(c) \/ GetReply(c) \/ Broken(c) \/ GiveUp(c)
  \/ LocalOpen(c) \/ LocalRun(c) \/ LocalClose(c)

\* Every step is one of a daemon or one of a call.
LEMMA NextSteps ==
  Next <=> (\E d \in Daemons : DaemonStep(d)) \/ (\E c \in Clients : CallStep(c))
BY DEF Next, Starts, Stops, Handles, DaemonStep, CallStep

\* A step of a call leaves the socket, the bootstrap lock and every daemon where they are.
LEMMA CallFrame ==
  ASSUME NEW c \in Clients, CallStep(c)
  PROVE  UNCHANGED <<path, listening, bootLock, pc>>
BY DEF CallStep, Accept, Read, Grant, Finish, WithoutDaemon, Connect, GetReply, Broken, GiveUp,
       LocalOpen, LocalRun, LocalClose, files

\* A step of a daemon leaves the calls where they are: it may reset their connections.
LEMMA DaemonFrame ==
  ASSUME NEW d \in Daemons, DaemonStep(d)
  PROVE  /\ UNCHANGED <<call, server, reply, ran>>
         /\ task' \in {task, Dropped(d), [c \in Clients |-> IF server[c] = d THEN "none" ELSE task[c]]}
BY DEF DaemonStep, Boot, Look, Probe, Clear, Bind, Listen, OpenSession, Connected, Undone, Await,
       OpenFails, IdleStop, Signal, RemoveSocket, CloseListener, CloseSession, Crash, Undo,
       files, conns

\* A daemon moves along its life, alone.
LEMMA DaemonMoves ==
  ASSUME NEW d \in Daemons, DaemonStep(d)
  PROVE  \E label \in {"await", "look", "probe", "clear", "bind", "listen", "open", "connect",
                       "undoing", "serving", "retire", "unbind", "closing", "gone"} :
           pc' = [pc EXCEPT ![d] = label]
BY DEF DaemonStep, Boot, Look, Probe, Clear, Bind, Listen, OpenSession, Connected, Undone, Await,
       OpenFails, IdleStop, Signal, RemoveSocket, CloseListener, CloseSession, Crash, At, Goto

\* A step keeps the types.
LEMMA TypeStep ==
  ASSUME TypeOK, Next
  PROVE  TypeOK'
<1>1. ASSUME NEW d \in Daemons, DaemonStep(d)
      PROVE  TypeOK'
  <2>1. /\ path' \in Daemons \cup {None} /\ bootLock' \in Daemons \cup {None}
        /\ key' \in Daemons \cup Clients \cup {None} /\ listening' \subseteq Daemons
        /\ runLock' \in [Daemons -> Daemons \cup Clients \cup {None}]
    BY <1>1 DEF TypeOK, files, Undo, HeldWhileOpening,
       DaemonStep, Boot, Look, Probe, Clear, Bind, Listen, OpenSession, Connected, Undone, Await,
       OpenFails, IdleStop, Signal, RemoveSocket, CloseListener, CloseSession, Crash
  <2>2. pc' \in [Daemons -> {"off", "await", "look", "probe", "clear", "bind", "listen", "open",
                             "connect", "undoing", "serving", "retire", "unbind", "closing",
                             "gone"}]
    <3>1. PICK label \in {"await", "look", "probe", "clear", "bind", "listen", "open", "connect",
                          "undoing", "serving", "retire", "unbind", "closing", "gone"} :
                 pc' = [pc EXCEPT ![d] = label]
      BY <1>1, DaemonMoves
    <3> QED
      BY <3>1 DEF TypeOK
  <2>3. task' \in [Clients -> {"none", "backlog", "reading", "queued", "running"}]
    BY <1>1, DaemonFrame DEF TypeOK, Dropped
  <2>4. UNCHANGED <<call, server, reply, ran>>
    BY <1>1, DaemonFrame
  <2> QED
    BY <2>1, <2>2, <2>3, <2>4 DEF TypeOK
<1>2. ASSUME NEW c \in Clients, CallStep(c)
      PROVE  TypeOK'
  BY <1>2, DaemonAssumption
     DEF TypeOK, files, conns, Answer, Answers, Turn, Refused, Started, Unlock, AfterItLeft,
         BusyRefusal, CallStep, Accept, Read, Grant, Finish, WithoutDaemon, Connect, GetReply,
         Broken, GiveUp, LocalOpen, LocalRun, LocalClose, CallGoes
<1> QED
  BY <1>1, <1>2, NextSteps

-----------------------------------------------------------------------------
(* The daemons among themselves.                                            *)

\* Boot takes the bootstrap lock where nobody holds it; it is given back where the
\* bootstrap ends, in a daemon that serves, has failed or has died.
LEMMA BootHeldStep ==
  ASSUME TypeOK, BootHeld, NEW d \in Daemons, DaemonStep(d)
  PROVE  BootHeld'
<1>1. CASE Boot(d)
  BY <1>1, DaemonAssumption DEF TypeOK, BootHeld, Booting, Boot, At, Goto
<1>2. CASE Probe(d) \/ Connected(d) \/ Undone(d)
  BY <1>2, DaemonAssumption DEF TypeOK, BootHeld, Booting, Probe, Connected, Undone, At, Goto
<1>3. CASE Look(d) \/ Clear(d) \/ Bind(d) \/ Listen(d) \/ OpenSession(d) \/ OpenFails(d)
  BY <1>3 DEF TypeOK, BootHeld, Booting, files, Look, Clear, Bind, Listen, OpenSession, OpenFails,
              At, Goto
<1>4. CASE Await(d) \/ IdleStop(d) \/ Signal(d) \/ RemoveSocket(d) \/ CloseListener(d)
           \/ CloseSession(d)
  BY <1>4 DEF TypeOK, BootHeld, Booting, files, Await, IdleStop, Signal, RemoveSocket,
              CloseListener, CloseSession, At, Goto
<1>5. CASE Crash(d)
  BY <1>5, DaemonAssumption DEF TypeOK, BootHeld, Booting, Crash, Goto
<1> QED
  BY <1>1, <1>2, <1>3, <1>4, <1>5 DEF DaemonStep

\* A listener is opened after the bind and closed by an undone bootstrap, a stop or a death.
LEMMA ListenersStep ==
  ASSUME TypeOK, Listeners, NEW d \in Daemons, DaemonStep(d)
  PROVE  Listeners'
<1>1. CASE Listen(d) \/ CloseListener(d) \/ Crash(d)
  BY <1>1 DEF TypeOK, Listeners, Up, Listen, CloseListener, Crash, At, Goto
<1>2. CASE OpenSession(d) \/ OpenFails(d)
  BY <1>2 DEF TypeOK, Listeners, Up, OpenSession, OpenFails, Undo, At, Goto
<1>3. CASE Boot(d) \/ Look(d) \/ Probe(d) \/ Clear(d) \/ Bind(d) \/ Await(d) \/ Undone(d)
  BY <1>3 DEF TypeOK, Listeners, Up, files, Boot, Look, Probe, Clear, Bind, Await, Undone, At, Goto
<1>4. CASE Connected(d) \/ IdleStop(d) \/ Signal(d) \/ RemoveSocket(d) \/ CloseSession(d)
  BY <1>4 DEF TypeOK, Listeners, Up, files, Connected, IdleStop, Signal, RemoveSocket,
              CloseSession, At, Goto
<1> QED
  BY <1>1, <1>2, <1>3, <1>4 DEF DaemonStep

\* A bootstrap replaces a socket only where nothing answered, and a daemon that serves, or
\* stops and has not unlinked its socket yet, would have.
LEMMA NoRivalStep ==
  ASSUME TypeOK, BootHeld, Listeners, PathTaken, NoRival, NEW d \in Daemons, DaemonStep(d)
  PROVE  NoRival'
<1>1. CASE Look(d)
  <2>1. path = None => \A e \in Daemons : pc[e] \notin {"serving", "retire"}
    BY DaemonAssumption DEF PathTaken, Bound
  <2> QED
    BY <1>1, <2>1 DEF TypeOK, NoRival, Replacing, Look, At, Goto
<1>2. CASE Probe(d)
  <2>1. ~ PeerListening => \A e \in Daemons : pc[e] \notin {"serving", "retire"}
    BY DaemonAssumption DEF PeerListening, Answers, Listeners, PathTaken, Up, Bound
  <2> QED
    BY <1>2, <2>1 DEF TypeOK, NoRival, Replacing, Probe, At, Goto
<1>3. CASE Connected(d)
  <2>1. \A e \in Daemons \ {d} : pc[e] \notin Booting
    BY <1>3 DEF BootHeld, Booting, Connected, At
  <2> QED
    BY <1>3, <2>1 DEF TypeOK, NoRival, Booting, Replacing, Connected, At, Goto
<1>4. CASE Boot(d) \/ Await(d) \/ Crash(d)
  BY <1>4 DEF TypeOK, NoRival, Replacing, Boot, Await, Crash, At, Goto
<1>5. CASE Clear(d) \/ Bind(d) \/ Listen(d) \/ OpenSession(d) \/ OpenFails(d) \/ Undone(d)
  BY <1>5 DEF TypeOK, NoRival, Replacing, Clear, Bind, Listen, OpenSession, OpenFails, Undone,
              At, Goto
<1>6. CASE IdleStop(d) \/ Signal(d) \/ RemoveSocket(d) \/ CloseListener(d) \/ CloseSession(d)
  BY <1>6 DEF TypeOK, NoRival, Replacing, IdleStop, Signal, RemoveSocket, CloseListener,
              CloseSession, At, Goto
<1> QED
  BY <1>1, <1>2, <1>3, <1>4, <1>5, <1>6 DEF DaemonStep

\* The path changes hands only by a bootstrap that has no rival, or is unlinked by the
\* daemon that bound it.
LEMMA PathTakenStep ==
  ASSUME TypeOK, BootHeld, PathTaken, NoRival, NEW d \in Daemons, DaemonStep(d)
  PROVE  PathTaken'
<1>1. CASE pc[d] \in Replacing
  <2>1. \A e \in Daemons \ {d} : pc[e] \notin Bound
    BY <1>1 DEF BootHeld, NoRival, Booting, Replacing, Bound
  <2>2. \A e \in Daemons \ {d} : pc'[e] = pc[e]
    BY DaemonMoves DEF TypeOK
  <2>3. pc'[d] \in Bound => path' = d
    BY <1>1 DEF TypeOK, PathTaken, Replacing, Bound, files,
       DaemonStep, Boot, Look, Probe, Clear, Bind, Listen, OpenSession, Connected, Undone, Await,
       OpenFails, IdleStop, Signal, RemoveSocket, CloseListener, CloseSession, Crash, At, Goto
  <2> QED
    BY <2>1, <2>2, <2>3 DEF PathTaken
<1>2. CASE RemoveSocket(d)
  BY <1>2 DEF TypeOK, PathTaken, Bound, RemoveSocket, At, Goto
<1>3. CASE pc[d] \notin Replacing /\ ~ RemoveSocket(d)
  BY <1>3 DEF TypeOK, PathTaken, Replacing, Bound, files,
     DaemonStep, Boot, Look, Probe, Clear, Bind, Listen, OpenSession, Connected, Undone, Await,
     OpenFails, IdleStop, Signal, CloseListener, CloseSession, Crash, At, Goto
<1> QED
  BY <1>1, <1>2, <1>3

-----------------------------------------------------------------------------
(* The two locks.                                                           *)

\* The session lock is taken only where it is free, and given back by who holds it.
LEMMA KeyHeldStep ==
  ASSUME TypeOK, KeyHeld, Next
  PROVE  KeyHeld'
<1>1. ASSUME NEW d \in Daemons, DaemonStep(d)
      PROVE  KeyHeld'
  <2>1. CASE OpenSession(d) \/ OpenFails(d) \/ CloseSession(d) \/ Crash(d)
    BY <2>1, DaemonAssumption
       DEF TypeOK, KeyHeld, Owning, OpenSession, OpenFails, CloseSession, Crash, At, Goto
  <2>2. CASE Boot(d) \/ Look(d) \/ Probe(d) \/ Clear(d) \/ Bind(d) \/ Listen(d) \/ Await(d)
             \/ Undone(d)
    BY <2>2 DEF TypeOK, KeyHeld, Owning, files, Boot, Look, Probe, Clear, Bind, Listen, Await,
                Undone, At, Goto
  <2>3. CASE Connected(d) \/ IdleStop(d) \/ Signal(d) \/ RemoveSocket(d) \/ CloseListener(d)
    BY <2>3 DEF TypeOK, KeyHeld, Owning, files, Connected, IdleStop, Signal, RemoveSocket,
                CloseListener, At, Goto
  <2> QED
    BY <1>1, <2>1, <2>2, <2>3 DEF DaemonStep
<1>2. ASSUME NEW c \in Clients, CallStep(c)
      PROVE  KeyHeld'
  <2>1. CASE LocalOpen(c) \/ LocalRun(c) \/ LocalClose(c)
    BY <2>1, DaemonAssumption
       DEF TypeOK, KeyHeld, Owning, files, LocalOpen, LocalRun, LocalClose, CallGoes
  <2>2. CASE Accept(c) \/ Read(c) \/ Grant(c) \/ Finish(c)
    BY <2>2 DEF KeyHeld, Accept, Read, Grant, Finish
  <2>3. CASE WithoutDaemon(c) \/ Connect(c) \/ GetReply(c) \/ Broken(c) \/ GiveUp(c)
    BY <2>3 DEF TypeOK, KeyHeld, WithoutDaemon, Connect, GetReply, Broken, GiveUp, CallGoes,
                AfterItLeft
  <2> QED
    BY <1>2, <2>1, <2>2, <2>3 DEF CallStep
<1> QED
  BY <1>1, <1>2, NextSteps

\* The run lock goes from the daemon that opens the account to the requests, one by one; no
\* daemon gives it up with a request running, unless it dies and its connections with it.
LEMMA RunHeldStep ==
  ASSUME Inv, Next
  PROVE  RunHeld'
<1>1. ASSUME NEW d \in Daemons, DaemonStep(d)
      PROVE  RunHeld'
  <2>0. UNCHANGED server
    BY <1>1, DaemonFrame
  <2>1. CASE Bind(d) \/ Connected(d) \/ Undone(d)
    <3>1. \A c \in Clients : ~ (server[c] = d /\ task[c] = "running") /\ task' = task
      BY <2>1, DaemonAssumption
         DEF Inv, TypeOK, RunHeld, Opening, Connection, Talking, Up, conns, Bind, Connected, Undone,
             At, Open
    <3> QED
      BY <2>0, <2>1, <3>1, DaemonAssumption
         DEF Inv, TypeOK, RunHeld, Opening, HeldWhileOpening, Bind, Connected, Undone, At, Goto
  <2>2. CASE Crash(d)
    BY <2>2, DaemonAssumption DEF Inv, TypeOK, RunHeld, Opening, Crash, Goto
  <2>3. CASE OpenSession(d) \/ OpenFails(d) \/ CloseListener(d)
    BY <2>3 DEF Inv, TypeOK, RunHeld, Opening, OpenSession, OpenFails, CloseListener, Undo, Dropped,
                At, Goto
  <2>4. CASE Boot(d) \/ Look(d) \/ Probe(d) \/ Clear(d) \/ Listen(d) \/ Await(d)
    BY <2>4 DEF Inv, TypeOK, RunHeld, Opening, files, conns, Boot, Look, Probe, Clear, Listen,
                Await, At, Goto
  <2>5. CASE IdleStop(d) \/ Signal(d) \/ RemoveSocket(d) \/ CloseSession(d)
    BY <2>5 DEF Inv, TypeOK, RunHeld, Opening, files, conns, IdleStop, Signal, RemoveSocket,
                CloseSession, At, Goto
  <2> QED
    BY <1>1, <2>1, <2>2, <2>3, <2>4, <2>5 DEF DaemonStep
<1>2. ASSUME NEW c \in Clients, CallStep(c)
      PROVE  RunHeld'
  <2>0. UNCHANGED pc
    BY <1>2, CallFrame
  <2>1. CASE Grant(c)
    BY <2>0, <2>1, DaemonAssumption
       DEF Inv, TypeOK, RunHeld, Grant, Turn, Refused, Started, Answer
  <2>2. CASE Finish(c)
    BY <2>0, <2>2, DaemonAssumption DEF Inv, TypeOK, RunHeld, Finish, Turn, Unlock, Answer
  <2>3. CASE Accept(c) \/ Read(c)
    BY <2>0, <2>3 DEF Inv, TypeOK, RunHeld, Accept, Read, Answer
  <2>4. CASE Connect(c)
    BY <2>0, <2>4 DEF Inv, TypeOK, RunHeld, Counted, Connect, CallGoes
  <2>5. CASE WithoutDaemon(c) \/ GetReply(c) \/ Broken(c) \/ GiveUp(c) \/ LocalOpen(c)
             \/ LocalRun(c) \/ LocalClose(c)
    BY <2>0, <2>5 DEF Inv, RunHeld, conns, WithoutDaemon, GetReply, Broken, GiveUp, LocalOpen,
                      LocalRun, LocalClose
  <2> QED
    BY <1>2, <2>1, <2>2, <2>3, <2>4, <2>5 DEF CallStep
<1> QED
  BY <1>1, <1>2, NextSteps

-----------------------------------------------------------------------------
(* The calls.                                                               *)

\* A daemon ends with no connection left: it waits for them, or they are reset.
LEMMA ConnectionStep ==
  ASSUME Inv, Next
  PROVE  \A c \in Clients : Connection(c)'
<1>1. ASSUME NEW d \in Daemons, DaemonStep(d), NEW c \in Clients
      PROVE  Connection(c)'
  <2>0. UNCHANGED server
    BY <1>1, DaemonFrame
  <2>1. CASE server[c] = d
    BY <1>1, <2>0, <2>1
       DEF Inv, TypeOK, Listeners, Connection, Talking, Up, files, conns, Undo, Dropped, Open, Drained,
       DaemonStep, Boot, Look, Probe, Clear, Bind, Listen, OpenSession, Connected, Undone, Await,
       OpenFails, IdleStop, Signal, RemoveSocket, CloseListener, CloseSession, Crash, At, Goto
  <2>2. CASE server[c] # d
    <3>1. task'[c] = task[c]
      BY <1>1, <2>2, DaemonFrame DEF Inv, TypeOK, Dropped
    <3>2. server[c] \in Daemons => pc'[server[c]] = pc[server[c]]
      BY <1>1, <2>2, DaemonMoves DEF Inv, TypeOK
    <3>3. \A e \in Daemons \ {d} : e \in listening => e \in listening'
      BY <1>1 DEF files, Undo,
         DaemonStep, Boot, Look, Probe, Clear, Bind, Listen, OpenSession, Connected, Undone,
         Await, OpenFails, IdleStop, Signal, RemoveSocket, CloseListener, CloseSession, Crash
    <3> QED
      BY <2>0, <2>2, <3>1, <3>2, <3>3 DEF Inv, TypeOK, Connection
  <2> QED
    BY <2>1, <2>2
<1>2. ASSUME NEW b \in Clients, CallStep(b), NEW c \in Clients
      PROVE  Connection(c)'
  <2>0. UNCHANGED <<pc, listening>>
    BY <1>2, CallFrame
  <2>1. CASE Connect(b)
    BY <2>0, <2>1, DaemonAssumption
       DEF Inv, TypeOK, Connection, Listeners, Talking, Connect, Answers
  <2>2. CASE Accept(b) \/ Read(b) \/ Grant(b) \/ Finish(b)
    BY <2>0, <2>2
       DEF Inv, TypeOK, Connection, Accept, Read, Grant, Finish, Refused, Started, Answer
  <2>3. CASE WithoutDaemon(b) \/ GetReply(b) \/ Broken(b) \/ GiveUp(b) \/ LocalOpen(b)
             \/ LocalRun(b) \/ LocalClose(b)
    BY <2>0, <2>3 DEF Inv, Connection, conns, WithoutDaemon, GetReply, Broken, GiveUp, LocalOpen,
                      LocalRun, LocalClose
  <2> QED
    BY <1>2, <2>1, <2>2, <2>3 DEF CallStep
<1> QED
  BY <1>1, <1>2, NextSteps

\* A request is started only when it was not before: it runs through one connection, and
\* without a daemon only where no connection was made or the answer says nothing ran.
LEMMA CountedStep ==
  ASSUME Inv, Next
  PROVE  \A c \in Clients : Counted(c)'
<1>1. ASSUME NEW d \in Daemons, DaemonStep(d), NEW c \in Clients
      PROVE  Counted(c)'
  <2>1. UNCHANGED <<call, reply, ran>> /\ task'[c] \in {task[c], "none"}
    BY <1>1, DaemonFrame DEF Inv, TypeOK, Dropped
  <2> QED
    BY <2>1 DEF Inv, Counted
<1>2. ASSUME NEW b \in Clients, CallStep(b), NEW c \in Clients
      PROVE  Counted(c)'
  <2>1. CASE Accept(b) \/ Read(b) \/ Grant(b) \/ Finish(b)
    BY <2>1 DEF Inv, TypeOK, Counted, Accept, Read, Grant, Finish, Refused, Started, Answer,
                BusyRefusal
  <2>2. CASE Connect(b)
    BY <2>2 DEF Inv, TypeOK, Counted, Connect, CallGoes
  <2>3. CASE WithoutDaemon(b) \/ GetReply(b) \/ Broken(b) \/ GiveUp(b)
    BY <2>3 DEF Inv, TypeOK, Counted, conns, WithoutDaemon, GetReply, Broken, GiveUp, CallGoes,
                AfterItLeft
  <2>4. CASE LocalOpen(b) \/ LocalRun(b) \/ LocalClose(b)
    BY <2>4 DEF Inv, TypeOK, Counted, conns, LocalOpen, LocalRun, LocalClose, CallGoes
  <2> QED
    BY <1>2, <2>1, <2>2, <2>3, <2>4 DEF CallStep
<1> QED
  BY <1>1, <1>2, NextSteps

-----------------------------------------------------------------------------
(* The invariant and the theorems.                                          *)

LEMMA InitInv == Init => Inv
BY DaemonAssumption
   DEF Init, Inv, TypeOK, BootHeld, KeyHeld, RunHeld, Listeners, PathTaken, NoRival, Connection,
       Counted, Booting, Owning, Opening, Up, Bound

LEMMA StepInv == Inv /\ [Next]_vars => Inv'
<1> SUFFICES ASSUME Inv, [Next]_vars PROVE Inv'
  OBVIOUS
<1>1. CASE Next
  <2>1. BootHeld' /\ Listeners' /\ PathTaken' /\ NoRival'
    <3>1. ASSUME NEW d \in Daemons, DaemonStep(d)
          PROVE  BootHeld' /\ Listeners' /\ PathTaken' /\ NoRival'
      BY <3>1, BootHeldStep, ListenersStep, PathTakenStep, NoRivalStep DEF Inv
    <3>2. ASSUME NEW c \in Clients, CallStep(c)
          PROVE  BootHeld' /\ Listeners' /\ PathTaken' /\ NoRival'
      BY <3>2, CallFrame DEF Inv, BootHeld, Listeners, PathTaken, NoRival
    <3> QED
      BY <1>1, <3>1, <3>2, NextSteps
  <2>2. TypeOK' /\ KeyHeld' /\ RunHeld'
    BY <1>1, TypeStep, KeyHeldStep, RunHeldStep DEF Inv
  <2>3. \A c \in Clients : Connection(c)' /\ Counted(c)'
    BY <1>1, ConnectionStep, CountedStep
  <2> QED
    BY <2>1, <2>2, <2>3 DEF Inv
<1>2. CASE UNCHANGED vars
  BY <1>2 DEF vars, Inv, TypeOK, BootHeld, KeyHeld, RunHeld, Listeners, PathTaken, NoRival,
              Connection, Counted
<1> QED
  BY <1>1, <1>2

LEMMA Invariant == Spec => []Inv
BY InitInv, StepInv, PTL DEF Spec

\* Every variable keeps to its type, for every set of daemons and calls (server.py,
\* dispatch.py).
THEOREM TypeCorrect == Spec => []TypeOK
<1>1. Inv => TypeOK
  BY DEF Inv
<1> QED
  BY <1>1, Invariant, PTL

\* A request runs on a connected account and alone on it, for every number of daemons that
\* race, stop or die and of requests that wait (server.py, _bootstrap, _dispatch, _shutdown).
THEOREM RunsConnectedHolds == Spec => []RunsConnected
<1>1. Inv => RunsConnected
  <2> SUFFICES ASSUME Inv, NEW c \in Clients, task[c] = "running"
               PROVE  key = server[c] /\ runLock[server[c]] = c
    BY DEF RunsConnected
  <2>1. server[c] \in Daemons /\ pc[server[c]] \in Talking
    BY DEF Inv, Connection
  <2>2. runLock[server[c]] = c
    BY <2>1 DEF Inv, RunHeld
  <2>3. pc[server[c]] \notin Opening
    BY <2>1, <2>2, DaemonAssumption DEF Inv, RunHeld
  <2>4. key = server[c]
    BY <2>1, <2>3 DEF Inv, KeyHeld, Talking, Up, Opening, Owning
  <2> QED
    BY <2>2, <2>4
<1> QED
  BY <1>1, Invariant, PTL

\* A daemon that serves can be reached at the path, whatever rivals probe, clear and bind
\* and whatever predecessors unlink (server.py, _peer_listening and remove_socket_if_ours).
THEOREM ServingIsReachableHolds == Spec => []ServingIsReachable
<1>1. Inv => ServingIsReachable
  BY DEF Inv, PathTaken, Listeners, Bound, Up, ServingIsReachable
<1> QED
  BY <1>1, Invariant, PTL

-----------------------------------------------------------------------------
(* The daemon and its callers keep AccountService.                          *)

Told(c) == IF call[c] \in {"done", "failed"} THEN call[c] ELSE "open"

\* Of what a daemon does, the service sees the session lock taken and given back.
LEMMA DaemonRefines ==
  ASSUME Inv, NEW d \in Daemons, DaemonStep(d)
  PROVE  Service!Next \/ UNCHANGED Service!vars
<1>1. ran' = ran /\ call' = call
  BY DaemonFrame
<1>2. \/ key' = key
      \/ key = None /\ key' = d
      \/ key # None /\ key' = None
  BY DEF files, DaemonStep, Boot, Look, Probe, Clear, Bind, Listen, OpenSession, Connected, Undone, Await,
     OpenFails, IdleStop, Signal, RemoveSocket, CloseListener, CloseSession, Crash
<1> QED
  BY <1>1, <1>2 DEF Service!Next, Service!vars, Service!Take, Service!Leave

\* What a call is told: nothing, until it is done, having been started once, or failed.
LEMMA CallRefines ==
  ASSUME Inv, NEW c \in Clients, CallStep(c)
  PROVE  Service!Next \/ UNCHANGED Service!vars
<1>1. CASE \/ Grant(c) /\ task'[c] = "running"
           \/ LocalRun(c)
  <2>1. key # None /\ key' = key
    BY <1>1, DaemonAssumption
       DEF Inv, TypeOK, KeyHeld, RunHeld, Grant, Turn, LocalRun, CallGoes, Opening, Owning, Refused, Answer
  <2>2. ran[c] = 0 /\ ran' = [ran EXCEPT ![c] = 1]
    BY <1>1 DEF Inv, TypeOK, Counted, Grant, Started, Refused, Answer, LocalRun, CallGoes
  <2>3. \A b \in Clients : Told(b)' = Told(b)
    BY <1>1 DEF Inv, TypeOK, Told, Grant, LocalRun, CallGoes
  <2>4. Service!Start(c)
    BY <2>1, <2>2, <2>3 DEF Service!Start, Told
  <2> QED
    BY <2>4 DEF Service!Next
<1>2. CASE \/ Accept(c) \/ Read(c) \/ Finish(c) \/ WithoutDaemon(c) \/ Connect(c)
           \/ Grant(c) /\ task'[c] # "running"
           \/ GetReply(c) /\ reply[c] \in {"pong", "mismatch"}
  <2>1. key' = key /\ ran' = ran /\ \A b \in Clients : Told(b)' = Told(b)
    BY <1>2 DEF Inv, TypeOK, Told, Accept, Read, Grant, Refused, Started, Finish, WithoutDaemon,
                Connect, GetReply, CallGoes
  <2> QED
    BY <2>1 DEF Service!vars, Told
<1>3. CASE LocalOpen(c) /\ key = None
  <2>1. key' = c /\ ran' = ran /\ \A b \in Clients : Told(b)' = Told(b)
    BY <1>3 DEF Inv, TypeOK, Told, LocalOpen, CallGoes
  <2>2. Service!Take(c)
    BY <1>3, <2>1 DEF Service!Take, Told
  <2> QED
    BY <2>2 DEF Service!Next
<1>4. CASE \/ GetReply(c) /\ reply[c] = "done"
           \/ LocalClose(c)
  <2>1. /\ Told(c) = "open" /\ ran[c] = 1 /\ ran' = ran /\ key' \in {key, None}
        /\ \A b \in Clients : Told(b)' = IF b = c THEN "done" ELSE Told(b)
    BY <1>4 DEF Inv, TypeOK, Counted, Told, GetReply, LocalClose, conns, CallGoes
  <2>2. Service!Tell(c, "done")
    BY <2>1 DEF Service!Tell, Told
  <2> QED
    BY <2>2 DEF Service!Next
<1>5. CASE \/ GetReply(c) /\ reply[c] = "refused"
           \/ LocalOpen(c) /\ key # None
           \/ Broken(c) \/ GiveUp(c)
  <2>1. /\ Told(c) = "open" /\ ran' = ran /\ key' = key
        /\ \A b \in Clients : Told(b)' = IF b = c THEN "failed" ELSE Told(b)
    BY <1>5 DEF Inv, TypeOK, Told, GetReply, Broken, GiveUp, LocalOpen, CallGoes, AfterItLeft
  <2>2. Service!Tell(c, "failed")
    BY <2>1 DEF Service!Tell, Told
  <2> QED
    BY <2>2 DEF Service!Next
<1>6. CASE GetReply(c)
  <2>1. reply[c] \in {"pong", "mismatch", "done", "refused"}
    BY <1>6 DEF GetReply
  <2> QED
    BY <1>2, <1>4, <1>5, <1>6, <2>1
<1> QED
  BY <1>1, <1>2, <1>3, <1>4, <1>5, <1>6 DEF CallStep

\* A caller's operation is started at most once, whoever runs it, by the one process that
\* holds the account, and one told "done" was started (dispatch.py, accounts/lock.py).
THEOREM KeepsServiceHolds == Spec => KeepsService
<1>1. Init => Service!Init
  BY DEF Init, Service!Init
<1>2. Inv /\ [Next]_vars => [Service!Next]_(Service!vars)
  <2> SUFFICES ASSUME Inv, [Next]_vars
               PROVE  Service!Next \/ UNCHANGED Service!vars
    OBVIOUS
  <2>1. CASE Next
    BY <2>1, NextSteps, DaemonRefines, CallRefines
  <2>2. CASE UNCHANGED vars
    BY <2>2 DEF vars, Service!vars
  <2> QED
    BY <2>1, <2>2
<1> QED
  BY <1>1, <1>2, Invariant, PTL DEF Spec, KeepsService, Service!Spec
=============================================================================
