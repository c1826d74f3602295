-------------------------------- MODULE Daemon --------------------------------
(***************************************************************************)
(* The account daemon and its callers: daemon/server.py (AccountDaemon),   *)
(* daemon/service.py (RegistrySession), daemon/client.py and dispatch.py.  *)
(* Several daemons for one account are started, race for the socket, serve *)
(* and stop, or die, while clients ask for an operation, through a daemon  *)
(* when one answers and with the account's session lock when none does.    *)
(*                                                                         *)
(* Every await of a daemon's life is a step.  A daemon process and a call  *)
(* run once; the model has several of each instead of restarting them.     *)
(***************************************************************************)
EXTENDS Naturals, FiniteSets

CONSTANTS
  Daemons,         \* processes running `daemon serve` for the account
  Clients,         \* calls, each its own process
  PolicyOf,        \* the configuration each of them was started under
  Routed,          \* the calls for which daemon_socket_for gives a path
  MaxConnections,
  Faults,          \* which things may go wrong
  None

ASSUME DaemonAssumption ==
  /\ DOMAIN PolicyOf = Daemons \cup Clients
  /\ Routed \subseteq Clients
  /\ MaxConnections \in Nat
  /\ Faults \subseteq {"crash", "open", "timeout"}
  /\ Daemons \cap Clients = {}
  /\ None \notin Daemons \cup Clients
  /\ IsFiniteSet(Clients)

VARIABLES
  path,       \* who bound the socket file, if it is there
  listening,  \* the daemons whose listener accepts
  bootLock,   \* who holds bootstrap.lock
  key,        \* who holds the account's session lock and its connection
  runLock,    \* who holds each daemon's _run_lock: a call, or the daemon itself
  pc,         \* the next step of each daemon
  call,       \* where each caller is
  server,     \* the daemon it connected to
  task,       \* its connection's task there
  reply,      \* the frame written back to it
  ran         \* how often its operation was started

files   == <<path, listening, bootLock>>
conns   == <<server, task, reply>>
vars    == <<path, listening, bootLock, key, runLock, pc, call, server, task, reply, ran>>

TypeOK ==
  /\ path \in Daemons \cup {None}
  /\ listening \subseteq Daemons
  /\ bootLock \in Daemons \cup {None}
  /\ key \in Daemons \cup Clients \cup {None}
  /\ runLock \in [Daemons -> Daemons \cup Clients \cup {None}]
  /\ pc \in [Daemons -> {"off", "await", "look", "probe", "clear", "bind", "listen", "open",
                         "connect", "undoing", "serving", "retire", "unbind",
                         "closing", "gone"}]
  /\ call \in [Clients -> {"asking", "waiting", "local", "holding", "leaving", "done", "failed", "told"}]
  /\ server \in [Clients -> Daemons \cup {None}]
  /\ task \in [Clients -> {"none", "backlog", "reading", "queued", "running"}]
  /\ reply \in [Clients -> {"none", "pong", "done", "mismatch", "refused"}]
  /\ ran \in [Clients -> Nat]

Init ==
  /\ path = None
  /\ listening = {}
  /\ bootLock = None
  /\ key = None
  /\ runLock = [d \in Daemons |-> None]
  /\ pc = [d \in Daemons |-> "off"]
  /\ call = [c \in Clients |-> "asking"]
  /\ server = [c \in Clients |-> None]
  /\ task = [c \in Clients |-> "none"]
  /\ reply = [c \in Clients |-> "none"]
  /\ ran = [c \in Clients |-> 0]

Goto(d, label) == pc' = [pc EXCEPT ![d] = label]
At(d, from, to) == pc[d] = from /\ Goto(d, to)

\* A connect succeeds exactly when somebody listens at the path.
Answers == path \in listening

\* The connections d has accepted and not yet closed.
Open(d) == {c \in Clients : server[c] = d /\ task[c] \notin {"none", "backlog"}}
Inflight(d) == {c \in Open(d) : task[c] \in {"queued", "running"}}

\* The kernel resets the connections the listener had not accepted.
Dropped(d) == [c \in Clients |-> IF server[c] = d /\ task[c] = "backlog" THEN "none" ELSE task[c]]

-----------------------------------------------------------------------------
(* The life of a daemon.                                                    *)

\* bootstrap.lock is not waited for: whoever finds it held waits for the socket.
Boot(d) ==
  /\ \/ /\ bootLock = None
        /\ bootLock' = d
        /\ At(d, "off", "look")
     \/ /\ bootLock # None
        /\ At(d, "off", "await")
        /\ UNCHANGED bootLock
  /\ UNCHANGED <<path, listening, key, runLock, call, conns, ran>>

\* _wait_for_peer: the socket answers, or bootstrap_wait passes and serve raises.
Await(d) ==
  /\ At(d, "await", "gone")
  /\ UNCHANGED <<files, key, runLock, call, conns, ran>>

Look(d) ==
  /\ At(d, "look", IF path = None THEN "bind" ELSE "probe")
  /\ UNCHANGED <<files, key, runLock, call, conns, ran>>

\* (Variation: a peer counts as alive only if it answers a ping in time.)
PeerPings == Answers /\ pc[path] = "serving" /\ runLock[path] = None

\* _peer_listening: a peer that accepts is alive, however slow it is.
PeerListening == Answers

Probe(d) ==
  /\ \/ /\ PeerListening
        /\ At(d, "probe", "gone")
        /\ bootLock' = None
     \/ /\ ~ PeerListening
        /\ At(d, "probe", "clear")
        /\ UNCHANGED bootLock
  /\ UNCHANGED <<path, listening, key, runLock, call, conns, ran>>

Clear(d) ==
  /\ At(d, "clear", "bind")
  /\ path' = None
  /\ UNCHANGED <<listening, bootLock, key, runLock, call, conns, ran>>

\* (Variation: the run lock is taken by the requests only.)
HeldAtBind(d) == None

\* The run lock is taken before the listener exists.
HeldWhileOpening(d) == d

\* start_unix_server binds, replacing a socket file at the path, and then
\* listens: in between a connect is refused.
Bind(d) ==
  /\ At(d, "bind", "listen")
  /\ path' = d
  /\ runLock' = [runLock EXCEPT ![d] = HeldWhileOpening(d)]
  /\ UNCHANGED <<listening, bootLock, key, call, conns, ran>>

Listen(d) ==
  /\ At(d, "listen", "open")
  /\ listening' = listening \cup {d}
  /\ UNCHANGED <<path, bootLock, key, runLock, call, conns, ran>>

\* session.open failed: _unbind closes the listener.  From Python 3.13 closing
\* the server also removes its own socket file.
Undo(d) ==
  /\ listening' = listening \ {d}
  /\ path' \in {path, None}
  /\ task' = Dropped(d)

\* session.open, first half: the session lock, which is not waited for.
OpenSession(d) ==
  /\ \/ /\ key = None
        /\ key' = d
        /\ At(d, "open", "connect")
        /\ UNCHANGED <<path, listening, task>>
     \/ /\ key # None
        /\ At(d, "open", "undoing")
        /\ Undo(d)
        /\ UNCHANGED key
  /\ UNCHANGED <<bootLock, runLock, call, server, reply, ran>>

\* session.open, second half: the account connects, or does not and is closed.
Connected(d) ==
  /\ At(d, "connect", "serving")
  /\ bootLock' = None
  /\ runLock' = [runLock EXCEPT ![d] = None]
  /\ UNCHANGED <<path, listening, key, call, conns, ran>>

OpenFails(d) ==
  /\ "open" \in Faults
  /\ At(d, "connect", "undoing")
  /\ Undo(d)
  /\ key' = None
  /\ UNCHANGED <<bootLock, runLock, call, server, reply, ran>>

\* wait_closed returns once every connection is closed; then the socket is
\* removed and the run lock and bootstrap.lock are released on the way out.
Undone(d) ==
  /\ At(d, "undoing", "gone")
  /\ Open(d) = {}
  /\ path' = None
  /\ runLock' = [runLock EXCEPT ![d] = None]
  /\ bootLock' = None
  /\ UNCHANGED <<listening, key, call, conns, ran>>

\* The idle timeout, measured from the last request that finished; or a signal.
IdleStop(d) ==
  /\ Inflight(d) = {}
  /\ At(d, "serving", "retire")
  /\ UNCHANGED <<files, key, runLock, call, conns, ran>>

Signal(d) ==
  /\ Inflight(d) # {}
  /\ At(d, "serving", "retire")
  /\ UNCHANGED <<files, key, runLock, call, conns, ran>>

\* remove_socket_if_ours: unlinks the path, whatever is there by now.
RemoveSocket(d) ==
  /\ At(d, "retire", "unbind")
  /\ path' = None
  /\ UNCHANGED <<listening, bootLock, key, runLock, call, conns, ran>>

CloseListener(d) ==
  /\ At(d, "unbind", "closing")
  /\ listening' = listening \ {d}
  /\ task' = Dropped(d)
  /\ UNCHANGED <<path, bootLock, key, runLock, call, server, reply, ran>>

\* (Variation: the account is closed without waiting for the requests.)
NotWaitedFor(d) == TRUE

\* wait_closed has waited for the open connections, and _drain finds none.
Drained(d) == Open(d) = {}

CloseSession(d) ==
  /\ At(d, "closing", "gone")
  /\ Drained(d)
  /\ key' = None
  /\ UNCHANGED <<files, runLock, call, conns, ran>>

\* SIGKILL: the kernel frees its locks and closes its sockets; the file stays.
Crash(d) ==
  /\ "crash" \in Faults
  /\ pc[d] \notin {"off", "gone"}
  /\ Goto(d, "gone")
  /\ listening' = listening \ {d}
  /\ bootLock' = IF bootLock = d THEN None ELSE bootLock
  /\ key' = IF key = d THEN None ELSE key
  /\ runLock' = [runLock EXCEPT ![d] = None]
  /\ task' = [c \in Clients |-> IF server[c] = d THEN "none" ELSE task[c]]
  /\ UNCHANGED <<path, call, server, reply, ran>>

-----------------------------------------------------------------------------
(* One connection of a daemon: _on_connection, _answer, _dispatch, run.     *)

Answer(c, frame) ==
  /\ task' = [task EXCEPT ![c] = "none"]
  /\ reply' = [reply EXCEPT ![c] = frame]

\* (Variation: waiting for the listener to close holds up the event loop.)
TurnWhileOpen(c) ==
  /\ server[c] \in Daemons
  /\ pc[server[c]] \in {"open", "connect", "undoing", "serving", "retire"}

\* Its daemon's event loop gets a turn: the steps around a bind, and from the
\* unlink to the closed listener, are taken without an await.
Turn(c) ==
  /\ server[c] \in Daemons
  /\ pc[server[c]] \in {"open", "connect", "undoing", "serving", "retire", "closing"}

\* (Variation: an answer the client knows no way to read.)
BusyFrame == "busy"

BusyRefusal == "refused"

Full(d) == Cardinality(Open(d)) >= MaxConnections

\* Over max_connections the answer is a retryable SESSION_LOCKED.
Accept(c) ==
  /\ task[c] = "backlog"
  /\ Turn(c)
  /\ \/ /\ Full(server[c])
        /\ Answer(c, BusyRefusal)
     \/ /\ ~ Full(server[c])
        /\ task' = [task EXCEPT ![c] = "reading"]
        /\ UNCHANGED reply
  /\ UNCHANGED <<files, key, runLock, pc, call, server, ran>>

\* The header timeout drops a peer that says nothing; a ping, and a frame that
\* is refused as it stands, are answered; a run waits for the run lock.
Read(c) ==
  /\ task[c] = "reading"
  /\ Turn(c)
  /\ \/ \E frame \in {"none", "pong", "refused"} : Answer(c, frame)
     \/ /\ task' = [task EXCEPT ![c] = "queued"]
        /\ UNCHANGED reply
  /\ UNCHANGED <<files, key, runLock, pc, call, server, ran>>

SamePolicy(c) == PolicyOf[c] = PolicyOf[server[c]]

\* RegistrySession.run refuses a foreign policy, and then an operation that is
\* unknown, of the terminal only, or wrongly parametrised, before it starts.
Refused(c) ==
  /\ Answer(c, IF SamePolicy(c) THEN "refused" ELSE "mismatch")
  /\ UNCHANGED <<runLock, ran>>

Started(c) ==
  /\ SamePolicy(c)
  /\ runLock' = [runLock EXCEPT ![server[c]] = c]
  /\ task' = [task EXCEPT ![c] = "running"]
  /\ ran' = [ran EXCEPT ![c] = @ + 1]
  /\ UNCHANGED reply

\* The run lock is granted.
Grant(c) ==
  /\ task[c] = "queued"
  /\ Turn(c)
  /\ runLock[server[c]] = None
  /\ Refused(c) \/ Started(c)
  /\ UNCHANGED <<files, key, pc, call, server>>

\* (Variation: an operation that raised leaves the run lock held.)
KeepLock(c) == runLock

Unlock(c) == [runLock EXCEPT ![server[c]] = None]

\* The operation returns, or raises, which is answered too.
Finish(c) ==
  /\ task[c] = "running"
  /\ Turn(c)
  /\ \E frame \in {"done", "refused"} : Answer(c, frame)
  /\ runLock' = Unlock(c)
  /\ UNCHANGED <<files, key, pc, call, server, ran>>

-----------------------------------------------------------------------------
(* A caller: dispatch.execute, daemon_client.call, and the way without one. *)

CallGoes(c, from, to) == call[c] = from /\ call' = [call EXCEPT ![c] = to]

\* DaemonUnavailable, or a request that is not routed: nothing left, run it here.
WithoutDaemon(c) ==
  /\ c \in Routed => ~ Answers
  /\ CallGoes(c, "asking", "local")
  /\ UNCHANGED <<files, key, runLock, pc, conns, ran>>

Connect(c) ==
  /\ c \in Routed
  /\ Answers
  /\ CallGoes(c, "asking", "waiting")
  /\ server' = [server EXCEPT ![c] = path]
  /\ task' = [task EXCEPT ![c] = "backlog"]
  /\ UNCHANGED <<files, key, runLock, pc, reply, ran>>

\* A refusal is raised; only the policy mismatch, refused before anything ran,
\* is run here instead.
GetReply(c) ==
  /\ \/ reply[c] = "done" /\ CallGoes(c, "waiting", "done")
     \/ reply[c] = "pong" /\ CallGoes(c, "waiting", "told")
     \/ reply[c] = "mismatch" /\ CallGoes(c, "waiting", "local")
     \/ reply[c] = "refused" /\ CallGoes(c, "waiting", "failed")
  /\ UNCHANGED <<files, key, runLock, pc, conns, ran>>

\* (Variation: any failure falls back to running it here.)
TriesAgainHere == "local"

\* Once a request has left, a failure is a failure.
AfterItLeft == "failed"

\* The connection closed without an answer.
Broken(c) ==
  /\ reply[c] = "none" /\ task[c] = "none"
  /\ CallGoes(c, "waiting", AfterItLeft)
  /\ UNCHANGED <<files, key, runLock, pc, conns, ran>>

\* request_timeout.
GiveUp(c) ==
  /\ "timeout" \in Faults
  /\ CallGoes(c, "waiting", AfterItLeft)
  /\ UNCHANGED <<files, key, runLock, pc, conns, ran>>

LocalOpen(c) ==
  /\ \/ /\ key = None
        /\ key' = c
        /\ CallGoes(c, "local", "holding")
     \/ /\ key # None
        /\ CallGoes(c, "local", "failed")
        /\ UNCHANGED key
  /\ UNCHANGED <<files, runLock, pc, conns, ran>>

LocalRun(c) ==
  /\ CallGoes(c, "holding", "leaving")
  /\ ran' = [ran EXCEPT ![c] = @ + 1]
  /\ UNCHANGED <<files, key, runLock, pc, conns>>

LocalClose(c) ==
  /\ CallGoes(c, "leaving", "done")
  /\ key' = None
  /\ UNCHANGED <<files, runLock, pc, conns, ran>>

-----------------------------------------------------------------------------
Starts(d) == Boot(d) \/ Look(d) \/ Probe(d) \/ Clear(d) \/ Bind(d) \/ Listen(d)
             \/ OpenSession(d) \/ Connected(d) \/ Undone(d)
Stops(d)  == RemoveSocket(d) \/ CloseListener(d) \/ CloseSession(d)
Handles(c) == Accept(c) \/ Read(c) \/ Grant(c) \/ Finish(c)

Next ==
  \/ \E d \in Daemons : Starts(d) \/ Await(d) \/ OpenFails(d) \/ IdleStop(d) \/ Signal(d)
                        \/ Stops(d) \/ Crash(d)
  \/ \E c \in Clients : Handles(c) \/ WithoutDaemon(c) \/ Connect(c) \/ GetReply(c)
                        \/ Broken(c) \/ GiveUp(c)
                        \/ LocalOpen(c) \/ LocalRun(c) \/ LocalClose(c)

Spec == Init /\ [][Next]_vars

\* A daemon's event loop runs whatever is ready, and its operations return.
\* Nobody has to start or stop a daemon, to send a request, or to give up.
Fairness ==
  /\ \A d \in Daemons : WF_vars(Starts(d) /\ pc[d] # "off") /\ WF_vars(Stops(d))
  /\ \A c \in Clients : SF_vars(Grant(c)) /\ WF_vars(Accept(c) \/ Read(c) \/ Finish(c))

FairSpec == Spec /\ Fairness

-----------------------------------------------------------------------------
(* Properties.                                                              *)

\* A request runs on a connected account and alone on it: from the moment it is
\* started until it is answered its daemon holds the session lock and it holds
\* that daemon's run lock (server.py, _bootstrap, _dispatch and _shutdown).
RunsConnected ==
  \A c \in Clients :
    task[c] = "running" => key = server[c] /\ runLock[server[c]] = c

\* A daemon that serves can be reached: nobody, not a rival that takes it for
\* dead nor a predecessor that is still stopping, removes or replaces the
\* socket it bound (server.py, _peer_listening and remove_socket_if_ours).
ServingIsReachable ==
  \A d \in Daemons : pc[d] = "serving" => path = d /\ d \in listening

\* Starting and stopping end.  A daemon told to stop ends once the operations it is
\* running return (server.py, _shutdown).  A bootstrap serves, finds a daemon already
\* running or fails (_bootstrap); one thing keeps it for ever: its account could not be
\* opened, and a client that connected meanwhile waits for the run lock that the
\* bootstrap holds while _unbind waits for that client's connection.
StartsAndStopsEnd ==
  \A d \in Daemons :
    /\ (pc[d] = "retire") ~> (pc[d] = "gone")
    /\ (pc[d] = "look") ~> \/ pc[d] \in {"serving", "gone"}
                           \/ pc[d] = "undoing" /\ \E c \in Open(d) : task[c] = "queued"

\* A request that reaches a serving daemon is answered, or its caller sees the
\* connection close (server.py, _on_connection): the requests ahead of it, an
\* idle stop or a shutdown never keep it waiting for ever.
ServedConnectionEnds ==
  \A c \in Clients :
    (task[c] = "backlog" /\ pc[server[c]] = "serving") ~> (task[c] = "none")

\* What a caller may believe: its operation was started at most once, whoever
\* ran it, by the one process that held the account (dispatch.py).
Service == INSTANCE AccountService WITH
  Callers <- Clients,
  Owners  <- Daemons \cup Clients,
  owner   <- key,
  started <- ran,
  outcome <- [c \in Clients |-> IF call[c] \in {"done", "failed"} THEN call[c] ELSE "open"]

KeepsService == Service!Spec
=============================================================================
