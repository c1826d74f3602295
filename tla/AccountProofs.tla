----------------------------- MODULE AccountProofs -----------------------------
(***************************************************************************)
(* Proofs about Account, for any number of processes and people: its       *)
(* types, one client for each key, no key file that changes under a        *)
(* client, and a disabled account that stays so; and, for one process that *)
(* changes the account beside any number that load it, that no login loses *)
(* a session and that the row names who is in the session file.            *)
(***************************************************************************)
EXTENDS Account, TLAPS

Loading   == {"lock", "connect", "mark", "using"}
Importing == {"import_lock", "import_files", "import_row"}
Changing  == {"import_files", "import_row", "remove_row", "remove_files"}
Signing   == {"login_row", "sign_in", "verify", "set_user", "set_ok", "failed", "unlink",
              "copy_back", "restore"}
LoggingIn == {"login_lock", "login_take"} \cup Signing
Holding   == Signing \ {"login_row"}  \* a login has set aside what it found

-----------------------------------------------------------------------------
(* What is true of a process, whatever the others do.                       *)

\* What it is doing says what it is and what it was asked for.
OfAKind(p) ==
  /\ p \in Loaders => pc[p] \in {"idle"} \cup Loading
  /\ p \in Changers => pc[p] \notin Loading
  /\ pc[p] \in Loading => rec[p] # None /\ ~ rec[p].off
  /\ pc[p] \in Importing => job[p] \in Imports
  /\ pc[p] \in LoggingIn => job[p] \in Logins
  /\ pc[p] \notin Holding => prev[p] = None /\ backup[p] = None

\* What it holds: a client the lock on its key, a login the lock on the session file, and
\* another change the lock on the key of the row it read.
Locked(p) ==
  /\ pc[p] \in {"connect", "using"} \/ (pc[p] = "mark" /\ verdict[p] = "ok") =>
       lock[LockOf(rec[p].source)] = p
  /\ pc[p] \in Signing => lock["session"] = p
  /\ pc[p] \in Changing => \A l \in LocksOf(rec[p]) : lock[l] = p

Inv == TypeOK /\ \A p \in Processes : OfAKind(p) /\ Locked(p)

-----------------------------------------------------------------------------
(* What is true where one process changes the account, and is not killed    *)
(* between the two writes of an import.                                     *)

OneChanger == \A p, q \in Changers : p = q

\* A login that found the account signed in has a copy of that session until it puts it back.
Kept(p) ==
  /\ pc[p] \in {"sign_in", "verify", "failed", "unlink"} /\ verdict[p] = "ok" /\ prev[p] # None
       /\ file["session"] \in Users => backup[p] = file["session"]
  /\ pc[p] = "sign_in" => verdict[p] = "ok"
  /\ pc[p] \in {"verify", "failed", "unlink"} => verdict[p] \in {"ok", "new"}
  /\ pc[p] \in {"unlink", "copy_back", "restore"} => prev[p] # None
  /\ pc[p] = "copy_back" => file["session"] = None
  /\ prev[p] = None => backup[p] = None
  /\ pc[p] # "copy_back" /\ backup[p] \in Users => file["session"] = backup[p]
  /\ pc[p] = "verify" /\ verdict[p] = "new" => backup[p] \notin Users

KeptInv == Inv /\ \A p \in Changers : Kept(p)

\* A row and a session file that are about the same person.
Names(r)   == r # None /\ r.source = "session_file" /\ r.user # None
Fits(r, k) == Names(r) => k \in {r.user, "dead"}

\* Where the row and the file may disagree: an import that has copied its material, and a
\* login that is putting back what it found.
Between == {"import_row", "copy_back", "restore"}

Agreed(p) ==
  /\ pc[p] \in {"sign_in", "verify"} => ~ Names(row)
  /\ pc[p] \in {"sign_in", "verify", "failed", "unlink", "copy_back", "restore"} /\ left = {} =>
       Fits(prev[p], backup[p])
  /\ pc[p] \in {"failed", "unlink", "copy_back", "restore"} /\ left = {} =>
       prev[p] = None \/ backup[p] # None \/ ~ Names(row)
  /\ pc[p] = "verify" /\ verdict[p] = "new" => file["session"] \in {job[p].user, "dead"}
  /\ pc[p] \in {"set_user", "set_ok"} => file["session"] \in {job[p].user, "dead"}
  /\ pc[p] = "restore" => file["session"] = backup[p]
  /\ pc[p] \in Importing => row = None \/ job[p].replace
  /\ pc[p] = "remove_files" => row = None

AgreedInv ==
  /\ KeptInv
  /\ \A p \in Changers : Agreed(p)
  /\ left = {} /\ (\A p \in Changers : pc[p] \notin Between) => Fits(row, file["session"])
  /\ Changers = {} => row = None

-----------------------------------------------------------------------------
(* The steps, told apart.                                                   *)

LoadStep(p) ==
  LoadRead(p) \/ LoadLock(p) \/ Connects(p) \/ NotConnected(p) \/ Mark(p) \/ Close(p)

ChangeStep(p) ==
  \/ \E j \in ImportJobs : ImportRead(p, j)
  \/ ImportLock(p) \/ ImportFiles(p) \/ ImportRow(p)
  \/ RemoveRead(p) \/ RemoveLock(p) \/ RemoveRow(p) \/ RemoveFiles(p)

SignStep(p) ==
  \/ \E u \in Signers, qr, replace \in BOOLEAN : LoginRead(p, u, qr, replace)
  \/ LoginLock(p) \/ LoginTake(p) \/ LoginRow(p) \/ SignIn(p) \/ SignInFails(p) \/ Verify(p)
  \/ SetUser(p) \/ SetOk(p) \/ Failed(p) \/ Unlink(p) \/ CopyBack(p) \/ Restore(p)

\* A step of a process.
StepOf(p) ==
  \/ p \in Loaders /\ LoadStep(p)
  \/ p \in Changers /\ ChangeStep(p)
  \/ p \in Changers /\ SignStep(p)
  \/ Crash(p)

\* Every step is one of a process, a switch or a revocation.
LEMMA NextSteps ==
  ASSUME Next
  PROVE  \/ \E p \in Processes : StepOf(p)
         \/ \E status \in {"new", "disabled"} : Switch(status)
         \/ \E u \in Users : Revoke(u)
BY DEF Next, Quiet, Load, ImportStep, RemoveStep, LoginStep, StepOf, LoadStep, ChangeStep,
       SignStep, Processes

\* A process writes down nothing about another, and takes no lock another has.
LEMMA Alone ==
  ASSUME TypeOK, NEW p \in Processes, StepOf(p), NEW q \in Processes, q # p
  PROVE  /\ pc'[q] = pc[q] /\ rec'[q] = rec[q] /\ job'[q] = job[q] /\ prev'[q] = prev[q]
         /\ backup'[q] = backup[q] /\ verdict'[q] = verdict[q]
         /\ \A l \in Locks : lock[l] = q => lock'[l] = q
<1>1. CASE LoadStep(p)
  BY <1>1, AccountAssumption
     DEF TypeOK, LoadStep, LoadRead, LoadLock, Connects, NotConnected, Mark, Close, Acquire, Free,
         Take, LetGo, Ends, Forget, At, Set, mind, Locks
<1>2. CASE ChangeStep(p)
  BY <1>2, AccountAssumption
     DEF TypeOK, ChangeStep, ImportRead, ImportLock, ImportFiles, ImportRow, RemoveRead, RemoveLock,
         RemoveRow, RemoveFiles, Acquire, Free, Take, LetGo, Ends, Forget, At, Set, mind, Locks
<1>3. CASE SignStep(p)
  BY <1>3, AccountAssumption
     DEF TypeOK, SignStep, LoginRead, LoginLock, LoginTake, LoginRow, SignIn, SignInFails, Verify,
         SetUser, SetOk, Failed, Unlink, CopyBack, Restore,
         Acquire, Free, Take, LetGo, Ends, Forget, At, Set, mind, Locks
<1>4. CASE Crash(p)
  BY <1>4 DEF TypeOK, Crash, LetGo, Ends, Forget, Set, Locks
<1> QED
  BY <1>1, <1>2, <1>3, <1>4 DEF StepOf

-----------------------------------------------------------------------------
(* Types.                                                                   *)

\* What set_status and set_user_id write is a row, if there was one.
LEMMA RowTypes ==
  /\ \A r \in Row \cup {None}, s \in Statuses : WithStatus(r, s) \in Row \cup {None}
  /\ \A r \in Row \cup {None}, u \in Users : WithUser(r, u) \in Row \cup {None}
  /\ \A source \in Sources : FreshRow(source) \in Row
BY DEF Row, WithStatus, WithUser, FreshRow, Statuses

\* What a process remembers when it ends, and the locks it lets go, have their types.
LEMMA EndTypes ==
  ASSUME TypeOK, NEW p \in Processes, Ends(p)
  PROVE  /\ lock' \in [Locks -> Processes \cup {None}]
         /\ rec' \in [Processes -> Known \cup {None}]
         /\ job' \in [Processes -> Jobs \cup {None}]
         /\ prev' \in [Processes -> Row \cup {None}]
         /\ backup' \in [Processes -> Keys \cup {None}]
         /\ verdict' \in [Processes -> Statuses]
         /\ pc' = [pc EXCEPT ![p] = "idle"]
BY DEF TypeOK, Ends, Forget, LetGo, Set, Statuses

\* Taking locks, or being refused them, keeps the types.
LEMMA AcquireTypes ==
  ASSUME TypeOK, NEW p \in Processes, NEW ls, NEW from, NEW to, Acquire(p, ls, from, to)
  PROVE  /\ lock' \in [Locks -> Processes \cup {None}]
         /\ rec' \in [Processes -> Known \cup {None}]
         /\ job' \in [Processes -> Jobs \cup {None}]
         /\ prev' \in [Processes -> Row \cup {None}]
         /\ backup' \in [Processes -> Keys \cup {None}]
         /\ verdict' \in [Processes -> Statuses]
         /\ pc' \in {[pc EXCEPT ![p] = to], [pc EXCEPT ![p] = "idle"]}
<1>1. CASE Ends(p)
  BY <1>1, EndTypes
<1>2. CASE Free(ls) /\ Take(p, ls) /\ pc' = Set(pc, p, to) /\ UNCHANGED mind
  BY <1>2 DEF TypeOK, Take, Set, mind
<1> QED
  BY <1>1, <1>2 DEF Acquire

\* A load keeps the types.
LEMMA LoadTypes ==
  ASSUME TypeOK, NEW p \in Processes, LoadStep(p), OfAKind(p), changes' = changes
  PROVE  TypeOK'
<1>1. CASE LoadRead(p)
  BY <1>1 DEF TypeOK, LoadRead, Read, Row, Known, At, Set, disk
<1>2. CASE LoadLock(p)
  <2>1. UNCHANGED <<row, disk>> /\ Acquire(p, {LockOf(rec[p].source)}, "lock", "connect")
    BY <1>2 DEF LoadLock
  <2> QED
    BY <2>1, AcquireTypes DEF TypeOK, disk
<1>3. CASE Connects(p)
  BY <1>3 DEF TypeOK, Connects, Converts, Keys, Files, Statuses, At, Set
<1>4. CASE NotConnected(p)
  BY <1>4 DEF TypeOK, NotConnected, Statuses, LetGo, At, Set, disk
<1>5. CASE Mark(p) \/ Close(p)
  <2>1. row' \in Row \cup {None}
    <3>1. row \in Row \cup {None} /\ verdict[p] \in Statuses
      BY DEF TypeOK
    <3>2. WithStatus(row, verdict[p]) \in Row \cup {None}
      BY <3>1, RowTypes
    <3>3. row' = WithStatus(row, verdict[p]) \/ row' = row
      BY <1>5 DEF Mark, Close
    <3> QED
      BY <3>1, <3>2, <3>3
  <2>2. CASE Ends(p)
    BY <1>5, <2>1, <2>2, EndTypes DEF TypeOK, Mark, Close, disk
  <2>3. CASE pc' = Set(pc, p, "using") /\ UNCHANGED <<lock, mind, disk>>
    BY <2>1, <2>3 DEF TypeOK, Set, mind, disk
  <2> QED
    BY <1>5, <2>2, <2>3 DEF Mark, Close
<1> QED
  BY <1>1, <1>2, <1>3, <1>4, <1>5 DEF LoadStep

\* An import or a removal keeps the types.
LEMMA ChangeTypes ==
  ASSUME TypeOK, NEW p \in Processes, ChangeStep(p), OfAKind(p), changes' \in 0 .. MaxChanges
  PROVE  TypeOK'
<1>1. CASE \E j \in ImportJobs : ImportRead(p, j)
  BY <1>1 DEF TypeOK, ImportRead, ImportJobs, Jobs, Read, Row, Known, At, Set, disk
<1>2. CASE RemoveRead(p)
  BY <1>2 DEF TypeOK, RemoveRead, Read, Row, Known, At, Set, disk
<1>3. CASE ImportLock(p) \/ RemoveLock(p)
  <2>1. UNCHANGED <<row, disk>> /\ \/ Acquire(p, LocksOf(rec[p]), "import_lock", "import_files")
                                   \/ Acquire(p, LocksOf(rec[p]), "remove_lock", "remove_row")
    BY <1>3 DEF ImportLock, RemoveLock
  <2> QED
    BY <2>1, AcquireTypes DEF TypeOK, disk
<1>4. CASE ImportFiles(p)
  <2>1. job[p].user \in Users
    BY <1>4 DEF ImportFiles, At, OfAKind, Importing, Imports
  <2> QED
    BY <1>4, <2>1 DEF TypeOK, ImportFiles, Keys, At, mind
<1>5. CASE ImportRow(p)
  <2>1. Source(job[p]) \in Sources
    BY <1>5 DEF ImportRow, OfAKind, Importing, Imports, Source, Sources
  <2>2. row' \in Row \cup {None}
    BY <1>5, <2>1, RowTypes DEF TypeOK, ImportRow
  <2> QED
    BY <1>5, <2>2, EndTypes DEF TypeOK, ImportRow, disk
<1>6. CASE RemoveRow(p)
  BY <1>6 DEF TypeOK, RemoveRow, At, disk, mind
<1>7. CASE RemoveFiles(p)
  BY <1>7, EndTypes DEF TypeOK, RemoveFiles
<1> QED
  BY <1>1, <1>2, <1>3, <1>4, <1>5, <1>6, <1>7 DEF ChangeStep

\* A login keeps the types.
LEMMA SignTypes ==
  ASSUME TypeOK, NEW p \in Processes, SignStep(p), OfAKind(p), changes' \in 0 .. MaxChanges
  PROVE  TypeOK'
<1>1. CASE \E u \in Signers, qr, replace \in BOOLEAN : LoginRead(p, u, qr, replace)
  BY <1>1, AccountAssumption DEF TypeOK, LoginRead, Jobs, Logins, At, Set, disk
<1>2. CASE LoginLock(p)
  BY <1>2 DEF TypeOK, LoginLock, Read, Row, Known, At, Set, disk
<1>3. CASE LoginTake(p)
  <2>1. /\ UNCHANGED <<row, disk>>
        /\ Acquire(p, {"session"} \cup LocksOf(rec[p]), "login_take", "login_row")
    BY <1>3 DEF LoginTake
  <2> QED
    BY <2>1, AcquireTypes DEF TypeOK, disk
<1>4. CASE LoginRow(p)
  <2>1. CASE Ends(p) /\ UNCHANGED <<row, disk>>
    BY <2>1, EndTypes DEF TypeOK, disk
  <2>2. CASE ~ WrongPhone(p)
    <3>1. row' \in Row \cup {None}
      BY <1>4, <2>2, RowTypes DEF TypeOK, LoginRow, Sources
    <3> QED
      BY <1>4, <2>2, <3>1 DEF TypeOK, LoginRow, CopyOfSession, Statuses, Files, Set, disk
  <2> QED
    BY <1>4, <2>1, <2>2 DEF LoginRow
<1>5. CASE SignIn(p) \/ SignInFails(p)
  <2>1. job[p].user \in Users
    BY <1>5 DEF SignIn, SignInFails, At, OfAKind, LoggingIn, Signing, Logins
  <2> QED
    BY <1>5, <2>1 DEF TypeOK, SignIn, SignInFails, Keys, Files, Statuses, At, Set, mind
<1>6. CASE Verify(p)
  <2>1. job[p] \in Logins
    BY <1>6 DEF Verify, OfAKind, LoggingIn, Signing
  <2>2. job' \in [Processes -> Jobs \cup {None}]
    <3>1. \A u \in Users : [job[p] EXCEPT !.user = u] \in Jobs
      BY <2>1 DEF Logins, Jobs
    <3>2. job' = job \/ (file["session"] \in Users
                         /\ job' = [job EXCEPT ![p] = [job[p] EXCEPT !.user = file["session"]]])
      BY <1>6 DEF Verify, TypeOK
    <3> QED
      BY <3>1, <3>2 DEF TypeOK
  <2>3. row' \in Row \cup {None}
    BY <1>6, RowTypes DEF TypeOK, Verify, Statuses
  <2>4. file' \in [Files -> Keys \cup {None}]
    BY <1>6 DEF TypeOK, Verify, Keys, Files
  <2> QED
    BY <1>6, <2>2, <2>3, <2>4 DEF TypeOK, Verify, Set
<1>7. CASE SetUser(p)
  <2>1. job[p].user \in Users
    BY <1>7 DEF SetUser, At, OfAKind, LoggingIn, Signing, Logins
  <2>2. row' \in Row \cup {None}
    BY <1>7, <2>1, RowTypes DEF TypeOK, SetUser, WhoSignedIn
  <2> QED
    BY <1>7, <2>2 DEF TypeOK, SetUser, At, disk, mind
<1>8. CASE SetOk(p) \/ Failed(p) \/ Restore(p)
  <2>1. row' \in Row \cup {None}
    BY <1>8, RowTypes DEF TypeOK, SetOk, Failed, Restore, Statuses
  <2>2. CASE Ends(p)
    BY <1>8, <2>1, <2>2, EndTypes DEF TypeOK, SetOk, Failed, Restore, disk
  <2>3. CASE pc' = Set(pc, p, "unlink") /\ UNCHANGED <<lock, mind, disk>>
    BY <2>1, <2>3 DEF TypeOK, Set, disk, mind
  <2> QED
    BY <1>8, <2>2, <2>3 DEF SetOk, Failed, Restore
<1>9. CASE Unlink(p) \/ CopyBack(p)
  BY <1>9 DEF TypeOK, Unlink, CopyBack, Files, At, mind
<1> QED
  BY <1>1, <1>2, <1>3, <1>4, <1>5, <1>6, <1>7, <1>8, <1>9 DEF SignStep

\* A kill keeps the types.
LEMMA CrashTypes ==
  ASSUME TypeOK, NEW p \in Processes, Crash(p), changes' = changes
  PROVE  TypeOK'
BY EndTypes DEF TypeOK, Crash

\* A switch, and Telegram's revocations, keep the types.
LEMMA OutsideTypes ==
  ASSUME TypeOK, changes' = changes,
         (\E status \in {"new", "disabled"} : Switch(status)) \/ (\E u \in Users : Revoke(u))
  PROVE  TypeOK'
<1>1. CASE \E status \in {"new", "disabled"} : Switch(status)
  BY <1>1, RowTypes DEF TypeOK, Switch, Statuses, disk, mind
<1>2. CASE \E u \in Users : Revoke(u)
  BY <1>2 DEF TypeOK, Revoke, Keys
<1> QED
  BY <1>1, <1>2

\* Every step keeps the types.
LEMMA TypeStep ==
  ASSUME Inv, Next
  PROVE  TypeOK'
<1>1. changes' \in 0 .. MaxChanges
  <2>1. changes' = changes \/ Begin
    BY DEF Next, ImportRead, RemoveRead, LoginRead
  <2> QED
    BY <2>1, AccountAssumption DEF Inv, TypeOK, Begin
<1>2. ASSUME Quiet, changes' = changes
      PROVE  TypeOK'
  <2>1. CASE \E p \in Loaders : Load(p)
    BY <1>2, <2>1, LoadTypes DEF Inv, Load, LoadStep, Processes
  <2>2. CASE \E p \in Changers : ImportStep(p) \/ RemoveStep(p)
    BY <1>1, <2>2, ChangeTypes DEF Inv, ImportStep, RemoveStep, ChangeStep, Processes
  <2>3. CASE \E p \in Changers : LoginStep(p)
    BY <1>1, <2>3, SignTypes DEF Inv, LoginStep, SignStep, Processes
  <2>4. CASE \E p \in Processes : Crash(p)
    BY <1>2, <2>4, CrashTypes DEF Inv
  <2>5. CASE (\E status \in {"new", "disabled"} : Switch(status)) \/ (\E u \in Users : Revoke(u))
    BY <1>2, <2>5, OutsideTypes DEF Inv
  <2> QED
    BY <1>2, <2>1, <2>2, <2>3, <2>4, <2>5 DEF Quiet
<1>3. ASSUME NEW p \in Changers,
             \/ \E j \in ImportJobs : ImportRead(p, j)
             \/ RemoveRead(p)
      PROVE  TypeOK'
  BY <1>1, <1>3, ChangeTypes DEF Inv, ChangeStep, Processes
<1>4. ASSUME NEW p \in Changers,
             \E u \in Signers, qr, replace \in BOOLEAN : LoginRead(p, u, qr, replace)
      PROVE  TypeOK'
  BY <1>1, <1>4, SignTypes DEF Inv, SignStep, Processes
<1> QED
  BY <1>2, <1>3, <1>4 DEF Next

-----------------------------------------------------------------------------
(* Kinds and locks.                                                         *)

\* A process that ended is idle and has no lock.
LEMMA Ended ==
  ASSUME TypeOK, NEW p \in Processes, Ends(p)
  PROVE  pc'[p] = "idle" /\ OfAKind(p)' /\ Locked(p)'
BY DEF TypeOK, Ends, Forget, Set, OfAKind, Locked, Loading, Importing, Changing, Signing,
       LoggingIn, Holding

\* A step of a process, as it bears on what it is and holds.
LEMMA OwnLoad ==
  ASSUME Inv, NEW p \in Processes, p \in Loaders, LoadStep(p)
  PROVE  OfAKind(p)' /\ Locked(p)'
<1>1. CASE Ends(p)
  BY <1>1, Ended DEF Inv
<1>2. p \notin Changers
  BY AccountAssumption
<1>3. CASE LoadRead(p)
  <2>1. row \in Row /\ row.status # "disabled"
    BY <1>3 DEF Inv, TypeOK, LoadRead, MayConnect
  <2>2. Read \in Known /\ ~ Read.off
    BY <2>1, AccountAssumption DEF Read, Row, Known
  <2>3. /\ pc'[p] = "lock" /\ rec'[p] \in Known /\ ~ rec'[p].off
        /\ prev'[p] = None /\ backup'[p] = None
    BY <1>3, <2>2 DEF Inv, TypeOK, OfAKind, Holding, Signing, LoadRead, At, Set
  <2> QED
    BY <1>2, <2>3, AccountAssumption
       DEF OfAKind, Locked, Loading, Importing, Changing, Signing, LoggingIn, Holding
<1>4. CASE LoadLock(p) /\ ~ Ends(p)
  BY <1>2, <1>4
     DEF Inv, TypeOK, OfAKind, Locked, Loading, Importing, Changing, Signing, LoggingIn, Holding, LoadLock,
         Acquire, Take, Set, mind, LockOf, Locks
<1>5. CASE Connects(p) \/ NotConnected(p)
  BY <1>2, <1>5
     DEF Inv, TypeOK, OfAKind, Locked, Loading, Importing, Changing, Signing, LoggingIn, Holding, Connects,
         NotConnected, LetGo, At, Set
<1>6. CASE Mark(p) /\ ~ Ends(p)
  BY <1>2, <1>6
     DEF Inv, TypeOK, OfAKind, Locked, Loading, Importing, Changing, Signing, LoggingIn, Holding, Mark,
         Set, mind
<1>7. CASE Close(p)
  BY <1>1, <1>7 DEF Close
<1> QED
  BY <1>1, <1>3, <1>4, <1>5, <1>6, <1>7 DEF LoadStep

LEMMA OwnChange ==
  ASSUME Inv, NEW p \in Processes, p \in Changers, ChangeStep(p)
  PROVE  OfAKind(p)' /\ Locked(p)'
<1>1. CASE Ends(p)
  BY <1>1, Ended DEF Inv
<1>2. p \notin Loaders
  BY AccountAssumption
<1>3. CASE (\E j \in ImportJobs : ImportRead(p, j)) \/ RemoveRead(p)
  BY <1>2, <1>3
     DEF Inv, TypeOK, OfAKind, Locked, Loading, Importing, Changing, Signing, LoggingIn, Holding, ImportRead,
         RemoveRead, ImportJobs, At, Set
<1>4. CASE (ImportLock(p) \/ RemoveLock(p)) /\ ~ Ends(p)
  BY <1>2, <1>4
     DEF Inv, TypeOK, OfAKind, Locked, Loading, Importing, Changing, Signing, LoggingIn, Holding, ImportLock,
         RemoveLock, Acquire, Take, Set, mind, LocksOf, LockOf, Locks
<1>5. CASE ImportFiles(p) \/ RemoveRow(p)
  BY <1>2, <1>5
     DEF Inv, TypeOK, OfAKind, Locked, Loading, Importing, Changing, Signing, LoggingIn, Holding, ImportFiles,
         RemoveRow, LocksOf, At, mind
<1>6. CASE ImportRow(p) \/ RemoveFiles(p)
  BY <1>1, <1>6 DEF ImportRow, RemoveFiles
<1> QED
  BY <1>1, <1>3, <1>4, <1>5, <1>6 DEF ChangeStep

LEMMA OwnSign ==
  ASSUME Inv, NEW p \in Processes, p \in Changers, SignStep(p)
  PROVE  OfAKind(p)' /\ Locked(p)'
<1>1. CASE Ends(p)
  BY <1>1, Ended DEF Inv
<1>2. p \notin Loaders
  BY AccountAssumption
<1>3. CASE \E u \in Signers, qr, replace \in BOOLEAN : LoginRead(p, u, qr, replace)
  BY <1>2, <1>3, AccountAssumption
     DEF Inv, TypeOK, OfAKind, Locked, Loading, Importing, Changing, Signing, LoggingIn, Holding, LoginRead,
         Logins, At, Set
<1>4. CASE LoginLock(p) \/ (LoginTake(p) /\ ~ Ends(p))
  BY <1>2, <1>4
     DEF Inv, TypeOK, OfAKind, Locked, Loading, Importing, Changing, Signing, LoggingIn, Holding, LoginLock,
         LoginTake, Acquire, Take, At, Set, mind, Locks
<1>5. CASE (LoginRow(p) \/ Failed(p)) /\ ~ Ends(p)
  BY <1>2, <1>5
     DEF Inv, TypeOK, OfAKind, Locked, Loading, Importing, Changing, Signing, LoggingIn, Holding, LoginRow,
         Failed, Set, mind
<1>6. CASE SignIn(p) \/ SignInFails(p) \/ SetUser(p) \/ Unlink(p) \/ CopyBack(p)
  BY <1>2, <1>6
     DEF Inv, TypeOK, OfAKind, Locked, Loading, Importing, Changing, Signing, LoggingIn, Holding, SignIn,
         SignInFails, SetUser, Unlink, CopyBack, At, Set, mind
<1>7. CASE Verify(p)
  <2>1. job'[p] \in Logins
    <3>1. job[p] \in Logins
      BY <1>7 DEF Inv, OfAKind, Verify, LoggingIn, Signing
    <3>2. \/ job' = job
          \/ file["session"] \in Users /\ job'[p] = [job[p] EXCEPT !.user = file["session"]]
      BY <1>7 DEF Verify, Inv, TypeOK
    <3> QED
      BY <3>1, <3>2 DEF Logins
  <2> QED
    BY <1>2, <1>7, <2>1
       DEF Inv, TypeOK, OfAKind, Locked, Loading, Importing, Changing, Signing, LoggingIn, Holding, Verify, Set
<1>8. CASE SetOk(p) \/ Restore(p)
  BY <1>1, <1>8 DEF SetOk, Restore
<1> QED
  BY <1>1, <1>3, <1>4, <1>5, <1>6, <1>7, <1>8 DEF SignStep

\* The invariant holds at the start and is kept by every step.
LEMMA InitInv == Init => Inv
BY AccountAssumption
   DEF Init, Inv, TypeOK, OfAKind, Locked, Loading, Importing, Changing, Signing, LoggingIn, Holding, Files,
       Statuses

LEMMA InvStep ==
  ASSUME Inv, [Next]_vars
  PROVE  Inv'
<1>1. CASE Next
  <2>1. TypeOK'
    BY <1>1, TypeStep
  <2>2. ASSUME NEW p \in Processes, StepOf(p), NEW q \in Processes
        PROVE  OfAKind(q)' /\ Locked(q)'
    <3>1. CASE q = p
      BY <2>2, <3>1, OwnLoad, OwnChange, OwnSign, Ended DEF Inv, StepOf, Crash
    <3>2. CASE q # p
      <4>1. /\ pc'[q] = pc[q] /\ rec'[q] = rec[q] /\ job'[q] = job[q] /\ verdict'[q] = verdict[q]
            /\ prev'[q] = prev[q] /\ backup'[q] = backup[q]
            /\ \A l \in Locks : lock[l] = q => lock'[l] = q
        BY <2>2, <3>2, Alone DEF Inv
      <4>2. OfAKind(q)'
        BY <4>1 DEF Inv, OfAKind
      <4>3. Locked(q)'
        BY <4>1 DEF Inv, Locked, Locks, LockOf, LocksOf
      <4> QED
        BY <4>2, <4>3
    <3> QED
      BY <3>1, <3>2
  <2>3. ASSUME \/ \E status \in {"new", "disabled"} : Switch(status)
               \/ \E u \in Users : Revoke(u),
               NEW q \in Processes
        PROVE  OfAKind(q)' /\ Locked(q)'
    <3>1. CASE \E status \in {"new", "disabled"} : Switch(status)
      BY <3>1 DEF Inv, OfAKind, Locked, LocksOf, Switch, mind
    <3>2. CASE \E u \in Users : Revoke(u)
      BY <3>2, AccountAssumption DEF Inv, OfAKind, Locked, LocksOf, Revoke
    <3> QED
      BY <2>3, <3>1, <3>2
  <2> QED
    BY <1>1, <2>1, <2>2, <2>3, NextSteps DEF Inv
<1>2. CASE UNCHANGED vars
  BY <1>2 DEF Inv, TypeOK, OfAKind, Locked, LocksOf, vars, disk, mind
<1> QED
  BY <1>1, <1>2

LEMMA Invariant == Spec => []Inv
BY InitInv, InvStep, PTL DEF Spec

\* Everything keeps its type.
THEOREM TypeCorrect == Spec => []TypeOK
BY Invariant, PTL DEF Inv

-----------------------------------------------------------------------------
(* What the locks are for.                                                  *)

\* Whoever is a client holds the lock on the file its key is in.
LEMMA ClientLocked ==
  ASSUME Inv, NEW p \in Processes, Client(p)
  PROVE  KeyFile(p) \in Locks /\ lock[KeyFile(p)] = p
<1>1. CASE p \in Loaders
  <2>1. lock[LockOf(rec[p].source)] = p
    BY <1>1 DEF Inv, Client, OfAKind, Locked, Loading
  <2> QED
    BY <1>1, <2>1 DEF KeyFile, FileOf, LockOf, Locks
<1>2. CASE p \in Changers
  <2>1. lock["session"] = p
    BY <1>2 DEF Inv, Client, OfAKind, Locked, Loading, Signing
  <2> QED
    BY <1>2, <2>1, AccountAssumption DEF KeyFile, Locks
<1> QED
  BY <1>1, <1>2 DEF Processes

\* One auth key is never presented by two clients at once, however many processes load,
\* import, remove and sign in the account (loader.build_client, login._authorise).
THEOREM OneClientPerKeyHolds == Spec => []OneClientPerKey
<1>1. Inv => OneClientPerKey
  BY ClientLocked DEF OneClientPerKey
<1> QED
  BY <1>1, Invariant, PTL

\* A key file is written only by a process that has the lock on it, by Telegram, or by an
\* import or a removal that read another row and locked another key.
LEMMA WhoWrites ==
  ASSUME Inv, Next, NEW f \in Files, file'[f] # file[f]
  PROVE  \/ file'[f] = "dead"
         \/ \E q \in Processes : f \in Locks /\ lock[f] = q /\ (q \in Loaders => ~ Client(q))
         \/ \E q \in Changers : /\ pc[q] \in {"import_files", "remove_files"}
                                /\ rec[q] = None \/ LockOf(rec[q].source) # f
<1>1. ASSUME NEW q \in Processes, q \in Loaders, LoadStep(q)
      PROVE  f \in Locks /\ lock[f] = q /\ ~ Client(q)
  <2>1. Connects(q) /\ Converts(q) /\ f = "session"
    BY <1>1 DEF Inv, TypeOK, LoadStep, LoadRead, LoadLock, Connects, NotConnected, Mark, Close, disk
  <2>2. lock["session"] = q
    BY <2>1 DEF Inv, Locked, Connects, Converts, At, LockOf
  <2> QED
    BY <2>1, <2>2 DEF Client, Connects, At, Locks
<1>2. ASSUME NEW q \in Processes, q \in Changers, ChangeStep(q)
      PROVE  \/ f \in Locks /\ lock[f] = q /\ ~ Client(q)
             \/ /\ pc[q] \in {"import_files", "remove_files"}
                /\ rec[q] = None \/ LockOf(rec[q].source) # f
  <2>1. pc[q] \in {"import_files", "remove_files"}
    BY <1>2 DEF Inv, TypeOK, ChangeStep, ImportRead, ImportLock, ImportFiles, ImportRow, RemoveRead,
                RemoveLock, RemoveRow, RemoveFiles, At, disk
  <2>2. CASE rec[q] # None /\ LockOf(rec[q].source) = f
    BY <2>1, <2>2 DEF Inv, Locked, Changing, LocksOf, LockOf, Locks, Client
  <2> QED
    BY <2>1, <2>2
<1>3. ASSUME NEW q \in Processes, q \in Changers, SignStep(q)
      PROVE  f = "session" /\ lock[f] = q
  <2>1. f = "session" /\ pc[q] \in Signing
    BY <1>3 DEF Inv, TypeOK, SignStep, LoginRead, LoginLock, LoginTake, LoginRow, SignIn,
                SignInFails, Verify, SetUser, SetOk, Failed, Unlink, CopyBack, Restore, Signing,
                At, disk
  <2> QED
    BY <2>1 DEF Inv, Locked
<1>4. ASSUME NEW q \in Processes, Crash(q)
      PROVE  FALSE
  BY <1>4 DEF Crash
<1>5. ASSUME \E status \in {"new", "disabled"} : Switch(status)
      PROVE  FALSE
  BY <1>5 DEF Switch, disk
<1>6. ASSUME NEW u \in Users, Revoke(u)
      PROVE  file'[f] = "dead"
  BY <1>6 DEF Revoke, Inv, TypeOK
<1>7. ASSUME NEW q \in Processes, StepOf(q)
      PROVE  \/ f \in Locks /\ lock[f] = q /\ (q \in Loaders => ~ Client(q))
             \/ /\ q \in Changers /\ pc[q] \in {"import_files", "remove_files"}
                /\ rec[q] = None \/ LockOf(rec[q].source) # f
  <2>1. CASE q \in Loaders /\ LoadStep(q)
    BY <1>1, <2>1
  <2>2. CASE q \in Changers /\ ChangeStep(q)
    BY <1>2, <2>2
  <2>3. CASE q \in Changers /\ SignStep(q)
    BY <1>3, <2>3, AccountAssumption DEF Locks
  <2>4. CASE Crash(q)
    BY <1>4, <2>4
  <2> QED
    BY <1>7, <2>1, <2>2, <2>3, <2>4 DEF StepOf
<1> QED
  BY <1>5, <1>6, <1>7, NextSteps

\* A key file changes under the client that uses it only by Telegram's revocation, or by an
\* import or a removal that read another row and locked another key (registry._offline).
THEOREM UnderAClientHolds == Spec => UnderAClient
<1>1. ASSUME Inv, Next, NEW p \in Loaders, Client(p), file'[KeyFile(p)] # file[KeyFile(p)]
      PROVE  \/ file'[KeyFile(p)] = "dead"
             \/ \E q \in Changers : /\ pc[q] \in {"import_files", "remove_files"}
                                    /\ rec[q] = None \/ LockOf(rec[q].source) # KeyFile(p)
  <2>1. KeyFile(p) \in Locks /\ KeyFile(p) \in Files /\ lock[KeyFile(p)] = p
    BY <1>1, ClientLocked DEF Processes, Locks, Files
  <2>2. p \notin Changers
    BY AccountAssumption
  <2> QED
    BY <1>1, <2>1, <2>2, WhoWrites
<1>2. Inv /\ UNCHANGED vars => UNCHANGED file
  BY DEF vars, disk
<1>3. Inv /\ [Next]_vars =>
        \A p \in Loaders :
          LET f == KeyFile(p)
          IN Client(p) /\ file'[f] # file[f] =>
               \/ file'[f] = "dead"
               \/ \E q \in Changers : /\ pc[q] \in {"import_files", "remove_files"}
                                      /\ rec[q] = None \/ LockOf(rec[q].source) # f
  BY <1>1, <1>2
<1> QED
  BY <1>3, Invariant, PTL DEF Spec, UnderAClient

\* An account that was disabled is brought back only by enable, by a new registration, or
\* by a process that found it on and writes what it learnt since; a login that found it off
\* leaves it off when it fails (registry.load_account, login._preserve_existing_login).
THEOREM DisabledStaysHolds == Spec => DisabledStays
<1> DEFINE Excused ==
      \/ Switch("new")
      \/ \E p \in Loaders : Mark(p) /\ ~ rec[p].off
      \/ \E p \in Changers :
           \/ ImportRow(p)
           \/ SetOk(p)
           \/ Crash(p) /\ Off(prev[p])
           \/ (Verify(p) \/ Failed(p) \/ Restore(p)) /\ ~ Off(prev[p])
<1>1. ASSUME Inv, Next, IsOff, row' # None, ~ IsOff'
      PROVE  Excused
  <2>1. ~ Off(row') /\ \A q \in Changers : ~ Off(prev'[q])
    BY <1>1 DEF IsOff
  <2>2. ~ Off(None)
    BY DEF Off
  <2>3. ASSUME NEW p \in Processes, p \in Loaders, LoadStep(p)
        PROVE  Excused
    <3>1. \A q \in Changers : prev'[q] = prev[q]
      BY <1>1, <2>3, Alone, AccountAssumption DEF Inv, StepOf, Processes
    <3>2. Off(row)
      BY <1>1, <2>1, <3>1 DEF IsOff
    <3>3. CASE Mark(p)
      BY <1>1, <2>3, <3>3 DEF Inv, OfAKind, Loading, Mark
    <3> QED
      BY <2>1, <2>3, <3>2, <3>3 DEF LoadStep, LoadRead, LoadLock, Connects, NotConnected, Close
  <2>4. ASSUME NEW p \in Changers, StepOf(p), NEW q \in Changers, q # p
        PROVE  ~ Off(prev[q])
    BY <1>1, <2>1, <2>4, Alone DEF Inv, Processes
  <2>5. ASSUME NEW p \in Changers, StepOf(p)
        PROVE  Off(row) \/ Off(prev[p])
    BY <1>1, <2>4, <2>5 DEF IsOff
  <2>6. ASSUME NEW p \in Processes, p \in Changers, ChangeStep(p)
        PROVE  Excused
    <3>1. pc[p] \notin Holding
      BY <2>6 DEF ChangeStep, ImportRead, ImportLock, ImportFiles, ImportRow, RemoveRead, RemoveLock,
                  RemoveRow, RemoveFiles, Acquire, At, Holding, Signing
    <3>2. Off(row)
      BY <1>1, <2>2, <2>5, <2>6, <3>1 DEF Inv, OfAKind, StepOf
    <3>3. CASE ImportRow(p)
      BY <2>6, <3>3
    <3> QED
      BY <1>1, <2>1, <2>6, <3>2, <3>3
         DEF ChangeStep, ImportRead, ImportLock, ImportFiles, RemoveRead, RemoveLock, RemoveRow,
             RemoveFiles
  <2>7. ASSUME NEW p \in Processes, p \in Changers, SignStep(p)
        PROVE  Excused
    <3>1. Off(row) \/ Off(prev[p])
      BY <2>5, <2>7 DEF StepOf
    <3>2. CASE SetOk(p)
      BY <2>7, <3>2
    <3>3. CASE Verify(p) \/ Failed(p)
      <4>1. prev'[p] = prev[p] \/ prev[p] = None
        BY <3>3 DEF Verify, Failed, mind
      <4> QED
        BY <2>1, <2>2, <2>7, <3>3, <4>1
    <3>4. CASE Restore(p)
      BY <2>1, <2>7, <3>4 DEF Restore
    <3>5. CASE SetUser(p)
      <4>1. prev' = prev /\ row' = WithUser(row, WhoSignedIn(p))
        BY <3>5 DEF SetUser, mind
      <4>2. Off(row) => Off(row')
        BY <1>1, <4>1 DEF Inv, TypeOK, Row, WithUser, Off
      <4> QED
        BY <2>1, <2>7, <3>1, <4>1, <4>2
    <3>6. CASE LoginRow(p)
      <4>1. prev[p] = None
        BY <1>1, <3>6 DEF Inv, OfAKind, LoginRow, Holding, Signing
      <4>2. row' = row \/ prev'[p] = row
        BY <1>1, <2>7, <3>6 DEF Inv, TypeOK, LoginRow, Set
      <4> QED
        BY <2>1, <2>2, <2>7, <3>1, <4>1, <4>2
    <3>7. CASE \/ \E u \in Signers, qr, replace \in BOOLEAN : LoginRead(p, u, qr, replace)
               \/ LoginLock(p) \/ LoginTake(p)
      <4>1. row' = row /\ pc[p] \notin Holding
        BY <3>7 DEF LoginRead, LoginLock, LoginTake, Acquire, At, Holding, Signing
      <4>2. prev[p] = None
        BY <1>1, <2>7, <4>1 DEF Inv, OfAKind
      <4> QED
        BY <2>1, <2>2, <3>1, <4>1, <4>2
    <3>8. CASE SignIn(p) \/ SignInFails(p) \/ Unlink(p) \/ CopyBack(p)
      <4>1. row' = row /\ prev' = prev
        BY <3>8 DEF SignIn, SignInFails, Unlink, CopyBack, mind
      <4> QED
        BY <2>1, <2>7, <3>1, <4>1
    <3> QED
      BY <2>7, <3>2, <3>3, <3>4, <3>5, <3>6, <3>7, <3>8 DEF SignStep
  <2>8. ASSUME NEW p \in Processes, Crash(p)
        PROVE  Excused
    <3>1. row' = row
      BY <2>8 DEF Crash
    <3>2. ~ Off(row)
      BY <2>1, <3>1
    <3>3. PICK q \in Changers : Off(prev[q])
      BY <1>1, <3>2 DEF IsOff
    <3>4. q = p
      <4>1. q \in Processes /\ StepOf(p)
        BY <2>8 DEF Processes, StepOf
      <4>2. q # p => prev'[q] = prev[q]
        BY <1>1, <4>1, Alone DEF Inv
      <4> QED
        BY <2>1, <3>3, <4>2
    <3> QED
      BY <2>8, <3>3, <3>4
  <2>9. ASSUME NEW status \in {"new", "disabled"}, Switch(status)
        PROVE  Excused
    <3>1. prev' = prev
      BY <2>9 DEF Switch, mind
    <3>2. Off(row)
      BY <1>1, <2>1, <3>1 DEF IsOff
    <3>3. status # "disabled"
      BY <1>1, <2>1, <2>9, <3>2 DEF Inv, TypeOK, Row, Switch, WithStatus, Off
    <3> QED
      BY <2>9, <3>3
  <2>10. ASSUME NEW u \in Users, Revoke(u)
         PROVE  FALSE
    BY <1>1, <2>10 DEF Revoke, IsOff
  <2>11. ASSUME NEW p \in Processes, StepOf(p)
         PROVE  Excused
    BY <2>3, <2>6, <2>7, <2>8, <2>11 DEF StepOf
  <2> QED
    BY <1>1, <2>9, <2>10, <2>11, NextSteps
<1>2. UNCHANGED vars => UNCHANGED <<row, prev>>
  BY DEF vars, mind
<1>3. Inv /\ [Next]_vars => (IsOff /\ row' # None /\ ~ IsOff' => Excused)
  BY <1>1, <1>2 DEF IsOff
<1> QED
  BY <1>3, Invariant, PTL DEF Spec, DisabledStays

-----------------------------------------------------------------------------
(* One process that changes the account.                                    *)

\* A step that is none of p's, and not Telegram's: loads, the switches and kills.
Beside(p) ==
  \/ \E q \in Processes : q # p /\ ((q \in Loaders /\ LoadStep(q)) \/ Crash(q))
  \/ \E status \in {"new", "disabled"} : Switch(status)

\* What the one process that changes the account may rely on meanwhile: nobody changes the
\* session file it has locked, nor, but for its status, the row.
LEMMA WhatChanges ==
  ASSUME Inv, NEW p \in Changers, Beside(p)
  PROVE  /\ pc'[p] = pc[p] /\ job'[p] = job[p] /\ prev'[p] = prev[p] /\ backup'[p] = backup[p]
         /\ verdict'[p] = verdict[p]
         /\ row' = row \/ \E s \in Statuses : row' = WithStatus(row, s)
         /\ pc[p] \in Signing => file'["session"] = file["session"]
         /\ file'["session"] # file["session"] => file["session"] = None
         /\ left \subseteq left'
<1>1. ASSUME NEW q \in Processes, q # p, q \in Loaders, LoadStep(q)
      PROVE  /\ row' = row \/ \E s \in Statuses : row' = WithStatus(row, s)
             /\ pc[p] \in Signing => file'["session"] = file["session"]
             /\ file'["session"] # file["session"] => file["session"] = None
             /\ left' = left
  <2>1. \/ file' = file
        \/ pc[q] = "connect" /\ Converts(q)
    BY <1>1 DEF LoadStep, LoadRead, LoadLock, Connects, NotConnected, Mark, Close, At, disk
  <2>2. pc[q] = "connect" /\ Converts(q) => lock["session"] = q /\ file["session"] = None
    BY <1>1 DEF Inv, Locked, Converts, LockOf
  <2>3. pc[p] \in Signing => lock["session"] = p
    BY DEF Inv, Locked, Processes
  <2>4. row' = row \/ \E s \in Statuses : row' = WithStatus(row, s)
    BY <1>1 DEF Inv, TypeOK, LoadStep, LoadRead, LoadLock, Connects, NotConnected, Mark, Close
  <2>5. left' = left
    BY <1>1 DEF LoadStep, LoadRead, LoadLock, Connects, NotConnected, Mark, Close, disk
  <2> QED
    BY <1>1, <2>1, <2>2, <2>3, <2>4, <2>5
<1>2. ASSUME NEW q \in Processes, q # p, Crash(q)
      PROVE  row' = row /\ file' = file /\ left \subseteq left'
  BY <1>2 DEF Crash
<1>3. ASSUME NEW status \in {"new", "disabled"}, Switch(status)
      PROVE  /\ row' = WithStatus(row, status) /\ status \in Statuses
             /\ file' = file /\ left' = left /\ UNCHANGED mind /\ pc' = pc
  BY <1>3 DEF Switch, disk, Statuses
<1>4. ASSUME NEW q \in Processes, q # p, (q \in Loaders /\ LoadStep(q)) \/ Crash(q)
      PROVE  /\ pc'[p] = pc[p] /\ job'[p] = job[p] /\ prev'[p] = prev[p] /\ backup'[p] = backup[p]
             /\ verdict'[p] = verdict[p]
  BY <1>4, Alone DEF Inv, Processes, StepOf
<1>5. CASE \E q \in Processes : q # p /\ ((q \in Loaders /\ LoadStep(q)) \/ Crash(q))
  BY <1>1, <1>2, <1>4, <1>5
<1>6. CASE \E status \in {"new", "disabled"} : Switch(status)
  BY <1>3, <1>6 DEF mind
<1> QED
  BY <1>5, <1>6 DEF Beside

\* With one process that changes the account, every step is its own, one beside it or a
\* revocation.
LEMMA OneChangerSteps ==
  ASSUME OneChanger, NEW p \in Changers, Next
  PROVE  \/ ChangeStep(p) \/ SignStep(p) \/ Crash(p)
         \/ Beside(p)
         \/ \E u \in Users : Revoke(u)
<1>1. ASSUME NEW q \in Processes, StepOf(q)
      PROVE  ChangeStep(p) \/ SignStep(p) \/ Crash(p) \/ Beside(p)
  <2>1. CASE q = p
    BY <1>1, <2>1, AccountAssumption DEF StepOf
  <2>2. CASE q # p
    BY <1>1, <2>2 DEF StepOf, OneChanger, Beside
  <2> QED
    BY <2>1, <2>2
<1> QED
  BY <1>1, NextSteps DEF Beside

\* A revocation makes the same of a key wherever it is.
LEMMA Revoked ==
  ASSUME TypeOK, NEW u \in Users, Revoke(u)
  PROVE  /\ UNCHANGED <<row, pc, job, prev, verdict>>
         /\ left = {} <=> left' = {}
         /\ file'["session"] = IF file["session"] = u THEN "dead" ELSE file["session"]
         /\ \A p \in Processes : backup'[p] = IF backup[p] = u THEN "dead" ELSE backup[p]
<1>1. left = {} <=> left' = {}
  BY DEF Revoke
<1> QED
  BY <1>1 DEF TypeOK, Revoke, Files

-----------------------------------------------------------------------------
(* No login loses a session.                                                *)

\* What a login keeps, it keeps.
LEMMA KeptStep ==
  ASSUME OneChanger, KeptInv, Next, NEW p \in Changers
  PROVE  Kept(p)'
<1>1. p \in Processes /\ TypeOK /\ Inv /\ Kept(p)
  BY DEF Processes, KeptInv, Inv
<1>2. pc'[p] \notin Holding => prev'[p] = None /\ backup'[p] = None /\ None \notin Users
  BY <1>1, InvStep, AccountAssumption DEF Inv, OfAKind
<1>3. CASE Ends(p)
  <2>1. pc'[p] = "idle"
    BY <1>1, <1>3, Ended
  <2> QED
    BY <1>2, <2>1 DEF Kept, Holding, Signing
<1>4. CASE ChangeStep(p) /\ ~ Ends(p)
  <2>1. pc'[p] \in {"import_lock", "import_files", "import_row", "remove_lock", "remove_row",
                    "remove_files"}
    BY <1>1, <1>4 DEF TypeOK, ChangeStep, ImportRead, ImportLock, ImportFiles, ImportRow,
                      RemoveRead, RemoveLock, RemoveRow, RemoveFiles, Acquire, At, Set
  <2> QED
    BY <1>2, <2>1 DEF Kept, Holding, Signing
<1>5. CASE SignStep(p) /\ ~ Ends(p)
  <2>1. CASE \/ \E u \in Signers, qr, replace \in BOOLEAN : LoginRead(p, u, qr, replace)
             \/ LoginLock(p) \/ LoginTake(p)
    <3>1. pc'[p] \in {"login_lock", "login_take", "login_row"}
      BY <1>1, <1>5, <2>1 DEF TypeOK, LoginRead, LoginLock, LoginTake, Acquire, At, Set
    <3> QED
      BY <1>2, <3>1 DEF Kept, Holding, Signing
  <2>2. CASE LoginRow(p)
    BY <1>1, <1>5, <2>2, AccountAssumption DEF TypeOK, Kept, LoginRow, CopyOfSession, Set, disk
  <2>3. CASE SignIn(p)
    BY <1>1, <2>3 DEF TypeOK, Kept, SignIn, Authorised, At, Set
  <2>4. CASE SignInFails(p)
    BY <1>1, <2>4, AccountAssumption DEF TypeOK, Kept, SignInFails, Files, At, mind
  <2>5. CASE Verify(p)
    BY <1>1, <2>5, AccountAssumption DEF TypeOK, Kept, Verify, Files, Set
  <2>6. CASE Failed(p)
    BY <1>1, <1>5, <2>6 DEF TypeOK, Kept, Failed, Set, disk, mind
  <2>7. CASE SetUser(p)
    BY <1>1, <2>7 DEF TypeOK, Kept, SetUser, At, disk, mind
  <2>8. CASE Unlink(p) \/ CopyBack(p)
    BY <1>1, <2>8 DEF TypeOK, Kept, Unlink, CopyBack, Files, At, mind
  <2> QED
    BY <1>5, <2>1, <2>2, <2>3, <2>4, <2>5, <2>6, <2>7, <2>8 DEF SignStep, SetOk, Restore
<1>6. CASE Crash(p)
  BY <1>3, <1>6 DEF Crash
<1>7. CASE Beside(p)
  <2>1. backup[p] \in Users => pc[p] \in Signing
    BY <1>1, AccountAssumption DEF Inv, OfAKind, Holding
  <2> QED
    BY <1>1, <1>7, <2>1, WhatChanges DEF Kept, Signing
<1>8. CASE \E u \in Users : Revoke(u)
  BY <1>1, <1>8, Revoked, AccountAssumption DEF Kept
<1> QED
  BY <1>3, <1>4, <1>5, <1>6, <1>7, <1>8, OneChangerSteps

LEMMA KeptInvariant ==
  ASSUME OneChanger
  PROVE  Spec => []KeptInv
<1>1. Init => KeptInv
  BY InitInv, AccountAssumption DEF Init, KeptInv, Kept, Processes
<1>2. KeptInv /\ [Next]_vars => KeptInv'
  <2>1. ASSUME KeptInv, Next
        PROVE  KeptInv'
    BY <2>1, InvStep, KeptStep DEF KeptInv
  <2>2. ASSUME KeptInv, UNCHANGED vars
        PROVE  KeptInv'
    BY <2>2, InvStep DEF KeptInv, Kept, vars, disk, mind
  <2> QED
    BY <2>1, <2>2
<1> QED
  BY <1>1, <1>2, PTL DEF Spec

\* What of a login's keys a process's own step may end.
EndsASession(p) ==
  \/ ImportFiles(p) /\ job[p].source = "session_file"
  \/ RemoveFiles(p)
  \/ (Verify(p) \/ Unlink(p)) /\ verdict[p] = "new"

\* A step of p's that ends no session keeps it in the file or in p's copy.
LEMMA OwnSession ==
  ASSUME KeptInv, NEW p \in Changers, ChangeStep(p) \/ SignStep(p), ~ EndsASession(p),
         NEW u \in Users, file["session"] = u \/ backup[p] = u
  PROVE  file'["session"] = u \/ backup'[p] = u
<1>1. p \in Processes /\ "session" \in Files /\ TypeOK /\ Kept(p) /\ OfAKind(p) /\ u # None
  BY AccountAssumption DEF Processes, Files, KeptInv, Inv
<1>2. CASE ChangeStep(p)
  <2>1. backup[p] = None
    BY <1>1, <1>2
       DEF OfAKind, Holding, Signing, ChangeStep, ImportRead, ImportLock, ImportFiles, ImportRow,
           RemoveRead, RemoveLock, RemoveRow, RemoveFiles, Acquire, At
  <2>2. file["session"] = u
    BY <1>1, <2>1
  <2>3. CASE ImportFiles(p)
    BY <1>1, <2>2, <2>3 DEF EndsASession, ImportFiles, Copied
  <2>4. CASE ~ ImportFiles(p)
    BY <1>2, <2>2, <2>4
       DEF EndsASession, ChangeStep, ImportRead, ImportLock, ImportRow, RemoveRead, RemoveLock,
           RemoveRow, disk
  <2> QED
    BY <2>3, <2>4
<1>3. CASE SignStep(p)
  <2>1. CASE \/ \E v \in Signers, qr, replace \in BOOLEAN : LoginRead(p, v, qr, replace)
             \/ LoginLock(p) \/ LoginTake(p) \/ LoginRow(p)
    <3>1. backup[p] = None
      BY <1>1, <2>1 DEF OfAKind, Holding, Signing, LoginRead, LoginLock, LoginTake, LoginRow,
                        Acquire, At
    <3>2. file' = file
      BY <2>1 DEF LoginRead, LoginLock, LoginTake, LoginRow, disk
    <3> QED
      BY <1>1, <3>1, <3>2
  <2>2. CASE SignIn(p) \/ SignInFails(p)
    <3>1. pc[p] = "sign_in"
      BY <2>2 DEF SignIn, SignInFails, At
    <3>2. file["session"] = u
      BY <1>1, <3>1 DEF Kept
    <3> QED
      BY <1>1, <2>2, <3>2 DEF TypeOK, SignIn, SignInFails, Authorised
  <2>3. CASE Verify(p)
    BY <1>1, <2>3 DEF TypeOK, EndsASession, Verify
  <2>4. CASE SetUser(p) \/ SetOk(p) \/ Failed(p) \/ Restore(p)
    <3>1. file' = file /\ pc[p] # "copy_back"
      BY <2>4 DEF SetUser, SetOk, Failed, Restore, At, disk
    <3>2. file["session"] = u
      BY <1>1, <3>1 DEF Kept
    <3> QED
      BY <3>1, <3>2
  <2>5. CASE Unlink(p)
    <3>1. pc[p] = "unlink" /\ backup' = backup
      BY <2>5 DEF Unlink, At, mind
    <3>2. verdict[p] = "ok" /\ prev[p] # None
      BY <1>1, <2>5, <3>1 DEF EndsASession, Kept
    <3>3. backup[p] = u
      BY <1>1, <3>1, <3>2 DEF Kept
    <3> QED
      BY <3>1, <3>3
  <2>6. CASE CopyBack(p)
    BY <1>1, <2>6 DEF TypeOK, Kept, CopyBack, At, mind
  <2> QED
    BY <1>3, <2>1, <2>2, <2>3, <2>4, <2>5, <2>6 DEF SignStep
<1> QED
  BY <1>2, <1>3

\* The session that worked is ended only by Telegram, by an import or a removal, or by a
\* login that ends the one it began.
LEMMA SessionStep ==
  ASSUME OneChanger, KeptInv, Next, NEW u \in Users, Working(u), ~ Working(u)'
  PROVE  Revoke(u) \/ \E p \in Changers : EndsASession(p)
<1>1. /\ "session" \in Files /\ Inv /\ TypeOK /\ u # None /\ u # "dead"
      /\ \A p \in Changers : p \in Processes
  BY AccountAssumption DEF Files, KeptInv, Inv, Processes
<1>2. file'["session"] # u /\ u \notin left' /\ \A p \in Changers : backup'[p] # u
  BY DEF Working
<1>3. ASSUME NEW v \in Users, Revoke(v)
      PROVE  Revoke(u)
  <2>1. CASE v # u
    <3>1. u \in left => u \in left'
      BY <1>3, <2>1 DEF Revoke
    <3>2. file["session"] # u /\ u \notin left /\ \A p \in Changers : backup[p] # u
      BY <1>1, <1>2, <1>3, <2>1, <3>1, Revoked
    <3> QED
      BY <3>2 DEF Working
  <2> QED
    BY <1>3, <2>1
<1>4. ASSUME NEW p \in Processes, Crash(p)
      PROVE  FALSE
  <2>1. file' = file /\ left' = left \cup ({backup[p]} \ {None})
    BY <1>4 DEF Crash
  <2>2. \A q \in Changers : q # p => backup'[q] = backup[q]
    BY <1>1, <1>4, Alone DEF StepOf
  <2> QED
    BY <1>1, <1>2, <2>1, <2>2 DEF Working
<1>5. ASSUME NEW p \in Processes, p \in Loaders, LoadStep(p)
      PROVE  FALSE
  <2>1. left' = left /\ (file' = file \/ (file["session"] = None))
    BY <1>5 DEF LoadStep, LoadRead, LoadLock, Connects, Converts, NotConnected, Mark, Close, disk
  <2>2. \A q \in Changers : backup'[q] = backup[q]
    BY <1>1, <1>5, Alone, AccountAssumption DEF StepOf
  <2> QED
    BY <1>1, <1>2, <2>1, <2>2 DEF Working
<1>6. ASSUME NEW status \in {"new", "disabled"}, Switch(status)
      PROVE  FALSE
  BY <1>2, <1>6 DEF Switch, Working, disk, mind
<1>7. ASSUME NEW p \in Changers, ChangeStep(p) \/ SignStep(p)
      PROVE  EndsASession(p)
  <2>1. left' = left
    BY <1>7
       DEF ChangeStep, ImportRead, ImportLock, ImportFiles, ImportRow, RemoveRead, RemoveLock,
           RemoveRow, RemoveFiles, SignStep, LoginRead, LoginLock, LoginTake, LoginRow, SignIn,
           SignInFails, Verify, SetUser, SetOk, Failed, Unlink, CopyBack, Restore, disk
  <2>2. file["session"] = u \/ backup[p] = u
    BY <1>2, <2>1 DEF Working, OneChanger
  <2> QED
    BY <1>2, <1>7, <2>2, OwnSession
<1>8. ASSUME NEW p \in Processes, StepOf(p)
      PROVE  \E q \in Changers : EndsASession(q)
  BY <1>4, <1>5, <1>7, <1>8 DEF StepOf
<1> QED
  BY <1>3, <1>6, <1>8, NextSteps

\* Where one process at a time changes the account, no login loses a session that worked
\* before it, whether it fails, is cancelled or is killed at any step: the session is in its
\* file or in a copy until Telegram discards it or an import or a removal replaces it
\* (login._preserve_existing_login).
THEOREM LoginKeepsSessionHolds ==
  ASSUME OneChanger
  PROVE  Spec => LoginKeepsSession
<1>1. KeptInv /\ [Next]_vars =>
        \A u \in Users : Working(u) /\ ~ Working(u)' =>
          \/ Revoke(u)
          \/ \E p \in Changers : \/ ImportFiles(p) /\ job[p].source = "session_file"
                                 \/ RemoveFiles(p)
                                 \/ (Verify(p) \/ Unlink(p)) /\ verdict[p] = "new"
  <2>1. UNCHANGED vars => \A u \in Users : Working(u)' = Working(u)
    BY DEF vars, disk, mind, Working
  <2> QED
    BY <2>1, SessionStep DEF EndsASession
<1> QED
  BY <1>1, KeptInvariant, PTL DEF Spec, LoginKeepsSession

-----------------------------------------------------------------------------
(* The row names who is in the session file.                                *)

\* A change of status names nobody else, and Telegram's revocation makes any key fit.
LEMMA StatusNames ==
  ASSUME NEW r \in Row \cup {None}, NEW s \in Statuses
  PROVE  LET t == WithStatus(r, s)
         IN /\ Names(t) => Names(r) /\ t.user = r.user
            /\ r = None => t = None
BY DEF Row, WithStatus, Names

\* The clauses about p's own row, backup and job do not mind a change of status beside it.
LEMMA AgreedBeside ==
  ASSUME AgreedInv, NEW p \in Changers, Beside(p)
  PROVE  /\ Agreed(p)'
         /\ left' = {} /\ pc'[p] \notin Between
              /\ (left = {} /\ pc[p] \notin Between => Fits(row, file["session"]))
              => Fits(row', file'["session"])
<1>1. /\ TypeOK /\ Inv /\ Kept(p) /\ Agreed(p)
  BY DEF AgreedInv, KeptInv, Inv
<1>2. /\ Names(row') => Names(row) /\ row'.user = row.user
      /\ row = None => row' = None
  <2>1. row' = row \/ \E s \in Statuses : row' = WithStatus(row, s)
    BY <1>1, WhatChanges
  <2>2. row \in Row \cup {None}
    BY <1>1 DEF TypeOK
  <2> QED
    BY <2>1, <2>2, StatusNames
<1>3. /\ pc'[p] = pc[p] /\ job'[p] = job[p] /\ prev'[p] = prev[p] /\ backup'[p] = backup[p]
      /\ verdict'[p] = verdict[p]
      /\ pc[p] \in Signing => file'["session"] = file["session"]
      /\ file'["session"] # file["session"] => file["session"] = None
      /\ left' = {} => left = {}
  BY <1>1, WhatChanges
<1>4. Agreed(p)'
  BY <1>1, <1>2, <1>3 DEF Agreed, Fits, Signing
<1>5. ASSUME Fits(row, file["session"])
      PROVE  Fits(row', file'["session"])
  BY <1>2, <1>3, <1>5, AccountAssumption DEF Fits, Names
<1> QED
  BY <1>3, <1>4, <1>5

\* An import or a removal of p's, as it bears on what p relies on.
LEMMA AgreedChange ==
  ASSUME AgreedInv, NEW p \in Changers, ChangeStep(p)
  PROVE  Agreed(p)'
<1>1. p \in Processes /\ TypeOK /\ Inv /\ Agreed(p)
  BY DEF AgreedInv, KeptInv, Inv, Processes
<1>2. CASE Ends(p)
  <2>1. pc'[p] = "idle"
    BY <1>1, <1>2, Ended
  <2> QED
    BY <2>1 DEF Agreed, Importing
<1>3. CASE \E j \in ImportJobs : ImportRead(p, j)
  BY <1>1, <1>3 DEF TypeOK, ImportRead, Agreed, Importing, At, Set
<1>4. CASE (ImportLock(p) \/ RemoveLock(p)) /\ ~ Ends(p)
  BY <1>1, <1>4 DEF TypeOK, ImportLock, RemoveLock, Acquire, Agreed, Importing, Set, mind
<1>5. CASE ImportFiles(p)
  BY <1>1, <1>5 DEF TypeOK, ImportFiles, Agreed, Importing, At, mind
<1>6. CASE RemoveRead(p) \/ RemoveRow(p)
  BY <1>1, <1>6 DEF TypeOK, RemoveRead, RemoveRow, Agreed, Importing, At
<1> QED
  BY <1>2, <1>3, <1>4, <1>5, <1>6 DEF ChangeStep, ImportRow, RemoveFiles

\* A step of a login of p's: a login that has set the row aside can tell it from the copy.
LEMMA AgreedSign ==
  ASSUME OneChanger, AgreedInv, NEW p \in Changers, SignStep(p)
  PROVE  Agreed(p)'
<1>1. p \in Processes /\ TypeOK /\ Inv /\ Kept(p) /\ Agreed(p)
  BY DEF AgreedInv, KeptInv, Inv, Processes
<1>2. CASE Ends(p)
  <2>1. pc'[p] = "idle"
    BY <1>1, <1>2, Ended
  <2> QED
    BY <2>1 DEF Agreed, Importing
<1>3. CASE \/ \E u \in Signers, qr, replace \in BOOLEAN : LoginRead(p, u, qr, replace)
           \/ LoginLock(p) \/ (LoginTake(p) /\ ~ Ends(p))
  <2>1. pc'[p] \in {"login_lock", "login_take", "login_row"}
    BY <1>1, <1>3 DEF TypeOK, LoginRead, LoginLock, LoginTake, Acquire, At, Set
  <2> QED
    BY <2>1 DEF Agreed, Importing
<1>4. CASE LoginRow(p) /\ ~ Ends(p)
  <2>1. left = {} => Fits(row, file["session"])
    BY <1>1, <1>4 DEF AgreedInv, OneChanger, LoginRow, Between
  <2>2. /\ prev'[p] = row /\ left' = left /\ file' = file
        /\ backup'[p] = IF row = None THEN None ELSE file["session"]
        /\ \/ pc'[p] = "sign_in" /\ row' = FreshRow("session_file")
           \/ pc'[p] = "unlink" /\ row # None /\ row' = row
    BY <1>1, <1>4 DEF TypeOK, LoginRow, CopyOfSession, Set, disk
  <2>3. ~ Names(FreshRow("session_file"))
    BY DEF Names, FreshRow
  <2>4. Fits(row, file["session"]) => file["session"] # None \/ ~ Names(row)
    BY AccountAssumption DEF Fits, Names
  <2>5. ~ Names(None)
    BY DEF Names
  <2> QED
    BY <2>1, <2>2, <2>3, <2>4, <2>5 DEF Agreed, Importing, Fits
<1>5. CASE SignIn(p)
  <2>1. pc[p] = "sign_in" /\ pc'[p] = "verify" /\ row' = row /\ left' = left
        /\ prev'[p] = prev[p] /\ backup'[p] = backup[p] /\ job'[p] = job[p]
    BY <1>1, <1>5 DEF TypeOK, SignIn, At
  <2>2. verdict'[p] = "new" => file'["session"] = job[p].user
    BY <1>1, <1>5 DEF TypeOK, Files, Kept, SignIn, At, Set
  <2> QED
    BY <1>1, <2>1, <2>2 DEF Agreed, Importing
<1>6. CASE SignInFails(p)
  BY <1>1, <1>6 DEF TypeOK, Agreed, Importing, SignInFails, At, mind
<1>7. CASE Verify(p)
  <2>1. pc[p] = "verify" /\ pc'[p] \in {"set_user", "failed"} /\ left' = left
        /\ prev'[p] = prev[p] /\ backup'[p] = backup[p] /\ verdict'[p] = verdict[p]
    BY <1>1, <1>7 DEF TypeOK, Verify, Set
  <2>2. CASE pc'[p] = "set_user"
    <3>1. file' = file /\ job'[p].user = file["session"]
      <4>1. job[p] \in Logins
        BY <1>1, <2>1 DEF Inv, OfAKind, LoggingIn, Signing
      <4>2. file' = file /\ job' = [job EXCEPT ![p] = [job[p] EXCEPT !.user = file["session"]]]
        BY <1>1, <1>7, <2>2 DEF TypeOK, Verify, Set
      <4> QED
        BY <1>1, <4>1, <4>2 DEF TypeOK, Logins
    <3> QED
      BY <2>2, <3>1 DEF Agreed, Importing
  <2>3. CASE pc'[p] = "failed"
    <3>1. CASE row' = row
      BY <1>1, <2>1, <2>3, <3>1 DEF Agreed, Importing
    <3>2. CASE file["session"] \in Users /\ Stranger(p) /\ ~ job[p].qr
      <4>1. file["session"] # job[p].user
        BY <3>2 DEF Stranger
      <4>2. verdict[p] = "ok"
        BY <1>1, <2>1, <3>2, <4>1, AccountAssumption DEF Agreed, Kept
      <4>3. prev[p] = None \/ (backup[p] = file["session"] /\ backup[p] # None)
        BY <1>1, <2>1, <3>2, <4>2, AccountAssumption DEF Kept
      <4> QED
        BY <1>1, <2>1, <2>3, <4>3 DEF Agreed, Importing
    <3> QED
      BY <1>7, <2>3, <3>1, <3>2, <1>1 DEF Verify, TypeOK, Set
  <2> QED
    BY <2>1, <2>2, <2>3
<1>8. CASE SetUser(p)
  <2>1. pc[p] = "set_user" /\ pc'[p] = "set_ok" /\ file' = file /\ job' = job
    BY <1>1, <1>8 DEF TypeOK, SetUser, At, disk, mind
  <2> QED
    BY <1>1, <2>1 DEF Agreed, Importing
<1>9. CASE Failed(p) /\ ~ Ends(p)
  <2>1. /\ pc[p] = "failed" /\ pc'[p] = "unlink" /\ left' = left
        /\ prev'[p] = prev[p] /\ backup'[p] = backup[p]
        /\ row' \in {row, WithStatus(row, "auth_failed")}
    BY <1>1, <1>9 DEF TypeOK, Failed, Set, disk, mind
  <2>2. Names(row') => Names(row)
    BY <1>1, <2>1, StatusNames DEF TypeOK, Statuses
  <2> QED
    BY <1>1, <2>1, <2>2 DEF Agreed, Importing
<1>10. CASE Unlink(p)
  BY <1>1, <1>10 DEF TypeOK, Agreed, Importing, Unlink, At, mind
<1>11. CASE CopyBack(p)
  BY <1>1, <1>11 DEF TypeOK, Files, Agreed, Importing, CopyBack, At, mind
<1> QED
  BY <1>2, <1>3, <1>4, <1>5, <1>6, <1>7, <1>8, <1>9, <1>10, <1>11 DEF SignStep, SetOk, Restore

\* The row and the file agree again wherever p is not between two writes.
LEMMA FitsStep ==
  ASSUME OneChanger, AgreedInv, NEW p \in Changers, ChangeStep(p) \/ SignStep(p),
         left' = {}, pc'[p] \notin Between
  PROVE  Fits(row', file'["session"])
<1>1. p \in Processes /\ TypeOK /\ Inv /\ Kept(p) /\ Agreed(p) /\ "session" \in Files
  BY DEF AgreedInv, KeptInv, Inv, Processes, Files
<1>2. left = {}
  BY DEF ChangeStep, ImportRead, ImportLock, ImportFiles, ImportRow, RemoveRead, RemoveLock,
         RemoveRow, RemoveFiles, SignStep, LoginRead, LoginLock, LoginTake, LoginRow, SignIn,
         SignInFails, Verify, SetUser, SetOk, Failed, Unlink, CopyBack, Restore, disk
<1>3. pc[p] \notin Between => Fits(row, file["session"])
  BY <1>2 DEF AgreedInv, OneChanger
<1>4. row \in Row \cup {None}
  BY <1>1 DEF TypeOK
<1>5. ~ Names(None) /\ \A source \in Sources : ~ Names(FreshRow(source))
  BY DEF Names, FreshRow
<1>6. CASE ChangeStep(p)
  <2>1. CASE ImportRow(p)
    <3>1. row = None \/ job[p].replace
      BY <1>1, <2>1 DEF Agreed, Importing, ImportRow
    <3>2. Source(job[p]) \in Sources
      BY <1>1, <2>1 DEF Inv, OfAKind, Importing, Imports, ImportRow, Source, Sources
    <3>3. row' = FreshRow(Source(job[p]))
      BY <2>1, <3>1 DEF ImportRow
    <3> QED
      BY <1>5, <3>2, <3>3 DEF Fits
  <2>2. CASE RemoveRow(p) \/ RemoveFiles(p)
    <3>1. row' = None
      BY <1>1, <2>2 DEF Agreed, RemoveRow, RemoveFiles
    <3> QED
      BY <1>5, <3>1 DEF Fits
  <2>3. CASE ImportFiles(p)
    BY <1>1, <2>3 DEF TypeOK, ImportFiles, Between, At
  <2>4. CASE \/ (\E j \in ImportJobs : ImportRead(p, j)) \/ ImportLock(p)
             \/ RemoveRead(p) \/ RemoveLock(p)
    <3>1. row' = row /\ file' = file /\ pc[p] \notin Between
      BY <2>4 DEF ImportRead, ImportLock, RemoveRead, RemoveLock, Acquire, Between, At, disk
    <3> QED
      BY <1>3, <3>1
  <2> QED
    BY <1>6, <2>1, <2>2, <2>3, <2>4 DEF ChangeStep
<1>7. CASE SignStep(p)
  <2>1. CASE LoginRow(p)
    <3>1. file' = file /\ pc[p] \notin Between /\ row' \in {row, FreshRow("session_file")}
      BY <2>1 DEF LoginRow, Between, disk
    <3> QED
      BY <1>3, <1>5, <3>1 DEF Fits, Sources
  <2>2. CASE SignIn(p) \/ SignInFails(p)
    <3>1. row' = row /\ ~ Names(row)
      BY <1>1, <2>2 DEF Agreed, SignIn, SignInFails, At
    <3> QED
      BY <3>1 DEF Fits
  <2>3. CASE Verify(p)
    <3>1. ~ Names(row)
      BY <1>1, <2>3 DEF Agreed, Verify
    <3>2. \/ row' = row
          \/ file' = file /\ row' = WithStatus(WithUser(row, file["session"]), "ok")
      BY <2>3 DEF Verify
    <3>3. Names(WithStatus(WithUser(row, file["session"]), "ok")) =>
            WithStatus(WithUser(row, file["session"]), "ok").user = file["session"]
      BY <1>4 DEF Names, WithStatus, WithUser, Row
    <3> QED
      BY <3>1, <3>2, <3>3 DEF Fits
  <2>4. CASE SetUser(p)
    <3>1. file' = file /\ file["session"] \in {job[p].user, "dead"}
          /\ row' = WithUser(row, job[p].user)
      BY <1>1, <2>4 DEF Agreed, SetUser, WhoSignedIn, At, disk
    <3>2. Names(row') => row'.user = job[p].user
      BY <1>4, <3>1 DEF Names, WithUser, Row
    <3> QED
      BY <3>1, <3>2 DEF Fits
  <2>5. CASE SetOk(p) \/ Failed(p)
    <3>1. /\ file' = file /\ pc[p] \notin Between
          /\ row' \in {row, WithStatus(row, "ok"), WithStatus(row, "auth_failed")}
      BY <2>5 DEF SetOk, Failed, Between, disk
    <3>2. Names(row') => Names(row) /\ row'.user = row.user
      BY <1>4, <3>1, StatusNames DEF Statuses
    <3> QED
      BY <1>3, <3>1, <3>2 DEF Fits
  <2>6. CASE Restore(p)
    <3>1. row' = prev[p] /\ file' = file /\ file["session"] = backup[p]
      BY <1>1, <2>6 DEF Agreed, Restore, disk
    <3> QED
      BY <1>1, <1>2, <2>6, <3>1 DEF Agreed, Restore
  <2>7. CASE Unlink(p) \/ CopyBack(p)
    BY <1>1, <2>7 DEF TypeOK, Unlink, CopyBack, Between, At
  <2>8. CASE \/ \E u \in Signers, qr, replace \in BOOLEAN : LoginRead(p, u, qr, replace)
             \/ LoginLock(p) \/ LoginTake(p)
    <3>1. row' = row /\ file' = file /\ pc[p] \notin Between
      BY <2>8 DEF LoginRead, LoginLock, LoginTake, Acquire, Between, At, disk
    <3> QED
      BY <1>3, <3>1
  <2> QED
    BY <1>7, <2>1, <2>2, <2>3, <2>4, <2>5, <2>6, <2>7, <2>8 DEF SignStep
<1> QED
  BY <1>6, <1>7

\* What the row and the file may disagree about, and where, is kept by every step, unless an
\* import can be killed between its two writes.
LEMMA AgreedStep ==
  ASSUME OneChanger, "import_crash" \notin Faults, AgreedInv, Next
  PROVE  AgreedInv'
<1>1. TypeOK /\ Inv /\ KeptInv /\ KeptInv'
  BY InvStep, KeptStep DEF AgreedInv, KeptInv, Inv
<1>2. ASSUME Changers = {}
      PROVE  row' = None
  <2>1. row = None
    BY <1>2 DEF AgreedInv
  <2>2. ASSUME NEW q \in Processes, StepOf(q)
        PROVE  row' = None
    BY <1>2, <2>1, <2>2
       DEF StepOf, LoadStep, LoadRead, LoadLock, Connects, NotConnected, Mark, Close, Crash,
           WithStatus
  <2> QED
    BY <2>1, <2>2, NextSteps DEF Switch, Revoke
<1>3. ASSUME NEW p \in Changers
      PROVE  /\ Agreed(p)'
             /\ left' = {} /\ pc'[p] \notin Between => Fits(row', file'["session"])
  <2>1. p \in Processes /\ Kept(p) /\ Agreed(p) /\ "session" \in Files
    BY DEF AgreedInv, KeptInv, Processes, Files
  <2>2. left = {} /\ pc[p] \notin Between => Fits(row, file["session"])
    BY DEF AgreedInv, OneChanger
  <2>3. CASE ChangeStep(p) \/ SignStep(p)
    BY <2>3, AgreedChange, AgreedSign, FitsStep
  <2>4. CASE Beside(p)
    BY <2>2, <2>4, AgreedBeside
  <2>5. CASE Crash(p)
    <3>1. pc'[p] = "idle" /\ row' = row /\ file' = file /\ pc[p] # "import_row"
          /\ (left' = {} => left = {} /\ backup[p] = None)
      BY <1>1, <2>1, <2>5 DEF TypeOK, Crash, Ends, Set
    <3>2. Agreed(p)'
      BY <3>1 DEF Agreed, Importing
    <3>3. left' = {} => Fits(row', file'["session"])
      BY <2>1, <2>2, <3>1 DEF Agreed, Kept, Fits, Between
    <3> QED
      BY <3>2, <3>3
  <2>6. CASE \E u \in Users : Revoke(u)
    BY <1>1, <2>1, <2>2, <2>6, Revoked, AccountAssumption DEF Agreed, Fits, Importing
  <2> QED
    BY <2>3, <2>4, <2>5, <2>6, OneChangerSteps
<1>4. left' = {} /\ (\A p \in Changers : pc'[p] \notin Between) => Fits(row', file'["session"])
  <2>1. CASE Changers = {}
    BY <1>2, <2>1 DEF Fits, Names
  <2>2. CASE Changers # {}
    BY <1>3, <2>2
  <2> QED
    BY <2>1, <2>2
<1> QED
  BY <1>1, <1>2, <1>3, <1>4 DEF AgreedInv

LEMMA AgreedInvariant ==
  ASSUME OneChanger, "import_crash" \notin Faults
  PROVE  Spec => []AgreedInv
<1>1. Init => AgreedInv
  BY InitInv, AccountAssumption DEF Init, AgreedInv, KeptInv, Kept, Agreed, Importing, Fits, Names, Processes
<1>2. AgreedInv /\ [Next]_vars => AgreedInv'
  <2>1. ASSUME AgreedInv, Next
        PROVE  AgreedInv'
    BY <2>1, AgreedStep
  <2>2. ASSUME AgreedInv, UNCHANGED vars
        PROVE  AgreedInv'
    <3>1. KeptInv'
      BY <2>2, InvStep DEF AgreedInv, KeptInv, Kept, vars, disk, mind
    <3> QED
      BY <2>2, <3>1 DEF AgreedInv, Agreed, vars, disk, mind
  <2> QED
    BY <2>1, <2>2
<1> QED
  BY <1>1, <1>2, PTL DEF Spec

\* Where one process at a time changes the account, and none is killed between the two
\* writes of an import, a row that names a session file and a user names the user whose
\* working key is in that file whenever nobody is changing it (login.py, store.upsert).
THEOREM IdentityAgreesHolds ==
  ASSUME OneChanger, "import_crash" \notin Faults
  PROVE  Spec => []IdentityAgrees
<1>1. AgreedInv => IdentityAgrees
  <2> SUFFICES ASSUME AgreedInv, Names(row), lock["session"] = None, left = {},
                      \A p \in Changers : pc[p] # "import_row"
               PROVE  file["session"] \in {row.user, "dead"}
    BY DEF IdentityAgrees, Names
  <2>1. \A p \in Changers : pc[p] \notin {"copy_back", "restore"}
    BY AccountAssumption DEF AgreedInv, KeptInv, Inv, Locked, Signing, Processes
  <2> QED
    BY <2>1 DEF AgreedInv, Between, Fits
<1> QED
  BY <1>1, AgreedInvariant, PTL
=============================================================================
