------------------------------- MODULE Account -------------------------------
(***************************************************************************)
(* One account label: its row in the state database, the files that hold   *)
(* its auth keys, and the locks on those keys.  Processes load the account *)
(* (registry.py, loader.py, sources.py), import and remove it, switch it   *)
(* on and off, and sign it in by phone or QR code (login.py).              *)
(*                                                                         *)
(* A file holds the working key of a user, a "dead" key Telegram           *)
(* discarded or a "blank" one nobody signed in to. A phone number stands   *)
(* for the user who owns it. The canonical-path and the inode lock of one  *)
(* file are one lock here: every caller takes both.                        *)
(***************************************************************************)
EXTENDS Naturals, FiniteSets

CONSTANTS
  Loaders,   \* processes that connect the account
  Changers,  \* processes that import, remove or sign it in
  Users,     \* who a key may belong to
  Imported,  \* whose material is imported
  Signers,   \* who signs in
  Faults,
  MaxKilled, \* bound: keys left behind by logins that were killed
  MaxChanges, \* bound: imports, removals and logins begun
  None

Processes == Loaders \cup Changers

Sources  == {"tdata", "session_file", "string_session"}
Statuses == {"new", "ok", "auth_failed", "revoked", "disabled"}
Files    == {"session", "string", "tdata"}
Locks    == {"session", "string"}
Keys     == Users \cup {"blank", "dead"}

Row   == [source : Sources, status : Statuses, user : Users \cup {None}]
Known == [source : Sources, off : BOOLEAN]  \* what a process takes from a row it reads

\* A process does one thing to the account.
ASSUME AccountAssumption ==
  /\ Loaders \cap Changers = {}
  /\ Faults \subseteq {"crash", "revoked", "network", "import_crash"}
  /\ Imported \subseteq Users /\ Signers \subseteq Users
  /\ MaxKilled \in Nat /\ MaxChanges \in Nat
  /\ None \notin Processes \cup Users \cup {"blank", "dead"} \cup Row \cup Known
  /\ {"blank", "dead"} \cap Users = {}

VARIABLES
  row,     \* the account's row
  file,    \* the key in each file, None when there is no file
  left,    \* the keys in backup directories whose login was killed
  lock,    \* who holds the lock on each key
  pc,
  rec,     \* the row a process read
  job,     \* what it was asked to do
  prev,    \* the row a login may have to restore
  backup,  \* the copy of the session file in the login's backup directory
  verdict, \* the status a process is about to write
  changes  \* how many changes were begun

disk  == <<file, left>>
mind  == <<rec, job, prev, backup, verdict>>
vars  == <<row, disk, lock, pc, mind, changes>>

\* What an import and a login are asked for.
Imports == [source : Sources \cup {"phone"}, user : Users, replace : BOOLEAN]
Logins  == [qr : BOOLEAN, user : Users, replace : BOOLEAN, over : BOOLEAN]
Jobs    == Imports \cup Logins

TypeOK ==
  /\ row \in Row \cup {None}
  /\ file \in [Files -> Keys \cup {None}]
  /\ left \subseteq Keys
  /\ lock \in [Locks -> Processes \cup {None}]
  /\ pc \in [Processes -> {"idle", "lock", "connect", "mark", "using",
                           "import_lock", "import_files", "import_row",
                           "remove_lock", "remove_row", "remove_files",
                           "login_lock", "login_take", "login_row", "sign_in", "verify",
                           "set_user", "set_ok", "failed", "unlink", "copy_back", "restore"}]
  /\ rec \in [Processes -> Known \cup {None}]
  /\ job \in [Processes -> Jobs \cup {None}]
  /\ prev \in [Processes -> Row \cup {None}]
  /\ backup \in [Processes -> Keys \cup {None}]
  /\ verdict \in [Processes -> Statuses]
  /\ changes \in 0 .. MaxChanges

Init ==
  /\ row = None
  /\ file = [f \in Files |-> None]
  /\ left = {}
  /\ lock = [l \in Locks |-> None]
  /\ pc = [p \in Processes |-> "idle"]
  /\ rec = [p \in Processes |-> None]
  /\ job = [p \in Processes |-> None]
  /\ prev = [p \in Processes |-> None]
  /\ backup = [p \in Processes |-> None]
  /\ verdict = [p \in Processes |-> "new"]
  /\ changes = 0

At(p, from, to) == pc[p] = from /\ pc' = [pc EXCEPT ![p] = to]
Set(f, p, v) == [f EXCEPT ![p] = v]

\* (Variation: a tdata account has a lock of its own.)
LockOfFolder(source) == IF source = "session_file" THEN "session" ELSE "string"

\* lock_target: a tdata account is guarded by the session converted from it.
LockOf(source) == IF source = "string_session" THEN "string" ELSE "session"
FileOf(source) == IF source = "string_session" THEN "string" ELSE "session"

\* SessionLocks.acquire takes them all or none, and waits for none.
Free(ls) == \A l \in ls : lock[l] = None
Take(p, ls) == lock' = [l \in Locks |-> IF l \in ls THEN p ELSE lock[l]]
LetGo(p) == lock' = [l \in Locks |-> IF lock[l] = p THEN None ELSE lock[l]]

\* What a process knew is gone when it ends.
Forget(p) ==
  /\ rec' = Set(rec, p, None)
  /\ job' = Set(job, p, None)
  /\ prev' = Set(prev, p, None)
  /\ backup' = Set(backup, p, None)
  /\ verdict' = Set(verdict, p, "new")

Ends(p) == pc' = Set(pc, p, "idle") /\ LetGo(p) /\ Forget(p)

\* Acquire the locks and go on, or be refused with SESSION_LOCKED.
Acquire(p, ls, from, to) ==
  /\ pc[p] = from
  /\ \/ Free(ls) /\ Take(p, ls) /\ pc' = Set(pc, p, to) /\ UNCHANGED mind
     \/ ~ Free(ls) /\ Ends(p)

\* set_status and set_user_id update the row of this label, if there is one.
WithStatus(r, s) == IF r = None THEN None ELSE [r EXCEPT !.status = s]
WithUser(r, u)   == IF r = None THEN None ELSE [r EXCEPT !.user = u]

Begin == changes < MaxChanges /\ changes' = changes + 1

\* The material, and whether it is off.
Read == IF row = None THEN None
        ELSE [source |-> row.source, off |-> row.status = "disabled"]

-----------------------------------------------------------------------------
(* Connecting: AccountRegistry.load_account and build_client.               *)

\* (Variation: only a revoked account is refused.)
NotRevoked(status) == status # "revoked"

MayConnect(status) == status \notin {"disabled", "revoked"}

LoadRead(p) ==
  /\ row # None
  /\ MayConnect(row.status)
  /\ At(p, "idle", "lock")
  /\ rec' = Set(rec, p, Read)
  /\ UNCHANGED <<row, disk, lock, job, prev, backup, verdict>>

LoadLock(p) ==
  /\ Acquire(p, {LockOf(rec[p].source)}, "lock", "connect")
  /\ UNCHANGED <<row, disk>>

\* client_from_tdata converts the folder once: the .session it leaves is reused.
Converts(p) == rec[p].source = "tdata" /\ file["session"] = None /\ file["tdata"] \in Users

\* The key is there and Telegram accepts it.
Connects(p) ==
  /\ At(p, "connect", "mark")
  /\ \/ Converts(p) /\ file' = [file EXCEPT !["session"] = file["tdata"]]
     \/ file[FileOf(rec[p].source)] \in Users /\ UNCHANGED file
  /\ verdict' = Set(verdict, p, "ok")
  /\ UNCHANGED <<row, left, lock, rec, job, prev, backup>>

\* Not reachable, no file, not authorised; or Telegram discarded the key.  The
\* lock is released while the exception unwinds, before the status is written.
NotConnected(p) ==
  /\ At(p, "connect", "mark")
  /\ LET key == file[FileOf(rec[p].source)]
     IN \/ (key \notin Users \/ "network" \in Faults) /\ verdict' = Set(verdict, p, "auth_failed")
        \/ key = "dead" /\ verdict' = Set(verdict, p, "revoked")
  /\ LetGo(p)
  /\ UNCHANGED <<row, disk, rec, job, prev, backup>>

\* The verdict is written, by label.
Mark(p) ==
  /\ pc[p] = "mark"
  /\ row' = WithStatus(row, verdict[p])
  /\ IF verdict[p] = "ok" THEN pc' = Set(pc, p, "using") /\ UNCHANGED <<lock, mind>>
                          ELSE Ends(p)
  /\ UNCHANGED disk

\* LoadedClient.close.
Close(p) ==
  /\ pc[p] = "using"
  /\ Ends(p)
  /\ UNCHANGED <<row, disk>>

-----------------------------------------------------------------------------
(* Bookkeeping: enable, disable, imports and remove (registry.py).          *)

Switch(status) ==
  /\ row # None
  /\ row' = WithStatus(row, status)
  /\ UNCHANGED <<disk, lock, pc, mind>>

\* Telegram discards the sessions of a user, as it may at any moment.
Revoke(u) ==
  /\ "revoked" \in Faults
  /\ LET Dead(k) == IF k = u THEN "dead" ELSE k
     IN /\ file' = [f \in Files |-> Dead(file[f])]
        /\ left' = {Dead(k) : k \in left}
        /\ backup' = [p \in Processes |-> Dead(backup[p])]
  /\ UNCHANGED <<row, lock, pc, rec, job, prev, verdict>>

\* register_phone_login, import_tdata, import_session_file, import_string_session
\* up to _offline, which reads the row whose lock it is going to take.
ImportRead(p, j) ==
  /\ Begin
  /\ row # None => j.replace
  /\ At(p, "idle", "import_lock")
  /\ rec' = Set(rec, p, Read)
  /\ job' = Set(job, p, j)
  /\ UNCHANGED <<row, disk, lock, prev, backup, verdict>>

\* (Variation: a destructive change takes no lock.)
NoLocks(r) == {}

\* Nothing registered: no lock to take.
LocksOf(r) == IF r = None THEN {} ELSE {LockOf(r.source)}

ImportLock(p) ==
  /\ Acquire(p, LocksOf(rec[p]), "import_lock", "import_files")
  /\ UNCHANGED <<row, disk>>

\* A registration for a phone login copies nothing.
Copied(source) ==
  {f \in Files : <<source, f>> \in {<<"tdata", "tdata">>, <<"session_file", "session">>,
                                   <<"string_session", "string">>}}

ImportFiles(p) ==
  /\ At(p, "import_files", "import_row")
  /\ file' = [f \in Files |-> IF f \in Copied(job[p].source) THEN job[p].user ELSE file[f]]
  /\ UNCHANGED <<row, left, lock, mind>>

\* (Variation: a re-import keeps the verdict and the identity it finds.)
KeptRow(source) ==
  IF row = None THEN [source |-> source, status |-> "new", user |-> None]
  ELSE [row EXCEPT !.source = source]

\* upsert: the row starts again.
FreshRow(source) == [source |-> source, status |-> "new", user |-> None]

Source(j) == IF j.source = "phone" THEN "session_file" ELSE j.source

\* upsert checks for a duplicate again inside its transaction.
ImportRow(p) ==
  /\ pc[p] = "import_row"
  /\ row' = IF row # None /\ ~ job[p].replace THEN row ELSE FreshRow(Source(job[p]))
  /\ Ends(p)
  /\ UNCHANGED disk

RemoveRead(p) ==
  /\ Begin
  /\ row # None
  /\ At(p, "idle", "remove_lock")
  /\ rec' = Set(rec, p, Read)
  /\ UNCHANGED <<row, disk, lock, job, prev, backup, verdict>>

RemoveLock(p) ==
  /\ Acquire(p, LocksOf(rec[p]), "remove_lock", "remove_row")
  /\ UNCHANGED <<row, disk>>

RemoveRow(p) ==
  /\ At(p, "remove_row", "remove_files")
  /\ row' = None
  /\ UNCHANGED <<disk, lock, mind>>

\* _purge_files: everything the label owns, the lock files apart.
RemoveFiles(p) ==
  /\ pc[p] = "remove_files"
  /\ file' = [f \in Files |-> None]
  /\ Ends(p)
  /\ UNCHANGED <<row, left>>

-----------------------------------------------------------------------------
(* Signing in: login_and_register, qr_login_and_register and _authorise.    *)

\* _refuse_to_repoint; a registered label is replaced without being asked to.
LoginRead(p, u, qr, replace) ==
  /\ Begin
  /\ row # None /\ row.source # "session_file" => replace
  /\ At(p, "idle", "login_lock")
  /\ job' = Set(job, p, [qr |-> qr, user |-> u, replace |-> replace,
                         over |-> replace \/ row # None])
  /\ UNCHANGED <<row, disk, lock, rec, prev, backup, verdict>>

\* _account_offline reads the row, and locks what it names and what is written.
LoginLock(p) ==
  /\ At(p, "login_lock", "login_take")
  /\ rec' = Set(rec, p, Read)
  /\ UNCHANGED <<row, disk, lock, job, prev, backup, verdict>>

LoginTake(p) ==
  /\ Acquire(p, {"session"} \cup LocksOf(rec[p]), "login_take", "login_row")
  /\ UNCHANGED <<row, disk>>

CopyOfSession == file["session"]

\* A phone login refuses a number the row is known not to belong to.
WrongPhone(p) ==
  ~ job[p].qr /\ row # None /\ row.source = "session_file" /\ row.user \notin {None, job[p].user}

\* The row and the files are kept, if there is a row, and the row is written.
LoginRow(p) ==
  /\ pc[p] = "login_row"
  /\ \/ WrongPhone(p) /\ Ends(p) /\ UNCHANGED row
     \/ /\ ~ WrongPhone(p)
        /\ prev' = Set(prev, p, row)
        /\ backup' = Set(backup, p, IF row = None THEN None ELSE CopyOfSession)
        /\ verdict' = Set(verdict, p, "ok")
        /\ \/ /\ row = None \/ job[p].over
              /\ row' = FreshRow("session_file")
              /\ pc' = Set(pc, p, "sign_in")
           \/ /\ row # None /\ ~ job[p].over
              /\ pc' = Set(pc, p, "unlink")
              /\ UNCHANGED row
        /\ UNCHANGED <<lock, rec, job>>
  /\ UNCHANGED disk

Authorised == file["session"] \in Users

\* An authorised session is reported as it is; otherwise the person signs in:
\* with the number that was asked for, or with whatever scans the QR code.
SignIn(p) ==
  /\ At(p, "sign_in", "verify")
  /\ \/ Authorised /\ UNCHANGED <<file, verdict>>
     \/ /\ ~ Authorised
        /\ file' = [file EXCEPT !["session"] = job[p].user]
        /\ verdict' = Set(verdict, p, "new")
  /\ UNCHANGED <<row, left, lock, rec, job, prev, backup>>

\* A wrong or expired code, a flood wait, an abandoned prompt, a lost network:
\* connect() has left a key behind, signed in to or not.
SignInFails(p) ==
  /\ At(p, "sign_in", "failed")
  /\ file' \in {file, [file EXCEPT !["session"] = IF @ = None THEN "blank" ELSE @]}
  /\ UNCHANGED <<row, left, lock, mind>>

\* verify_identity for a QR login, the phone number for the other.
Stranger(p) ==
  IF job[p].qr
  THEN prev[p] # None /\ prev[p].user \notin {None, file["session"]} /\ ~ job[p].replace
  ELSE file["session"] # job[p].user

\* A QR session made by this very login is logged out again; a phone login first
\* writes down whom it found.
Verify(p) ==
  /\ pc[p] = "verify"
  /\ \/ /\ file["session"] \in Users /\ ~ Stranger(p)
        /\ pc' = Set(pc, p, "set_user")
        /\ job' = [job EXCEPT ![p].user = file["session"]]
        /\ UNCHANGED <<row, file>>
     \/ /\ file["session"] \in Users /\ Stranger(p) /\ job[p].qr
        /\ pc' = Set(pc, p, "failed")
        /\ file' = [file EXCEPT !["session"] = IF verdict[p] = "new" THEN "dead" ELSE @]
        /\ UNCHANGED <<row, job>>
     \/ /\ file["session"] \in Users /\ Stranger(p) /\ ~ job[p].qr
        /\ pc' = Set(pc, p, "failed")
        /\ row' = WithStatus(WithUser(row, file["session"]), "ok")
        /\ UNCHANGED <<file, job>>
     \/ /\ file["session"] = "dead"
        /\ pc' = Set(pc, p, "failed")
        /\ UNCHANGED <<row, file, job>>
  /\ UNCHANGED <<left, lock, rec, prev, backup, verdict>>

\* (Variation: the identity is read from the session file again.)
WhoIsInTheFile(p) == file["session"]

WhoSignedIn(p) == job[p].user

SetUser(p) ==
  /\ At(p, "set_user", "set_ok")
  /\ row' = WithUser(row, WhoSignedIn(p))
  /\ UNCHANGED <<disk, lock, mind>>

\* The backup directory is removed and the locks are released.
SetOk(p) ==
  /\ pc[p] = "set_ok"
  /\ row' = WithStatus(row, "ok")
  /\ Ends(p)
  /\ UNCHANGED disk

\* The failure is recorded, unless it is not a TelegramAIError; a registration
\* that existed is then rolled back, a new one is left for the person to see.
Failed(p) ==
  /\ pc[p] = "failed"
  /\ row' \in {row, WithStatus(row, "auth_failed")}
  /\ \/ prev[p] # None /\ pc' = Set(pc, p, "unlink") /\ UNCHANGED <<lock, mind>>
     \/ prev[p] = None /\ Ends(p)
  /\ UNCHANGED disk

Unlink(p) ==
  /\ At(p, "unlink", "copy_back")
  /\ file' = [file EXCEPT !["session"] = None]
  /\ UNCHANGED <<row, left, lock, mind>>

\* (Variation: the rollback removes the new files and does not put the old ones back.)
NothingBack(p) == At(p, "copy_back", "restore") /\ UNCHANGED <<row, disk, lock, mind>>

CopyBack(p) ==
  /\ At(p, "copy_back", "restore")
  /\ file' = [file EXCEPT !["session"] = backup[p]]
  /\ UNCHANGED <<row, left, lock, mind>>

\* (Variation: what the login found is registered again, which starts the row anew.)
Reregister(p) ==
  /\ pc[p] = "restore"
  /\ row' = FreshRow(prev[p].source)
  /\ Ends(p)
  /\ UNCHANGED disk

Restore(p) ==
  /\ pc[p] = "restore"
  /\ row' = prev[p]
  /\ Ends(p)
  /\ UNCHANGED disk

\* A process is killed: flock lets go of its locks, its backup directory stays.
Crash(p) ==
  /\ pc[p] # "idle"
  /\ "crash" \in Faults
  /\ pc[p] = "import_row" => "import_crash" \in Faults
  /\ Cardinality(left) < MaxKilled \/ backup[p] = None
  /\ left' = left \cup ({backup[p]} \ {None})
  /\ Ends(p)
  /\ UNCHANGED <<row, file>>

-----------------------------------------------------------------------------
Load(p) == LoadRead(p) \/ LoadLock(p) \/ Connects(p) \/ NotConnected(p) \/ Mark(p) \/ Close(p)

ImportJobs == {j \in Imports : j.user \in Imported}

ImportStep(p) == ImportLock(p) \/ ImportFiles(p) \/ ImportRow(p)

RemoveStep(p) == RemoveLock(p) \/ RemoveRow(p) \/ RemoveFiles(p)

LoginStep(p) ==
  \/ LoginLock(p) \/ LoginTake(p) \/ LoginRow(p) \/ SignIn(p) \/ SignInFails(p) \/ Verify(p)
  \/ SetUser(p) \/ SetOk(p) \/ Failed(p) \/ Unlink(p) \/ CopyBack(p) \/ Restore(p)

Quiet ==
  \/ \E p \in Loaders : Load(p)
  \/ \E p \in Changers : ImportStep(p) \/ RemoveStep(p) \/ LoginStep(p)
  \/ \E p \in Processes : Crash(p)
  \/ \E status \in {"new", "disabled"} : Switch(status)
  \/ \E u \in Users : Revoke(u)

Next ==
  \/ Quiet /\ UNCHANGED changes
  \/ \E p \in Changers :
        \/ \E j \in ImportJobs : ImportRead(p, j)
        \/ RemoveRead(p)
        \/ \E u \in Signers, qr, replace \in BOOLEAN : LoginRead(p, u, qr, replace)

Spec == Init /\ [][Next]_vars

-----------------------------------------------------------------------------
(* Properties.                                                              *)

\* A client of the account, and the file its key is in: a load from the connection
\* on, a login while it signs in and asks who it is.
Client(p) == pc[p] \in {"using", "sign_in", "verify"} \/ (pc[p] = "mark" /\ verdict[p] = "ok")
KeyFile(p) == IF p \in Loaders THEN FileOf(rec[p].source) ELSE "session"

\* One auth key is never presented by two clients at once, whatever the rows they
\* were found through have become (loader.build_client, login._authorise).
OneClientPerKey ==
  \A p, q \in Processes : p # q /\ Client(p) /\ Client(q) => KeyFile(p) # KeyFile(q)

\* A row that names a session file and a user names the user whose working key
\* is in that file, whenever nobody is changing it (login.py, store.upsert).
IdentityAgrees ==
  /\ row # None /\ row.source = "session_file" /\ row.user # None
  /\ lock["session"] = None /\ left = {}
  /\ \A p \in Changers : pc[p] # "import_row"
  => file["session"] \in {row.user, "blank", "dead", None}

\* A key file changes under the client that uses it only by a change that read
\* another registration and locked another key (registry._offline).
UnderAClient ==
  [][\A p \in Loaders :
       LET f == KeyFile(p)
       IN Client(p) /\ file'[f] # file[f] =>
            \/ file'[f] = "dead"
            \/ \E q \in Changers : /\ pc[q] \in {"import_files", "remove_files"}
                                   /\ rec[q] = None \/ LockOf(rec[q].source) # f]_vars

\* A working session: in its file, or in a copy a login has made of it.
Working(u) == file["session"] = u \/ u \in left \/ \E p \in Changers : backup[p] = u

\* No login loses a session that worked before it, whether it fails, is cancelled or is
\* killed at any step: the session is in its file or in a copy until Telegram discards it
\* or an import or a removal replaces it, and a login that ends one began it itself
\* (_preserve_existing_login).
LoginKeepsSession ==
  [][\A u \in Users : Working(u) /\ ~ Working(u)' =>
       \/ Revoke(u)
       \/ \E p \in Changers : \/ ImportFiles(p) /\ job[p].source = "session_file"
                              \/ RemoveFiles(p)
                              \/ (Verify(p) \/ Unlink(p)) /\ verdict[p] = "new"]_vars

\* The account is off: its row says so, or the row that a login over it has set aside.
Off(r) == r # None /\ r.status = "disabled"
IsOff  == Off(row) \/ \E p \in Changers : Off(prev[p])

\* An account that was disabled is brought back only by enable, by a new registration (an
\* import, a login that succeeds, or one killed before it could roll back), or by a process
\* that found the account on and writes what it learnt since: a load, a login that fails.
\* A login that found it off leaves it off when it fails (registry.load_account,
\* login._preserve_existing_login, store.restore).
DisabledStays ==
  [][IsOff /\ row' # None /\ ~ IsOff' =>
       \/ Switch("new")
       \/ \E p \in Loaders : Mark(p) /\ ~ rec[p].off
       \/ \E p \in Changers :
            \/ ImportRow(p)
            \/ SetOk(p)
            \/ Crash(p) /\ Off(prev[p])
            \/ (Verify(p) \/ Failed(p) \/ Restore(p)) /\ ~ Off(prev[p])]_vars
=============================================================================
