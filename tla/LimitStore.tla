------------------------------ MODULE LimitStore ------------------------------
(***************************************************************************)
(* The rolling-window rate limits (limits.py): rows of limit_events, and   *)
(* the reserve / commit / release / prune that several processes run on    *)
(* them at once.  reserve reads the clock, waits for SQLite's write lock,  *)
(* counts, and inserts; those are separate steps here.                     *)
(*                                                                         *)
(* The clock is time.time(): it may be set back or forward at any moment,  *)
(* and the value a reserve works with may be old by the time it inserts.   *)
(***************************************************************************)
EXTENDS Integers, FiniteSets

CONSTANTS
  Clients, Accounts, Targets,
  Demands,           \* the actions callers ask a slot for: kind, account, target
  Window,            \* limits.window_seconds
  PruneWindows,      \* how many windows of history prune keeps: 24 in the code
  SendsPerAccount, SendsPerTarget, SendsPerFleet, JoinsPerAccount, AdminOpsPerAccount,
  MaxNow,            \* bound on the clock
  MaxEvents,         \* bound on the number of reservations ever made
  None

Kinds == {"send", "join", "admin"}

ASSUME LimitStoreAssumption ==
  /\ Demands \subseteq [kind : Kinds, account : Accounts, target : Targets]
  /\ Window \in Nat /\ PruneWindows \in Nat /\ MaxNow \in Nat /\ MaxEvents \in Nat
  /\ {SendsPerAccount, SendsPerTarget, SendsPerFleet} \subseteq Int
  /\ {JoinsPerAccount, AdminOpsPerAccount} \subseteq Int
  /\ None \notin Clients

VARIABLES
  now,        \* the wall clock
  rows,       \* limit_events: the slots taken
  committed,  \* ids of the rows whose committed column is 1
  lastId,     \* AUTOINCREMENT
  writer,     \* the client inside BEGIN IMMEDIATE, or None
  pc,
  request,    \* what each client asks a slot for, and the clock it read
  slot        \* the id of the reservation each client holds, 0 for none

vars == <<now, rows, committed, lastId, writer, pc, request, slot>>

Times == 0 .. MaxNow
Requests == [kind : Kinds, account : Accounts, target : Targets, at : Times]
Events   == [id : Nat, kind : Kinds, account : Accounts, target : Targets, at : Times]
NoRequest == [kind |-> "none"]

TypeOK ==
  /\ now \in Times
  /\ rows \in SUBSET Events
  /\ committed \in SUBSET Nat
  /\ lastId \in Nat
  /\ writer \in Clients \cup {None}
  /\ pc \in [Clients -> {"idle", "waiting", "locked", "fits", "holding"}]
  /\ request \in [Clients -> Requests \cup {NoRequest}]
  /\ slot \in [Clients -> Nat]

-----------------------------------------------------------------------------
\* Every ceiling an action of kind k is subject to, with the columns it counts by.
Ceilings(k) ==
  CASE k = "send"  -> {[limit |-> SendsPerAccount, scope |-> {"account"}],
                       [limit |-> SendsPerTarget,  scope |-> {"account", "target"}],
                       [limit |-> SendsPerFleet,   scope |-> {}]}
    [] k = "join"  -> {[limit |-> JoinsPerAccount, scope |-> {"account"}]}
    [] k = "admin" -> {[limit |-> AdminOpsPerAccount, scope |-> {"account"}]}

\* Rows that count against r under the given scope.
InScope(e, r, scope) ==
  /\ e.kind = r.kind
  /\ "account" \in scope => e.account = r.account
  /\ "target" \in scope => e.target = r.target

Counted(r, scope, since) == {e \in rows : InScope(e, r, scope) /\ e.at >= since}

\* A ceiling of zero or less switches the action off.
Fits(r) ==
  \A ceiling \in Ceilings(r.kind) :
    /\ ceiling.limit > 0
    /\ Cardinality(Counted(r, ceiling.scope, r.at - Window)) < ceiling.limit

-----------------------------------------------------------------------------
Init ==
  /\ now = 0
  /\ rows = {}
  /\ committed = {}
  /\ lastId = 0
  /\ writer = None
  /\ pc = [c \in Clients |-> "idle"]
  /\ request = [c \in Clients |-> NoRequest]
  /\ slot = [c \in Clients |-> 0]

SetClock(t) ==
  /\ now' = t
  /\ UNCHANGED <<rows, committed, lastId, writer, pc, request, slot>>

\* reserve: the clock is read before BEGIN IMMEDIATE.
Reserve(c, d) ==
  /\ pc[c] = "idle"
  /\ pc' = [pc EXCEPT ![c] = "waiting"]
  /\ request' = [request EXCEPT ![c] = [kind |-> d.kind, account |-> d.account,
                                       target |-> d.target, at |-> now]]
  /\ UNCHANGED <<now, rows, committed, lastId, writer, slot>>

\* BEGIN IMMEDIATE.  (Variation: BEGIN, which takes no lock until it writes.)
Deferred == TRUE
LockFree == writer = None

Begin(c) ==
  /\ pc[c] = "waiting"
  /\ LockFree
  /\ writer' = c
  /\ pc' = [pc EXCEPT ![c] = "locked"]
  /\ UNCHANGED <<now, rows, committed, lastId, request, slot>>

\* The loop over the ceilings found room under each of them.
Count(c) ==
  /\ pc[c] = "locked"
  /\ Fits(request[c])
  /\ pc' = [pc EXCEPT ![c] = "fits"]
  /\ UNCHANGED <<now, rows, committed, lastId, writer, request, slot>>

\* The row INSERTed is dated when reserve was entered.  (Variation: it is dated
\* with the start of the window.)
RowAtSince(c) ==
  [id |-> lastId + 1, kind |-> request[c].kind, account |-> request[c].account,
   target |-> request[c].target, at |-> request[c].at - Window]

NewRow(c) ==
  [id |-> lastId + 1, kind |-> request[c].kind, account |-> request[c].account,
   target |-> request[c].target, at |-> request[c].at]

Insert(c) ==
  /\ pc[c] = "fits"
  /\ lastId < MaxEvents
  /\ rows' = rows \cup {NewRow(c)}
  /\ lastId' = lastId + 1
  /\ slot' = [slot EXCEPT ![c] = lastId + 1]
  /\ writer' = None
  /\ pc' = [pc EXCEPT ![c] = "holding"]
  /\ request' = [request EXCEPT ![c] = NoRequest]
  /\ UNCHANGED <<now, committed>>

\* LimitExceeded at the first ceiling that is full: nothing was written, the
\* transaction rolls back and the lock is given back.
Refuse(c) ==
  /\ pc[c] = "locked"
  /\ ~Fits(request[c])
  /\ writer' = None
  /\ pc' = [pc EXCEPT ![c] = "idle"]
  /\ request' = [request EXCEPT ![c] = NoRequest]
  /\ UNCHANGED <<now, rows, committed, lastId, slot>>

\* commit and release are one statement each inside their own transaction; they
\* wait for the lock like everyone else.  The holder may call either, repeatedly.
Commit(c) ==
  /\ pc[c] = "holding"
  /\ LockFree
  /\ committed' = committed \cup ({slot[c]} \cap {e.id : e \in rows})
  /\ UNCHANGED <<now, rows, lastId, writer, pc, request, slot>>

\* DELETE ... WHERE id = ? AND committed = 0.  (Variation: WHERE id = ?)
OwnRow(e, c)     == e.id = slot[c]
Refundable(e, c) == e.id = slot[c] /\ e.id \notin committed

Release(c) ==
  /\ pc[c] = "holding"
  /\ LockFree
  /\ rows' = {e \in rows : ~Refundable(e, c)}
  /\ UNCHANGED <<now, committed, lastId, writer, pc, request, slot>>

\* The caller lets go of the reservation, or its process dies, at any step; an
\* open transaction is rolled back, a row already inserted stays.
Drop(c) ==
  /\ pc[c] # "idle"
  /\ writer' = IF writer = c THEN None ELSE writer
  /\ pc' = [pc EXCEPT ![c] = "idle"]
  /\ request' = [request EXCEPT ![c] = NoRequest]
  /\ slot' = [slot EXCEPT ![c] = 0]
  /\ UNCHANGED <<now, rows, committed, lastId>>

\* Housekeeping, at its default horizon.
Horizon == now - PruneWindows * Window

Prune ==
  /\ LockFree
  /\ rows' = {e \in rows : e.at >= Horizon}
  /\ UNCHANGED <<now, committed, lastId, writer, pc, request, slot>>

Step(c) ==
  \/ \E d \in Demands : Reserve(c, d)
  \/ Begin(c) \/ Count(c) \/ Insert(c) \/ Refuse(c)
  \/ Commit(c) \/ Release(c) \/ Drop(c)

Next ==
  \/ \E t \in Times : SetClock(t)
  \/ \E c \in Clients : Step(c)
  \/ Prune

Spec == Init /\ [][Next]_vars

-----------------------------------------------------------------------------
\* No stretch of Window seconds ever holds more slots of one scope than its
\* ceiling allows: not under concurrent reservations, not when a reserve works
\* with a clock reading that is stale, and not when the clock is set back.
\* The two ends count as inside, as they do in the query (created_at >= since).
TakenIn(d, scope, s) == {e \in rows : InScope(e, d, scope) /\ e.at \in s .. s + Window}

WindowCap ==
  \A d \in Demands : \A ceiling \in Ceilings(d.kind) : \A s \in Times :
    Cardinality(TakenIn(d, ceiling.scope, s))
      <= IF ceiling.limit > 0 THEN ceiling.limit ELSE 0

\* A slot marked as used is never refunded: no later release, in whatever order
\* the holder calls commit and release, brings it back into the budget.  Only
\* pruning removes it, once it is past the horizon.
UsedStaysUsed ==
  [][\A e \in rows : e.id \in committed /\ e \notin rows' => e.at < Horizon]_vars
=============================================================================
