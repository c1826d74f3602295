------------------------------ MODULE PlanStore ------------------------------
(***************************************************************************)
(* The plans table and the transactions PlanStore runs on it (plans.py),   *)
(* executed by several processes that share one SQLite file.  Every write  *)
(* runs inside `immediate` (db.py): BEGIN IMMEDIATE takes the file's one   *)
(* write lock, the body reads and decides, COMMIT publishes the writes and *)
(* an exception rolls them back.  The three phases are separate steps, so  *)
(* that what keeps two processes apart is the lock and not the model.      *)
(*                                                                         *)
(* Not modelled here: the encoding of the body, `get` and `list` (reads),  *)
(* and what an applier does between claim and finish (module ApplyPlan).   *)
(***************************************************************************)
EXTENDS Naturals, FiniteSets

CONSTANTS
  Clients,     \* processes with the state database open
  Plans,       \* plan ids that may be drawn; they never collide (token_hex(16))
  Ttl,         \* plans.ttl_seconds
  MaxPending,  \* plans.max_pending
  MaxNow,      \* bound on the wall clock
  None         \* no client, no plan

ASSUME PlanStoreAssumption ==
  /\ Ttl \in Nat
  /\ MaxPending \in Nat
  /\ MaxNow \in Nat
  /\ IsFiniteSet(Plans)
  /\ None \notin Clients
  /\ None \notin Plans

VARIABLES
  state,    \* plans.state by plan id; "absent" is a row not inserted yet
  expires,  \* plans.expires_at
  now,      \* the wall clock
  writer,   \* the client inside BEGIN IMMEDIATE, or None
  granted,  \* when that lock was last granted
  pc,       \* where each client stands in its current call
  call,     \* the call it is making
  verdict,  \* what the body of its transaction decided to write
  held      \* the plan a successful claim returned to it, or None

vars == <<state, expires, now, writer, granted, pc, call, verdict, held>>

Open     == {"pending", "applying"}
Terminal == {"applied", "failed", "unknown_outcome", "rejected", "expired"}
PlanState == Open \cup Terminal
Results  == {"applied", "failed", "unknown_outcome"}

Kinds   == {"create", "claim", "finish", "reject", "expire_stale"}
Calls   == [kind : Kinds, plan : Plans \cup {None}, stamp : Nat,
            result : Results]
NoCall  == [kind |-> "none"]
Verdicts == {"none", "refused"} \cup PlanState

TypeOK ==
  /\ state \in [Plans -> PlanState \cup {"absent"}]
  /\ expires \in [Plans -> Nat]
  /\ now \in Nat
  /\ writer \in Clients \cup {None}
  /\ granted \in Nat
  /\ pc \in [Clients -> {"idle", "waiting", "locked", "decided"}]
  /\ call \in [Clients -> Calls \cup {NoCall}]
  /\ verdict \in [Clients -> Verdicts]
  /\ held \in [Clients -> Plans \cup {None}]

-----------------------------------------------------------------------------
Init ==
  /\ state = [p \in Plans |-> "absent"]
  /\ expires = [p \in Plans |-> 0]
  /\ now = 0
  /\ writer = None
  /\ granted = 0
  /\ pc = [c \in Clients |-> "idle"]
  /\ call = [c \in Clients |-> NoCall]
  /\ verdict = [c \in Clients |-> "none"]
  /\ held = [c \in Clients |-> None]

Tick ==
  /\ now < MaxNow
  /\ now' = now + 1
  /\ UNCHANGED <<state, expires, writer, granted, pc, call, verdict, held>>

\* A method is entered.  Only create reads the clock here, before the wait for
\* the lock; the others read it again inside the transaction (Begin).
Enter(c, k, p, r) ==
  /\ pc[c] = "idle"
  /\ pc' = [pc EXCEPT ![c] = "waiting"]
  /\ call' = [call EXCEPT ![c] = [kind |-> k, plan |-> p, stamp |-> now, result |-> r]]
  /\ UNCHANGED <<state, expires, now, writer, granted, verdict, held>>

\* A fresh id: no row has it and nobody else is about to insert it.
Create(c, p) ==
  /\ state[p] = "absent"
  /\ \A d \in Clients : call[d] # NoCall => call[d].kind # "create" \/ call[d].plan # p
  /\ Enter(c, "create", p, "failed")

\* The command line claims any id it is given, while it holds no plan.
Claim(c, p)    == held[c] = None /\ Enter(c, "claim", p, "failed")
Reject(c, p)   == held[c] = None /\ Enter(c, "reject", p, "failed")
ExpireStale(c) == held[c] = None /\ Enter(c, "expire_stale", None, "failed")

\* The applier closes the plan it claimed; once closed as applied, the only
\* further close it makes is to unknown_outcome (apply.py, _settle_unknown).
Finish(c, r) ==
  /\ held[c] # None
  /\ \/ state[held[c]] = "applying"
     \/ state[held[c]] = "applied" /\ r = "unknown_outcome"
  /\ Enter(c, "finish", held[c], r)

\* BEGIN IMMEDIATE: waits for the write lock.  (Variation: BEGIN, which takes no
\* lock until the first write.)
Deferred == TRUE
LockFree == writer = None

\* claim and expire_stale read the clock after the lock is held.  (Variation:
\* claim reads it before, like create.)
ExpiryReadsClock(k) == k = "expire_stale"
ReadsClockUnderLock(k) == k \in {"claim", "expire_stale"}

Begin(c) ==
  /\ pc[c] = "waiting"
  /\ LockFree
  /\ writer' = c
  /\ granted' = now
  /\ pc' = [pc EXCEPT ![c] = "locked"]
  /\ call' = IF ReadsClockUnderLock(call[c].kind)
             THEN [call EXCEPT ![c].stamp = now]
             ELSE call
  /\ UNCHANGED <<state, expires, now, verdict, held>>

\* The lock was not granted within the 30 s busy timeout.
BeginTimesOut(c) ==
  /\ pc[c] = "waiting"
  /\ ~LockFree
  /\ pc' = [pc EXCEPT ![c] = "idle"]
  /\ call' = [call EXCEPT ![c] = NoCall]
  /\ UNCHANGED <<state, expires, now, writer, granted, verdict, held>>

\* The condition every write to an undecided plan repeats, in the check and in
\* the WHERE of the UPDATE.  (Variation: a plan being applied passes as well.)
IsOpen(p) == state[p] \in Open
IsPending(p) == state[p] = "pending"

\* UPDATE plans SET state = expired WHERE state = pending AND expires_at <= t
Stale(p, t)    == IsPending(p) /\ expires[p] <= t
AfterExpiry(t) == [p \in Plans |-> IF Stale(p, t) THEN "expired" ELSE state[p]]

PendingAfterExpiry(t) == {p \in Plans : AfterExpiry(t)[p] = "pending"}

CreateVerdict(t) ==
  IF Cardinality(PendingAfterExpiry(t)) >= MaxPending THEN "refused" ELSE "pending"

ClaimVerdict(p, t) ==
  IF ~IsPending(p) THEN "refused"
  ELSE IF t >= expires[p] THEN "expired" ELSE "applying"

\* (Variation: reject does not look at the state.)
RejectUnchecked(p) == "rejected"
RejectVerdict(p) == IF IsPending(p) THEN "rejected" ELSE "refused"

Decision(k) ==
  CASE k.kind = "create"       -> CreateVerdict(k.stamp)
    [] k.kind = "claim"        -> ClaimVerdict(k.plan, k.stamp)
    [] k.kind = "reject"       -> RejectVerdict(k.plan)
    [] k.kind = "expire_stale" -> "expired"
    [] k.kind = "finish"       -> k.result

Decide(c) ==
  /\ pc[c] = "locked"
  /\ pc' = [pc EXCEPT ![c] = "decided"]
  /\ verdict' = [verdict EXCEPT ![c] = Decision(call[c])]
  /\ UNCHANGED <<state, expires, now, writer, granted, call, held>>

\* COMMIT or ROLLBACK, and the return to the caller.
Return(c) ==
  /\ writer' = IF writer = c THEN None ELSE writer
  /\ pc' = [pc EXCEPT ![c] = "idle"]
  /\ call' = [call EXCEPT ![c] = NoCall]
  /\ verdict' = [verdict EXCEPT ![c] = "none"]
  /\ UNCHANGED <<now, granted>>

\* A refusal raises out of the transaction: everything it wrote is undone,
\* create's retirement of stale plans included.
Rollback(c) ==
  /\ pc[c] = "decided"
  /\ verdict[c] = "refused"
  /\ Return(c)
  /\ UNCHANGED <<state, expires, held>>

CommitCreate(c) ==
  /\ pc[c] = "decided" /\ call[c].kind = "create" /\ verdict[c] = "pending"
  /\ state' = [AfterExpiry(call[c].stamp) EXCEPT ![call[c].plan] = "pending"]
  /\ expires' = [expires EXCEPT ![call[c].plan] = call[c].stamp + Ttl]
  /\ Return(c)
  /\ UNCHANGED held

CommitClaim(c) ==
  /\ pc[c] = "decided" /\ call[c].kind = "claim" /\ verdict[c] = "applying"
  /\ IsPending(call[c].plan)
  /\ state' = [state EXCEPT ![call[c].plan] = "applying"]
  /\ held' = [held EXCEPT ![c] = call[c].plan]
  /\ Return(c)
  /\ UNCHANGED expires

\* claim on a plan past its TTL commits the mark and raises afterwards;
\* reject and finish write the one row they decided about.  (Variation: a refusal
\* does not stop the write.)
CommitAnyRow(c) ==
  /\ pc[c] = "decided"
  /\ call[c].kind \in {"reject", "finish"}
  /\ state' = [state EXCEPT ![call[c].plan] = verdict[c]]
  /\ Return(c)
  /\ UNCHANGED <<expires, held>>

CommitRow(c) ==
  /\ pc[c] = "decided"
  /\ \/ call[c].kind = "claim" /\ verdict[c] = "expired"
     \/ call[c].kind \in {"reject", "finish"} /\ verdict[c] # "refused"
  /\ state' = [state EXCEPT ![call[c].plan] = verdict[c]]
  /\ Return(c)
  /\ UNCHANGED <<expires, held>>

CommitExpireStale(c) ==
  /\ pc[c] = "decided" /\ call[c].kind = "expire_stale"
  /\ state' = AfterExpiry(call[c].stamp)
  /\ Return(c)
  /\ UNCHANGED <<expires, held>>

\* The process dies: SQLite rolls its transaction back and frees the lock; the
\* row it had claimed stays as it is.
Crash(c) ==
  /\ pc[c] # "idle" \/ held[c] # None
  /\ Return(c)
  /\ held' = [held EXCEPT ![c] = None]
  /\ UNCHANGED <<state, expires>>

Step(c) ==
  \/ \E p \in Plans : Create(c, p) \/ Claim(c, p) \/ Reject(c, p)
  \/ ExpireStale(c)
  \/ \E r \in Results : Finish(c, r)
  \/ Begin(c) \/ BeginTimesOut(c) \/ Decide(c)
  \/ Rollback(c) \/ CommitCreate(c) \/ CommitClaim(c) \/ CommitRow(c) \/ CommitExpireStale(c)
  \/ Crash(c)

Next == Tick \/ \E c \in Clients : Step(c)

Spec == Init /\ [][Next]_vars

-----------------------------------------------------------------------------
\* The review queue never holds more than max_pending plans, however many
\* processes create plans at once: the count and the INSERT are under one lock.
PendingWithinQuota == Cardinality({p \in Plans : state[p] = "pending"}) <= MaxPending

\* claim hands a plan to one process only.
OneClaimant == \A c, d \in Clients : held[c] # None /\ held[c] = held[d] => c = d

\* The edges of the life of a plan.  Nothing leaves rejected, expired, failed
\* or unknown_outcome, so what a person declined or let lapse is never applied.
Moves ==
  {<<"absent", "pending">>,
   <<"pending", "applying">>, <<"pending", "rejected">>, <<"pending", "expired">>,
   <<"applying", "applied">>, <<"applying", "failed">>, <<"applying", "unknown_outcome">>,
   <<"applied", "unknown_outcome">>}

LegalMoves ==
  [][\A p \in Plans : state'[p] # state[p] => <<state[p], state'[p]>> \in Moves]_vars

\* A plan whose TTL had run out by the time the write lock was granted is never
\* claimed, however long the process waited for the lock.
ClaimedInTime ==
  [][\A p \in Plans : state[p] = "pending" /\ state'[p] = "applying"
                         => granted < expires[p]]_vars
=============================================================================
