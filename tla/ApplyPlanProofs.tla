--------------------------- MODULE ApplyPlanProofs ---------------------------
(***************************************************************************)
(* Proofs about ApplyPlan, for every set of processes, accounts and plans, *)
(* every ceiling, window and clock, and every choice of faults: its types, *)
(* that it keeps PlanContract, and what its records say of an effect.      *)
(* What is promised about effects does not hold of chat.create, whose      *)
(* second request may be refused when the first took effect; NoCreate      *)
(* excludes it wherever it matters.                                        *)
(***************************************************************************)
EXTENDS ApplyPlan, FiniteSetTheorems, TLAPS

NoCreate == \A p \in Plans : Shape[p] # "create"

\* The steps before the request leaves, and those that need something on record.
Early    == {"open", "verify", "reserve", "attempt", "record", "call"}
SlotHeld == {"attempt", "record", "call", "rpc", "second"}
Audited  == {"record", "call", "rpc", "second"}
Recorded == {"call", "rpc", "second"}
Late     == {"leave"} \cup Closing

Unclaimed == {"absent", "pending", "rejected", "expired"}

-----------------------------------------------------------------------------
(* What is true of a plan.                                                 *)

\* Nothing was ever done about a plan nobody claimed.
Untouched(p) == state[p] \in Unclaimed => p \notin sent /\ slot[p] = "none" /\ audit[p] = {}

\* One request per plan: what is on the wire has no effect and no answer yet,
\* and the answer tells whether there was an effect.
Wire(p) ==
  /\ p \in flight => /\ p \in sent /\ effects[p] = 0 /\ answer[p] = "none"
                     /\ state[p] \in {"applying", "unknown_outcome"}
  /\ p \notin sent => effects[p] = 0 /\ answer[p] = "none"
  /\ effects[p] \in {0, 1}
  /\ answer[p] = "ok" => effects[p] = 1
  /\ answer[p] \in {"refused", "privacy"} => effects[p] = 0

\* EffectIsOnRecord and AuditTellsTruth, of one plan.
EffectRecorded(p) ==
  MayLand(p) => SlotTaken(p) /\ "attempt" \in audit[p] /\ (DigestOf[p] # None => p \in inLedger)
AuditTrue(p) ==
  /\ "applied" \in audit[p] => effects[p] = 1 \/ NothingToDo(p)
  /\ "failed" \in audit[p] => ~MayLand(p)

PlanOk(p) == Untouched(p) /\ Wire(p) /\ EffectRecorded(p) /\ AuditTrue(p)

-----------------------------------------------------------------------------
(* What is true of an applier and of its plan.                             *)

HasPlan(a) == pc[a] # "idle" => job[a] \in Plans

\* An applier has a claimed plan while it runs, and starts each run afresh.
JobShape(a) ==
  /\ HasPlan(a)
  /\ pc[a] = "idle" => job[a] = None /\ phase[a] = "before" /\ exc[a] = "none"
  /\ pc[a] # "idle" => state[job[a]] \notin Unclaimed

\* Until the request has been answered the plan is being applied, nothing has
\* been raised, and nothing has been said of how it ended.
Working(a) ==
  pc[a] \in Early \cup {"rpc", "second"} =>
    /\ state[job[a]] = "applying"
    /\ exc[a] = "none"
    /\ audit[job[a]] \subseteq {"attempt"}
    /\ phase[a] = IF pc[a] \in {"call", "rpc", "second"} THEN "started" ELSE "before"

\* The request leaves from call; the second one follows an effect of the first.
Requesting(a) ==
  /\ pc[a] \in Early => job[a] \notin sent
  /\ phase[a] = "before" /\ pc[a] # "idle" => job[a] \notin sent
  /\ pc[a] = "second" => effects[job[a]] = 1 /\ Shape[job[a]] \in {"kick", "create"}

\* What must be on record before the request leaves stays there while it runs.
OnRecord(a) ==
  /\ pc[a] \in SlotHeld => slot[job[a]] = "reserved"
  /\ pc[a] \in Audited => "attempt" \in audit[job[a]]
  /\ pc[a] \in Recorded /\ DigestOf[job[a]] # None => job[a] \in inLedger

\* The exceptions that are answered with a refund, or with "failed".
NoTrace(e, ph) ==
  \/ e \in {"policy", "privacy", "noeffect"}
  \/ e \in {"error", "interrupt"} /\ ph = "before"

\* How it ended: an exception that promises there was no effect is right, no
\* exception at all means there was one, or nothing to ask for.
Ended(a) ==
  /\ pc[a] \in Late =>
       /\ NoTrace(exc[a], phase[a]) => ~MayLand(job[a])
       /\ exc[a] = "none" => /\ phase[a] = "completed"
                             /\ effects[job[a]] = 1 \/ NothingToDo(job[a])
  /\ pc[a] \in {"forget", "release"} => NoTrace(exc[a], phase[a])
  /\ pc[a] = "settle" => exc[a] = "none"

\* The state of the plan while it is being closed: settling an applied plan may
\* fail and send the applier back to close it as unknown.
ClosingState(a) ==
  /\ pc[a] = "leave" => state[job[a]] = "applying"
  /\ pc[a] \in {"audit", "finish"} =>
       \/ state[job[a]] = "applying"
       \/ state[job[a]] = "applied" /\ exc[a] # "none" /\ ~NoTrace(exc[a], phase[a])
  /\ pc[a] \in {"commit", "settle"} /\ exc[a] = "none" => state[job[a]] = "applied"

ApplierOk(a) ==
  JobShape(a) /\ Working(a) /\ Requesting(a) /\ OnRecord(a) /\ Ended(a) /\ ClosingState(a)

\* No plan is being applied twice.
OneJob == \A a, b \in Appliers : job[a] # None /\ job[a] = job[b] => a = b

Inv ==
  /\ TypeOK
  /\ OneJob
  /\ \A p \in Plans : PlanOk(p)
  /\ \A a \in Appliers : ApplierOk(a)

-----------------------------------------------------------------------------
\* What the except clauses make of an exception.
LEMMA VerdictMeaning ==
  ASSUME NEW e \in Exceptions \cup {"none"}, NEW ph \in {"before", "started", "completed"}
  PROVE  /\ Verdict(e, ph) \in {"applied", "refused", "privacy", "failed", "unknown"}
         /\ Verdict(e, ph) = "applied" <=> e = "none"
         /\ Verdict(e, ph) \in {"refused", "privacy", "failed"} <=> NoTrace(e, ph)
BY DEF Exceptions, Verdict, MayHaveLeft, NoTrace

\* Which lines an ending writes: a success or a failure only where there was an
\* attempt, and each for its own verdicts.
LEMMA LinesMeaning ==
  ASSUME NEW v \in {"applied", "refused", "privacy", "failed", "unknown"}, NEW lines
  PROVE  /\ AuditLines(v, "attempt" \in lines) \subseteq {"refused", "applied", "failed", "unknown"}
         /\ "applied" \in AuditLines(v, "attempt" \in lines) => v = "applied"
         /\ "failed" \in AuditLines(v, "attempt" \in lines) => v \in {"refused", "privacy", "failed"}
BY DEF AuditLines

\* The steps of an applier keep the types.
LEMMA StepTypeOK ==
  ASSUME TypeOK, NEW a \in Appliers, HasPlan(a), Step(a)
  PROVE  TypeOK'
<1> USE DEF TypeOK, Goto, db, wire, local, Labels, Guarded, Closing, Exceptions
<1>v. VerdictOf(a) \in {"applied", "refused", "privacy", "failed", "unknown"}
  BY VerdictMeaning DEF VerdictOf
<1>j. pc[a] # "idle" => job[a] \in Plans
  BY DEF HasPlan
<1>1. CASE Open(a)
  BY <1>1, <1>j DEF Open
<1>2. CASE Locked(a)
  BY <1>2, <1>j DEF Locked, Throw
<1>3. CASE Verify(a)
  BY <1>3, <1>j DEF Verify
<1>4. CASE Duplicate(a)
  BY <1>4, <1>j DEF Duplicate, Throw
<1>5. CASE Reserve(a)
  BY <1>5, <1>j DEF Reserve
<1>6. CASE LimitExceeded(a)
  BY <1>6, <1>j DEF LimitExceeded, Throw
<1>7. CASE Attempt(a)
  BY <1>7, <1>j DEF Attempt
<1>8. CASE Record(a)
  BY <1>8, <1>j DEF Record
<1>9. CASE Send(a)
  BY <1>9, <1>j DEF Send
<1>10. CASE Unneeded(a) \/ Answered(a)
  BY <1>10, <1>j DEF Unneeded, Answered, Returned
<1>11. CASE AnsweredNo(a)
  BY <1>11, <1>j DEF AnsweredNo, Throw
<1>12. CASE SecondOk(a)
  BY <1>12, <1>j DEF SecondOk, Returned
<1>13. CASE SecondRefused(a)
  BY <1>13, <1>j DEF SecondRefused, Throw
<1>14. CASE TimesOut(a)
  BY <1>14, <1>j DEF TimesOut, Throw
<1>15. CASE Leave(a)
  BY <1>15, <1>j DEF Leave
<1>16. CASE Audit(a)
  <2> DEFINE lines == AuditLines(VerdictOf(a), "attempt" \in audit[job[a]])
  <2>1. lines \subseteq {"refused", "applied", "failed", "unknown"}
    BY <1>v, LinesMeaning
  <2>2. audit' = [audit EXCEPT ![job[a]] = audit[job[a]] \cup lines]
    BY <1>16, <1>j DEF Audit
  <2> HIDE DEF lines
  <2>3. audit' \in [Plans -> SUBSET {"attempt", "refused", "applied", "failed", "unknown"}]
    BY <1>j, <2>1, <2>2
  <2>4. /\ pc' \in [Appliers -> Labels]
        /\ UNCHANGED <<now, state, slot, inLedger, sentAt, begun, session, wire, job, phase, exc>>
    BY <1>16 DEF Audit
  <2> QED
    BY <2>3, <2>4
<1>17. CASE Finish(a)
  BY <1>17, <1>v, <1>j DEF Finish, FinalState, PlanState
<1>18. CASE Forget(a)
  BY <1>18, <1>j DEF Forget
<1>19. CASE Release(a)
  BY <1>19, <1>j DEF Release, Home
<1>20. CASE Commit(a)
  BY <1>20, <1>v, <1>j DEF Commit, Home
<1>21. CASE Settle(a)
  BY <1>21, <1>j DEF Settle, Home
<1> QED
  BY <1>1, <1>2, <1>3, <1>4, <1>5, <1>6, <1>7, <1>8, <1>9, <1>10, <1>11,
     <1>12, <1>13, <1>14, <1>15, <1>16, <1>17, <1>18, <1>19, <1>20, <1>21 DEF Step

\* Nothing about the plan p changes, nothing about the applier b.
PlanStays(p) ==
  /\ state'[p] = state[p] /\ slot'[p] = slot[p] /\ audit'[p] = audit[p]
  /\ effects'[p] = effects[p] /\ answer'[p] = answer[p]
  /\ p \in inLedger' <=> p \in inLedger
  /\ p \in flight' <=> p \in flight
  /\ p \in sent' <=> p \in sent

ApplierStays(b) == pc'[b] = pc[b] /\ job'[b] = job[b] /\ phase'[b] = phase[b] /\ exc'[b] = exc[b]

\* The invariant of a plan, or of an applier, is about that plan and that
\* applier alone.
LEMMA PlanUndisturbed ==
  ASSUME NEW p, PlanOk(p), PlanStays(p)
  PROVE  PlanOk(p)'
BY DEF PlanOk, PlanStays, Untouched, Wire, EffectRecorded, AuditTrue, NothingToDo, MayLand, SlotTaken,
   Unclaimed

\* The same of an applier.
LEMMA ApplierUndisturbed ==
  ASSUME NEW b, ApplierOk(b), ApplierStays(b), job[b] # None => PlanStays(job[b]),
         pc[b] # "idle" => job[b] # None
  PROVE  ApplierOk(b)'
<1> USE DEF ApplierStays
<1>1. CASE job[b] = None
  BY <1>1 DEF ApplierOk, JobShape, HasPlan, Working, Requesting, OnRecord, Ended, ClosingState,
     Early, SlotHeld, Audited, Recorded, Late, Closing
<1>2. CASE job[b] # None
  BY <1>2 DEF ApplierOk, JobShape, HasPlan, Working, Requesting, OnRecord, Ended, ClosingState,
     NothingToDo, PlanStays, MayLand
<1> QED
  BY <1>1, <1>2

\* A step of an applier concerns itself and its plan.
LEMMA StepFrame ==
  ASSUME TypeOK, NEW a \in Appliers, HasPlan(a), Step(a) \/ GoesWrong(a)
  PROVE  /\ pc[a] # "idle"
         /\ job'[a] \in {job[a], None}
         /\ \A b \in Appliers \ {a} : ApplierStays(b)
         /\ \A p \in Plans \ {job[a]} : PlanStays(p)
<1> USE DEF TypeOK, Goto, db, wire, local, Guarded, Closing, PlanStays, ApplierStays
<1>j. pc[a] # "idle" => job[a] \in Plans
  BY DEF HasPlan
<1>1. CASE Open(a)
  BY <1>1, <1>j DEF Open
<1>2. CASE Locked(a)
  BY <1>2, <1>j DEF Locked, Throw
<1>3. CASE Verify(a)
  BY <1>3, <1>j DEF Verify
<1>4. CASE Duplicate(a)
  BY <1>4, <1>j DEF Duplicate, Throw
<1>5. CASE Reserve(a)
  BY <1>5, <1>j DEF Reserve
<1>6. CASE LimitExceeded(a)
  BY <1>6, <1>j DEF LimitExceeded, Throw
<1>7. CASE Attempt(a)
  BY <1>7, <1>j DEF Attempt
<1>8. CASE Record(a)
  BY <1>8, <1>j DEF Record
<1>9. CASE Send(a)
  BY <1>9, <1>j DEF Send
<1>10. CASE Unneeded(a) \/ Answered(a)
  BY <1>10, <1>j DEF Unneeded, Answered, Returned
<1>11. CASE AnsweredNo(a)
  BY <1>11, <1>j DEF AnsweredNo, Throw
<1>12. CASE SecondOk(a)
  BY <1>12, <1>j DEF SecondOk, Returned
<1>13. CASE SecondRefused(a)
  BY <1>13, <1>j DEF SecondRefused, Throw
<1>14. CASE TimesOut(a)
  BY <1>14, <1>j DEF TimesOut, Throw
<1>15. CASE Leave(a)
  BY <1>15, <1>j DEF Leave
<1>16. CASE Audit(a)
  BY <1>16, <1>j DEF Audit
<1>17. CASE Finish(a)
  BY <1>17, <1>j DEF Finish
<1>18. CASE Forget(a)
  BY <1>18, <1>j DEF Forget
<1>19. CASE Release(a)
  BY <1>19, <1>j DEF Release, Home
<1>20. CASE Commit(a)
  BY <1>20, <1>j DEF Commit, Home
<1>21. CASE Settle(a)
  BY <1>21, <1>j DEF Settle, Home
<1>22. CASE GoesWrong(a)
  BY <1>22, <1>j DEF GoesWrong, Raise, Abandon, Crash, Throw, Home, RaisesAt
<1> QED
  BY <1>1, <1>2, <1>3, <1>4, <1>5, <1>6, <1>7, <1>8, <1>9, <1>10, <1>11, <1>12, <1>13, <1>14,
     <1>15, <1>16, <1>17, <1>18, <1>19, <1>20, <1>21, <1>22 DEF Step

\* Each step of an applier keeps what is true of it and of its plan.
LEMMA StepOwn ==
  ASSUME NoCreate, TypeOK, NEW a \in Appliers, ApplierOk(a),
         NEW p \in Plans, p = job[a], PlanOk(p), Step(a)
  PROVE  ApplierOk(a)' /\ PlanOk(p)'
<1> USE DEF TypeOK, Goto, db, wire, local, Guarded, Closing, Early, SlotHeld, Audited, Recorded,
   Late, ApplierOk, HasPlan, JobShape, Working, Requesting, OnRecord, Ended, ClosingState,
   Unclaimed, PlanOk, Untouched, Wire, EffectRecorded, AuditTrue, NothingToDo, MayLand, SlotTaken, NoTrace
<1>p. p \in Plans /\ job[a] = p
  OBVIOUS
<1>v. /\ VerdictOf(a) \in {"applied", "refused", "privacy", "failed", "unknown"}
      /\ VerdictOf(a) = "applied" <=> exc[a] = "none"
      /\ VerdictOf(a) \in {"refused", "privacy", "failed"} <=> NoTrace(exc[a], phase[a])
  BY VerdictMeaning DEF VerdictOf
<1>1. CASE Open(a)
  BY <1>1, <1>p DEF Open
<1>2. CASE Locked(a)
  BY <1>2, <1>p DEF Locked, Throw
<1>3. CASE Verify(a)
  BY <1>3, <1>p DEF Verify
<1>4. CASE Duplicate(a)
  BY <1>4, <1>p DEF Duplicate, Throw
<1>5. CASE Reserve(a)
  BY <1>5, <1>p DEF Reserve
<1>6. CASE LimitExceeded(a)
  BY <1>6, <1>p DEF LimitExceeded, Throw
<1>7. CASE Attempt(a)
  BY <1>7, <1>p DEF Attempt
<1>8. CASE Record(a)
  BY <1>8, <1>p DEF Record
<1>9. CASE Send(a)
  BY <1>9, <1>p DEF Send
<1>10. CASE Unneeded(a) \/ Answered(a)
  <2>1. CASE Unneeded(a)
    BY <1>p, <2>1 DEF Unneeded, Returned, NothingToDo
  <2>2. CASE Answered(a)
    BY <1>p, <2>2, ApplyPlanAssumption DEF Answered, Returned, Shapes
  <2> QED
    BY <1>10, <2>1, <2>2
<1>11. CASE AnsweredNo(a)
  BY <1>11, <1>p DEF AnsweredNo, Throw
<1>12. CASE SecondOk(a)
  BY <1>12, <1>p DEF SecondOk, Returned
<1>13. CASE SecondRefused(a)
  BY <1>13, <1>p, ApplyPlanAssumption DEF SecondRefused, Throw, NoCreate, Shapes
<1>14. CASE TimesOut(a)
  BY <1>14, <1>p DEF TimesOut, Throw
<1>15. CASE Leave(a)
  BY <1>15, <1>p DEF Leave
<1>16. CASE Audit(a)
  <2> DEFINE lines == AuditLines(VerdictOf(a), "attempt" \in audit[p])
  <2>1. /\ "applied" \in lines => exc[a] = "none"
        /\ "failed" \in lines => NoTrace(exc[a], phase[a])
    BY <1>v, LinesMeaning
  <2>2. pc[a] = "audit" /\ audit'[p] = audit[p] \cup lines
    BY <1>16, <1>p DEF Audit
  <2> HIDE DEF lines
  <2> QED
    BY <1>16, <1>p, <2>1, <2>2 DEF Audit
<1>17. CASE Finish(a)
  BY <1>17, <1>p, <1>v DEF Finish, FinalState, Refunds
<1>18. CASE Forget(a)
  BY <1>18, <1>p DEF Forget
<1>19. CASE Release(a)
  BY <1>19, <1>p DEF Release, Home
<1>20. CASE Commit(a)
  BY <1>20, <1>p, <1>v DEF Commit, Home
<1>21. CASE Settle(a)
  BY <1>21, <1>p DEF Settle, Home
<1> QED
  BY <1>1, <1>2, <1>3, <1>4, <1>5, <1>6, <1>7, <1>8, <1>9, <1>10, <1>11, <1>12, <1>13, <1>14,
     <1>15, <1>16, <1>17, <1>18, <1>19, <1>20, <1>21 DEF Step

\* So does everything that can go wrong at one.
LEMMA GoesWrongOwn ==
  ASSUME TypeOK, NEW a \in Appliers, ApplierOk(a),
         NEW p \in Plans, p = job[a], PlanOk(p), GoesWrong(a)
  PROVE  ApplierOk(a)' /\ PlanOk(p)'
<1> USE DEF TypeOK, Goto, db, wire, local, Guarded, Closing, Early, SlotHeld, Audited, Recorded,
   Late, ApplierOk, HasPlan, JobShape, Working, Requesting, OnRecord, Ended, ClosingState,
   Unclaimed, PlanOk, Untouched, Wire, EffectRecorded, AuditTrue, NothingToDo, MayLand, SlotTaken, NoTrace
<1>1. ASSUME NEW e \in Exceptions, Raise(a, e)
      PROVE  ApplierOk(a)' /\ PlanOk(p)'
  <2>1. PlanOk(p)'
    BY <1>1 DEF Raise
  <2>2. /\ pc'[a] \in {"leave", "audit"} /\ exc'[a] = e /\ phase'[a] = phase[a] /\ job'[a] = p
        /\ e \in RaisesAt(pc[a]) /\ (pc[a] \in Closing => exc[a] = "none")
        /\ pc[a] \in Closing \/ pc[a] = "open" => pc'[a] = "audit"
        /\ pc[a] # "idle" /\ UNCHANGED <<db, wire>>
    BY <1>1 DEF Raise, RaisesAt, Throw
  <2>3. e # "none"
    BY <1>1 DEF Exceptions
  <2>4. JobShape(a)' /\ Working(a)' /\ Requesting(a)' /\ OnRecord(a)'
    BY <2>2
  <2>5. Ended(a)'
    <3>1. NoTrace(e, phase[a]) => ~ MayLand(p)
      BY <2>2 DEF RaisesAt
    <3> QED
      BY <2>2, <2>3, <3>1
  <2>6. ClosingState(a)'
    BY <2>2, <2>3 DEF RaisesAt
  <2> QED
    BY <2>1, <2>4, <2>5, <2>6
<1>2. CASE Abandon(a) \/ Crash(a)
  BY <1>2 DEF Abandon, Crash, Home
<1> QED
  BY <1>1, <1>2 DEF GoesWrong

\* An exception, an abandoned ending and a crash keep the types.
LEMMA GoesWrongTypeOK ==
  ASSUME TypeOK, NEW a \in Appliers, HasPlan(a), GoesWrong(a)
  PROVE  TypeOK'
<1> USE DEF TypeOK, Goto, db, wire, local, Labels, Guarded, Closing, Exceptions
<1>1. ASSUME NEW e \in Exceptions, Raise(a, e)
      PROVE  TypeOK'
  BY <1>1 DEF Raise, Throw
<1>2. CASE Abandon(a) \/ Crash(a)
  BY <1>2 DEF Abandon, Crash, Home
<1> QED
  BY <1>1, <1>2 DEF GoesWrong

\* Which step writes what.
LEMMA Footprint ==
  ASSUME NEW a \in Appliers, Step(a) \/ GoesWrong(a)
  PROVE  /\ now' = now /\ effects' = effects /\ answer' = answer
         /\ state' = state \/ Finish(a)
         /\ slot' = slot \/ Reserve(a) \/ Release(a) \/ Commit(a)
         /\ begun' = begun \/ Record(a)
         /\ sentAt' = sentAt \/ Record(a) \/ Settle(a)
         /\ (flight' = flight /\ sent' = sent) \/ Send(a)
BY DEF Step, GoesWrong, db, wire, Open, Locked, Verify, Duplicate, Reserve, LimitExceeded,
   Attempt, Record, Send, Unneeded, Answered, AnsweredNo, SecondOk, SecondRefused, TimesOut, Leave, Audit,
   Finish, Forget, Release, Commit, Settle, Raise, Abandon, Crash

\* What changes outside the appliers: the clock, a decision about a pending plan,
\* and Telegram.
Decided(p)  == Create(p) \/ Reject(p) \/ Expire(p)
Surroundings == Tick \/ \E p \in Plans : Decided(p) \/ Telegram(p)

\* They keep the types and leave every applier where it is.
LEMMA SurroundingsFrame ==
  ASSUME TypeOK, Surroundings
  PROVE  /\ TypeOK' /\ \A a \in Appliers : ApplierStays(a)
         /\ UNCHANGED <<slot, sentAt, begun, session, sent>>
<1> DEFINE Goal == /\ TypeOK' /\ \A a \in Appliers : ApplierStays(a)
                   /\ UNCHANGED <<slot, sentAt, begun, session, sent>>
<1> USE ApplyPlanAssumption
    DEF TypeOK, db, wire, local, ApplierStays, PlanState
<1>1. CASE Tick
  BY <1>1 DEF Tick
<1>2. ASSUME NEW p \in Plans, Decided(p)
      PROVE  Goal
  BY <1>2 DEF Decided, Create, Reject, Expire, Decide
<1>3. ASSUME NEW p \in Plans, Telegram(p)
      PROVE  Goal
  BY <1>3 DEF Telegram, Carry, Refuse, Lose, Land
<1> QED
  BY <1>1, <1>2, <1>3 DEF Surroundings

\* A claim keeps the types and concerns one applier and one plan.
LEMMA ClaimFrame ==
  ASSUME TypeOK, NEW a \in Appliers, NEW p \in Plans, Claim(a, p)
  PROVE  /\ TypeOK'
         /\ pc[a] = "idle" /\ job'[a] = p
         /\ \A b \in Appliers \ {a} : ApplierStays(b)
         /\ \A q \in Plans \ {p} : PlanStays(q)
         /\ UNCHANGED <<now, slot, sentAt, begun, flight, effects, sent>>
BY DEF db, TypeOK, Claim, Goto, wire, ApplierStays, PlanStays, Labels, PlanState

-----------------------------------------------------------------------------
\* Nothing has happened yet.
LEMMA InitInv == Init => Inv
BY ApplyPlanAssumption
   DEF Init, Inv, TypeOK, PlanState, Labels, OneJob, PlanOk, Untouched, Wire, EffectRecorded,
      AuditTrue, NothingToDo, MayLand, ApplierOk, JobShape, HasPlan, Working, Requesting, OnRecord, Ended,
      ClosingState, Early, SlotHeld, Audited, Recorded, Late, Closing, Unclaimed

\* The surroundings keep the invariant: no applier's plan is pending, and what is
\* on the wire has not been answered.
LEMMA SurroundingsInv ==
  ASSUME Inv, Surroundings
  PROVE  Inv'
<1>1. TypeOK' /\ \A a \in Appliers : ApplierStays(a)
  BY SurroundingsFrame DEF Inv
<1>2. OneJob'
  BY <1>1 DEF Inv, OneJob, ApplierStays
<1> USE DEF Inv, TypeOK, db, wire, local
<1>3. CASE Tick
  <2>1. (\A p \in Plans : PlanStays(p)) /\ \A a \in Appliers : job[a] # None => job[a] \in Plans
    BY <1>3 DEF Tick, PlanStays
  <2> QED
    BY <1>1, <1>2, <2>1, PlanUndisturbed, ApplierUndisturbed, ApplyPlanAssumption DEF ApplierOk,
       JobShape, HasPlan
<1>4. ASSUME NEW p \in Plans, Decided(p)
      PROVE  Inv'
  <2>1. /\ state[p] \in {"absent", "pending"} /\ state'[p] \in Unclaimed
        /\ \A q \in Plans \ {p} : PlanStays(q)
        /\ slot' = slot /\ audit' = audit /\ effects' = effects /\ answer' = answer
        /\ inLedger' = inLedger /\ flight' = flight /\ sent' = sent
    BY <1>4 DEF Decided, Create, Reject, Expire, Decide, PlanStays, Unclaimed
  <2>2. PlanOk(p)'
    BY <2>1 DEF PlanOk, Untouched, Wire, EffectRecorded, AuditTrue, NothingToDo, MayLand, SlotTaken, Unclaimed
  <2>3. \A a \in Appliers : job[a] # p
    BY <2>1, ApplyPlanAssumption DEF ApplierOk, JobShape, HasPlan, Unclaimed
  <2>4. \A a \in Appliers : ApplierOk(a)'
    BY <1>1, <2>1, <2>3, ApplierUndisturbed, ApplyPlanAssumption DEF ApplierOk, JobShape, HasPlan
  <2> QED
    BY <1>1, <1>2, <2>1, <2>2, <2>4, PlanUndisturbed
<1>5. ASSUME NEW p \in Plans, Telegram(p)
      PROVE  Inv'
  <2>1. /\ p \in flight /\ p \notin flight' /\ effects'[p] \in {0, 1} /\ effects[p] = 0
        /\ answer'[p] = "ok" <=> effects'[p] = 1
        /\ \A q \in Plans \ {p} : PlanStays(q)
        /\ UNCHANGED <<state, slot, audit, inLedger, sent>>
    <3>1. p \in flight /\ effects[p] = 0
      BY <1>5 DEF Telegram, Carry, Refuse, Lose, Land, PlanOk, Wire
    <3> QED
      BY <1>5, <3>1 DEF Telegram, Carry, Refuse, Lose, Land, PlanStays
  <2>2. PlanOk(p)'
    BY <1>1, <2>1 DEF PlanOk, Untouched, Wire, EffectRecorded, AuditTrue, NothingToDo, MayLand, SlotTaken
  <2>3. ASSUME NEW a \in Appliers
        PROVE  ApplierOk(a)'
    <3>1. CASE job[a] = p
      BY <1>1, <2>1, <2>2, <3>1 DEF PlanOk, Wire, ApplierStays, ApplierOk, JobShape, HasPlan,
         Working, Requesting, OnRecord, Ended, ClosingState, NothingToDo, MayLand
    <3>2. CASE job[a] # p
      BY <1>1, <2>1, <3>2, ApplierUndisturbed, ApplyPlanAssumption DEF ApplierOk, JobShape,
         HasPlan
    <3> QED
      BY <3>1, <3>2
  <2> QED
    BY <1>1, <1>2, <2>1, <2>2, <2>3, PlanUndisturbed
<1> QED
  BY <1>3, <1>4, <1>5 DEF Surroundings

\* A claim keeps it: nothing was ever done about a pending plan.
LEMMA ClaimInv ==
  ASSUME Inv, NEW a \in Appliers, NEW p \in Plans, Claim(a, p)
  PROVE  Inv'
<1>1. /\ TypeOK'
      /\ pc[a] = "idle" /\ job'[a] = p
      /\ \A b \in Appliers \ {a} : ApplierStays(b)
      /\ \A q \in Plans \ {p} : PlanStays(q)
  BY ClaimFrame DEF Inv
<1> USE ApplyPlanAssumption DEF Inv
<1>2. state[p] = "pending"
  BY DEF Claim, Claimable
<1>3. \A b \in Appliers : job[b] # p
  BY <1>2 DEF ApplierOk, JobShape, HasPlan, Unclaimed
<1>4. OneJob'
  BY <1>1, <1>3 DEF OneJob, ApplierStays
<1>5. ApplierOk(a)' /\ PlanOk(p)'
  BY <1>1, <1>2 DEF TypeOK, Claim, Goto, wire, PlanOk, Untouched, Wire, EffectRecorded,
     AuditTrue, NothingToDo, MayLand, ApplierOk, JobShape, HasPlan, Working, Requesting, OnRecord, Ended,
     ClosingState, Early, SlotHeld, Audited, Recorded, Late, Closing, Unclaimed
<1>6. \A b \in Appliers \ {a} : ApplierOk(b)'
  BY <1>1, <1>3, ApplierUndisturbed DEF TypeOK, ApplierOk, JobShape, HasPlan
<1> QED
  BY <1>1, <1>4, <1>5, <1>6, PlanUndisturbed

\* So does everything an applier does or suffers.
LEMMA ActInv ==
  ASSUME NoCreate, Inv, NEW a \in Appliers, Step(a) \/ GoesWrong(a)
  PROVE  Inv'
<1> USE ApplyPlanAssumption DEF Inv
<1>1. /\ pc[a] # "idle" /\ job'[a] \in {job[a], None}
      /\ \A b \in Appliers \ {a} : ApplierStays(b)
      /\ \A q \in Plans \ {job[a]} : PlanStays(q)
  BY StepFrame DEF ApplierOk, JobShape
<1>2. PICK p \in Plans : p = job[a]
  BY <1>1 DEF ApplierOk, JobShape, HasPlan
<1>3. TypeOK'
  BY StepTypeOK, GoesWrongTypeOK DEF ApplierOk, JobShape
<1>4. ApplierOk(a)' /\ PlanOk(p)'
  BY <1>2, StepOwn, GoesWrongOwn
<1>5. \A b \in Appliers \ {a} : job[b] # None => job[b] \in Plans \ {p}
  BY <1>2 DEF TypeOK, OneJob
<1>6. \A b \in Appliers \ {a} : ApplierOk(b)'
  BY <1>1, <1>2, <1>5, ApplierUndisturbed DEF ApplierOk, JobShape, HasPlan
<1>7. OneJob'
  BY <1>1, <1>2, <1>5 DEF OneJob, ApplierStays
<1> QED
  BY <1>1, <1>2, <1>3, <1>4, <1>6, <1>7, PlanUndisturbed

\* Every step of the system keeps the invariant.
LEMMA NextInv == NoCreate /\ Inv /\ [Next]_vars => Inv'
<1> SUFFICES ASSUME NoCreate, Inv, [Next]_vars PROVE Inv'
  OBVIOUS
<1>1. CASE Next
  BY <1>1, SurroundingsInv, ClaimInv, ActInv DEF Next, Surroundings, Decided
<1>2. CASE UNCHANGED vars
  <2>1. TypeOK' /\ OneJob'
    BY <1>2 DEF vars, db, wire, local, Inv, TypeOK, OneJob
  <2>2. (\A p \in Plans : PlanStays(p)) /\ \A a \in Appliers : ApplierStays(a)
    BY <1>2 DEF vars, db, wire, local, PlanStays, ApplierStays
  <2> QED
    BY <2>1, <2>2, PlanUndisturbed, ApplierUndisturbed, ApplyPlanAssumption
    DEF Inv, TypeOK, ApplierOk, JobShape, HasPlan
<1> QED
  BY <1>1, <1>2

\* The inductive invariant of the write path (apply.py).
THEOREM InvHolds == ASSUME NoCreate PROVE Spec => []Inv
BY InitInv, NextInv, PTL DEF Spec

\* EffectIsOnRecord (apply.py): whatever dies and whatever is refunded, a request
\* that may take effect has its slot, its attempt line and its ledger row.
THEOREM EffectIsOnRecordHolds == ASSUME NoCreate PROVE Spec => []EffectIsOnRecord
<1>1. Inv => EffectIsOnRecord
  BY DEF Inv, PlanOk, EffectRecorded, EffectIsOnRecord
<1> QED
  BY <1>1, InvHolds, PTL

\* AuditTellsTruth (audit.py): no line of the audit log claims an effect, or the
\* absence of one, wrongly.
THEOREM AuditTellsTruthHolds == ASSUME NoCreate PROVE Spec => []AuditTellsTruth
<1>1. Inv => AuditTellsTruth
  BY DEF Inv, PlanOk, AuditTrue, AuditTellsTruth
<1> QED
  BY <1>1, InvHolds, PTL

-----------------------------------------------------------------------------
(* Types and the session lock, for every shape of plan.                    *)

Holding == TypeOK /\ SessionHeld /\ \A a \in Appliers : HasPlan(a)

\* An applier's step takes the lock only when it is free and gives back only its
\* own.
LEMMA StepSessionHeld ==
  ASSUME Holding, NEW a \in Appliers, Step(a) \/ GoesWrong(a)
  PROVE  SessionHeld'
<1> USE ApplyPlanAssumption
    DEF Holding, TypeOK, HasPlan, SessionHeld, Goto, db, wire, local, Guarded, Closing,
       ApplierStays
<1>f. /\ pc[a] # "idle" /\ \A b \in Appliers \ {a} : ApplierStays(b)
      /\ AccountOf[job[a]] \in Accounts
  BY StepFrame
<1>1. CASE Open(a)
  BY <1>1, <1>f DEF Open, SessionFree
<1>2. CASE Locked(a)
  BY <1>2, <1>f DEF Locked, Throw
<1>3. CASE Verify(a)
  BY <1>3, <1>f DEF Verify
<1>4. CASE Duplicate(a)
  BY <1>4, <1>f DEF Duplicate, Throw
<1>5. CASE Reserve(a)
  BY <1>5, <1>f DEF Reserve
<1>6. CASE LimitExceeded(a)
  BY <1>6, <1>f DEF LimitExceeded, Throw
<1>7. CASE Attempt(a)
  BY <1>7, <1>f DEF Attempt
<1>8. CASE Record(a)
  BY <1>8, <1>f DEF Record
<1>9. CASE Send(a)
  BY <1>9, <1>f DEF Send
<1>10. CASE Unneeded(a) \/ Answered(a)
  BY <1>10, <1>f DEF Unneeded, Answered, Returned
<1>11. CASE AnsweredNo(a)
  BY <1>11, <1>f DEF AnsweredNo, Throw
<1>12. CASE SecondOk(a)
  BY <1>12, <1>f DEF SecondOk, Returned
<1>13. CASE SecondRefused(a)
  BY <1>13, <1>f DEF SecondRefused, Throw
<1>14. CASE TimesOut(a)
  BY <1>14, <1>f DEF TimesOut, Throw
<1>15. CASE Leave(a)
  BY <1>15, <1>f DEF Leave
<1>16. CASE Audit(a)
  BY <1>16, <1>f DEF Audit
<1>17. CASE Finish(a)
  BY <1>17, <1>f DEF Finish
<1>18. CASE Forget(a)
  BY <1>18, <1>f DEF Forget
<1>19. CASE Release(a)
  BY <1>19, <1>f DEF Release, Home
<1>20. CASE Commit(a)
  BY <1>20, <1>f DEF Commit, Home
<1>21. CASE Settle(a)
  BY <1>21, <1>f DEF Settle, Home
<1>22. ASSUME NEW e \in Exceptions, Raise(a, e)
       PROVE  SessionHeld'
  BY <1>22, <1>f DEF Raise, RaisesAt, Throw
<1>23. CASE Abandon(a) \/ Crash(a)
  BY <1>23, <1>f DEF Abandon, Crash, Home
<1> QED
  BY <1>1, <1>2, <1>3, <1>4, <1>5, <1>6, <1>7, <1>8, <1>9, <1>10, <1>11, <1>12, <1>13, <1>14,
     <1>15, <1>16, <1>17, <1>18, <1>19, <1>20, <1>21,
     <1>22, <1>23 DEF Step, GoesWrong

\* Every step keeps the types and the session lock's books.
LEMMA NextHolding == Holding /\ [Next]_vars => Holding'
<1> SUFFICES ASSUME Holding, [Next]_vars PROVE Holding'
  OBVIOUS
<1> USE ApplyPlanAssumption DEF Holding
<1>1. ASSUME NEW a \in Appliers, Step(a) \/ GoesWrong(a)
      PROVE  Holding'
  <2>1. TypeOK' /\ SessionHeld'
    BY <1>1, StepTypeOK, GoesWrongTypeOK, StepSessionHeld
  <2>2. HasPlan(a)'
    <3>1. pc'[a] # "idle" => job'[a] = job[a]
      BY <1>1 DEF TypeOK, Step, GoesWrong, Goto, Throw, Home, Open, Locked, Verify, Duplicate,
         Reserve, LimitExceeded, Attempt, Record, Send, Unneeded, Answered, AnsweredNo, Returned,
         SecondOk, SecondRefused, TimesOut, Leave, Audit, Finish, Forget, Release, Commit,
         Settle, Raise, Abandon, Crash
    <3> QED
      BY <1>1, <3>1, StepFrame DEF HasPlan
  <2>3. \A b \in Appliers \ {a} : HasPlan(b)'
    BY <1>1, StepFrame DEF ApplierStays, HasPlan
  <2> QED
    BY <2>1, <2>2, <2>3
<1>2. ASSUME NEW a \in Appliers, NEW p \in Plans, Claim(a, p)
      PROVE  Holding'
  <2>1. TypeOK' /\ job'[a] = p /\ \A b \in Appliers \ {a} : ApplierStays(b)
    BY <1>2, ClaimFrame
  <2> QED
    BY <1>2, <2>1 DEF TypeOK, HasPlan, SessionHeld, ApplierStays, Claim, Goto, Guarded
<1>3. CASE Surroundings
  <2>1. TypeOK' /\ session' = session /\ \A a \in Appliers : ApplierStays(a)
    BY <1>3, SurroundingsFrame
  <2> QED
    BY <2>1 DEF HasPlan, SessionHeld, ApplierStays
<1>4. CASE UNCHANGED vars
  BY <1>4 DEF vars, db, wire, local, TypeOK, HasPlan, SessionHeld
<1> QED
  BY <1>1, <1>2, <1>3, <1>4 DEF Next, Surroundings, Decided

\* Types and the session lock, together an invariant for every shape of plan.
THEOREM HoldingHolds == Spec => []Holding
<1>1. Init => Holding
  BY ApplyPlanAssumption DEF Init, Holding, TypeOK, PlanState, Labels, SessionHeld, HasPlan,
     Guarded
<1> QED
  BY <1>1, NextHolding, PTL DEF Spec

\* Types of the write path.
THEOREM TypeCorrect == Spec => []TypeOK
<1>1. Holding => TypeOK
  BY DEF Holding
<1> QED
  BY <1>1, HoldingHolds, PTL

\* SessionHeld (accounts/lock.py): an applier talks to Telegram only while it
\* holds the lock of its account, and no lock outlives its holder's use of it.
THEOREM SessionHeldHolds == Spec => []SessionHeld
<1>1. Holding => SessionHeld
  BY DEF Holding
<1> QED
  BY <1>1, HoldingHolds, PTL

-----------------------------------------------------------------------------
(* The write path implements PlanContract.                                 *)

\* Closing a plan is a legal close of the contract: failed only where Telegram
\* did nothing, applied only where it did or nothing was asked of it.
LEMMA FinishCloses ==
  ASSUME Inv, NEW a \in Appliers, Finish(a)
  PROVE  Contract!Next
<1>1. /\ pc[a] = "finish" /\ state' = [state EXCEPT ![job[a]] = FinalState(VerdictOf(a))]
      /\ effects' = effects
  BY DEF Finish, wire
<1>2. PICK p \in Plans : p = job[a]
  BY <1>1 DEF Inv, ApplierOk, JobShape, HasPlan
<1>3. /\ VerdictOf(a) \in {"applied", "refused", "privacy", "failed", "unknown"}
      /\ VerdictOf(a) = "applied" <=> exc[a] = "none"
      /\ VerdictOf(a) \in {"refused", "privacy", "failed"} <=> NoTrace(exc[a], phase[a])
  BY VerdictMeaning DEF VerdictOf, Inv, TypeOK
<1>4. /\ \/ state[p] = "applying"
         \/ state[p] = "applied" /\ VerdictOf(a) = "unknown"
      /\ NoTrace(exc[a], phase[a]) => effects[p] = 0
      /\ exc[a] = "none" => effects[p] = 1 \/ Shape[p] = "folder"
  <2>1. effects[p] \in {0, 1}
    BY DEF Inv, PlanOk, Wire
  <2> QED
    BY <1>1, <1>2, <1>3, <2>1 DEF Inv, ApplierOk, Ended, ClosingState, NothingToDo, Late, Closing,
                                    MayLand
<1>5. CASE VerdictOf(a) = "applied"
  <2>1. Contract!CloseApplied(p)
    BY <1>1, <1>2, <1>3, <1>4, <1>5 DEF FinalState, Contract!CloseApplied, Contract!Move
  <2> QED
    BY <2>1 DEF Contract!Next
<1>6. CASE VerdictOf(a) \in {"refused", "privacy", "failed"}
  <2>1. Contract!CloseFailed(p)
    BY <1>1, <1>2, <1>3, <1>4, <1>6 DEF FinalState, Contract!CloseFailed, Contract!Move
  <2> QED
    BY <2>1 DEF Contract!Next
<1>7. CASE VerdictOf(a) = "unknown"
  <2>1. Contract!CloseUnknown(p)
    BY <1>1, <1>2, <1>3, <1>4, <1>7 DEF FinalState, Contract!CloseUnknown, Contract!Move
  <2> QED
    BY <2>1 DEF Contract!Next
<1> QED
  BY <1>3, <1>5, <1>6, <1>7

\* Every step of the write path is a step of the contract or a stutter.
LEMMA StepRefines ==
  ASSUME Inv, [Next]_vars
  PROVE  [Contract!Next]_(Contract!vars)
<1> USE DEF Contract!vars
<1>1. ASSUME NEW a \in Appliers, Step(a) \/ GoesWrong(a), ~Finish(a)
      PROVE  UNCHANGED <<state, effects>>
  BY <1>1, Footprint
<1>3. ASSUME NEW a \in Appliers, NEW p \in Plans, Claim(a, p)
      PROVE  Contract!Next
  <2>1. Contract!Take(p)
    BY <1>3 DEF Claim, Claimable, wire, Contract!Take, Contract!Move
  <2> QED
    BY <2>1 DEF Contract!Next
<1>4. ASSUME NEW p \in Plans, Decided(p)
      PROVE  Contract!Next
  <2>1. Contract!Propose(p) \/ Contract!Decline(p)
    BY <1>4 DEF Decided, Create, Reject, Expire, Decide, wire, Contract!Propose,
       Contract!Decline, Contract!Move
  <2> QED
    BY <2>1 DEF Contract!Next
<1>5. ASSUME NEW p \in Plans, Carry(p)
      PROVE  Contract!Next
  <2>1. state[p] \in {"applying", "unknown_outcome"} /\ effects[p] = 0
    BY <1>5 DEF Carry, Land, Inv, PlanOk, Wire
  <2>2. Contract!TakesEffect(p)
    BY <1>5, <2>1 DEF Carry, Land, db, Contract!TakesEffect
  <2> QED
    BY <2>2 DEF Contract!Next
<1>6. ASSUME NEW p \in Plans, Refuse(p) \/ Lose(p)
      PROVE  UNCHANGED <<state, effects>>
  BY <1>6 DEF Refuse, Lose, Land, db, Inv, TypeOK
<1>7. CASE Tick \/ UNCHANGED vars
  BY <1>7 DEF Tick, vars, db, wire
<1>8. ASSUME NEW a \in Appliers, Finish(a)
      PROVE  Contract!Next
  BY <1>8, FinishCloses
<1> QED
  BY <1>1, <1>3, <1>4, <1>5, <1>6, <1>7, <1>8 DEF Next, Decided, Telegram

\* KeepsContract (apply.py): whatever is raised, refunded, retried or dies, a plan
\* takes effect at most once, only after it was claimed, never after it was
\* closed as failed, and a plan closed as applied has taken effect.
THEOREM KeepsContractHolds == ASSUME NoCreate PROVE Spec => KeepsContract
<1>1. Init => Contract!Init
  BY DEF Init, Contract!Init
<1> QED
  BY <1>1, StepRefines, InvHolds, PTL DEF Spec, KeepsContract, Contract!Spec

-----------------------------------------------------------------------------
(* The budget.                                                             *)

WithinCeiling == \A acct \in Accounts : Used(acct) <= Ceiling

Takers(acct) == {p \in Plans : AccountOf[p] = acct /\ SlotTaken(p)}

\* A step that takes no slot leaves every account within its ceiling.
LEMMA NoSlotTaken ==
  ASSUME WithinCeiling, \A p \in Plans : SlotTaken(p)' => SlotTaken(p)
  PROVE  WithinCeiling'
<1> SUFFICES ASSUME NEW acct \in Accounts PROVE Used(acct)' <= Ceiling
  BY DEF WithinCeiling
<1> DEFINE next == {p \in Plans : AccountOf[p] = acct /\ SlotTaken(p)'}
<1>1. IsFiniteSet(Takers(acct)) /\ next \subseteq Takers(acct)
  BY ApplyPlanAssumption, FS_Subset DEF Takers
<1>2. Cardinality(next) <= Cardinality(Takers(acct)) /\ IsFiniteSet(next)
  BY <1>1, FS_Subset
<1>3. Cardinality(next) \in Nat /\ Cardinality(Takers(acct)) \in Nat
  BY <1>1, <1>2, FS_CardinalityType
<1>4. /\ Used(acct)' = Cardinality(next)
      /\ Used(acct) = Cardinality(Takers(acct)) /\ Used(acct) <= Ceiling
  BY DEF Used, Takers, WithinCeiling
<1> QED
  BY <1>2, <1>3, <1>4, ApplyPlanAssumption

\* A reservation takes one slot of an account that had room for it.
LEMMA OneSlotTaken ==
  ASSUME Holding, WithinCeiling, NEW a \in Appliers, Reserve(a)
  PROVE  WithinCeiling'
<1>1. PICK p \in Plans : p = job[a]
  BY DEF Holding, HasPlan, Reserve
<1>2. Used(AccountOf[p]) < Ceiling /\ slot' = [slot EXCEPT ![p] = "reserved"]
  BY <1>1 DEF Reserve, HasRoom
<1> SUFFICES ASSUME NEW acct \in Accounts PROVE Used(acct)' <= Ceiling
  BY DEF WithinCeiling
<1> DEFINE next == {q \in Plans : AccountOf[q] = acct /\ SlotTaken(q)'}
<1>3. /\ Used(acct)' = Cardinality(next)
      /\ Used(acct) = Cardinality(Takers(acct)) /\ Used(acct) <= Ceiling
  BY DEF Used, Takers, WithinCeiling
<1>4. IsFiniteSet(Takers(acct)) /\ Cardinality(Takers(acct)) \in Nat
  <2>1. IsFiniteSet(Takers(acct))
    BY ApplyPlanAssumption, FS_Subset DEF Takers
  <2> QED
    BY <2>1, FS_CardinalityType
<1>5. CASE AccountOf[p] = acct
  <2>1. next = Takers(acct) \cup {p}
    BY <1>2, <1>5 DEF Takers, SlotTaken, Holding, TypeOK
  <2>2. Cardinality(Takers(acct) \cup {p})
          = IF p \in Takers(acct) THEN Cardinality(Takers(acct)) ELSE Cardinality(Takers(acct)) + 1
    BY <1>4, FS_AddElement
  <2> QED
    BY <1>2, <1>3, <1>4, <1>5, <2>1, <2>2, ApplyPlanAssumption
<1>6. CASE AccountOf[p] # acct
  <2>1. next = Takers(acct)
    BY <1>2, <1>6 DEF Takers, SlotTaken, Holding, TypeOK
  <2> QED
    BY <1>3, <2>1
<1> QED
  BY <1>5, <1>6

\* No step takes an account over its ceiling.
LEMMA NextWithinCeiling == Holding /\ WithinCeiling /\ [Next]_vars => WithinCeiling'
<1> SUFFICES ASSUME Holding, WithinCeiling, [Next]_vars PROVE WithinCeiling'
  OBVIOUS
<1>1. ASSUME NEW a \in Appliers, Step(a) \/ GoesWrong(a), ~Reserve(a)
      PROVE  \A p \in Plans : SlotTaken(p)' => SlotTaken(p)
  BY <1>1, Footprint DEF Release, Commit, SlotTaken, Holding, TypeOK
<1>2. ASSUME NEW a \in Appliers, NEW p \in Plans, Claim(a, p)
      PROVE  \A q \in Plans : SlotTaken(q)' => SlotTaken(q)
  BY <1>2, ClaimFrame DEF Holding, SlotTaken
<1>3. CASE Surroundings
  BY <1>3, SurroundingsFrame, NoSlotTaken DEF Holding, SlotTaken
<1>4. CASE UNCHANGED vars
  BY <1>4, NoSlotTaken DEF vars, db, SlotTaken
<1> QED
  BY <1>1, <1>2, <1>3, <1>4, NoSlotTaken, OneSlotTaken DEF Next, Surroundings, Decided

\* BudgetHolds (limits.py, apply.py): with every refund an except clause makes, an
\* account never has more requests carried out or on the wire than it has slots.
THEOREM BudgetKept == ASSUME NoCreate PROVE Spec => []BudgetHolds
<1>1. Init => WithinCeiling
  <2> SUFFICES ASSUME Init, NEW acct \in Accounts PROVE Used(acct) <= Ceiling
    BY DEF WithinCeiling
  <2>1. Takers(acct) = {} /\ Used(acct) = Cardinality(Takers(acct))
    BY DEF Init, Takers, Used, SlotTaken
  <2> QED
    BY <2>1, FS_EmptySet, ApplyPlanAssumption
<1>2. Inv /\ WithinCeiling => BudgetHolds
  <2> SUFFICES ASSUME Inv, WithinCeiling, NEW acct \in Accounts
               PROVE  Cardinality({p \in Plans : AccountOf[p] = acct /\ MayLand(p)}) <= Ceiling
    BY DEF BudgetHolds
  <2> DEFINE landing == {p \in Plans : AccountOf[p] = acct /\ MayLand(p)}
  <2>1. landing \subseteq Takers(acct) /\ IsFiniteSet(Takers(acct))
    BY ApplyPlanAssumption, FS_Subset DEF Takers, Inv, PlanOk, EffectRecorded
  <2>2. Cardinality(landing) <= Cardinality(Takers(acct)) /\ IsFiniteSet(landing)
    BY <2>1, FS_Subset
  <2>3. Cardinality(landing) \in Nat /\ Cardinality(Takers(acct)) \in Nat
    BY <2>1, <2>2, FS_CardinalityType
  <2>4. Cardinality(Takers(acct)) <= Ceiling
    BY DEF Takers, Used, WithinCeiling
  <2> QED
    BY <2>2, <2>3, <2>4, ApplyPlanAssumption
<1> QED
  BY <1>1, <1>2, NextWithinCeiling, HoldingHolds, InvHolds, PTL DEF Spec

-----------------------------------------------------------------------------
(* No accidental repeat.                                                   *)

\* The fingerprint covers the account (ledger.py, fingerprint).
DigestNamesAccount == \A p, q \in Plans : Identical(p, q) => AccountOf[p] = AccountOf[q]

\* A ledger row is never dated before it was first written, nor in the future.
Dated == \A q \in Plans : begun[q] <= sentAt[q] /\ sentAt[q] <= now

\* Between the duplicate check and the request, no identical plan that may have
\* gone out was begun within the window.
Clear(a, q) ==
  job[a] \notin AllowDup /\ Identical(job[a], q) /\ MayLand(q) =>
    /\ pc[a] \in {"reserve", "attempt", "record"} => begun[q] < now - Window
    /\ pc[a] = "call" => begun[job[a]] - begun[q] > Window

Cleared == \A a \in Appliers : \A q \in Plans \ {job[a]} : Clear(a, q)

\* Recording and settling keep the dates in order.
LEMMA NextDated == Holding /\ Dated /\ [Next]_vars => Dated'
<1> SUFFICES ASSUME Holding, Dated, [Next]_vars PROVE Dated'
  OBVIOUS
<1> USE ApplyPlanAssumption DEF Holding, TypeOK, Dated
<1>1. ASSUME NEW a \in Appliers, Record(a) \/ Settle(a)
      PROVE  Dated'
  BY <1>1 DEF Record, Settle, HasPlan
<1>2. CASE Tick
  BY <1>2 DEF Tick, db
<1>3. CASE UNCHANGED <<now, sentAt, begun>>
  BY <1>3
<1>4. ASSUME NEW a \in Appliers, Step(a) \/ GoesWrong(a), ~Record(a), ~Settle(a)
      PROVE  UNCHANGED <<now, sentAt, begun>>
  BY <1>4, Footprint
<1>5. ASSUME NEW a \in Appliers, NEW p \in Plans, Claim(a, p)
      PROVE  UNCHANGED <<now, sentAt, begun>>
  BY <1>5, ClaimFrame
<1>6. ASSUME NEW p \in Plans, Decided(p) \/ Telegram(p)
      PROVE  UNCHANGED <<now, sentAt, begun>>
  BY <1>6 DEF Decided, Create, Reject, Expire, Decide, Telegram, Carry, Refuse, Lose, Land, db
<1> QED
  BY <1>1, <1>2, <1>3, <1>4, <1>5, <1>6 DEF Next, Decided, vars, db

Repeatless == Inv /\ Holding /\ Dated /\ Cleared

\* What another applier does to a plan of its own cannot spoil a check already
\* made: to send an identical message it would need the same session lock.
LEMMA OthersKeepClear ==
  ASSUME DigestNamesAccount, Repeatless, NEW a \in Appliers, NEW b \in Appliers \ {a},
         Step(b) \/ GoesWrong(b) \/ \E p \in Plans : Claim(b, p), NEW q \in Plans \ {job[a]}
  PROVE  Clear(a, q)'
<1> USE ApplyPlanAssumption DEF Repeatless
<1>1. ApplierStays(a) /\ now' = now
  BY StepFrame, Footprint, ClaimFrame DEF Holding
<1> SUFFICES ASSUME pc[a] \in {"reserve", "attempt", "record", "call"}, job[a] \notin AllowDup,
                    Identical(job[a], q), MayLand(q)'
             PROVE  /\ pc[a] \in {"reserve", "attempt", "record"} => begun'[q] < now - Window
                    /\ pc[a] = "call" => begun'[job[a]] - begun'[q] > Window
  BY <1>1 DEF Clear, ApplierStays, Identical
<1>2. job[a] \in Plans /\ job[a] # job[b]
  BY DEF Holding, HasPlan, TypeOK, Inv, OneJob
<1>3. begun'[job[a]] = begun[job[a]]
  <2>1. CASE Record(b)
    BY <1>2, <2>1 DEF Record, Holding, TypeOK
  <2>2. CASE ~Record(b)
    BY <2>2, Footprint, ClaimFrame DEF Holding
  <2> QED
    BY <2>1, <2>2
<1>4. CASE q = job[b] /\ pc[b] = "call"
  <2>1. AccountOf[job[a]] = AccountOf[job[b]] /\ AccountOf[job[a]] \in Accounts
    BY <1>2, <1>4 DEF DigestNamesAccount
  <2>2. session[AccountOf[job[a]]] = a /\ session[AccountOf[job[a]]] = b
    BY <1>4, <2>1 DEF Holding, SessionHeld, Guarded
  <2> QED
    BY <2>2
<1>5. CASE q = job[b] /\ pc[b] = "record"
  <2>1. q \notin sent /\ q \notin flight /\ effects[q] = 0
    BY <1>5 DEF Inv, ApplierOk, Requesting, Early, PlanOk, Wire
  <2>2. flight' = flight /\ effects' = effects
    BY <1>5, Footprint, ClaimFrame DEF Send, Holding
  <2> QED
    BY <2>1, <2>2 DEF MayLand
<1>6. CASE ~(q = job[b] /\ pc[b] \in {"call", "record"})
  <2>1. q \in flight' => q \in flight
    BY <1>6, Footprint, ClaimFrame DEF Send, Holding
  <2>2. effects' = effects /\ begun'[q] = begun[q]
    BY <1>6, Footprint, ClaimFrame DEF Record, Holding, TypeOK
  <2> QED
    BY <1>2, <1>3, <2>1, <2>2 DEF Cleared, Clear, MayLand
<1> QED
  BY <1>4, <1>5, <1>6

\* The applier's own check is what makes it clear, and its own row is dated later.
LEMMA OwnStepClears ==
  ASSUME Window > 0, Repeatless, NEW a \in Appliers,
         Step(a) \/ GoesWrong(a) \/ \E p \in Plans : Claim(a, p),
         NEW q \in Plans \ {job'[a]}
  PROVE  Clear(a, q)'
<1> USE ApplyPlanAssumption DEF Repeatless, Goto, db, wire, local
<1> SUFFICES ASSUME pc'[a] \in {"reserve", "attempt", "record", "call"}, job'[a] \notin AllowDup,
                    Identical(job'[a], q), MayLand(q)'
             PROVE  /\ pc'[a] \in {"reserve", "attempt", "record"} => begun'[q] < now' - Window
                    /\ pc'[a] = "call" => begun'[job'[a]] - begun'[q] > Window
  BY DEF Clear, Identical
<1> USE DEF Holding, TypeOK
<1>1. Verify(a) \/ Reserve(a) \/ Attempt(a) \/ Record(a)
  BY DEF Step, GoesWrong, Claim, Open, Locked, Duplicate, LimitExceeded, Send, Unneeded, Answered,
     Returned, AnsweredNo, SecondOk, SecondRefused, TimesOut, Leave, Audit, Finish, Forget,
     Release, Commit, Settle, Raise, RaisesAt, Abandon, Crash, Throw, Home
<1>2. /\ job'[a] = job[a] /\ job[a] \in Plans /\ now' = now
      /\ MayLand(q) /\ begun'[q] = begun[q]
  BY <1>1 DEF Verify, Reserve, Attempt, Record, MayLand, HasPlan
<1>3. q \in inLedger
  BY <1>2 DEF Inv, PlanOk, EffectRecorded, Identical
<1>4. CASE Verify(a)
  <2>1. sentAt[q] < now - Window
    BY <1>2, <1>3, <1>4 DEF Verify, RefusedAsDuplicate, FoundRecent
  <2> QED
    BY <1>2, <1>4, <2>1 DEF Verify, Dated
<1>5. CASE Reserve(a) \/ Attempt(a)
  BY <1>2, <1>5 DEF Reserve, Attempt, Cleared, Clear
<1>6. CASE Record(a)
  <2>1. begun'[job[a]] = now /\ begun[q] < now - Window
    BY <1>2, <1>6 DEF Record, Identical, Cleared, Clear
  <2> QED
    BY <1>2, <1>6, <2>1 DEF Record
<1> QED
  BY <1>1, <1>4, <1>5, <1>6

\* Every step keeps the check valid until the request leaves.
LEMMA NextCleared ==
  ASSUME DigestNamesAccount, Window > 0, Repeatless, [Next]_vars
  PROVE  Cleared'
<1> SUFFICES ASSUME NEW a \in Appliers, NEW q \in Plans \ {job'[a]} PROVE Clear(a, q)'
  BY DEF Cleared
<1> USE ApplyPlanAssumption
<1>1. ASSUME NEW b \in Appliers, Step(b) \/ GoesWrong(b) \/ \E p \in Plans : Claim(b, p)
      PROVE  Clear(a, q)'
  <2>1. CASE b = a
    BY <1>1, <2>1, OwnStepClears
  <2>2. CASE b # a
    <3>1. job'[a] = job[a]
      BY <1>1, <2>2, StepFrame, ClaimFrame DEF Repeatless, Holding, ApplierStays
    <3> QED
      BY <1>1, <2>2, <3>1, OthersKeepClear
  <2> QED
    BY <2>1, <2>2
<1>2. CASE Surroundings \/ UNCHANGED vars
  <2>1. ApplierStays(a) /\ begun' = begun
    BY <1>2, SurroundingsFrame DEF Repeatless, Inv, vars, db, local, ApplierStays
  <2>2. /\ now' \in Int /\ now \in Int /\ begun[q] \in Int /\ now' >= now
        /\ MayLand(q)' => MayLand(q)
    BY <1>2 DEF Surroundings, Tick, Decided, Create, Reject, Expire, Decide, Telegram, Carry,
       Refuse, Lose, Land, vars, db, wire, MayLand, Repeatless, Inv, TypeOK
  <2>3. Clear(a, q)
    BY <2>1 DEF ApplierStays, Repeatless, Cleared
  <2>4. begun[q] < now - Window => begun[q] < now' - Window
    BY <2>2
  <2> QED
    BY <2>1, <2>2, <2>3, <2>4 DEF ApplierStays, Clear, Identical
<1> QED
  BY <1>1, <1>2 DEF Next, Surroundings, Decided

\* NoAccidentalRepeat (ledger.py, apply.py): where the ledger is in use, two
\* identical messages go out within the window only if the second plan says so.
THEOREM NoAccidentalRepeatHolds ==
  ASSUME NoCreate, DigestNamesAccount, Window > 0
  PROVE  Spec => NoAccidentalRepeat
<1>1. Init => Dated /\ Cleared
  BY ApplyPlanAssumption DEF Init, Dated, Cleared, Clear
<1>2. Repeatless /\ [Next]_vars => Dated' /\ Cleared'
  BY NextDated, NextCleared DEF Repeatless
<1>3. Repeatless /\ [Next]_vars =>
        \A p \in sent' \ sent : \A q \in Plans \ {p} :
          p \notin AllowDup /\ Identical(p, q) /\ MayLand(q) => begun[p] - begun[q] > Window
  <2> SUFFICES ASSUME Repeatless, [Next]_vars, NEW p \in sent' \ sent, NEW q \in Plans \ {p},
                      p \notin AllowDup, Identical(p, q), MayLand(q)
               PROVE  begun[p] - begun[q] > Window
    OBVIOUS
  <2>1. PICK a \in Appliers : Send(a)
    BY Footprint, ClaimFrame, SurroundingsFrame DEF Repeatless, Inv, Next, Surroundings,
       Decided, vars, wire
  <2>2. p = job[a] /\ pc[a] = "call"
    BY <2>1 DEF Send
  <2> QED
    BY <2>2 DEF Repeatless, Cleared, Clear
<1> QED
  BY <1>1, <1>2, <1>3, InvHolds, HoldingHolds, PTL DEF Spec, Repeatless, NoAccidentalRepeat
=============================================================================
