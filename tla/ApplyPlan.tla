------------------------------ MODULE ApplyPlan ------------------------------
(***************************************************************************)
(* The write path end to end: apply_plan (apply.py) run by several         *)
(* processes against one state database, one audit log, one session lock   *)
(* per account, and Telegram.  Every await and every durable write is a    *)
(* step of its own; an exception of any class apply_plan distinguishes may *)
(* be raised wherever the code can raise it, and a process may die between *)
(* any two steps.                                                          *)
(*                                                                         *)
(* Transactions of the state database are atomic here: PlanStore and       *)
(* LimitStore show why.  The age of a plan and of a limit row is left out  *)
(* (a pending plan may expire at any moment, a limit row never does).      *)
(***************************************************************************)
EXTENDS Integers, FiniteSets

CONSTANTS
  Appliers,     \* processes running `plan apply`
  Plans, Accounts,
  AccountOf,    \* the account a plan acts as
  DigestOf,     \* its outbound fingerprint, None if the operation is not ledgered
  AllowDup,     \* the plans written with allow_duplicate
  Shape,        \* what carrying it out takes: see Shapes
  Ceiling,      \* slots an account has in the limit window
  Window,       \* ledger.window_seconds
  MaxNow,       \* bound on the clock
  Faults,       \* which things may go wrong
  None

\* One request; chat.invite, whose answer may say nobody was added; ban and then
\* unban (chat.kick); create and then invite (chat.create); one request, or none when
\* the chat is in the folder already (folders.add).
Shapes == {"single", "invite", "kick", "create", "folder"}

\* What can be raised, by the except clause of apply_plan that catches it:
\* PolicyError and PlanPreconditionFailed; PrivacyRestricted; CancelledError;
\* the no-effect whitelist; the ambiguous classes; any other Exception;
\* KeyboardInterrupt and SystemExit.
Exceptions == {"policy", "privacy", "cancel", "noeffect", "ambiguous", "error", "interrupt"}

ASSUME ApplyPlanAssumption ==
  /\ AccountOf \in [Plans -> Accounts]
  /\ Shape \in [Plans -> Shapes]
  /\ AllowDup \subseteq Plans
  /\ Ceiling \in Nat /\ Window \in Nat /\ MaxNow \in Nat
  /\ Faults \subseteq Exceptions \cup {"crash", "storage"}
  /\ IsFiniteSet(Plans)
  /\ None \notin Appliers /\ None \notin Plans

VARIABLES
  now,
  state,     \* plans.state
  slot,      \* the plan's row in limit_events
  inLedger,  \* plans with a row in outbound_ledger
  sentAt,    \* that row's sent_at
  audit,     \* the kinds of audit lines written about the plan
  session,   \* who holds the account's session lock
  flight,    \* plans whose request is on the wire
  answer,    \* Telegram's answer to it, until the applier reads it
  effects,   \* how often Telegram carried the plan out
  sent,      \* plans whose request ever left
  begun,     \* when its ledger row was first dated
  pc,        \* the next step of each applier
  job,       \* the plan it claimed
  phase,     \* started_rpc and rpc_completed
  exc        \* the exception being handled, or "none"

db    == <<state, slot, inLedger, sentAt, begun, audit>>
wire  == <<flight, answer, effects, sent>>
local == <<pc, job, phase, exc>>
vars  == <<now, db, session, wire, local>>

PlanState == {"absent", "pending", "applying", "applied", "failed",
              "unknown_outcome", "rejected", "expired"}

\* Inside `async with open_writer`: an exception unwinds through its exit.
Guarded  == {"verify", "reserve", "attempt", "record", "call", "rpc", "second"}
\* The writes that record how it ended.
Closing  == {"audit", "finish", "forget", "release", "commit", "settle"}
Labels   == {"idle", "open"} \cup Guarded \cup {"leave"} \cup Closing

TypeOK ==
  /\ now \in 0 .. MaxNow
  /\ state \in [Plans -> PlanState]
  /\ slot \in [Plans -> {"none", "reserved", "committed", "released"}]
  /\ inLedger \subseteq Plans
  /\ sentAt \in [Plans -> 0 .. MaxNow]
  /\ audit \in [Plans -> SUBSET {"attempt", "refused", "applied", "failed", "unknown"}]
  /\ session \in [Accounts -> Appliers \cup {None}]
  /\ flight \subseteq Plans
  /\ answer \in [Plans -> {"none", "ok", "refused", "privacy"}]
  /\ effects \in [Plans -> Nat]
  /\ sent \subseteq Plans
  /\ begun \in [Plans -> 0 .. MaxNow]
  /\ pc \in [Appliers -> Labels]
  /\ job \in [Appliers -> Plans \cup {None}]
  /\ phase \in [Appliers -> {"before", "started", "completed"}]
  /\ exc \in [Appliers -> Exceptions \cup {"none"}]

-----------------------------------------------------------------------------
Init ==
  /\ now = 0
  /\ state = [p \in Plans |-> "absent"]
  /\ slot = [p \in Plans |-> "none"]
  /\ inLedger = {}
  /\ sentAt = [p \in Plans |-> 0]
  /\ audit = [p \in Plans |-> {}]
  /\ session = [acct \in Accounts |-> None]
  /\ flight = {}
  /\ answer = [p \in Plans |-> "none"]
  /\ effects = [p \in Plans |-> 0]
  /\ sent = {}
  /\ begun = [p \in Plans |-> 0]
  /\ pc = [a \in Appliers |-> "idle"]
  /\ job = [a \in Appliers |-> None]
  /\ phase = [a \in Appliers |-> "before"]
  /\ exc = [a \in Appliers |-> "none"]

Goto(a, label) == pc' = [pc EXCEPT ![a] = label]

\* The call is over, one way or another; the process may run another one.
Home(a) ==
  /\ Goto(a, "idle")
  /\ job' = [job EXCEPT ![a] = None]
  /\ phase' = [phase EXCEPT ![a] = "before"]
  /\ exc' = [exc EXCEPT ![a] = "none"]

Tick ==
  /\ now < MaxNow
  /\ now' = now + 1
  /\ UNCHANGED <<db, session, wire, local>>

\* The planner stores a plan; a person declines it, or its TTL runs out.
Decide(p, from, to) ==
  /\ state[p] = from
  /\ state' = [state EXCEPT ![p] = to]
  /\ UNCHANGED <<now, slot, inLedger, sentAt, begun, audit, session, wire, local>>

Create(p) == Decide(p, "absent", "pending")
Reject(p) == Decide(p, "pending", "rejected")
Expire(p) == Decide(p, "pending", "expired")

-----------------------------------------------------------------------------
(* Before the request leaves.                                              *)

\* pending -> applying is one conditional UPDATE; a plan in any other state is
\* refused and the applier goes home.  (Variation: a plan somebody is applying
\* may be claimed again.)
ClaimableAgain(p) == state[p] \in {"pending", "applying"}
Claimable(p) == state[p] = "pending"

Claim(a, p) ==
  /\ pc[a] = "idle"
  /\ Claimable(p)
  /\ state' = [state EXCEPT ![p] = "applying"]
  /\ job' = [job EXCEPT ![a] = p]
  /\ Goto(a, "open")
  /\ UNCHANGED <<now, slot, inLedger, sentAt, begun, audit, session, wire, phase, exc>>

\* open_writer: the account's session lock, then connect and authorise.
\* (Variation: no lock.)
SessionShared(acct) == TRUE
SessionFree(acct) == session[acct] = None

Open(a) ==
  LET acct == AccountOf[job[a]] IN
  /\ pc[a] = "open"
  /\ SessionFree(acct)
  /\ session' = [session EXCEPT ![acct] = a]
  /\ Goto(a, "verify")
  /\ UNCHANGED <<now, db, wire, job, phase, exc>>

\* Control passes to the except clauses; leaving open_writer comes first.
\* (Variation: the lock is not given back on the way out.)
ThrowWithoutExit(a, e) ==
  /\ exc' = [exc EXCEPT ![a] = e]
  /\ Goto(a, "audit")
  /\ UNCHANGED job

Throw(a, e) ==
  /\ exc' = [exc EXCEPT ![a] = e]
  /\ Goto(a, IF pc[a] \in Guarded THEN "leave" ELSE "audit")
  /\ UNCHANGED job

\* SessionLocked is an ordinary TelegramAIError to apply_plan.
Locked(a) ==
  /\ pc[a] = "open"
  /\ ~SessionFree(AccountOf[job[a]])
  /\ Throw(a, "error")
  /\ UNCHANGED <<now, db, session, wire, phase>>

\* _refuse_duplicate, on what _verify has just re-resolved.
Identical(p, q)  == DigestOf[p] # None /\ DigestOf[p] = DigestOf[q]
FoundRecent(p)   == Window > 0 /\ \E q \in inLedger : Identical(p, q) /\ sentAt[q] >= now - Window
RefusedAsDuplicate(p) == p \notin AllowDup /\ FoundRecent(p)

Verify(a) ==
  /\ pc[a] = "verify"
  /\ ~RefusedAsDuplicate(job[a])
  /\ Goto(a, "reserve")
  /\ UNCHANGED <<now, db, session, wire, job, phase, exc>>

Duplicate(a) ==
  /\ pc[a] = "verify"
  /\ RefusedAsDuplicate(job[a])
  /\ Throw(a, "policy")
  /\ UNCHANGED <<now, db, session, wire, phase>>

SlotTaken(p) == slot[p] \in {"reserved", "committed"}
Used(acct)   == Cardinality({p \in Plans : AccountOf[p] = acct /\ SlotTaken(p)})
\* (Variation: the last slot is given twice.)
HasRoomForOneMore(p) == Used(AccountOf[p]) <= Ceiling
HasRoom(p)   == Used(AccountOf[p]) < Ceiling

Reserve(a) ==
  /\ pc[a] = "reserve"
  /\ HasRoom(job[a])
  /\ slot' = [slot EXCEPT ![job[a]] = "reserved"]
  /\ Goto(a, "attempt")
  /\ UNCHANGED <<now, state, inLedger, sentAt, begun, audit, session, wire, job, phase, exc>>

LimitExceeded(a) ==
  /\ pc[a] = "reserve"
  /\ ~HasRoom(job[a])
  /\ Throw(a, "policy")
  /\ UNCHANGED <<now, db, session, wire, phase>>

Attempt(a) ==
  /\ pc[a] = "attempt"
  /\ audit' = [audit EXCEPT ![job[a]] = @ \cup {"attempt"}]
  /\ Goto(a, "record")
  /\ UNCHANGED <<now, state, slot, inLedger, sentAt, begun, session, wire, job, phase, exc>>

Record(a) ==
  LET p == job[a] IN
  /\ pc[a] = "record"
  /\ IF DigestOf[p] = None
     THEN UNCHANGED <<inLedger, sentAt, begun>>
     ELSE /\ inLedger' = inLedger \cup {p}
          /\ sentAt' = [sentAt EXCEPT ![p] = now]
          /\ begun' = [begun EXCEPT ![p] = now]
  /\ phase' = [phase EXCEPT ![a] = "started"]
  /\ Goto(a, "call")
  /\ UNCHANGED <<now, state, slot, audit, session, wire, job, exc>>

-----------------------------------------------------------------------------
(* The request, and Telegram.                                              *)

\* _execute looks the peers up and issues the request.
Send(a) ==
  /\ pc[a] = "call"
  /\ flight' = flight \cup {job[a]}
  /\ sent' = sent \cup {job[a]}
  /\ Goto(a, "rpc")
  /\ UNCHANGED <<now, db, session, answer, effects, job, phase, exc>>

\* Telegram acts on the request, refuses it, answers that the user could not be
\* added, or never sees it; the applier may long have given up waiting.
Land(p, reply, effect) ==
  /\ p \in flight
  /\ flight' = flight \ {p}
  /\ answer' = [answer EXCEPT ![p] = reply]
  /\ effects' = [effects EXCEPT ![p] = @ + effect]
  /\ UNCHANGED <<now, db, session, sent, local>>

Carry(p)  == Land(p, "ok", 1)
Refuse(p) ==
  \/ Land(p, "refused", 0)
  \/ Shape[p] = "invite" /\ Land(p, "privacy", 0)
Lose(p)   == Land(p, "none", 0)

Telegram(p) == Carry(p) \/ Refuse(p) \/ Lose(p)

Returned(a) ==
  /\ phase' = [phase EXCEPT ![a] = "completed"]
  /\ Goto(a, "leave")

Answered(a) ==
  /\ pc[a] = "rpc"
  /\ answer[job[a]] = "ok"
  /\ IF Shape[job[a]] \in {"kick", "create"} THEN Goto(a, "second") /\ UNCHANGED phase ELSE Returned(a)
  /\ UNCHANGED <<now, db, session, wire, job, exc>>

\* The chat is in the folder already: no request is issued.
Unneeded(a) ==
  /\ pc[a] = "call"
  /\ Shape[job[a]] = "folder"
  /\ Returned(a)
  /\ UNCHANGED <<now, db, session, wire, job, exc>>

AnsweredNo(a) ==
  /\ pc[a] = "rpc"
  /\ \/ answer[job[a]] = "refused" /\ Throw(a, "noeffect")
     \/ answer[job[a]] = "privacy" /\ Throw(a, "privacy")
  /\ UNCHANGED <<now, db, session, wire, phase>>

\* The second request of a two-request operation.  When it is refused, kick says
\* the outcome is unknown and create lets the refusal through.  (Variation: kick
\* lets it through too.)
SecondOk(a) ==
  /\ pc[a] = "second"
  /\ Returned(a)
  /\ UNCHANGED <<now, db, session, wire, job, exc>>

SecondRefusalPasses(a) ==
  /\ pc[a] = "second"
  /\ Throw(a, "noeffect")
  /\ UNCHANGED <<now, db, session, wire, phase>>

SecondRefused(a) ==
  /\ pc[a] = "second"
  /\ Throw(a, IF Shape[job[a]] = "kick" THEN "error" ELSE "noeffect")
  /\ UNCHANGED <<now, db, session, wire, phase>>

\* asyncio.wait_for gives up.  (Variation: only while the peers are looked up.)
TimesOutEarly(a) ==
  /\ pc[a] = "call"
  /\ Throw(a, "ambiguous")
  /\ UNCHANGED <<now, db, session, wire, phase>>

TimesOut(a) ==
  /\ pc[a] \in {"call", "rpc", "second"}
  /\ Throw(a, "ambiguous")
  /\ UNCHANGED <<now, db, session, wire, phase>>

-----------------------------------------------------------------------------
(* Recording how it ended.                                                 *)

\* The exit of open_writer: disconnect, and give the session lock back.
Leave(a) ==
  LET acct == AccountOf[job[a]] IN
  /\ pc[a] = "leave"
  /\ session' = [session EXCEPT ![acct] = None]
  /\ Goto(a, "audit")
  /\ UNCHANGED <<now, db, wire, job, phase, exc>>

\* started_rpc or rpc_completed.  (Variation: started_rpc alone.)
StartedOnly(ph) == ph = "started"
MayHaveLeft(ph) == ph \in {"started", "completed"}

\* The except clauses, in the order they are tried.
Verdict(e, ph) ==
  CASE e = "none"                   -> "applied"
    [] e = "policy"                 -> "refused"
    [] e = "privacy"                -> "privacy"
    [] e = "noeffect"               -> "failed"
    [] e \in {"cancel", "ambiguous"} -> "unknown"
    [] e \in {"error", "interrupt"} -> IF MayHaveLeft(ph) THEN "unknown" ELSE "failed"

VerdictOf(a) == Verdict(exc[a], phase[a])

\* The state the plan is closed in.  (Variation: named like the audit status.)
FinalStatus(v) == IF v \in {"refused", "privacy"} THEN "failed" ELSE v
FinalState(v) ==
  CASE v = "applied" -> "applied"
    [] v = "unknown" -> "unknown_outcome"
    [] v \in {"refused", "privacy", "failed"} -> "failed"

\* audit.refusal for a policy refusal; audit.outcome if there was an attempt.
AuditLines(v, attempted) ==
  (IF v = "refused" THEN {"refused"} ELSE {}) \cup
  (IF ~attempted THEN {}
   ELSE IF v \in {"refused", "privacy"} THEN {"failed"} ELSE {v})

Audit(a) ==
  LET p == job[a] IN
  /\ pc[a] = "audit"
  /\ audit' = [audit EXCEPT ![p] = @ \cup AuditLines(VerdictOf(a), "attempt" \in @)]
  /\ Goto(a, "finish")
  /\ UNCHANGED <<now, state, slot, inLedger, sentAt, begun, session, wire, job, phase, exc>>

\* plans.finish writes by plan id alone.  What follows gives the slot and the
\* ledger row back, or keeps them.
Refunds(v) == v \in {"refused", "failed"}

Finish(a) ==
  /\ pc[a] = "finish"
  /\ state' = [state EXCEPT ![job[a]] = FinalState(VerdictOf(a))]
  /\ Goto(a, IF Refunds(VerdictOf(a)) THEN "forget" ELSE "commit")
  /\ UNCHANGED <<now, slot, inLedger, sentAt, begun, audit, session, wire, job, phase, exc>>

Forget(a) ==
  /\ pc[a] = "forget"
  /\ inLedger' = inLedger \ {job[a]}
  /\ Goto(a, "release")
  /\ UNCHANGED <<now, state, slot, sentAt, begun, audit, session, wire, job, phase, exc>>

\* DELETE ... AND committed = 0; no reservation, nothing to release.
\* (Variation: AND committed = 1.)
ReleaseCommitted(a) ==
  LET p == job[a] IN
  /\ pc[a] = "release"
  /\ slot' = [slot EXCEPT ![p] = IF @ = "committed" THEN "released" ELSE @]
  /\ Home(a)
  /\ UNCHANGED <<now, state, inLedger, sentAt, begun, audit, session, wire>>

Release(a) ==
  LET p == job[a] IN
  /\ pc[a] = "release"
  /\ slot' = [slot EXCEPT ![p] = IF @ = "reserved" THEN "released" ELSE @]
  /\ Home(a)
  /\ UNCHANGED <<now, state, inLedger, sentAt, begun, audit, session, wire>>

Commit(a) ==
  LET p == job[a] IN
  /\ pc[a] = "commit"
  /\ slot' = [slot EXCEPT ![p] = IF @ = "reserved" THEN "committed" ELSE @]
  /\ IF VerdictOf(a) = "applied" THEN Goto(a, "settle") /\ UNCHANGED <<job, phase, exc>> ELSE Home(a)
  /\ UNCHANGED <<now, state, inLedger, sentAt, begun, audit, session, wire>>

Settle(a) ==
  LET p == job[a] IN
  /\ pc[a] = "settle"
  /\ sentAt' = IF p \in inLedger THEN [sentAt EXCEPT ![p] = now] ELSE sentAt
  /\ Home(a)
  /\ UNCHANGED <<now, state, slot, inLedger, begun, audit, session, wire>>

-----------------------------------------------------------------------------
(* What can go wrong.                                                      *)

\* What the code at each step can raise by itself: the awaits can be cancelled
\* and meet the network, the writes can fail (OSError from the audit file,
\* sqlite3.Error from the database), and Ctrl-C twice interrupts anything.
RaisesAt(label) ==
  CASE label = "open"    -> {"noeffect", "ambiguous", "error", "cancel", "interrupt"}
    [] label = "verify"  -> {"policy", "noeffect", "ambiguous", "error", "cancel", "interrupt"}
    [] label \in {"reserve", "record"} -> {"error", "interrupt"}
    [] label = "attempt" -> {"ambiguous", "interrupt"}
    [] label = "call"    -> {"policy", "noeffect", "ambiguous", "error", "cancel", "interrupt"}
    [] label \in {"rpc", "second", "leave"} -> {"ambiguous", "error", "cancel", "interrupt"}
    [] label = "audit"   -> {"ambiguous", "interrupt"}
    [] label \in {"finish", "commit", "settle"} -> {"error", "interrupt"}
    [] OTHER -> {}

\* The steps that write a durable store; they do not when there is no ledger
\* row, no reservation, or no attempt to report on.
WritesAt(a) ==
  LET p == job[a] IN
  CASE pc[a] \in {"reserve", "attempt", "finish"} -> TRUE
    [] pc[a] = "record" -> DigestOf[p] # None
    [] pc[a] = "audit"  -> AuditLines(VerdictOf(a), "attempt" \in audit[p]) # {}
    [] pc[a] \in {"forget", "settle"}  -> p \in inLedger
    [] pc[a] \in {"release", "commit"} -> slot[p] # "none"
    [] OTHER -> FALSE

StorageFails(a) == "storage" \in Faults /\ WritesAt(a)
\* The steps that wait for the network.
Reaches(a)      == pc[a] \in {"open", "verify", "call", "rpc", "second", "leave"}

\* An exception while the effect is still being worked towards, or while its
\* success is being recorded; a failing write needs failing storage.
Raise(a, e) ==
  /\ e \in Faults \cap RaisesAt(pc[a])
  /\ e = "interrupt" \/ Reaches(a) \/ StorageFails(a)
  /\ pc[a] \in Closing => exc[a] = "none"
  /\ Throw(a, e)
  /\ session' = IF pc[a] = "leave" THEN [session EXCEPT ![AccountOf[job[a]]] = None] ELSE session
  /\ UNCHANGED <<now, db, wire, phase>>

\* A write fails, or Ctrl-C arrives, inside an except clause: no sibling clause
\* catches that, so the exception surfaces and the rest is not done.
Abandon(a) ==
  /\ pc[a] \in Closing
  /\ exc[a] # "none"
  /\ "interrupt" \in Faults \/ StorageFails(a)
  /\ Home(a)
  /\ UNCHANGED <<now, db, session, wire>>

\* The process dies; the kernel frees the session lock.
Crash(a) ==
  /\ "crash" \in Faults
  /\ pc[a] # "idle"
  /\ session' = [acct \in Accounts |-> IF session[acct] = a THEN None ELSE session[acct]]
  /\ Home(a)
  /\ UNCHANGED <<now, db, wire>>

Step(a) ==
  \/ Open(a) \/ Locked(a) \/ Verify(a) \/ Duplicate(a)
  \/ Reserve(a) \/ LimitExceeded(a) \/ Attempt(a) \/ Record(a)
  \/ Send(a) \/ Unneeded(a) \/ Answered(a) \/ AnsweredNo(a)
  \/ SecondOk(a) \/ SecondRefused(a) \/ TimesOut(a)
  \/ Leave(a) \/ Audit(a) \/ Finish(a) \/ Forget(a) \/ Release(a) \/ Commit(a) \/ Settle(a)

GoesWrong(a) == (\E e \in Exceptions : Raise(a, e)) \/ Abandon(a) \/ Crash(a)

Next ==
  \/ Tick
  \/ \E p \in Plans : Create(p) \/ Reject(p) \/ Expire(p) \/ Telegram(p)
  \/ \E a \in Appliers : (\E p \in Plans : Claim(a, p)) \/ Step(a) \/ GoesWrong(a)

Spec == Init /\ [][Next]_vars

\* A started apply keeps running: asyncio schedules it, every RPC has a timeout
\* and every write returns or raises.  Nobody is obliged to start one.
FairSpec == Spec /\ \A a \in Appliers : WF_vars(Step(a))

-----------------------------------------------------------------------------
MayLand(p)     == p \in flight \/ effects[p] > 0

\* The write path keeps the promise of PlanContract, with the plans' states and
\* Telegram's effects as they are here (the chat.create shape does not: see
\* FailedMeansNoEffect).
Contract ==
  INSTANCE PlanContract WITH Plans <- Plans, Dispensable <- {p \in Plans : Shape[p] = "folder"},
                             state <- state, effects <- effects
KeepsContract == Contract!Spec

\* Whatever dies and whatever is given back, a request that may take effect is
\* on record: its slot costs budget, its attempt is in the audit log, and the
\* ledger will stop its repeat.
EffectIsOnRecord ==
  \A p \in Plans : MayLand(p) =>
    /\ SlotTaken(p)
    /\ "attempt" \in audit[p]
    /\ DigestOf[p] # None => p \in inLedger

\* Two identical messages go out within the window only where the second plan
\* says so, whoever applies them and however the first one ended: the check and
\* the ledger row are apart, and the session lock is what closes the gap.
NoAccidentalRepeat ==
  [][\A p \in sent' \ sent : \A q \in Plans \ {p} :
       p \notin AllowDup /\ Identical(p, q) /\ MayLand(q) => begun[p] - begun[q] > Window]_vars

\* An account never has more requests carried out or on the wire than it has
\* slots, with every refund the except clauses make.
BudgetHolds ==
  \A acct \in Accounts :
    Cardinality({p \in Plans : AccountOf[p] = acct /\ MayLand(p)}) <= Ceiling

\* A plan for which nothing had to be asked of Telegram.
NothingToDo(p) == Shape[p] = "folder" /\ p \notin sent

\* The audit log never claims what did not happen: a line "applied" stands for
\* an effect, or for a chat that was in its folder already and no request at all,
\* a line "failed" for a request that never had an effect and never will.
AuditTellsTruth ==
  \A p \in Plans :
    /\ "applied" \in audit[p] => effects[p] = 1 \/ NothingToDo(p)
    /\ "failed" \in audit[p] => ~MayLand(p)

\* One connection per account: an applier talks to Telegram only while it holds
\* the session lock, and nobody holds one without a plan to apply.
SessionHeld ==
  \A acct \in Accounts : \A a \in Appliers :
    session[acct] = a <=> pc[a] \in Guarded \cup {"leave"} /\ AccountOf[job[a]] = acct

-----------------------------------------------------------------------------
\* apply.py 41-42 of the refund, read off a plan a person sees as failed: the
\* request had no effect.
FailedMeansNoEffect == \A p \in Plans : state[p] = "failed" => effects[p] = 0

\* plans.py 47-48 of unknown_outcome: the request left.
UnknownMeansRequestLeft == \A p \in Plans : state[p] = "unknown_outcome" => p \in sent

\* A claimed plan is closed in the end, and is not left in applying.
ClaimedIsClosed == \A p \in Plans : []<>(state[p] # "applying")

\* A slot reserved for a plan is settled, one way or the other.
SlotSettled == \A p \in Plans : []<>(slot[p] # "reserved")

\* The account is free again for whoever comes next.
SessionFreed == \A acct \in Accounts : []<>(session[acct] = None)
=============================================================================
