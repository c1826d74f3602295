----------------------------- MODULE PlanContract -----------------------------
(***************************************************************************)
(* What the write path promises about one plan, without saying how: the    *)
(* states a person sees (plans.py, PlanState) and how often Telegram acted *)
(* on it.  A plan takes effect at most once, only after it was claimed and *)
(* never once it is closed as failed, rejected or expired; a plan closed   *)
(* as applied has taken effect, unless it asked for what was so already.   *)
(* Only an unknown outcome commits to nothing: the request may still land, *)
(* or may have landed long ago.                                            *)
(***************************************************************************)
EXTENDS Naturals

CONSTANTS
  Plans,
  Dispensable  \* the plans that may ask for what is so already (folders.add)

VARIABLES
  state,   \* plans.state by plan id, "absent" before the row exists
  effects  \* how many times Telegram carried the plan out

vars == <<state, effects>>

Init ==
  /\ state = [p \in Plans |-> "absent"]
  /\ effects = [p \in Plans |-> 0]

Move(p, from, to) ==
  /\ state[p] = from
  /\ state' = [state EXCEPT ![p] = to]
  /\ UNCHANGED effects

Propose(p) == Move(p, "absent", "pending")
Decline(p) == Move(p, "pending", "rejected") \/ Move(p, "pending", "expired")
Take(p)    == Move(p, "pending", "applying")

TakesEffect(p) ==
  /\ state[p] \in {"applying", "unknown_outcome"}
  /\ effects[p] = 0
  /\ effects' = [effects EXCEPT ![p] = 1]
  /\ UNCHANGED state

CloseApplied(p) == (effects[p] = 1 \/ p \in Dispensable) /\ Move(p, "applying", "applied")
CloseFailed(p)  == effects[p] = 0 /\ Move(p, "applying", "failed")

\* The second disjunct: the plan was closed as applied, and settling its rate
\* limit or its ledger row failed afterwards.
CloseUnknown(p) ==
  Move(p, "applying", "unknown_outcome") \/ Move(p, "applied", "unknown_outcome")

Next ==
  \E p \in Plans :
    \/ Propose(p) \/ Decline(p) \/ Take(p) \/ TakesEffect(p)
    \/ CloseApplied(p) \/ CloseFailed(p) \/ CloseUnknown(p)

Spec == Init /\ [][Next]_vars
=============================================================================
