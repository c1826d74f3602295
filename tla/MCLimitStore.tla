----------------------------- MODULE MCLimitStore -----------------------------
(* TLC instance of LimitStore.  The demands meet every ceiling: two targets of *)
(* one account, and one target shared by two accounts.                         *)
EXTENDS LimitStore, TLC

CONSTANTS a1, a2, t1, t2

MCDemands ==
  {[kind |-> "send", account |-> a1, target |-> t1],
   [kind |-> "send", account |-> a1, target |-> t2],
   [kind |-> "send", account |-> a2, target |-> t1]}

Symmetry == Permutations(Clients)
=============================================================================
