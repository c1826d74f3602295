----------------------------- MODULE MCPlanStore -----------------------------
(* TLC instance of PlanStore: clients and plan ids are interchangeable. *)
EXTENDS PlanStore, TLC

Symmetry == Permutations(Clients) \cup Permutations(Plans)
=============================================================================
