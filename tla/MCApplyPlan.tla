----------------------------- MODULE MCApplyPlan -----------------------------
(* TLC instances of ApplyPlan: one account, plans of the kinds a configuration *)
(* names (messages, all with the same text to the same chat; invites; kicks;   *)
(* creates; chats put in a folder), and interchangeable processes applying     *)
(* them.                                                                       *)
EXTENDS ApplyPlan, TLC

CONSTANTS acc1, dig1, Messages, Invites, Kicks, Creates, Folders

MCPlans == Messages \cup Invites \cup Kicks \cup Creates \cup Folders
MCAccountOf == [p \in MCPlans |-> acc1]
MCDigestOf == [p \in MCPlans |-> IF p \in Messages THEN dig1 ELSE None]
MCShape ==
  [p \in MCPlans |-> CASE p \in Messages -> "single" [] p \in Invites -> "invite"
                      [] p \in Kicks -> "kick" [] p \in Creates -> "create"
                      [] p \in Folders -> "folder"]

Symmetry == Permutations(Appliers)
=============================================================================
