------------------------------- MODULE MCDaemon -------------------------------
(* TLC instances of Daemon: the daemons and most calls run under one           *)
(* configuration, the strangers among the calls under another.                 *)
EXTENDS Daemon

CONSTANT Strangers

MCPolicyOf == [x \in Daemons \cup Clients |-> IF x \in Strangers THEN "other" ELSE "same"]
=============================================================================
