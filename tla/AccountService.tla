--------------------------- MODULE AccountService ---------------------------
(***************************************************************************)
(* What sharing an account promises, whoever does the work (dispatch.py    *)
(* and accounts/lock.py): one process at a time owns the account, an       *)
(* operation is started only while somebody owns it and at most once per   *)
(* call, and a call that comes back as done was started.  A call that      *)
(* failed promises nothing: its operation may still be started.            *)
(***************************************************************************)
EXTENDS Naturals

CONSTANTS Callers, Owners, None

VARIABLES
  owner,    \* who holds the account's session
  started,  \* how often a call's operation was started
  outcome   \* what the caller was told

vars == <<owner, started, outcome>>

Init ==
  /\ owner = None
  /\ started = [c \in Callers |-> 0]
  /\ outcome = [c \in Callers |-> "open"]

Take(o) ==
  /\ owner = None
  /\ owner' = o
  /\ UNCHANGED <<started, outcome>>

Leave ==
  /\ owner # None
  /\ owner' = None
  /\ UNCHANGED <<started, outcome>>

Start(c) ==
  /\ owner # None
  /\ started[c] = 0
  /\ started' = [started EXCEPT ![c] = 1]
  /\ UNCHANGED <<owner, outcome>>

\* The caller's answer, which may come with the account being given back.
Tell(c, word) ==
  /\ outcome[c] = "open"
  /\ word = "done" => started[c] = 1
  /\ outcome' = [outcome EXCEPT ![c] = word]
  /\ owner' \in {owner, None}
  /\ UNCHANGED started

Next ==
  \/ \E o \in Owners : Take(o)
  \/ Leave
  \/ \E c \in Callers : Start(c) \/ Tell(c, "done") \/ Tell(c, "failed")

Spec == Init /\ [][Next]_vars
=============================================================================
