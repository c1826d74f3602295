--------------------------- MODULE LimitStoreProofs ---------------------------
(***************************************************************************)
(* Proofs about LimitStore: its types, and that no window of any scope is  *)
(* ever over its ceiling, for every set of processes, accounts, targets    *)
(* and demands, every ceiling and window, and every behaviour of the clock.*)
(***************************************************************************)
EXTENDS LimitStore, FiniteSetTheorems, TLAPS

\* A client past BEGIN IMMEDIATE holds the write lock, so there is one of them.
LockHeld == \A c \in Clients : pc[c] \in {"locked", "fits"} => writer = c

\* A client that waits, counts or inserts has a request.
RequestMade == \A c \in Clients : pc[c] \in {"waiting", "locked", "fits"} => request[c] \in Requests

\* What was counted under the lock is still true when the row is inserted.
CountStillTrue == \A c \in Clients : pc[c] = "fits" => Fits(request[c])

Inv ==
  /\ TypeOK
  /\ IsFiniteSet(rows)
  /\ LockHeld
  /\ RequestMade
  /\ CountStillTrue
  /\ WindowCap

-----------------------------------------------------------------------------
\* Every ceiling is an integer.
LEMMA CeilingsAreIntegers ==
  ASSUME NEW k \in Kinds, NEW ceiling \in Ceilings(k)
  PROVE  ceiling.limit \in Int
BY LimitStoreAssumption DEF Kinds, Ceilings

\* Removing rows keeps every window under its ceiling.
LEMMA FewerRows ==
  ASSUME IsFiniteSet(rows), WindowCap, rows' \subseteq rows
  PROVE  WindowCap'
<1> SUFFICES ASSUME NEW d \in Demands, NEW ceiling \in Ceilings(d.kind), NEW s \in Times
             PROVE  Cardinality(TakenIn(d, ceiling.scope, s)')
                      <= IF ceiling.limit > 0 THEN ceiling.limit ELSE 0
  BY DEF WindowCap
<1> DEFINE now_ == TakenIn(d, ceiling.scope, s)
           next == TakenIn(d, ceiling.scope, s)'
<1>1. d.kind \in Kinds /\ ceiling.limit \in Int
  BY LimitStoreAssumption, CeilingsAreIntegers
<1>2. now_ \subseteq rows /\ next \subseteq now_
  BY DEF TakenIn, InScope
<1>3. IsFiniteSet(now_) /\ Cardinality(next) <= Cardinality(now_)
  BY <1>2, FS_Subset
<1>4. Cardinality(now_) \in Nat /\ Cardinality(next) \in Nat
  BY <1>2, <1>3, FS_Subset, FS_CardinalityType
<1>5. Cardinality(now_) <= IF ceiling.limit > 0 THEN ceiling.limit ELSE 0
  BY DEF WindowCap
<1> QED
  BY <1>1, <1>3, <1>4, <1>5

\* The rows in any window that the new row falls into were counted by its
\* reserve, whatever the clock did since: the query has no upper bound.
LEMMA WindowWasCounted ==
  ASSUME NEW d, NEW r, NEW scope, NEW s \in Int, NEW e,
         rows \subseteq Events, r.at \in Int, Window \in Nat,
         e.kind = r.kind, e.account = r.account, e.target = r.target, e.at = r.at,
         InScope(e, d, scope), e.at \in s .. s + Window
  PROVE  TakenIn(d, scope, s) \subseteq Counted(r, scope, r.at - Window)
<1> SUFFICES ASSUME NEW f \in rows, InScope(f, d, scope), f.at \in s .. s + Window
             PROVE  InScope(f, r, scope) /\ f.at >= r.at - Window
  BY DEF TakenIn, Counted
<1>1. InScope(f, r, scope)
  BY DEF InScope
<1>2. f.at \in Int /\ f.at >= s /\ r.at <= s + Window
  OBVIOUS
<1> QED
  BY <1>1, <1>2

\* A row inserted while the count is still true exceeds no window.
LEMMA OneMoreRow ==
  ASSUME Inv, NEW c \in Clients, Insert(c)
  PROVE  WindowCap'
<1> DEFINE r == request[c]
           e == NewRow(c)
<1>1. r \in Requests /\ Fits(r) /\ rows' = rows \cup {e}
  BY DEF Inv, Insert, RequestMade, CountStillTrue
<1>2. e.kind = r.kind /\ e.account = r.account /\ e.target = r.target /\ e.at = r.at
  BY DEF NewRow
<1>3. r.at \in Int /\ Window \in Nat /\ rows \subseteq Events
  BY <1>1, LimitStoreAssumption DEF Requests, Times, Inv, TypeOK
<1> SUFFICES ASSUME NEW d \in Demands, NEW ceiling \in Ceilings(d.kind), NEW s \in Times
             PROVE  Cardinality(TakenIn(d, ceiling.scope, s)')
                      <= IF ceiling.limit > 0 THEN ceiling.limit ELSE 0
  BY DEF WindowCap
<1> DEFINE taken == TakenIn(d, ceiling.scope, s)
           next  == TakenIn(d, ceiling.scope, s)'
<1>4. ceiling.limit \in Int /\ s \in Int
  BY LimitStoreAssumption, CeilingsAreIntegers DEF Times
<1>5. IsFiniteSet(rows) /\ taken \subseteq rows /\ IsFiniteSet(taken) /\ Cardinality(taken) \in Nat
  <2>1. IsFiniteSet(rows) /\ taken \subseteq rows
    BY DEF Inv, TakenIn
  <2> QED
    BY <2>1, FS_Subset, FS_CardinalityType
<1>6. Cardinality(taken) <= IF ceiling.limit > 0 THEN ceiling.limit ELSE 0
  BY DEF Inv, WindowCap
<1>7. CASE ~(InScope(e, d, ceiling.scope) /\ e.at \in s .. s + Window)
  <2>1. next = taken
    BY <1>1, <1>7 DEF TakenIn, InScope
  <2> QED
    BY <1>6, <2>1
<1>8. CASE InScope(e, d, ceiling.scope) /\ e.at \in s .. s + Window
  <2>1. next = taken \cup {e}
    BY <1>1, <1>8 DEF TakenIn, InScope
  <2> DEFINE counted == Counted(r, ceiling.scope, r.at - Window)
  <2>2. taken \subseteq counted
    BY <1>2, <1>3, <1>4, <1>8, WindowWasCounted
  <2>3. d.kind = r.kind
    BY <1>2, <1>8 DEF InScope
  <2>4. ceiling.limit > 0 /\ Cardinality(counted) < ceiling.limit
    BY <1>1, <2>3 DEF Fits
  <2>5. counted \subseteq rows
    BY DEF Counted
  <2>6. IsFiniteSet(counted) /\ Cardinality(counted) \in Nat
    BY <1>5, <2>5, FS_Subset, FS_CardinalityType
  <2>7. Cardinality(taken) <= Cardinality(counted)
    BY <2>2, <2>6, FS_Subset
  <2>8. Cardinality(next) <= Cardinality(taken) + 1 /\ Cardinality(next) \in Nat
    <3>1. Cardinality(taken \cup {e})
            = IF e \in taken THEN Cardinality(taken) ELSE Cardinality(taken) + 1
      BY <1>5, FS_AddElement
    <3> QED
      BY <1>5, <2>1, <3>1
  <2> QED
    BY <1>4, <1>5, <2>4, <2>6, <2>7, <2>8
<1> QED
  BY <1>7, <1>8

-----------------------------------------------------------------------------
\* The empty table satisfies the invariant.
LEMMA InitInv == Init => Inv
<1> SUFFICES ASSUME Init PROVE Inv
  OBVIOUS
<1> USE DEF Init
<1>1. TypeOK
  BY LimitStoreAssumption DEF TypeOK, Times
<1>2. IsFiniteSet(rows)
  BY FS_EmptySet
<1>3. LockHeld /\ RequestMade /\ CountStillTrue
  BY DEF LockHeld, RequestMade, CountStillTrue
<1>4. WindowCap
  <2> SUFFICES ASSUME NEW d \in Demands, NEW ceiling \in Ceilings(d.kind), NEW s \in Times
               PROVE  Cardinality(TakenIn(d, ceiling.scope, s))
                        <= IF ceiling.limit > 0 THEN ceiling.limit ELSE 0
    BY DEF WindowCap
  <2>1. TakenIn(d, ceiling.scope, s) = {}
    BY DEF TakenIn
  <2>2. ceiling.limit \in Int
    BY LimitStoreAssumption, CeilingsAreIntegers
  <2> QED
    BY <2>1, <2>2, FS_EmptySet
<1> QED
  BY <1>1, <1>2, <1>3, <1>4 DEF Inv

\* The types, on the strength of the whole invariant: an inserted row gets its
\* columns from a request.
LEMMA NextTypeOK ==
  ASSUME Inv, Next
  PROVE  TypeOK'
<1> USE LimitStoreAssumption DEF Inv, TypeOK
<1>1. ASSUME NEW t \in Times, SetClock(t) PROVE TypeOK'
  BY <1>1 DEF SetClock
<1>2. ASSUME NEW c \in Clients, Step(c) PROVE TypeOK'
  <2>1. ASSUME NEW d \in Demands, Reserve(c, d) PROVE TypeOK'
    <3>1. d \in [kind : Kinds, account : Accounts, target : Targets]
      OBVIOUS
    <3>2. [kind |-> d.kind, account |-> d.account, target |-> d.target, at |-> now] \in Requests
      BY <3>1 DEF Requests
    <3> QED
      BY <2>1, <3>2 DEF Reserve
  <2>2. CASE Begin(c)
    BY <2>2 DEF Begin, LockFree
  <2>3. CASE Count(c)
    BY <2>3 DEF Count
  <2>4. CASE Insert(c)
    <3>1. request[c] \in Requests
      BY <2>4 DEF Insert, RequestMade
    <3>2. NewRow(c) \in Events
      BY <3>1 DEF NewRow, Requests, Events
    <3> QED
      BY <2>4, <3>2 DEF Insert
  <2>5. CASE Refuse(c)
    BY <2>5 DEF Refuse
  <2>6. CASE Commit(c)
    <3>1. \A e \in rows : e.id \in Nat
      BY DEF Events
    <3>2. committed' \in SUBSET Nat
      BY <2>6, <3>1 DEF Commit
    <3> QED
      BY <2>6, <3>2 DEF Commit
  <2>7. CASE Release(c)
    BY <2>7 DEF Release
  <2>8. CASE Drop(c)
    BY <2>8 DEF Drop
  <2> QED
    BY <1>2, <2>1, <2>2, <2>3, <2>4, <2>5, <2>6, <2>7, <2>8 DEF Step
<1>3. CASE Prune
  BY <1>3 DEF Prune
<1> QED
  BY <1>1, <1>2, <1>3 DEF Next

\* A step that leaves the rows and the requests of those at work alone keeps
\* what was counted true.
LEMMA CountKept ==
  ASSUME Inv, rows' = rows,
         \A c \in Clients : pc'[c] = "fits" => pc[c] = "fits" /\ request'[c] = request[c]
  PROVE  CountStillTrue'
<1> SUFFICES ASSUME NEW c \in Clients, pc'[c] = "fits" PROVE Fits(request[c])'
  BY DEF CountStillTrue
<1>1. Fits(request[c]) /\ request'[c] = request[c]
  BY DEF Inv, CountStillTrue
<1> QED
  BY <1>1 DEF Fits, Counted

\* While the lock is free nobody is between counting and inserting.
LEMMA FreeLockNobodyFits ==
  ASSUME Inv, LockFree
  PROVE  \A c \in Clients : pc[c] \notin {"locked", "fits"}
BY LimitStoreAssumption DEF Inv, LockHeld, LockFree

\* Each step of a client (reserve, commit, release, or its death) keeps it.
LEMMA StepInv ==
  ASSUME Inv, NEW c \in Clients, Step(c)
  PROVE  Inv'
<1>0. TypeOK'
  BY NextTypeOK DEF Next
<1>t. TypeOK /\ IsFiniteSet(rows) /\ WindowCap
  BY DEF Inv
<1>f. ASSUME rows' \subseteq rows PROVE IsFiniteSet(rows') /\ WindowCap'
  BY <1>t, <1>f, FewerRows, FS_Subset
<1>1. ASSUME NEW d \in Demands, Reserve(c, d) PROVE Inv'
  <2>1. rows' = rows /\ writer' = writer
    BY <1>1 DEF Reserve
  <2>2. CountStillTrue'
    BY <1>1, <1>t, <2>1, CountKept DEF Reserve, TypeOK
  <2>3. LockHeld'
    BY <1>1, <1>t DEF Reserve, TypeOK, LockHeld, Inv
  <2>4. d \in [kind : Kinds, account : Accounts, target : Targets]
    BY LimitStoreAssumption
  <2>5. RequestMade'
    BY <1>1, <1>t, <2>4 DEF Reserve, TypeOK, RequestMade, Requests, Inv
  <2> QED
    BY <1>0, <1>f, <2>1, <2>2, <2>3, <2>5 DEF Inv
<1>2. CASE Begin(c)
  <2>1. rows' = rows
    BY <1>2 DEF Begin
  <2>2. CountStillTrue'
    BY <1>2, <1>t, <2>1, CountKept DEF Begin, TypeOK
  <2>3. LockHeld'
    BY <1>2, <1>t, FreeLockNobodyFits DEF Begin, TypeOK, LockHeld
  <2>4. RequestMade'
    BY <1>2, <1>t DEF Begin, TypeOK, RequestMade, Inv
  <2> QED
    BY <1>0, <1>f, <2>1, <2>2, <2>3, <2>4 DEF Inv
<1>3. CASE Count(c)
  <2>1. rows' = rows
    BY <1>3 DEF Count
  <2>2. CountStillTrue'
    <3> SUFFICES ASSUME NEW b \in Clients, pc'[b] = "fits" PROVE Fits(request[b])'
      BY DEF CountStillTrue
    <3>1. Fits(request[b]) /\ request'[b] = request[b]
      BY <1>3, <1>t DEF Count, TypeOK, Inv, CountStillTrue
    <3> QED
      BY <2>1, <3>1 DEF Fits, Counted
  <2>3. LockHeld' /\ RequestMade'
    BY <1>3, <1>t DEF Count, TypeOK, LockHeld, RequestMade, Inv
  <2> QED
    BY <1>0, <1>f, <2>1, <2>2, <2>3 DEF Inv
<1>4. CASE Insert(c)
  <2>1. WindowCap'
    BY <1>4, OneMoreRow
  <2>2. IsFiniteSet(rows')
    BY <1>4, <1>t, FS_AddElement DEF Insert
  <2>3. \A b \in Clients : pc'[b] \notin {"locked", "fits"}
    BY <1>4, <1>t DEF Insert, TypeOK, LockHeld, Inv
  <2>4. LockHeld' /\ CountStillTrue'
    BY <2>3 DEF LockHeld, CountStillTrue
  <2>5. RequestMade'
    BY <1>4, <1>t DEF Insert, TypeOK, RequestMade, Inv
  <2> QED
    BY <1>0, <2>1, <2>2, <2>4, <2>5 DEF Inv
<1>5. CASE Refuse(c)
  <2>1. rows' = rows
    BY <1>5 DEF Refuse
  <2>2. CountStillTrue'
    BY <1>5, <1>t, <2>1, CountKept DEF Refuse, TypeOK
  <2>3. LockHeld' /\ RequestMade'
    BY <1>5, <1>t DEF Refuse, TypeOK, LockHeld, RequestMade, Inv
  <2> QED
    BY <1>0, <1>f, <2>1, <2>2, <2>3 DEF Inv
<1>6. CASE Commit(c)
  <2>1. rows' = rows /\ pc' = pc /\ request' = request /\ writer' = writer
    BY <1>6 DEF Commit
  <2>2. CountStillTrue'
    BY <2>1, CountKept
  <2>3. LockHeld' /\ RequestMade'
    BY <2>1 DEF LockHeld, RequestMade, Inv
  <2> QED
    BY <1>0, <1>f, <2>1, <2>2, <2>3 DEF Inv
<1>7. CASE Release(c)
  <2>1. rows' \subseteq rows /\ pc' = pc /\ request' = request /\ writer' = writer
    BY <1>7 DEF Release
  <2>2. CountStillTrue'
    BY <1>7, <2>1, FreeLockNobodyFits DEF Release, CountStillTrue
  <2>3. LockHeld' /\ RequestMade'
    BY <2>1 DEF LockHeld, RequestMade, Inv
  <2> QED
    BY <1>0, <1>f, <2>1, <2>2, <2>3 DEF Inv
<1>8. CASE Drop(c)
  <2>1. rows' = rows
    BY <1>8 DEF Drop
  <2>2. CountStillTrue'
    BY <1>8, <1>t, <2>1, CountKept DEF Drop, TypeOK
  <2>3. LockHeld' /\ RequestMade'
    BY <1>8, <1>t DEF Drop, TypeOK, LockHeld, RequestMade, Inv
  <2> QED
    BY <1>0, <1>f, <2>1, <2>2, <2>3 DEF Inv
<1> QED
  BY <1>1, <1>2, <1>3, <1>4, <1>5, <1>6, <1>7, <1>8 DEF Step

\* So does every step of the system: the clock and the pruning included.
LEMMA NextInv == Inv /\ [Next]_vars => Inv'
<1> SUFFICES ASSUME Inv, [Next]_vars PROVE Inv'
  OBVIOUS
<1>t. IsFiniteSet(rows) /\ WindowCap
  BY DEF Inv
<1>1. ASSUME NEW t \in Times, SetClock(t) PROVE Inv'
  <2>1. TypeOK'
    BY <1>1, NextTypeOK DEF Next
  <2>2. rows' = rows /\ pc' = pc /\ request' = request /\ writer' = writer
    BY <1>1 DEF SetClock
  <2>3. CountStillTrue'
    BY <2>2, CountKept
  <2> QED
    BY <1>t, <2>1, <2>2, <2>3, FewerRows DEF Inv, LockHeld, RequestMade
<1>2. ASSUME NEW c \in Clients, Step(c) PROVE Inv'
  BY <1>2, StepInv
<1>3. CASE Prune
  <2>1. TypeOK'
    BY <1>3, NextTypeOK DEF Next
  <2>2. rows' \subseteq rows /\ pc' = pc /\ request' = request /\ writer' = writer
    BY <1>3 DEF Prune
  <2>3. CountStillTrue'
    BY <1>3, <2>2, FreeLockNobodyFits DEF Prune, CountStillTrue
  <2>4. IsFiniteSet(rows') /\ WindowCap'
    BY <1>t, <2>2, FewerRows, FS_Subset
  <2> QED
    BY <2>1, <2>2, <2>3, <2>4 DEF Inv, LockHeld, RequestMade
<1>4. CASE UNCHANGED vars
  <2>1. rows' = rows /\ pc' = pc /\ request' = request /\ writer' = writer /\ TypeOK'
    BY <1>4 DEF vars, Inv, TypeOK
  <2>2. CountStillTrue'
    BY <2>1, CountKept
  <2> QED
    BY <1>t, <2>1, <2>2, FewerRows DEF Inv, LockHeld, RequestMade
<1> QED
  BY <1>1, <1>2, <1>3, <1>4 DEF Next

-----------------------------------------------------------------------------
\* The inductive invariant of the limits store (limits.py): whoever is past BEGIN
\* IMMEDIATE holds the lock, and what it counted is still the count.
THEOREM InvHolds == Spec => []Inv
BY InitInv, NextInv, PTL DEF Spec

\* Every variable of the limits store keeps its type, for every instance.
THEOREM TypeCorrect == Spec => []TypeOK
<1>1. Inv => TypeOK
  BY DEF Inv
<1> QED
  BY <1>1, InvHolds, PTL

\* No stretch of Window seconds is ever over a ceiling, whatever the number of
\* processes reserving and whatever the clock does: limits.py, reserve.
THEOREM WindowCapHolds == Spec => []WindowCap
<1>1. Inv => WindowCap
  BY DEF Inv
<1> QED
  BY <1>1, InvHolds, PTL

\* A used slot leaves only by pruning: limits.py, release and prune.
THEOREM UsedStaysUsedHolds == Spec => UsedStaysUsed
<1> DEFINE Kept == \A e \in rows : e.id \in committed /\ e \notin rows' => e.at < Horizon
<1>1. ASSUME TypeOK, [Next]_vars PROVE [Kept]_vars
  <2>1. ASSUME NEW t \in Times, SetClock(t) PROVE Kept
    BY <2>1 DEF SetClock
  <2>2. ASSUME NEW c \in Clients, Step(c) PROVE Kept
    <3>1. CASE Release(c)
      BY <3>1 DEF Release, Refundable
    <3>2. CASE ~Release(c)
      BY <2>2, <3>2 DEF Step, Reserve, Begin, Count, Insert, Refuse, Commit, Drop
    <3> QED
      BY <3>1, <3>2
  <2>3. CASE Prune
    <3>1. Horizon \in Int /\ \A e \in rows : e.at \in Int
      BY <1>1, LimitStoreAssumption DEF Horizon, TypeOK, Events, Times
    <3> QED
      BY <2>3, <3>1 DEF Prune
  <2>4. CASE UNCHANGED vars
    BY <2>4
  <2> QED
    BY <1>1, <2>1, <2>2, <2>3, <2>4 DEF Next
<1> QED
  BY <1>1, TypeCorrect, PTL DEF Spec, UsedStaysUsed
=============================================================================
