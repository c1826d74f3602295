--------------------------- MODULE PlanStoreProofs ---------------------------
(***************************************************************************)
(* Proofs about PlanStore, for every set of processes and plan ids, every  *)
(* quota, TTL and clock: its types, the review quota, that a plan has one  *)
(* claimant, the edges of a plan's life, and that no claim is late.        *)
(***************************************************************************)
EXTENDS PlanStore, FiniteSetTheorems, TLAPS

\* A call in progress is well formed.
CallShape ==
  \A c \in Clients :
    /\ pc[c] = "idle" => call[c] = NoCall
    /\ pc[c] # "idle" => /\ call[c] \in Calls
                         /\ call[c].kind # "expire_stale" => call[c].plan \in Plans

\* A client inside a transaction holds the write lock, and where it reads the
\* clock there, it read it when the lock was granted.
LockHeld ==
  \A c \in Clients : pc[c] \in {"locked", "decided"} =>
    /\ writer = c
    /\ ReadsClockUnderLock(call[c].kind) => call[c].stamp = granted

\* What the body of a transaction decided is still what it would decide.
DecisionStands == \A c \in Clients : pc[c] = "decided" => verdict[c] = Decision(call[c])

Creating(c) == pc[c] # "idle" /\ call[c].kind = "create"

\* The id a create draws stays its own until the row is inserted.
FreshIds ==
  \A c \in Clients : Creating(c) =>
    /\ state[call[c].plan] = "absent"
    /\ \A d \in Clients \ {c} : Creating(d) => call[d].plan # call[c].plan

\* A plan somebody holds has left the queue.
HeldIsTaken == \A c \in Clients : held[c] # None => state[held[c]] \in {"applying"} \cup Results

\* What a finish in progress may close.
FinishesOwn ==
  \A c \in Clients : pc[c] # "idle" /\ call[c].kind = "finish" =>
    /\ held[c] # None
    /\ call[c].plan = held[c]
    /\ \/ state[held[c]] = "applying"
       \/ state[held[c]] = "applied" /\ call[c].result = "unknown_outcome"

Calling == CallShape /\ LockHeld /\ DecisionStands
Owning  == FreshIds /\ HeldIsTaken /\ FinishesOwn /\ OneClaimant
Inv     == TypeOK /\ Calling /\ Owning /\ PendingWithinQuota

USE PlanStoreAssumption DEF PlanState, Open, Terminal

-----------------------------------------------------------------------------
\* A decision depends on the call and on the rows, and is one of the verdicts.
LEMMA DecisionType ==
  ASSUME NEW k \in Calls
  PROVE  Decision(k) \in Verdicts
BY DEF Calls, Kinds, Decision, CreateVerdict, ClaimVerdict, RejectVerdict, Verdicts, Results

\* What a client decided stays right while the rows it read are unchanged.
LEMMA DecisionFrame ==
  ASSUME state' = state, expires' = expires, NEW k \in Calls
  PROVE  Decision(k)' = Decision(k)
BY DEF Decision, CreateVerdict, ClaimVerdict, RejectVerdict, PendingAfterExpiry, AfterExpiry,
       Stale, IsPending

\* What the verdict to write a row says of the row: claim and reject found it
\* pending, a finish writes its own result.
LEMMA RowDecided ==
  ASSUME Inv, NEW c \in Clients, pc[c] = "decided", call[c].kind \in {"claim", "reject", "finish"},
         verdict[c] # "refused"
  PROVE  /\ call[c].plan \in Plans
         /\ call[c].kind = "claim" => /\ state[call[c].plan] = "pending"
                                      /\ verdict[c] = "applying" => call[c].stamp < expires[call[c].plan]
                                      /\ verdict[c] \in {"applying", "expired"}
         /\ call[c].kind = "reject" => state[call[c].plan] = "pending" /\ verdict[c] = "rejected"
         /\ call[c].kind = "finish" => verdict[c] = call[c].result /\ verdict[c] \in Results
<1>1. call[c] \in Calls /\ call[c].plan \in Plans /\ verdict[c] = Decision(call[c])
  BY DEF Inv, Calling, CallShape, DecisionStands
<1>2. call[c].stamp \in Nat /\ expires[call[c].plan] \in Nat
  BY <1>1 DEF Inv, TypeOK, Calls
<1>3. CASE call[c].kind = "claim"
  BY <1>1, <1>2, <1>3 DEF Decision, ClaimVerdict, IsPending
<1>4. CASE call[c].kind = "reject"
  BY <1>1, <1>4 DEF Decision, RejectVerdict, IsPending
<1>5. CASE call[c].kind = "finish"
  BY <1>1, <1>5 DEF Decision, Calls
<1> QED
  BY <1>1, <1>3, <1>4, <1>5

\* The steps of a transaction that publish its writes.
Commits(c) == CommitCreate(c) \/ CommitClaim(c) \/ CommitRow(c) \/ CommitExpireStale(c)

\* One plan's move, in any commit.
LEMMA CommitMoves ==
  ASSUME Inv, NEW c \in Clients, Commits(c), NEW p \in Plans, state'[p] # state[p]
  PROVE  /\ <<state[p], state'[p]>> \in Moves
         /\ state[p] = "absent"   => CommitCreate(c) /\ p = call[c].plan
         /\ state'[p] = "pending" => CommitCreate(c) /\ p = call[c].plan
         /\ state'[p] = "applying" => CommitClaim(c) /\ p = call[c].plan
         /\ state[p] \in {"applying"} \cup Results => CommitRow(c) /\ p = held[c] /\ state'[p] \in Results
<1> USE DEF Inv, TypeOK
<1>0. pc[c] = "decided"
  BY DEF Commits, CommitCreate, CommitClaim, CommitRow, CommitExpireStale
<1>1. call[c] \in Calls /\ (call[c].kind # "expire_stale" => call[c].plan \in Plans)
  BY <1>0 DEF Calling, CallShape
<1>2. \A t : AfterExpiry(t)[p] # state[p] => state[p] = "pending" /\ AfterExpiry(t)[p] = "expired"
  BY DEF AfterExpiry, Stale, IsPending
<1>3. CASE CommitCreate(c)
  <2>1. state[call[c].plan] = "absent"
    BY <1>3 DEF CommitCreate, Owning, FreshIds, Creating
  <2>2. CASE p = call[c].plan
    BY <1>3, <2>1, <2>2 DEF CommitCreate, Moves, AfterExpiry, Results
  <2>3. CASE p # call[c].plan
    BY <1>2, <1>3, <2>3 DEF CommitCreate, Moves, AfterExpiry, Results
  <2> QED
    BY <2>2, <2>3
<1>4. CASE CommitClaim(c)
  BY <1>1, <1>4 DEF CommitClaim, IsPending, Moves, Results
<1>5. CASE CommitRow(c)
  <2>1. p = call[c].plan /\ state'[p] = verdict[c]
    BY <1>5 DEF CommitRow
  <2>2. CASE call[c].kind = "claim"
    BY <1>5, <2>1, <2>2, RowDecided DEF CommitRow, Moves, Results
  <2>3. CASE call[c].kind = "reject"
    BY <1>5, <2>1, <2>3, RowDecided DEF CommitRow, Moves, Results
  <2>4. CASE call[c].kind = "finish"
    <3>1. p = held[c] /\ verdict[c] = call[c].result /\ verdict[c] \in Results
      BY <1>5, <2>1, <2>4, RowDecided DEF CommitRow, Owning, FinishesOwn
    <3>2. \/ state[p] = "applying"
          \/ state[p] = "applied" /\ verdict[c] = "unknown_outcome"
      BY <1>0, <2>4, <3>1 DEF Owning, FinishesOwn
    <3> QED
      BY <1>5, <2>1, <3>1, <3>2 DEF Moves, Results
  <2> QED
    BY <1>5, <2>2, <2>3, <2>4 DEF CommitRow
<1>6. CASE CommitExpireStale(c)
  BY <1>2, <1>6 DEF CommitExpireStale, Moves, Results
<1> QED
  BY <1>3, <1>4, <1>5, <1>6 DEF Commits

-----------------------------------------------------------------------------
\* The empty table satisfies the invariant.
LEMMA InitInv == Init => Inv
<1> SUFFICES ASSUME Init PROVE Inv
  OBVIOUS
<1> USE DEF Init
<1>1. TypeOK
  BY DEF TypeOK, Verdicts
<1>2. Calling
  BY DEF Calling, CallShape, LockHeld, DecisionStands
<1>3. Owning
  BY DEF Owning, FreshIds, Creating, HeldIsTaken, FinishesOwn, OneClaimant
<1>4. PendingWithinQuota
  <2>1. {p \in Plans : state[p] = "pending"} = {}
    OBVIOUS
  <2> QED
    BY <2>1, FS_EmptySet DEF PendingWithinQuota
<1> QED
  BY <1>1, <1>2, <1>3, <1>4 DEF Inv

-----------------------------------------------------------------------------
(* The queue.                                                              *)

Pending == {p \in Plans : state[p] = "pending"}

\* A step that puts no plan into the queue keeps it within its quota.
LEMMA QueueShrinks ==
  ASSUME Inv, \A p \in Plans : state'[p] = "pending" => state[p] = "pending"
  PROVE  PendingWithinQuota'
<1>1. Pending' \subseteq Pending /\ IsFiniteSet(Pending)
  BY FS_Subset DEF Pending
<1>2. Cardinality(Pending') <= Cardinality(Pending) /\ IsFiniteSet(Pending')
  BY <1>1, FS_Subset
<1>3. Cardinality(Pending) \in Nat /\ Cardinality(Pending') \in Nat
  BY <1>1, <1>2, FS_CardinalityType
<1> QED
  BY <1>2, <1>3 DEF Pending, PendingWithinQuota, Inv

\* What create counted is still the queue when it inserts.
LEMMA QueueGrowsByOne ==
  ASSUME Inv, NEW c \in Clients, CommitCreate(c)
  PROVE  PendingWithinQuota'
<1> DEFINE k == call[c]
           rest == PendingAfterExpiry(k.stamp)
<1>1. k \in Calls /\ k.plan \in Plans /\ k.kind = "create"
  BY DEF Inv, Calling, CallShape, CommitCreate
<1>2. Cardinality(rest) < MaxPending
  <2>1. CreateVerdict(k.stamp) = "pending"
    BY <1>1 DEF Inv, Calling, DecisionStands, Decision, CommitCreate
  <2>2. rest \subseteq Plans
    BY DEF PendingAfterExpiry
  <2>3. IsFiniteSet(rest) /\ Cardinality(rest) \in Nat
    BY <2>2, FS_Subset, FS_CardinalityType
  <2> QED
    BY <2>1, <2>3 DEF CreateVerdict
<1>3. Pending' \subseteq rest \cup {k.plan}
  BY <1>1 DEF Pending, PendingAfterExpiry, CommitCreate, AfterExpiry
<1>4. IsFiniteSet(rest) /\ Cardinality(rest) \in Nat
  <2>1. rest \subseteq Plans
    BY DEF PendingAfterExpiry
  <2> QED
    BY <2>1, FS_Subset, FS_CardinalityType
<1>5. /\ IsFiniteSet(rest \cup {k.plan})
      /\ Cardinality(rest \cup {k.plan})
           = IF k.plan \in rest THEN Cardinality(rest) ELSE Cardinality(rest) + 1
  BY <1>4, FS_AddElement
<1>6. IsFiniteSet(Pending') /\ Cardinality(Pending') <= Cardinality(rest \cup {k.plan})
  BY <1>3, <1>5, FS_Subset
<1>7. Cardinality(Pending') \in Nat
  BY <1>6, FS_CardinalityType
<1>8. Cardinality(Pending') <= MaxPending
  BY <1>2, <1>4, <1>5, <1>6, <1>7
<1> QED
  BY <1>8 DEF Pending, PendingWithinQuota

-----------------------------------------------------------------------------
(* Steps that write no row: entering, taking the lock, deciding, leaving.  *)

\* The rows stay, and nobody comes to hold a plan.
Quiet == state' = state /\ expires' = expires

\* Entering a method (create, claim, finish, reject, expire_stale) keeps it.
LEMMA EnterInv ==
  ASSUME Inv, NEW c \in Clients, NEW k \in Kinds, NEW p \in Plans \cup {None}, NEW r \in Results,
         Enter(c, k, p, r),
         k # "expire_stale" => p \in Plans,
         k = "create" => /\ state[p] = "absent"
                         /\ \A d \in Clients : call[d] # NoCall => ~(call[d].kind = "create" /\ call[d].plan = p),
         k = "finish" => /\ held[c] = p /\ p # None
                         /\ state[p] # "applying" => state[p] = "applied" /\ r = "unknown_outcome"
  PROVE  Inv'
<1> USE DEF Inv, TypeOK, Enter
<1> DEFINE new == [kind |-> k, plan |-> p, stamp |-> now, result |-> r]
<1>1. new \in Calls
  BY DEF Calls
<1>2. /\ pc'[c] = "waiting" /\ call'[c] = new
      /\ \A d \in Clients \ {c} : pc'[d] = pc[d] /\ call'[d] = call[d]
      /\ pc[c] = "idle"
  OBVIOUS
<1>3. TypeOK'
  BY <1>1
<1>4. Calling'
  <2>1. CallShape'
    BY <1>1, <1>2 DEF Calling, CallShape
  <2>2. LockHeld'
    BY <1>2 DEF Calling, LockHeld
  <2>3. DecisionStands'
    <3> SUFFICES ASSUME NEW d \in Clients, pc'[d] = "decided" PROVE verdict'[d] = Decision(call[d])'
      BY DEF DecisionStands
    <3>1. d # c /\ call'[d] = call[d] /\ call[d] \in Calls /\ pc[d] = "decided"
      BY <1>2 DEF Calling, CallShape
    <3>2. Decision(call[d])' = Decision(call[d])
      <4>1. state' = state /\ expires' = expires
        OBVIOUS
      <4> HIDE DEF Inv, TypeOK, Enter
      <4> QED
        BY <3>1, <4>1 DEF Decision, CreateVerdict, ClaimVerdict, RejectVerdict,
                          PendingAfterExpiry, AfterExpiry, Stale, IsPending
    <3> QED
      BY <3>1, <3>2 DEF Calling, DecisionStands
  <2> QED
    BY <2>1, <2>2, <2>3 DEF Calling
<1>5. Owning'
  <2>1. FreshIds'
    BY <1>2 DEF Owning, FreshIds, Creating, Calling, CallShape, NoCall, Calls
  <2>2. HeldIsTaken' /\ OneClaimant'
    BY DEF Owning, HeldIsTaken, OneClaimant
  <2>3. FinishesOwn'
    BY <1>2 DEF Owning, FinishesOwn
  <2> QED
    BY <2>1, <2>2, <2>3 DEF Owning
<1>6. PendingWithinQuota'
  BY QueueShrinks
<1> QED
  BY <1>3, <1>4, <1>5, <1>6

\* Nobody but c is inside a transaction when c is, or when the lock is free.
LEMMA Alone ==
  ASSUME Inv, NEW c \in Clients, LockFree \/ pc[c] \in {"locked", "decided"}
  PROVE  \A d \in Clients \ {c} : pc[d] \notin {"locked", "decided"}
BY DEF Inv, Calling, LockHeld, LockFree

\* BEGIN IMMEDIATE keeps it: the lock was free.
LEMMA BeginInv ==
  ASSUME Inv, NEW c \in Clients, Begin(c)
  PROVE  Inv'
<1> USE DEF Inv, TypeOK, Begin
<1>1. /\ pc'[c] = "locked" /\ pc[c] = "waiting"
      /\ \A d \in Clients \ {c} : pc'[d] = pc[d] /\ call'[d] = call[d]
      /\ \A d \in Clients \ {c} : pc[d] \notin {"locked", "decided"}
  BY Alone
<1>2. call[c] \in Calls
  BY DEF Calling, CallShape
<1>3. /\ call'[c] \in Calls
      /\ call'[c].kind = call[c].kind /\ call'[c].plan = call[c].plan /\ call'[c].result = call[c].result
      /\ ReadsClockUnderLock(call[c].kind) => call'[c].stamp = now
  BY <1>2 DEF Calls
<1>4. TypeOK'
  BY <1>3
<1>5. Calling'
  BY <1>1, <1>3 DEF Calling, CallShape, LockHeld, DecisionStands
<1>6. Owning'
  BY <1>1, <1>3 DEF Owning, FreshIds, Creating, HeldIsTaken, FinishesOwn, OneClaimant
<1>7. PendingWithinQuota'
  BY QueueShrinks
<1> QED
  BY <1>4, <1>5, <1>6, <1>7

\* The body's decision keeps it: it is taken from the rows as they are.
LEMMA DecideInv ==
  ASSUME Inv, NEW c \in Clients, Decide(c)
  PROVE  Inv'
<1> USE DEF Inv, TypeOK, Decide
<1>1. /\ pc'[c] = "decided" /\ pc[c] = "locked"
      /\ \A d \in Clients \ {c} : pc'[d] = pc[d] /\ pc[d] \notin {"locked", "decided"}
  BY Alone
<1>2. call[c] \in Calls /\ Decision(call[c]) \in Verdicts
  BY <1>1, DecisionType DEF Calling, CallShape
<1>3. TypeOK'
  BY <1>2
<1>4. CallShape' /\ LockHeld'
  BY <1>1 DEF Calling, CallShape, LockHeld
<1>5. DecisionStands'
  <2> SUFFICES ASSUME NEW d \in Clients, pc'[d] = "decided" PROVE verdict'[d] = Decision(call[d])'
    BY DEF DecisionStands
  <2>1. d = c /\ verdict'[c] = Decision(call[c])
    BY <1>1
  <2>2. Decision(call[c])' = Decision(call[c])
    BY DEF Decision, CreateVerdict, ClaimVerdict, RejectVerdict, PendingAfterExpiry,
           AfterExpiry, Stale, IsPending
  <2> QED
    BY <2>1, <2>2
<1>6. Owning'
  BY <1>1 DEF Owning, FreshIds, Creating, HeldIsTaken, FinishesOwn, OneClaimant
<1>7. PendingWithinQuota'
  BY QueueShrinks
<1> QED
  BY <1>3, <1>4, <1>5, <1>6, <1>7 DEF Calling

-----------------------------------------------------------------------------
(* Steps that end a call.                                                  *)

\* c goes home; everyone else's call is as it was.
GoesHome(c) ==
  /\ pc'[c] = "idle" /\ call'[c] = NoCall
  /\ \A d \in Clients \ {c} : pc'[d] = pc[d] /\ call'[d] = call[d] /\ verdict'[d] = verdict[d]

\* After COMMIT or ROLLBACK the client is idle and the others are where they were.
LEMMA ReturnGoesHome ==
  ASSUME Inv, NEW c \in Clients, Return(c)
  PROVE  GoesHome(c)
BY DEF Inv, TypeOK, Return, GoesHome

\* Without a write, the decisions of the others stand.
LEMMA QuietReturn ==
  ASSUME Inv, NEW c \in Clients, GoesHome(c), Quiet,
         granted' = granted, \A d \in Clients \ {c} : writer = d => writer' = d
  PROVE  Calling'
<1> USE DEF Inv, GoesHome
<1>1. CallShape' /\ LockHeld'
  BY DEF Calling, CallShape, LockHeld
<1>2. DecisionStands'
  <2> SUFFICES ASSUME NEW d \in Clients, pc'[d] = "decided" PROVE verdict'[d] = Decision(call[d])'
    BY DEF DecisionStands
  <2>1. d # c /\ call'[d] = call[d] /\ call[d] \in Calls /\ pc[d] = "decided"
    BY DEF Calling, CallShape
  <2>2. Decision(call[d])' = Decision(call[d])
    BY <2>1 DEF Quiet, Decision, CreateVerdict, ClaimVerdict, RejectVerdict, PendingAfterExpiry,
                AfterExpiry, Stale, IsPending
  <2> QED
    BY <2>1, <2>2 DEF Calling, DecisionStands
<1> QED
  BY <1>1, <1>2 DEF Calling

\* After a commit nobody is inside a transaction, so no decision is left to stand.
LEMMA CommitReturn ==
  ASSUME Inv, NEW c \in Clients, GoesHome(c), pc[c] = "decided"
  PROVE  Calling'
<1>1. \A d \in Clients \ {c} : pc[d] \notin {"locked", "decided"}
  BY Alone
<1> QED
  BY <1>1 DEF Inv, GoesHome, Calling, CallShape, LockHeld, DecisionStands

\* Whoever returns without a write, keeping or dropping the plan it holds,
\* leaves the invariant as it was.
LEMMA QuietInv ==
  ASSUME Inv, NEW c \in Clients, GoesHome(c), Quiet, TypeOK', granted' = granted,
         \A d \in Clients \ {c} : (writer = d => writer' = d) /\ held'[d] = held[d],
         held'[c] \in {held[c], None}
  PROVE  Inv'
<1> USE DEF Inv, GoesHome, Quiet
<1>1. Calling'
  BY QuietReturn
<1>2. FreshIds'
  BY DEF Owning, FreshIds, Creating
<1>3. HeldIsTaken' /\ OneClaimant'
  BY DEF Owning, HeldIsTaken, OneClaimant
<1>4. FinishesOwn'
  BY DEF Owning, FinishesOwn
<1>5. PendingWithinQuota'
  BY QueueShrinks
<1> QED
  BY <1>1, <1>2, <1>3, <1>4, <1>5 DEF Owning

\* COMMIT keeps the types.
LEMMA CommitTypeOK ==
  ASSUME Inv, NEW c \in Clients, Commits(c)
  PROVE  TypeOK'
<1> USE DEF Inv, TypeOK, Return
<1>0. pc[c] = "decided"
  BY DEF Commits, CommitCreate, CommitClaim, CommitRow, CommitExpireStale
<1>1. call[c] \in Calls /\ (call[c].kind # "expire_stale" => call[c].plan \in Plans)
  BY <1>0 DEF Calling, CallShape
<1>2. \A t : AfterExpiry(t) \in [Plans -> PlanState \cup {"absent"}]
  BY DEF AfterExpiry
<1>p. /\ now' \in Nat /\ writer' \in Clients \cup {None} /\ granted' \in Nat
      /\ pc' \in [Clients -> {"idle", "waiting", "locked", "decided"}]
      /\ call' \in [Clients -> Calls \cup {NoCall}]
      /\ verdict' \in [Clients -> Verdicts]
  <2>1. Return(c)
    BY DEF Commits, CommitCreate, CommitClaim, CommitRow, CommitExpireStale
  <2> QED
    BY <2>1 DEF Verdicts
<1>3. CASE CommitCreate(c)
  <2>1. call[c].stamp + Ttl \in Nat
    BY <1>1 DEF Calls
  <2> QED
    BY <1>1, <1>2, <1>3, <1>p, <2>1 DEF CommitCreate
<1>4. CASE CommitClaim(c)
  BY <1>1, <1>4, <1>p DEF CommitClaim
<1>5. CASE CommitRow(c)
  <2>1. verdict[c] \in PlanState
    BY <1>5, RowDecided DEF CommitRow, Results
  <2> QED
    BY <1>1, <1>5, <1>p, <2>1 DEF CommitRow
<1>6. CASE CommitExpireStale(c)
  BY <1>2, <1>6, <1>p DEF CommitExpireStale
<1> QED
  BY <1>3, <1>4, <1>5, <1>6 DEF Commits

\* COMMIT keeps the invariant.
LEMMA CommitInv ==
  ASSUME Inv, NEW c \in Clients, Commits(c)
  PROVE  Inv'
<1> USE DEF Inv
<1>1. TypeOK'
  BY CommitTypeOK
<1>2. Return(c) /\ pc[c] = "decided"
  BY DEF Commits, CommitCreate, CommitClaim, CommitRow, CommitExpireStale
<1>3. GoesHome(c)
  BY <1>2, ReturnGoesHome
<1>4. Calling'
  BY <1>2, <1>3, CommitReturn
<1>5. \A d \in Clients : held'[d] = held[d] \/ (CommitClaim(c) /\ d = c /\ held'[d] = call[c].plan)
  BY DEF Commits, CommitCreate, CommitClaim, CommitRow, CommitExpireStale, TypeOK
<1>6. CommitClaim(c) => /\ call[c].plan \in Plans
                        /\ state[call[c].plan] = "pending"
                        /\ state'[call[c].plan] = "applying"
  BY DEF CommitClaim, IsPending, Calling, CallShape, TypeOK
<1>7. FreshIds'
  <2> SUFFICES ASSUME NEW d \in Clients, Creating(d)'
               PROVE  /\ state'[call'[d].plan] = "absent"
                      /\ \A b \in Clients \ {d} : Creating(b)' => call'[b].plan # call'[d].plan
    BY DEF FreshIds
  <2>1. d # c /\ Creating(d) /\ call'[d] = call[d] /\ call[d].plan \in Plans
    BY <1>3 DEF GoesHome, Creating, Calling, CallShape
  <2>2. \A b \in Clients \ {d} : Creating(b)' => Creating(b) /\ call'[b] = call[b]
    BY <1>3 DEF GoesHome, Creating
  <2>3. state[call[d].plan] = "absent"
    BY <2>1 DEF Owning, FreshIds
  <2>4. CommitCreate(c) => call[c].plan # call[d].plan
    BY <1>2, <2>1 DEF CommitCreate, Creating, Owning, FreshIds
  <2>5. state'[call[d].plan] = state[call[d].plan]
    BY <2>1, <2>3, <2>4, CommitMoves
  <2> QED
    BY <2>1, <2>2, <2>3, <2>5 DEF Owning, FreshIds
<1>8. HeldIsTaken' /\ OneClaimant'
  <2>1. ASSUME NEW d \in Clients, held'[d] # None PROVE state'[held'[d]] \in {"applying"} \cup Results
    <3>1. CASE held'[d] = held[d]
      <4>1. held[d] \in Plans /\ state[held[d]] \in {"applying"} \cup Results
        BY <2>1, <3>1 DEF Owning, HeldIsTaken, TypeOK
      <4> QED
        BY <3>1, <4>1, CommitMoves
    <3>2. CASE CommitClaim(c) /\ held'[d] = call[c].plan
      BY <1>6, <3>2
    <3> QED
      BY <1>5, <3>1, <3>2
  <2>2. ASSUME NEW b \in Clients, NEW d \in Clients, held'[b] # None, held'[b] = held'[d] PROVE b = d
    <3>1. \A e \in Clients : CommitClaim(c) => held[e] # call[c].plan
      BY <1>6 DEF Owning, HeldIsTaken, Results, TypeOK
    <3> QED
      BY <1>5, <2>2, <3>1 DEF Owning, OneClaimant
  <2> QED
    BY <2>1, <2>2 DEF HeldIsTaken, OneClaimant
<1>9. FinishesOwn'
  <2> SUFFICES ASSUME NEW d \in Clients, pc'[d] # "idle", call'[d].kind = "finish"
               PROVE  /\ held'[d] # None
                      /\ call'[d].plan = held'[d]
                      /\ \/ state'[held'[d]] = "applying"
                         \/ state'[held'[d]] = "applied" /\ call'[d].result = "unknown_outcome"
    BY DEF FinishesOwn
  <2>1. d # c /\ pc[d] # "idle" /\ call'[d] = call[d] /\ held'[d] = held[d]
    BY <1>3, <1>5 DEF GoesHome
  <2>2. /\ held[d] \in Plans /\ call[d].plan = held[d] /\ held[d] # None
        /\ \/ state[held[d]] = "applying"
           \/ state[held[d]] = "applied" /\ call[d].result = "unknown_outcome"
    BY <2>1 DEF Owning, FinishesOwn, TypeOK
  <2>3. held[c] # held[d]
    BY <2>1, <2>2 DEF Owning, OneClaimant
  <2>4. state'[held[d]] = state[held[d]]
    BY <2>2, <2>3, CommitMoves DEF Results
  <2> QED
    BY <2>1, <2>2, <2>4
<1>10. PendingWithinQuota'
  <2>1. CASE CommitCreate(c)
    BY <2>1, QueueGrowsByOne
  <2>2. CASE ~CommitCreate(c)
    BY <2>2, CommitMoves, QueueShrinks
  <2> QED
    BY <2>1, <2>2
<1> QED
  BY <1>1, <1>4, <1>7, <1>8, <1>9, <1>10 DEF Owning

-----------------------------------------------------------------------------
\* Every step of the system keeps it: the clock and a crash included.
LEMMA NextInv == Inv /\ [Next]_vars => Inv'
<1> SUFFICES ASSUME Inv, [Next]_vars PROVE Inv'
  OBVIOUS
<1>1. CASE Tick
  <2>1. TypeOK' /\ Quiet
    BY <1>1 DEF Tick, Inv, TypeOK, Quiet
  <2>2. CallShape' /\ LockHeld' /\ Owning' /\ PendingWithinQuota'
    BY <1>1 DEF Tick, Inv, Calling, CallShape, LockHeld, Owning, FreshIds, Creating, HeldIsTaken,
                FinishesOwn, OneClaimant, PendingWithinQuota
  <2>3. DecisionStands'
    BY <1>1, <2>1, DecisionFrame DEF Tick, Inv, Calling, CallShape, DecisionStands, Quiet
  <2> QED
    BY <2>1, <2>2, <2>3 DEF Inv, Calling
<1>2. ASSUME NEW c \in Clients, Step(c) PROVE Inv'
  <2>1. ASSUME NEW p \in Plans, Create(c, p) PROVE Inv'
    <3>1. Enter(c, "create", p, "failed") /\ "create" \in Kinds /\ "failed" \in Results
      BY <2>1 DEF Create, Kinds, Results
    <3> QED
      BY <2>1, <3>1, EnterInv DEF Create
  <2>2. ASSUME NEW p \in Plans, Claim(c, p) \/ Reject(c, p) PROVE Inv'
    <3>1. PICK k \in {"claim", "reject"} : Enter(c, k, p, "failed")
      BY <2>2 DEF Claim, Reject
    <3>2. k \in Kinds /\ "failed" \in Results
      BY DEF Kinds, Results
    <3> QED
      BY <3>1, <3>2, EnterInv
  <2>3. CASE ExpireStale(c)
    <3>1. Enter(c, "expire_stale", None, "failed") /\ "expire_stale" \in Kinds /\ "failed" \in Results
      BY <2>3 DEF ExpireStale, Kinds, Results
    <3> QED
      BY <3>1, EnterInv
  <2>4. ASSUME NEW r \in Results, Finish(c, r) PROVE Inv'
    <3>1. Enter(c, "finish", held[c], r) /\ "finish" \in Kinds /\ held[c] \in Plans
      BY <2>4 DEF Finish, Kinds, Inv, TypeOK
    <3> QED
      BY <2>4, <3>1, EnterInv DEF Finish
  <2>5. CASE Begin(c)
    BY <2>5, BeginInv
  <2>6. CASE BeginTimesOut(c)
    <3>1. TypeOK' /\ GoesHome(c) /\ Quiet
      BY <2>6 DEF BeginTimesOut, Inv, TypeOK, GoesHome, Quiet
    <3> QED
      BY <2>6, <3>1, QuietInv DEF BeginTimesOut
  <2>7. CASE Decide(c)
    BY <2>7, DecideInv
  <2>8. CASE Rollback(c)
    <3>1. Return(c) /\ Quiet /\ held' = held
      BY <2>8 DEF Rollback, Quiet
    <3>2. TypeOK' /\ granted' = granted /\ \A d \in Clients \ {c} : writer = d => writer' = d
      BY <3>1 DEF Return, Inv, TypeOK, Quiet, Verdicts
    <3> QED
      BY <3>1, <3>2, QuietInv, ReturnGoesHome
  <2>9. CASE Commits(c)
    BY <2>9, CommitInv
  <2>10. CASE Crash(c)
    <3>1. Return(c) /\ Quiet /\ held' = [held EXCEPT ![c] = None]
      BY <2>10 DEF Crash, Quiet
    <3>2. TypeOK' /\ granted' = granted /\ \A d \in Clients \ {c} : writer = d => writer' = d
      BY <3>1 DEF Return, Inv, TypeOK, Quiet, Verdicts
    <3>3. held'[c] = None /\ \A d \in Clients \ {c} : held'[d] = held[d]
      BY <3>1 DEF Inv, TypeOK
    <3> QED
      BY <3>1, <3>2, <3>3, QuietInv, ReturnGoesHome
  <2> QED
    BY <1>2, <2>1, <2>2, <2>3, <2>4, <2>5, <2>6, <2>7, <2>8, <2>9, <2>10 DEF Step, Commits
<1>3. CASE UNCHANGED vars
  <2>1. TypeOK' /\ Quiet
    BY <1>3 DEF vars, Inv, TypeOK, Quiet
  <2>2. CallShape' /\ LockHeld' /\ Owning' /\ PendingWithinQuota'
    BY <1>3 DEF vars, Inv, Calling, CallShape, LockHeld, Owning, FreshIds, Creating, HeldIsTaken,
                FinishesOwn, OneClaimant, PendingWithinQuota
  <2>3. DecisionStands'
    BY <1>3, <2>1, DecisionFrame DEF vars, Inv, Calling, CallShape, DecisionStands, Quiet
  <2> QED
    BY <2>1, <2>2, <2>3 DEF Inv, Calling
<1> QED
  BY <1>1, <1>2, <1>3 DEF Next

-----------------------------------------------------------------------------
\* The inductive invariant of the plan store (plans.py): whoever is past BEGIN
\* IMMEDIATE holds the lock, and what it decided is still what it would decide.
THEOREM InvHolds == Spec => []Inv
BY InitInv, NextInv, PTL DEF Spec

\* Every variable of the plan store keeps its type, for every instance.
THEOREM TypeCorrect == Spec => []TypeOK
<1>1. Inv => TypeOK
  BY DEF Inv
<1> QED
  BY <1>1, InvHolds, PTL

\* The review queue stays within max_pending however many processes create
\* plans: plans.py, create.
THEOREM PendingWithinQuotaHolds == Spec => []PendingWithinQuota
<1>1. Inv => PendingWithinQuota
  BY DEF Inv
<1> QED
  BY <1>1, InvHolds, PTL

\* A plan is claimed by one process only: plans.py, claim.
THEOREM OneClaimantHolds == Spec => []OneClaimant
<1>1. Inv => OneClaimant
  BY DEF Inv, Owning
<1> QED
  BY <1>1, InvHolds, PTL

\* Rows move only when a transaction commits.
LEMMA OnlyCommitsMove ==
  ASSUME Next, NEW p \in Plans, state'[p] # state[p]
  PROVE  \E c \in Clients : Commits(c)
BY DEF Next, Tick, Step, Create, Claim, Reject, ExpireStale, Finish, Enter, Begin, BeginTimesOut,
       Decide, Rollback, Crash, Commits

\* Every change of a plan's state is one of the legal moves: plans.py, every
\* method that writes.
THEOREM LegalMovesHolds == Spec => LegalMoves
<1> DEFINE Legal == \A p \in Plans : state'[p] # state[p] => <<state[p], state'[p]>> \in Moves
<1>1. ASSUME Inv, [Next]_vars PROVE [Legal]_vars
  <2> SUFFICES ASSUME Next, NEW p \in Plans, state'[p] # state[p]
               PROVE  <<state[p], state'[p]>> \in Moves
    BY <1>1
  <2>1. PICK c \in Clients : Commits(c)
    BY OnlyCommitsMove
  <2> QED
    BY <1>1, <2>1, CommitMoves
<1> QED
  BY <1>1, InvHolds, PTL DEF Spec, LegalMoves

\* No claim of a plan whose TTL ran out before the lock was granted: plans.py,
\* claim, which reads the clock inside the transaction.
THEOREM ClaimedInTimeHolds == Spec => ClaimedInTime
<1> DEFINE InTime == \A p \in Plans : state[p] = "pending" /\ state'[p] = "applying"
                                        => granted < expires[p]
<1>1. ASSUME Inv, [Next]_vars PROVE [InTime]_vars
  <2> SUFFICES ASSUME Next, NEW p \in Plans, state[p] = "pending", state'[p] = "applying"
               PROVE  granted < expires[p]
    BY <1>1
  <2>1. PICK c \in Clients : Commits(c)
    BY OnlyCommitsMove
  <2>2. CommitClaim(c) /\ p = call[c].plan
    BY <1>1, <2>1, CommitMoves
  <2>3. call[c].stamp < expires[p]
    BY <1>1, <2>2, RowDecided DEF CommitClaim
  <2>4. call[c].stamp = granted
    BY <1>1, <2>2 DEF CommitClaim, Inv, Calling, LockHeld, ReadsClockUnderLock
  <2> QED
    BY <2>3, <2>4
<1> QED
  BY <1>1, InvHolds, PTL DEF Spec, ClaimedInTime
=============================================================================
