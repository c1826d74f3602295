---------------------------- MODULE LongCallsProofs ----------------------------
(***************************************************************************)
(* Proofs about the long calls.  Archive: its types, that nothing of a     *)
(* forgotten chat stays on disk, and that the watermarks vouch for no      *)
(* range with a hole in it, for every page size, budget, number of         *)
(* messages and of troubles.  Media: that a download leaves nothing        *)
(* half-done behind and two never share a quota unseen, for any number of  *)
(* calls.  Watch: that a watch hands over its burst whole and for the true *)
(* reason, for every queue, limit and clock.                               *)
(***************************************************************************)
EXTENDS Archive, Media, Watch, SafetyProofs, FiniteSetTheorems, WellFoundedInduction, TLAPS

-----------------------------------------------------------------------------
(* Archive: what is true of a walk and its marks.                           *)

\* What a sync is about to store is a page of what it may still read.
PageFits ==
  pc \in {"store_new", "store_old"} => page # {} /\ Cardinality(page) <= Want

\* Watermarks lie among the n ids given out, and are set in pairs.
Fits(m, n) ==
  /\ m.newest <= n /\ m.top <= n
  /\ m.newest # 0 => m.oldest # 0 /\ m.oldest <= m.newest
  /\ m.newest = 0 => m.oldest = 0 /\ m.from = 0
  /\ m.from = 0 => m.top = 0
  /\ m.from # 0 => m.newest < m.from /\ m.from <= m.top

\* Every message they vouch for is on disk.
Vouched(m) == \A id \in live : Covered(m, id) => id \in disk

New == {"fetch_new", "store_new"}
Old == {"fetch_old", "store_old"}
Storing == {"store_new", "store_old"}

\* Where a walk began: the upper end of the hole, or the oldest archived message.
StartOf(m) == IF pc \in New THEN m.from ELSE m.oldest

\* Is id one that the walk has passed: at or above its lowest, below its start?
Passed(w, start, id) ==
  w.low # 0 /\ w.low <= id /\ IF start = 0 THEN id <= w.high ELSE id < start

\* What a walk from start, above floor, has seen lies between the two.
WalkIn(w, floor, start, n) ==
  /\ w.high <= n
  /\ w.low = 0 => w.high = 0
  /\ w.low # 0 => floor < w.low /\ w.low <= w.high /\ (start # 0 => w.high < start)

\* Where a walk reads next: below its lowest.
NextBelow(w, start) == IF w.low = 0 THEN start ELSE w.low

WalkFits ==
  pc \in New \cup Old =>
    /\ walk.floor = IF pc \in New THEN mark.newest ELSE 0
    /\ walk.cursor = NextBelow(walk, StartOf(mark))
    /\ WalkIn(walk, walk.floor, StartOf(mark), last)
    /\ walk.budget # 0
    /\ pc \in New => mark.newest # 0

\* What a walk has passed is on disk.
WalkStored ==
  pc \in New \cup Old => \A id \in live : Passed(walk, StartOf(mark), id) => id \in disk

\* The page fetched leaves no message out above its lowest; nor below it, when it is
\* shorter than asked for.
PageIsWhole ==
  pc \in Storing =>
    /\ \A p \in page : walk.floor < p /\ (walk.cursor # 0 => p < walk.cursor)
    /\ \A id \in live : \A p, q \in page :
         p <= id /\ (IF walk.cursor = 0 THEN id <= q ELSE id < walk.cursor) => id \in page
    /\ Cardinality(page) < Want =>
         \A id \in live : \A p \in page : walk.floor < id /\ id < p => id \in page

\* While nothing is forgotten halfway.
Settled == archived /\ forget = "idle"

ArchiveInv ==
  /\ TypeOK
  /\ PageFits
  /\ NoOrphans
  /\ Fits(row, last) /\ (pc # "idle" => Fits(mark, last))
  /\ WalkFits
  /\ PageIsWhole
  /\ Settled => Vouched(row) /\ WalkStored /\ (pc # "idle" => Vouched(mark))

-----------------------------------------------------------------------------
(* Least and greatest members.                                              *)

\* A set of natural numbers has a least one.
LEMMA LeastIsThere ==
  ASSUME NEW S, S \subseteq Nat, S # {}
  PROVE  Least(S) \in S /\ \A y \in S : Least(S) <= y
<1> DEFINE R == OpToRel(<, Nat)
<1>1. PICK x \in S : \A y \in S : ~ (<<y, x>> \in R)
  <2>1. IsWellFoundedOn(R, Nat)
    BY NatLessThanWellFounded
  <2> HIDE DEF R
  <2> QED
    BY <2>1, WFMin
<1>2. \A y \in S : x <= y
  <2> SUFFICES ASSUME NEW y \in S PROVE x <= y
    OBVIOUS
  <2>1. x \in Nat /\ y \in Nat
    OBVIOUS
  <2>2. ~ (y < x)
    BY <1>1, <2>1 DEF OpToRel
  <2> QED
    BY <2>1, <2>2
<1> QED
  BY <1>2 DEF Least

\* A bounded set of natural numbers has a greatest one.
LEMMA GreatestIsThere ==
  ASSUME NEW S, NEW n \in Nat, S \subseteq 0 .. n, S # {}
  PROVE  Greatest(S) \in S /\ \A y \in S : y <= Greatest(S)
<1> DEFINE T == {n - x : x \in S}
<1>1. T \subseteq Nat /\ T # {}
  OBVIOUS
<1>2. Least(T) \in T /\ \A t \in T : Least(T) <= t
  <2> HIDE DEF T
  <2> QED
    BY <1>1, LeastIsThere
<1>3. PICK x \in S : Least(T) = n - x
  BY <1>2
<1>4. \A y \in S : y <= x
  BY <1>2, <1>3
<1> QED
  BY <1>4 DEF Greatest

\* A page is finite, and has both.
LEMMA PageEnds ==
  ASSUME NEW n \in Nat, NEW P, P \subseteq 1 .. n
  PROVE  /\ IsFiniteSet(P) /\ Cardinality(P) \in Nat
         /\ P # {} => /\ Least(P) \in P /\ Greatest(P) \in P
                      /\ \A p \in P : Least(P) <= p /\ p <= Greatest(P)
<1>1. IsFiniteSet(P) /\ Cardinality(P) \in Nat
  <2>1. IsFiniteSet(1 .. n)
    BY FS_Interval
  <2>2. IsFiniteSet(P)
    BY <2>1, FS_Subset
  <2> QED
    BY <2>2, FS_CardinalityType
<1>2. P \subseteq Nat /\ P \subseteq 0 .. n
  OBVIOUS
<1> QED
  BY <1>1, <1>2, LeastIsThere, GreatestIsThere

-----------------------------------------------------------------------------
(* What the marks say when a walk has ended.  L is what Telegram holds of   *)
(* the ids up to n, D what is on disk.                                      *)

\* The walk for what is new: a reached floor closes the hole, and an interrupted walk
\* moves its lower end.
LEMMA AfterNewCovers ==
  ASSUME NEW n \in Nat, NEW m \in Marks, NEW w \in Walks, NEW reached \in BOOLEAN,
         NEW L, L \subseteq 1 .. n, NEW D,
         Fits(m, n), m.newest # 0, WalkIn(w, m.newest, m.from, n),
         reached \/ w.low # 0
  PROVE  /\ AfterNew(m, w, reached) \in Marks /\ Fits(AfterNew(m, w, reached), n)
         /\ /\ \A id \in L : Covered(m, id) => id \in D
            /\ \A id \in L : Passed(w, m.from, id) => id \in D
            /\ reached => \A id \in L : ~ (m.newest < id /\ id < NextBelow(w, m.from))
            => \A id \in L : Covered(AfterNew(m, w, reached), id) => id \in D
<1> DEFINE a == AfterNew(m, w, reached)
           top == Higher(m.top, w.high)
<1>0. /\ m.oldest \in Nat /\ m.newest \in Nat /\ m.from \in Nat /\ m.top \in Nat
      /\ m.complete \in BOOLEAN
      /\ w.low \in Nat /\ w.high \in Nat
  BY DEF Marks, Walks
<1>1. top \in Nat /\ top <= n /\ m.top <= top /\ w.high <= top /\ (top = m.top \/ top = w.high)
  BY <1>0 DEF Higher, Fits, WalkIn
<1>2. CASE reached
  <2>1. /\ a.oldest = m.oldest /\ a.newest = Higher(m.newest, top) /\ a.complete = m.complete
        /\ a.from = 0 /\ a.top = 0
    BY <1>2 DEF AfterNew, Marks
  <2>2. a \in Marks
    BY <1>0, <1>1, <1>2 DEF AfterNew, Marks, Higher
  <2>3. Fits(a, n)
    BY <1>0, <1>1, <2>1 DEF Fits, Higher
  <2>4. ASSUME \A id \in L : Covered(m, id) => id \in D,
               \A id \in L : Passed(w, m.from, id) => id \in D,
               \A id \in L : ~ (m.newest < id /\ id < NextBelow(w, m.from)),
               NEW id \in L, Covered(a, id)
        PROVE  id \in D
    <3>1. id \in Nat /\ (m.complete \/ m.oldest <= id) /\ id <= Higher(m.newest, top)
      BY <2>1, <2>4 DEF Covered
    <3>2. CASE id <= m.newest
      BY <2>4, <3>1, <3>2 DEF Covered
    <3>3. CASE m.newest < id
      <4>1. id <= top
        BY <1>0, <1>1, <3>1, <3>3 DEF Higher
      <4>2. ~ (id < NextBelow(w, m.from))
        BY <2>4, <3>3
      <4>3. CASE m.from # 0 /\ m.from <= id
        <5>1. top = m.top
          BY <1>0, <1>1, <4>3 DEF Fits, WalkIn
        <5> QED
          BY <2>4, <4>1, <4>3, <5>1 DEF Covered
      <4>4. CASE ~ (m.from # 0 /\ m.from <= id)
        <5>1. w.low # 0 /\ w.low <= id
          BY <1>0, <1>1, <3>1, <3>3, <4>1, <4>2, <4>4 DEF NextBelow, Fits, WalkIn
        <5>2. m.from = 0 => id <= w.high
          BY <1>0, <1>1, <4>1 DEF Fits
        <5>3. Passed(w, m.from, id)
          BY <1>0, <3>1, <4>4, <5>1, <5>2 DEF Passed
        <5> QED
          BY <2>4, <5>3
      <4> QED
        BY <4>3, <4>4
    <3> QED
      BY <1>0, <3>1, <3>2, <3>3
  <2> QED
    BY <1>2, <2>2, <2>3, <2>4
<1>3. CASE ~ reached
  <2>0. w.low # 0
    BY <1>3
  <2>1. /\ a.oldest = m.oldest /\ a.newest = m.newest /\ a.complete = m.complete
        /\ a.from = w.low /\ a.top = top
    BY <1>3, <2>0 DEF AfterNew, Marks
  <2>2. a \in Marks
    BY <1>0, <1>1, <1>3, <2>0 DEF AfterNew, Marks
  <2>3. Fits(a, n)
    BY <1>0, <1>1, <2>0, <2>1 DEF Fits, WalkIn
  <2>4. ASSUME \A id \in L : Covered(m, id) => id \in D,
               \A id \in L : Passed(w, m.from, id) => id \in D,
               NEW id \in L, Covered(a, id)
        PROVE  id \in D
    <3>1. CASE m.newest # 0 /\ (m.complete \/ m.oldest <= id) /\ id <= m.newest
      BY <2>4, <3>1 DEF Covered
    <3>2. CASE w.low <= id /\ id <= top
      <4>1. CASE m.from # 0 /\ m.from <= id
        <5>1. top = m.top
          BY <1>0, <1>1, <4>1 DEF Fits, WalkIn
        <5> QED
          BY <2>4, <3>2, <4>1, <5>1 DEF Covered
      <4>2. CASE ~ (m.from # 0 /\ m.from <= id)
        <5>1. m.from = 0 => id <= w.high
          BY <1>0, <1>1, <3>2 DEF Fits
        <5>2. id \in Nat
          OBVIOUS
        <5>3. Passed(w, m.from, id)
          BY <1>0, <2>0, <3>2, <4>2, <5>1, <5>2 DEF Passed
        <5> QED
          BY <2>4, <5>3
      <4> QED
        BY <4>1, <4>2
    <3> QED
      BY <2>1, <2>4, <3>1, <3>2 DEF Covered
  <2> QED
    BY <1>3, <2>2, <2>3, <2>4
<1> QED
  BY <1>2, <1>3

\* The walk for what is old: the range grows downwards, to the beginning if it was reached.
LEMMA AfterOldCovers ==
  ASSUME NEW n \in Nat, NEW m \in Marks, NEW w \in Walks, NEW reached \in BOOLEAN,
         NEW L, L \subseteq 1 .. n, NEW D,
         Fits(m, n), WalkIn(w, 0, m.oldest, n),
         reached \/ w.low # 0
  PROVE  /\ AfterOld(m, w, reached) \in Marks /\ Fits(AfterOld(m, w, reached), n)
         /\ /\ \A id \in L : Covered(m, id) => id \in D
            /\ \A id \in L : Passed(w, m.oldest, id) => id \in D
            /\ reached => \A id \in L : ~ (id < NextBelow(w, m.oldest))
            => \A id \in L : Covered(AfterOld(m, w, reached), id) => id \in D
<1> DEFINE a == AfterOld(m, w, reached)
<1>0. /\ m.oldest \in Nat /\ m.newest \in Nat /\ m.from \in Nat /\ m.top \in Nat
      /\ m.complete \in BOOLEAN
      /\ w.low \in Nat /\ w.high \in Nat
  BY DEF Marks, Walks
<1>1. /\ a.oldest = Lower(m.oldest, w.low) /\ a.newest = Higher(m.newest, w.high)
      /\ a.complete = reached /\ a.from = m.from /\ a.top = m.top
  BY DEF AfterOld, Marks
<1>2. a \in Marks
  BY <1>0 DEF AfterOld, Marks, Lower, Higher
<1>3. /\ m.oldest # 0 => a.newest = m.newest
      /\ m.oldest = 0 => m.newest = 0 /\ m.from = 0 /\ m.top = 0 /\ a.newest = w.high
      /\ a.oldest = IF w.low # 0 THEN w.low ELSE m.oldest
  BY <1>0, <1>1 DEF Fits, WalkIn, Lower, Higher
<1>4. Fits(a, n)
  BY <1>0, <1>1, <1>3 DEF Fits, WalkIn
<1>5. ASSUME \A id \in L : Covered(m, id) => id \in D,
             \A id \in L : Passed(w, m.oldest, id) => id \in D,
             reached => \A id \in L : ~ (id < NextBelow(w, m.oldest)),
             NEW id \in L, Covered(a, id)
      PROVE  id \in D
  <2>0. id \in Nat /\ id # 0
    OBVIOUS
  <2>1. CASE m.from # 0 /\ m.from <= id /\ id <= m.top
    BY <1>5, <2>1 DEF Covered
  <2>2. CASE a.newest # 0 /\ (reached \/ a.oldest <= id) /\ id <= a.newest
    <3>1. NextBelow(w, m.oldest) <= id
      BY <1>0, <1>3, <1>5, <2>0, <2>2 DEF NextBelow
    <3>2. CASE m.oldest # 0 /\ m.oldest <= id
      BY <1>0, <1>3, <1>5, <2>2, <3>2 DEF Covered
    <3>3. CASE ~ (m.oldest # 0 /\ m.oldest <= id)
      <4>1. w.low # 0 /\ w.low <= id
        BY <1>0, <1>3, <2>0, <2>2, <3>1, <3>3 DEF NextBelow, WalkIn
      <4>2. Passed(w, m.oldest, id)
        BY <1>0, <1>3, <2>0, <2>2, <3>3, <4>1 DEF Passed
      <4> QED
        BY <1>5, <4>2
    <3> QED
      BY <3>2, <3>3
  <2> QED
    BY <1>1, <1>5, <2>1, <2>2 DEF Covered
<1> QED
  BY <1>2, <1>4, <1>5

-----------------------------------------------------------------------------
(* The steps.                                                               *)

LEMMA ArchiveTypes ==
  ASSUME ArchiveInv
  PROVE  /\ last \in Nat /\ live \subseteq 1 .. last /\ disk \subseteq 1 .. last
         /\ page \subseteq 1 .. last
         /\ walk \in Walks /\ mark \in Marks /\ row \in Marks
         /\ walk.cursor \in Nat /\ walk.floor \in Nat /\ walk.low \in Nat
         /\ walk.high \in Nat /\ walk.budget \in Nat
         /\ mark.oldest \in Nat /\ mark.newest \in Nat /\ mark.from \in Nat
         /\ mark.top \in Nat /\ mark.complete \in BOOLEAN
         /\ row.oldest \in Nat /\ row.newest \in Nat /\ row.from \in Nat
         /\ row.top \in Nat /\ row.complete \in BOOLEAN
         /\ StartOf(mark) \in Nat /\ Want \in Nat
<1>1. TypeOK
  BY DEF ArchiveInv
<1>2. last \in Nat
  BY <1>1, ArchiveAssumption DEF TypeOK
<1>3. walk.budget \in Nat /\ Page \in Nat
  BY <1>1, ArchiveAssumption DEF TypeOK, Walks
<1> QED
  BY <1>1, <1>2, <1>3 DEF TypeOK, Marks, Walks, StartOf, Want

\* Nothing is recorded yet, and nothing is claimed.
LEMMA EmptyMarks ==
  /\ NoMarks \in Marks /\ NoWalk \in Walks
  /\ \A n \in Nat : Fits(NoMarks, n)
  /\ \A id : ~ Covered(NoMarks, id)
BY DEF NoMarks, NoWalk, Marks, Walks, Fits, Covered

LEMMA ArchiveInitInv == Init => ArchiveInv
<1> SUFFICES ASSUME Init PROVE ArchiveInv
  OBVIOUS
<1>1. TypeOK
  <2>1. 0 \in 0 .. MaxId /\ 0 \in 0 .. MaxTroubles
    BY ArchiveAssumption
  <2> QED
    BY <2>1, EmptyMarks DEF Init, TypeOK
<1>2. Fits(row, last)
  BY EmptyMarks DEF Init
<1>3. Vouched(row)
  BY DEF Init, Vouched
<1> QED
  BY <1>1, <1>2, <1>3
     DEF Init, ArchiveInv, PageFits, NoOrphans, WalkFits, PageIsWhole, WalkStored, New, Old, Storing

\* However many ids are given out, marks and walks that fit still do.
LEMMA FitsLater ==
  ASSUME NEW n \in Nat, NEW m \in Marks, NEW w \in Walks, NEW floor, NEW start
  PROVE  /\ Fits(m, n) => Fits(m, n + 1)
         /\ WalkIn(w, floor, start, n) => WalkIn(w, floor, start, n + 1)
BY DEF Fits, WalkIn, Marks, Walks

\* A message sent now is newer than all that is claimed, passed or fetched.
LEMMA SendInv ==
  ASSUME ArchiveInv, Send
  PROVE  ArchiveInv'
<1> USE ArchiveTypes DEF Send, sync
<1>1. TypeOK'
  <2>1. last + 1 \in 0 .. MaxId /\ last + 1 \in 1 .. last + 1 /\ 1 .. last \subseteq 1 .. last + 1
    BY ArchiveAssumption DEF ArchiveInv, TypeOK
  <2>2. last' \in 0 .. MaxId /\ live' \subseteq 1 .. last'
    BY <2>1
  <2>3. disk' \subseteq 1 .. last' /\ page' \subseteq 1 .. last'
    BY <2>1
  <2> QED
    BY <2>2, <2>3 DEF ArchiveInv, TypeOK
<1>2. PageFits' /\ NoOrphans'
  BY DEF ArchiveInv, PageFits, NoOrphans, Want
<1>3. Fits(row, last)' /\ (pc # "idle" => Fits(mark, last))'
  BY FitsLater DEF ArchiveInv
<1>4. WalkFits'
  BY FitsLater DEF ArchiveInv, WalkFits, StartOf
<1>5. PageIsWhole'
  <2>1. \A p \in page : p < last + 1
    OBVIOUS
  <2>2. pc \in Storing => walk.cursor <= last
    BY DEF ArchiveInv, WalkFits, NextBelow, WalkIn, StartOf, Fits, New, Old, Storing
  <2> QED
    BY <2>1, <2>2 DEF ArchiveInv, PageIsWhole, Storing, Want
<1>6. ASSUME NEW m \in Marks, Fits(m, last)
      PROVE  ~ Covered(m, last + 1)
  BY <1>6 DEF Fits, Covered, Marks
<1>7. Settled' => Vouched(row)' /\ (pc # "idle" => Vouched(mark))'
  BY <1>6 DEF ArchiveInv, Settled, Vouched
<1>8. Settled' => WalkStored'
  <2> SUFFICES ASSUME Settled, pc \in New \cup Old
               PROVE  ~ Passed(walk, StartOf(mark), last + 1)
    BY DEF ArchiveInv, Settled, WalkStored, StartOf
  <2>1. StartOf(mark) <= last
    BY DEF ArchiveInv, StartOf, Fits, New, Old
  <2>2. walk.high <= last
    BY DEF ArchiveInv, WalkFits, WalkIn
  <2> QED
    BY <2>1, <2>2 DEF Passed
<1> QED
  BY <1>1, <1>2, <1>3, <1>4, <1>5, <1>7, <1>8 DEF ArchiveInv

LEMMA DeleteInv ==
  ASSUME ArchiveInv, NEW gone \in Ids, Delete(gone)
  PROVE  ArchiveInv'
<1> USE ArchiveTypes DEF Delete, sync
<1>1. TypeOK' /\ PageFits' /\ NoOrphans'
  BY DEF ArchiveInv, TypeOK, PageFits, NoOrphans, Want
<1>2. Fits(row, last)' /\ (pc # "idle" => Fits(mark, last))' /\ WalkFits'
  BY DEF ArchiveInv, WalkFits, StartOf
<1>3. PageIsWhole'
  BY DEF ArchiveInv, PageIsWhole, Want
<1>4. Settled' => Vouched(row)' /\ WalkStored' /\ (pc # "idle" => Vouched(mark))'
  BY DEF ArchiveInv, Settled, Vouched, WalkStored, StartOf
<1> QED
  BY <1>1, <1>2, <1>3, <1>4 DEF ArchiveInv

\* Where the next walk starts: nothing passed yet.
LEMMA FreshWalk ==
  ASSUME NEW start \in Nat, NEW floor \in Nat, NEW budget \in Nat, NEW n \in Nat
  PROVE  LET w == NewWalk(start, floor, budget)
         IN /\ w \in Walks /\ w.cursor = start /\ w.floor = floor
            /\ w.low = 0 /\ w.high = 0 /\ w.budget = budget
            /\ WalkIn(w, floor, start, n) /\ NextBelow(w, start) = start
BY DEF NewWalk, Walks, WalkIn, NextBelow

\* Going on to what is old, or to the end.
LEMMA BackwardsFits ==
  ASSUME NEW m \in Marks, NEW budget \in Nat, last \in Nat, last' = last,
         ThenBackwards(m, budget)
  PROVE  /\ pc' \in {"fetch_old", "save"} /\ mark' = m /\ walk' \in Walks
         /\ WalkFits' /\ WalkStored'
<1>1. m.oldest \in Nat
  BY DEF Marks
<1>2. CASE budget > 0 /\ ~ m.complete
  <2>1. pc' = "fetch_old" /\ mark' = m /\ walk' = NewWalk(m.oldest, 0, budget)
    BY <1>2 DEF ThenBackwards
  <2>2. StartOf(mark)' = m.oldest
    BY <2>1 DEF StartOf, New
  <2>3. /\ walk' \in Walks /\ walk'.cursor = m.oldest /\ walk'.floor = 0 /\ walk'.low = 0
        /\ WalkIn(walk', 0, m.oldest, last) /\ NextBelow(walk', m.oldest) = m.oldest
        /\ walk'.budget = budget
    BY <1>1, <2>1, FreshWalk
  <2>4. WalkFits'
    BY <1>2, <2>1, <2>2, <2>3 DEF WalkFits, New
  <2>5. WalkStored'
    BY <2>2, <2>3 DEF WalkStored, Passed
  <2> QED
    BY <2>1, <2>3, <2>4, <2>5
<1>3. CASE ~ (budget > 0 /\ ~ m.complete)
  <2>1. pc' = "save" /\ mark' = m /\ walk' = NoWalk
    BY <1>3 DEF ThenBackwards
  <2> QED
    BY <2>1, EmptyMarks DEF WalkFits, WalkStored, New, Old
<1> QED
  BY <1>2, <1>3

\* A walk ends: the marks that are to be saved fit, and vouch for what is on disk.
LEMMA WalkEnds ==
  ASSUME ArchiveInv, pc \in New \cup Old, NEW w \in Walks, NEW reached \in BOOLEAN,
         EndWalk(w, reached), last' = last, live' = live,
         WalkIn(w, walk.floor, StartOf(mark), last), reached \/ w.low # 0
  PROVE  /\ pc' \in {"fetch_old", "save"} /\ mark' \in Marks /\ walk' \in Walks
         /\ Fits(mark, last)' /\ WalkFits' /\ WalkStored'
         /\ /\ \A id \in live : Covered(mark, id) => id \in disk'
            /\ \A id \in live : Passed(w, StartOf(mark), id) => id \in disk'
            /\ reached => \A id \in live :
                            ~ (walk.floor < id /\ id < NextBelow(w, StartOf(mark)))
            => Vouched(mark)'
<1>0. /\ last \in Nat /\ live \subseteq 1 .. last /\ mark \in Marks /\ w.budget \in Nat
      /\ Fits(mark, last)
  BY ArchiveTypes DEF ArchiveInv, Walks, New, Old
<1>1. CASE pc \in New
  <2>1. StartOf(mark) = mark.from /\ walk.floor = mark.newest /\ mark.newest # 0
    BY <1>1 DEF StartOf, ArchiveInv, WalkFits
  <2>2. ThenBackwards(AfterNew(mark, w, reached), w.budget)
    BY <1>1 DEF EndWalk, New
  <2> DEFINE a == AfterNew(mark, w, reached)
             m == mark
             n == last
             L == live
             D == disk'
  <2>3. /\ a \in Marks /\ Fits(a, last)
        /\ /\ \A id \in live : Covered(mark, id) => id \in disk'
           /\ \A id \in live : Passed(w, mark.from, id) => id \in disk'
           /\ reached => \A id \in live :
                           ~ (mark.newest < id /\ id < NextBelow(w, mark.from))
           => \A id \in live : Covered(a, id) => id \in disk'
    <3>1. /\ n \in Nat /\ L \subseteq 1 .. n /\ m \in Marks /\ Fits(m, n) /\ m.newest # 0
          /\ WalkIn(w, m.newest, m.from, n)
      BY <1>0, <2>1
    <3>2. a = AfterNew(m, w, reached)
      OBVIOUS
    <3> HIDE DEF a, m, n, L, D
    <3>3. /\ a \in Marks /\ Fits(a, n)
          /\ /\ \A id \in L : Covered(m, id) => id \in D
             /\ \A id \in L : Passed(w, m.from, id) => id \in D
             /\ reached => \A id \in L : ~ (m.newest < id /\ id < NextBelow(w, m.from))
             => \A id \in L : Covered(a, id) => id \in D
      BY <3>1, <3>2, AfterNewCovers
    <3> QED
      BY <3>3 DEF m, n, L, D
  <2> HIDE DEF a
  <2>4. ThenBackwards(a, w.budget)
    BY <2>2 DEF a
  <2>5. /\ pc' \in {"fetch_old", "save"} /\ mark' = a /\ walk' \in Walks
        /\ WalkFits' /\ WalkStored'
    BY <1>0, <2>3, <2>4, BackwardsFits
  <2> QED
    BY <2>1, <2>3, <2>5 DEF Vouched
<1>2. CASE pc \in Old
  <2>1. StartOf(mark) = mark.oldest /\ walk.floor = 0
    BY <1>2 DEF StartOf, ArchiveInv, WalkFits, New, Old
  <2>2. mark' = AfterOld(mark, w, reached) /\ walk' = NoWalk /\ pc' = "save"
    BY <1>2 DEF EndWalk, Old
  <2> DEFINE a == AfterOld(mark, w, reached)
             m == mark
             n == last
             L == live
             D == disk'
  <2>3. /\ a \in Marks /\ Fits(a, last)
        /\ /\ \A id \in live : Covered(mark, id) => id \in disk'
           /\ \A id \in live : Passed(w, mark.oldest, id) => id \in disk'
           /\ reached => \A id \in live : ~ (id < NextBelow(w, mark.oldest))
           => \A id \in live : Covered(a, id) => id \in disk'
    <3>1. /\ n \in Nat /\ L \subseteq 1 .. n /\ m \in Marks /\ Fits(m, n)
          /\ WalkIn(w, 0, m.oldest, n)
      BY <1>0, <2>1
    <3>2. a = AfterOld(m, w, reached)
      OBVIOUS
    <3> HIDE DEF a, m, n, L, D
    <3>3. /\ a \in Marks /\ Fits(a, n)
          /\ /\ \A id \in L : Covered(m, id) => id \in D
             /\ \A id \in L : Passed(w, m.oldest, id) => id \in D
             /\ reached => \A id \in L : ~ (id < NextBelow(w, m.oldest))
             => \A id \in L : Covered(a, id) => id \in D
      BY <3>1, <3>2, AfterOldCovers
    <3> QED
      BY <3>3 DEF m, n, L, D
  <2> HIDE DEF a
  <2>4. mark' = a
    BY <2>2 DEF a
  <2>5. \A id \in live : 0 < id
    BY <1>0
  <2>6. WalkFits' /\ WalkStored'
    BY <2>2 DEF WalkFits, WalkStored, New, Old
  <2> QED
    BY <2>1, <2>2, <2>3, <2>4, <2>5, <2>6, EmptyMarks DEF Vouched
<1> QED
  BY <1>1, <1>2

LEMMA BeginInv ==
  ASSUME ArchiveInv, NEW limit \in Limits, Begin(limit)
  PROVE  ArchiveInv'
<1>0. /\ last \in Nat /\ limit \in Nat \ {0} /\ row \in Marks /\ Fits(row, last)
      /\ pc = "idle" /\ archived' = TRUE /\ forget' = forget
      /\ UNCHANGED <<last, live, disk, page, troubles>>
  BY ArchiveTypes, ArchiveAssumption DEF ArchiveInv, Begin, telegram
<1>1. row' = IF archived THEN row ELSE NoMarks
  BY DEF Begin
<1>2. row' \in Marks /\ Fits(row, last)'
  BY <1>0, <1>1, EmptyMarks
<1>3. Settled' => Vouched(row)'
  BY <1>0, <1>1, EmptyMarks DEF ArchiveInv, Settled, Vouched
<1>4. row'.newest \in Nat /\ row'.from \in Nat
  BY <1>2 DEF Marks
<1>5. /\ pc' \in {"fetch_new", "fetch_old", "save"} /\ mark' = row' /\ walk' \in Walks
      /\ WalkFits' /\ WalkStored'
  <2>1. CASE row'.newest # 0
    <3>1. /\ pc' = "fetch_new" /\ mark' = row'
          /\ walk' = NewWalk(row'.from, row'.newest, limit)
      BY <2>1 DEF Begin
    <3>2. StartOf(mark)' = row'.from
      BY <3>1 DEF StartOf, New
    <3>3. /\ walk' \in Walks /\ walk'.cursor = row'.from /\ walk'.floor = row'.newest
          /\ walk'.low = 0 /\ WalkIn(walk', row'.newest, row'.from, last)
          /\ NextBelow(walk', row'.from) = row'.from /\ walk'.budget = limit
      BY <1>0, <1>4, <3>1, FreshWalk
    <3>4. WalkFits'
      BY <1>0, <2>1, <3>1, <3>2, <3>3 DEF WalkFits, New
    <3>5. WalkStored'
      BY <3>3 DEF WalkStored, Passed
    <3> QED
      BY <3>1, <3>3, <3>4, <3>5
  <2>2. CASE row'.newest = 0
    <3>1. ThenBackwards(row', limit)
      BY <2>2 DEF Begin
    <3> DEFINE m == row'
    <3> HIDE DEF m
    <3>2. /\ pc' \in {"fetch_old", "save"} /\ mark' = m /\ walk' \in Walks
          /\ WalkFits' /\ WalkStored'
      <4>1. m \in Marks /\ ThenBackwards(m, limit)
        BY <1>2, <3>1 DEF m
      <4> QED
        BY <1>0, <4>1, BackwardsFits
    <3> QED
      BY <3>2 DEF m
  <2> QED
    BY <2>1, <2>2
<1>6. TypeOK'
  BY <1>0, <1>2, <1>5 DEF ArchiveInv, TypeOK
<1>7. PageFits' /\ PageIsWhole' /\ NoOrphans'
  BY <1>0, <1>5 DEF PageFits, PageIsWhole, NoOrphans, Storing
<1> QED
  BY <1>0, <1>2, <1>3, <1>5, <1>6, <1>7 DEF ArchiveInv, Vouched

\* A page is fetched, or there is none left.
LEMMA FetchInv ==
  ASSUME ArchiveInv, Fetch
  PROVE  ArchiveInv'
<1> USE ArchiveTypes
<1>0. /\ pc \in {"fetch_new", "fetch_old"}
      /\ UNCHANGED <<last, live, disk, archived, row, forget, troubles>>
  BY DEF Fetch, telegram
<1>1. PICK P \in SUBSET live :
        /\ IsPage(P, walk.cursor, walk.floor, Want)
        /\ page' = P
        /\ IF P = {} THEN EndWalk(walk, TRUE)
           ELSE /\ pc' = IF pc = "fetch_new" THEN "store_new" ELSE "store_old"
                /\ UNCHANGED <<mark, walk>>
  BY DEF Fetch
<1>2. Want # 0
  BY <1>0, ArchiveAssumption DEF ArchiveInv, WalkFits, New, Old, Want
<1>3. /\ \A p \in P : walk.floor < p /\ (walk.cursor # 0 => p < walk.cursor)
      /\ \A id \in live : walk.floor < id /\ (walk.cursor = 0 \/ id < walk.cursor)
           => id \in P \/ \A p \in P : id < p
      /\ Cardinality(P) <= Want
      /\ Cardinality(P) # Want =>
           \A id \in live : walk.floor < id /\ (walk.cursor = 0 \/ id < walk.cursor) => id \in P
  BY <1>1 DEF IsPage, Between
<1>4. NoOrphans' /\ Fits(row, last)' /\ (Settled' => Vouched(row)')
  BY <1>0 DEF ArchiveInv, NoOrphans, Settled, Vouched
<1>5. CASE P = {}
  <2>1. \A id \in live : ~ (walk.floor < id /\ id < NextBelow(walk, StartOf(mark)))
    <3>1. Cardinality(P) # Want
      BY <1>2, <1>5, FS_EmptySet
    <3>2. walk.cursor = NextBelow(walk, StartOf(mark))
      BY <1>0 DEF ArchiveInv, WalkFits, New, Old
    <3> QED
      BY <1>3, <1>5, <3>1, <3>2
  <2>2. pc \in New \cup Old /\ WalkIn(walk, walk.floor, StartOf(mark), last)
    BY <1>0 DEF ArchiveInv, WalkFits, New, Old
  <2>3. EndWalk(walk, TRUE) /\ page' = {}
    BY <1>1, <1>5
  <2>4. /\ pc' \in {"fetch_old", "save"} /\ mark' \in Marks /\ walk' \in Walks
        /\ Fits(mark, last)' /\ WalkFits' /\ WalkStored'
        /\ /\ \A id \in live : Covered(mark, id) => id \in disk'
           /\ \A id \in live : Passed(walk, StartOf(mark), id) => id \in disk'
           /\ TRUE => \A id \in live :
                        ~ (walk.floor < id /\ id < NextBelow(walk, StartOf(mark)))
           => Vouched(mark)'
    BY <1>0, <2>2, <2>3, WalkEnds
  <2>5. Settled' => Vouched(mark)'
    BY <1>0, <2>1, <2>2, <2>4 DEF ArchiveInv, Settled, Vouched, WalkStored, New, Old
  <2>6. TypeOK'
    BY <1>0, <2>3, <2>4 DEF ArchiveInv, TypeOK
  <2>7. PageFits' /\ PageIsWhole'
    BY <2>4 DEF PageFits, PageIsWhole, Storing
  <2> QED
    BY <1>4, <2>4, <2>5, <2>6, <2>7 DEF ArchiveInv
<1>6. CASE P # {}
  <2>1. /\ pc' = IF pc = "fetch_new" THEN "store_new" ELSE "store_old"
        /\ mark' = mark /\ walk' = walk /\ page' = P
    BY <1>1, <1>6
  <2>2. TypeOK'
    BY <1>0, <2>1 DEF ArchiveInv, TypeOK
  <2>3. StartOf(mark)' = StartOf(mark) /\ Want' = Want
    BY <1>0, <2>1 DEF StartOf, New, Want
  <2>4. PageFits'
    BY <1>3, <1>6, <2>1, <2>3 DEF PageFits
  <2>5. WalkFits'
    BY <1>0, <2>1, <2>3 DEF ArchiveInv, WalkFits, New, Old
  <2>6. P \subseteq 1 .. last
    OBVIOUS
  <2>7. PageIsWhole'
    <3>1. ASSUME NEW id \in live, NEW p \in P, NEW q \in P,
                 p <= id, IF walk.cursor = 0 THEN id <= q ELSE id < walk.cursor
          PROVE  id \in P
      <4>1. id \in Nat /\ p \in Nat
        BY <2>6
      <4>2. walk.floor < id /\ (walk.cursor = 0 \/ id < walk.cursor)
        BY <1>3, <3>1, <4>1
      <4>3. ~ (id < p)
        BY <3>1, <4>1
      <4> QED
        BY <1>3, <4>2, <4>3
    <3>2. ASSUME Cardinality(P) < Want, NEW id \in live, NEW p \in P, walk.floor < id, id < p
          PROVE  id \in P
      <4>1. Cardinality(P) # Want
        BY <1>3, <3>2, <2>6, PageEnds
      <4>2. id \in Nat /\ p \in Nat /\ (walk.cursor # 0 => p < walk.cursor)
        BY <1>3, <2>6
      <4> QED
        BY <1>3, <3>2, <4>1, <4>2
    <3> QED
      BY <1>0, <1>3, <2>1, <2>3, <3>1, <3>2 DEF PageIsWhole
  <2>8. Settled' => WalkStored' /\ Vouched(mark)'
    BY <1>0, <2>1, <2>3 DEF ArchiveInv, Settled, WalkStored, Vouched, New, Old
  <2> QED
    BY <1>0, <1>4, <2>1, <2>2, <2>4, <2>5, <2>7, <2>8 DEF ArchiveInv
<1> QED
  BY <1>5, <1>6

\* What a stored page adds: the walk goes on below its lowest message, what it has now
\* passed it had passed before or is on the page, and a last page leaves nothing below.
LEMMA PageAdds ==
  ASSUME ArchiveInv, pc \in Storing
  PROVE  /\ AfterPage \in Walks /\ LastPage(AfterPage) \in BOOLEAN
         /\ AfterPage.floor = walk.floor
         /\ AfterPage.low # 0 /\ AfterPage.cursor = AfterPage.low
         /\ WalkIn(AfterPage, walk.floor, StartOf(mark), last)
         /\ \A id \in live : Passed(AfterPage, StartOf(mark), id)
              => Passed(walk, StartOf(mark), id) \/ id \in page
         /\ LastPage(AfterPage) => \A id \in live :
              ~ (walk.floor < id /\ id < NextBelow(AfterPage, StartOf(mark)))
<1> USE ArchiveTypes
<1> DEFINE w == AfterPage
           s == StartOf(mark)
           lo == Least(page)
           hi == Greatest(page)
<1>1. /\ page # {} /\ Cardinality(page) <= Want /\ Want <= walk.budget
      /\ Cardinality(page) \in Nat
  <2>1. Want <= walk.budget
    BY ArchiveAssumption DEF Want
  <2> QED
    BY <2>1, PageEnds DEF ArchiveInv, PageFits, Storing
<1>2. /\ lo \in page /\ hi \in page /\ \A p \in page : lo <= p /\ p <= hi
  BY <1>1, PageEnds
<1>3. /\ lo \in Nat /\ hi \in Nat /\ lo # 0 /\ lo <= hi /\ hi <= last
      /\ walk.floor < lo /\ (walk.cursor # 0 => hi < walk.cursor)
  BY <1>2 DEF ArchiveInv, PageIsWhole
<1>4. /\ walk.cursor = NextBelow(walk, s) /\ WalkIn(walk, walk.floor, s, last)
  BY DEF ArchiveInv, WalkFits, New, Old, Storing
<1>5. /\ w.low = lo /\ w.cursor = lo /\ w.floor = walk.floor
      /\ w.budget = walk.budget - Cardinality(page)
      /\ w.high = IF walk.low = 0 THEN hi ELSE walk.high
  <2>1. /\ w.low = Lower(walk.low, lo) /\ w.high = Higher(walk.high, hi)
        /\ w.cursor = lo /\ w.floor = walk.floor
        /\ w.budget = walk.budget - Cardinality(page)
    BY DEF AfterPage, Walks, Spent
  <2>2. Lower(walk.low, lo) = lo
    BY <1>3, <1>4 DEF Lower, NextBelow
  <2>3. Higher(walk.high, hi) = IF walk.low = 0 THEN hi ELSE walk.high
    BY <1>3, <1>4 DEF Higher, NextBelow, WalkIn
  <2> QED
    BY <2>1, <2>2, <2>3
<1>6. w \in Walks
  <2>1. walk.budget - Cardinality(page) \in Nat
    BY <1>1
  <2>2. w = [walk EXCEPT !.low = w.low, !.high = w.high, !.budget = w.budget,
                         !.cursor = w.cursor]
    BY DEF AfterPage, Walks
  <2> QED
    BY <1>3, <1>5, <2>1, <2>2 DEF Walks
<1>7. WalkIn(w, walk.floor, s, last)
  BY <1>3, <1>4, <1>5 DEF WalkIn, NextBelow
<1>8. ASSUME NEW id \in live, Passed(w, s, id)
      PROVE  Passed(walk, s, id) \/ id \in page
  <2>0. id \in Nat /\ lo <= id
    BY <1>5, <1>8 DEF Passed
  <2>1. CASE IF walk.cursor = 0 THEN id <= hi ELSE id < walk.cursor
    BY <1>2, <2>0, <2>1 DEF ArchiveInv, PageIsWhole
  <2>2. CASE ~ (IF walk.cursor = 0 THEN id <= hi ELSE id < walk.cursor)
    BY <1>3, <1>4, <1>5, <1>8, <2>0, <2>2 DEF Passed, NextBelow
  <2> QED
    BY <2>1, <2>2
<1>9. ASSUME LastPage(w), NEW id \in live, walk.floor < id, id < lo
      PROVE  FALSE
  <2>0. id \in Nat
    OBVIOUS
  <2>1. CASE Cardinality(page) < Want
    <3>1. id \in page
      BY <1>2, <1>9, <2>1 DEF ArchiveInv, PageIsWhole
    <3> QED
      BY <1>2, <1>3, <1>9, <2>0, <3>1
  <2>2. CASE lo <= walk.floor + 1
    BY <1>3, <1>9, <2>0, <2>2
  <2> QED
    BY <1>5, <1>9, <2>1, <2>2 DEF LastPage
<1>10. LastPage(w) \in BOOLEAN
  BY DEF LastPage
<1> HIDE DEF w
<1>11. NextBelow(w, s) = lo
  BY <1>3, <1>5 DEF NextBelow
<1> QED
  BY <1>3, <1>5, <1>6, <1>7, <1>8, <1>9, <1>10, <1>11 DEF w

\* A page is stored whole, or not at all when the chat was forgotten meanwhile.
LEMMA StoreInv ==
  ASSUME ArchiveInv, Store
  PROVE  ArchiveInv'
<1> USE ArchiveTypes
<1>0. /\ pc \in Storing /\ page' = {}
      /\ UNCHANGED <<last, live, archived, row, forget, troubles>>
  BY DEF Store, telegram, Storing
<1>1. CASE ~ archived
  <2>1. pc' = "idle" /\ mark' = NoMarks /\ walk' = NoWalk /\ disk' = disk
    BY <1>1 DEF Store, ForeignKey
  <2>2. TypeOK'
    BY <1>0, <2>1, EmptyMarks DEF ArchiveInv, TypeOK
  <2>3. NoOrphans' /\ Fits(row, last)' /\ ~ Settled'
    BY <1>0, <1>1, <2>1 DEF ArchiveInv, NoOrphans, Settled
  <2> QED
    BY <2>1, <2>2, <2>3
       DEF ArchiveInv, PageFits, WalkFits, PageIsWhole, New, Old, Storing
<1>2. CASE archived
  <2> DEFINE w == AfterPage
             s == StartOf(mark)
  <2>1. disk' = disk \cup page
    BY <1>2 DEF Store, ForeignKey
  <2>2. IF LastPage(w) \/ w.budget = 0 THEN EndWalk(w, LastPage(w))
        ELSE /\ walk' = w
             /\ pc' = IF pc = "store_new" THEN "fetch_new" ELSE "fetch_old"
             /\ mark' = mark
    BY <1>2 DEF Store, ForeignKey
  <2>3. /\ w \in Walks /\ LastPage(w) \in BOOLEAN /\ w.floor = walk.floor
        /\ w.low # 0 /\ w.cursor = w.low /\ WalkIn(w, walk.floor, s, last)
        /\ \A id \in live : Passed(w, s, id) => Passed(walk, s, id) \/ id \in page
        /\ LastPage(w) => \A id \in live : ~ (walk.floor < id /\ id < NextBelow(w, s))
    BY <1>0, PageAdds
  <2>4. Settled => \A id \in live : Passed(w, s, id) => id \in disk'
    BY <1>0, <2>1, <2>3 DEF ArchiveInv, WalkStored, Storing, New, Old
  <2>5. Settled => \A id \in live : Covered(mark, id) => id \in disk'
    BY <1>0, <2>1 DEF ArchiveInv, Vouched, Storing
  <2>6. /\ NoOrphans' /\ Fits(row, last)' /\ (Settled' => Vouched(row)')
        /\ Settled' = Settled
    BY <1>0, <1>2, <2>1 DEF ArchiveInv, NoOrphans, Settled, Vouched
  <2>7. disk' \subseteq 1 .. last
    BY <2>1
  <2> HIDE DEF w
  <2>8. CASE LastPage(w) \/ w.budget = 0
    <3> DEFINE reached == LastPage(w)
    <3>1. EndWalk(w, reached) /\ reached \in BOOLEAN
      BY <2>2, <2>3, <2>8
    <3>2. reached => \A id \in live : ~ (walk.floor < id /\ id < NextBelow(w, s))
      BY <2>3
    <3> HIDE DEF reached
    <3>3. /\ pc' \in {"fetch_old", "save"} /\ mark' \in Marks /\ walk' \in Walks
          /\ Fits(mark, last)' /\ WalkFits' /\ WalkStored'
          /\ /\ \A id \in live : Covered(mark, id) => id \in disk'
             /\ \A id \in live : Passed(w, s, id) => id \in disk'
             /\ reached => \A id \in live :
                             ~ (walk.floor < id /\ id < NextBelow(w, s))
             => Vouched(mark)'
      <4>1. pc \in New \cup Old
        BY <1>0 DEF New, Old, Storing
      <4> QED
        BY <1>0, <2>3, <3>1, <4>1, WalkEnds
    <3>4. Settled' => Vouched(mark)'
      BY <2>4, <2>5, <2>6, <3>2, <3>3
    <3>5. TypeOK'
      BY <1>0, <2>7, <3>3 DEF ArchiveInv, TypeOK
    <3>6. PageFits' /\ PageIsWhole'
      BY <3>3 DEF PageFits, PageIsWhole, Storing
    <3> QED
      BY <2>6, <3>3, <3>4, <3>5, <3>6 DEF ArchiveInv
  <2>9. CASE ~ (LastPage(w) \/ w.budget = 0)
    <3>1. /\ walk' = w /\ mark' = mark
          /\ pc' = IF pc = "store_new" THEN "fetch_new" ELSE "fetch_old"
      BY <2>2, <2>9
    <3>2. StartOf(mark)' = s
      BY <1>0, <3>1 DEF StartOf, New, Storing
    <3>3. TypeOK'
      BY <1>0, <2>3, <2>7, <3>1 DEF ArchiveInv, TypeOK
    <3>4. PageFits' /\ PageIsWhole'
      BY <3>1 DEF PageFits, PageIsWhole, Storing
    <3>5. WalkFits'
      <4>1. /\ walk.floor = IF pc \in New THEN mark.newest ELSE 0
            /\ pc \in New => mark.newest # 0
        BY <1>0 DEF ArchiveInv, WalkFits, New, Old, Storing
      <4>2. pc' \in New <=> pc \in New
        BY <1>0, <3>1 DEF New, Storing
      <4>3. w.cursor = NextBelow(w, s)
        BY <2>3 DEF NextBelow
      <4> QED
        BY <1>0, <2>3, <2>9, <3>1, <3>2, <4>1, <4>2, <4>3 DEF WalkFits
    <3>6. Settled' => WalkStored' /\ Vouched(mark)'
      BY <1>0, <2>4, <2>5, <2>6, <3>1, <3>2 DEF WalkStored, Vouched
    <3>7. Fits(mark, last)'
      BY <1>0, <3>1 DEF ArchiveInv, Storing
    <3> QED
      BY <2>6, <3>3, <3>4, <3>5, <3>6, <3>7 DEF ArchiveInv
  <2> QED
    BY <2>8, <2>9
<1> QED
  BY <1>1, <1>2

\* A sync that ends, however it does, claims nothing that is not recorded.
LEMMA StopInv ==
  ASSUME ArchiveInv, FetchFails \/ Save \/ Kill
  PROVE  ArchiveInv'
<1> USE ArchiveTypes
<1>0. /\ pc' = "idle" /\ mark' = NoMarks /\ walk' \in Walks
      /\ UNCHANGED <<last, live, archived, forget>>
  BY EmptyMarks DEF FetchFails, Save, Kill, telegram
<1>1. /\ page' \subseteq page /\ disk \subseteq disk' /\ disk' \subseteq 1 .. last
      /\ ~ archived => disk' = disk
  <2>1. CASE FetchFails \/ Save
    BY <2>1 DEF FetchFails, Save
  <2>2. CASE Kill
    BY <2>2 DEF Kill
  <2> QED
    BY <2>1, <2>2
<1>2. troubles' \in 0 .. MaxTroubles
  BY ArchiveAssumption DEF ArchiveInv, TypeOK, FetchFails, Save, Kill, Trouble
<1>3. row' \in Marks /\ Fits(row, last)' /\ (Settled => Vouched(row'))
  <2>1. CASE row' = row
    BY <1>0, <2>1 DEF ArchiveInv
  <2>2. CASE row' # row
    <3>1. Save /\ pc # "idle" /\ row' = mark
      BY <2>2 DEF FetchFails, Save, Kill
    <3> QED
      BY <1>0, <3>1 DEF ArchiveInv
  <2> QED
    BY <2>1, <2>2
<1>4. Settled' => Vouched(row)'
  BY <1>0, <1>1, <1>3 DEF Settled, Vouched
<1>5. TypeOK'
  BY <1>0, <1>1, <1>2, <1>3, EmptyMarks DEF ArchiveInv, TypeOK
<1>6. NoOrphans'
  BY <1>0, <1>1 DEF ArchiveInv, NoOrphans
<1> QED
  BY <1>0, <1>3, <1>4, <1>5, <1>6
     DEF ArchiveInv, PageFits, WalkFits, PageIsWhole, WalkStored, New, Old, Storing

\* A forget leaves no row that vouches for what it took: while it is halfway, or was
\* killed there, nothing is promised, and when it is done there is no row.
LEMMA ForgetInv ==
  ASSUME ArchiveInv, ForgetMessages \/ ForgetChat \/ ForgetKilled
  PROVE  ArchiveInv'
<1> USE ArchiveTypes
<1>0. /\ UNCHANGED <<last, live, pc, mark, walk, page>>
      /\ forget' \in {"idle", "half", "torn"}
  BY DEF ForgetMessages, ForgetChat, ForgetKilled, telegram, sync
<1>1. ~ Settled'
  BY DEF ForgetMessages, ForgetChat, ForgetKilled, Settled
<1>2. disk' \subseteq disk /\ (archived' = archived \/ disk' = {}) /\ archived' \in BOOLEAN
  BY DEF ArchiveInv, TypeOK, NoOrphans, ForgetMessages, ForgetChat, ForgetKilled
<1>3. row' \in Marks /\ Fits(row, last)'
  BY <1>0, EmptyMarks DEF ArchiveInv, ForgetMessages, ForgetChat, ForgetKilled
<1>4. troubles' \in 0 .. MaxTroubles
  BY ArchiveAssumption DEF ArchiveInv, TypeOK, ForgetMessages, ForgetChat, ForgetKilled, Trouble
<1>5. TypeOK'
  BY <1>0, <1>2, <1>3, <1>4 DEF ArchiveInv, TypeOK
<1>6. PageFits' /\ WalkFits' /\ PageIsWhole' /\ (pc # "idle" => Fits(mark, last))'
  BY <1>0 DEF ArchiveInv, PageFits, WalkFits, PageIsWhole, StartOf, Want
<1>7. NoOrphans'
  BY <1>2 DEF ArchiveInv, NoOrphans
<1> QED
  BY <1>1, <1>3, <1>5, <1>6, <1>7 DEF ArchiveInv

\* Every step keeps the invariant.
LEMMA ArchiveStepInv == ArchiveInv /\ [Next]_vars => ArchiveInv'
<1> SUFFICES ASSUME ArchiveInv, [Next]_vars PROVE ArchiveInv'
  OBVIOUS
<1>1. CASE Next
  BY <1>1, SendInv, DeleteInv, BeginInv, FetchInv, StoreInv, StopInv, ForgetInv DEF Next
<1>2. CASE UNCHANGED vars
  BY <1>2
     DEF vars, telegram, sync, ArchiveInv, TypeOK, PageFits, NoOrphans, WalkFits, PageIsWhole,
         WalkStored,
         Settled, Vouched, StartOf, Want
<1> QED
  BY <1>1, <1>2

-----------------------------------------------------------------------------
(* The theorems.                                                            *)

\* The invariant holds of every reachable state.
LEMMA ArchiveInvariant == Spec => []ArchiveInv
BY ArchiveInitInv, ArchiveStepInv, PTL DEF Spec

\* Every variable keeps to its type: no message of an id not given out is stored, and no
\* mark or walk leaves the naturals (archive.py: set_watermarks, ops/archive.py: _walk).
THEOREM ArchiveTypeCorrect == Spec => []TypeOK
<1>1. ArchiveInv => TypeOK
  BY DEF ArchiveInv
<1> QED
  BY <1>1, ArchiveInvariant, PTL

\* Nothing of a forgotten chat stays on disk, whatever a sync was about to store when it
\* was forgotten (archive.py: forget).
THEOREM NoOrphansHolds == Spec => []NoOrphans
<1>1. ArchiveInv => NoOrphans
  BY DEF ArchiveInv
<1> QED
  BY <1>1, ArchiveInvariant, PTL

\* The archive claims no range it has a hole in, for every page size, every budget and
\* every schedule of messages, deletions, failures, kills and forgets
\* (ops/archive.py handle_archive_sync).
THEOREM NoHoleHolds == Spec => []NoHole
<1>1. ArchiveInv => NoHole
  BY DEF ArchiveInv, NoHole, Settled, Vouched
<1> QED
  BY <1>1, ArchiveInvariant, PTL

-----------------------------------------------------------------------------
(* Media: types.                                                            *)

Stages == {"idle", "counted", "fetching", "inspecting", "spawning", "listening", "stopping",
           "removing"} \cup Over
Lives  == {"none", "running", "gone"}
Mishaps == {"audit", "spawn", "rm", "again", "client", "killed"}

MediaTypes ==
  /\ stage \in [Fetches -> Stages]
  /\ job \in [Fetches -> [size : Nat, room : Int, transcribe : BOOLEAN]]
  /\ file \in [Fetches -> [there : BOOLEAN, bytes : Nat]]
  /\ client \in [Fetches -> Lives] /\ box \in [Fetches -> Lives]
  /\ mishaps \in [Fetches -> SUBSET Mishaps]
  /\ together \in BOOLEAN
  /\ IsFiniteSet(Stored)

(* What is true of one call, and of the directory.                          *)

\* Stages in which the artifact is the whole attachment.
Whole == {"inspecting", "spawning", "listening", "stopping", "removing", "done"}

\* An artifact grows while it is fetched, within the cap and what the quota left; it is
\* whole afterwards, or gone.
FileFits(c) ==
  /\ stage[c] \in {"idle", "counted", "refused"} => file[c] = NoFile
  /\ stage[c] = "counted" => job[c].room > 0
  /\ stage[c] = "fetching" => file[c].there /\ file[c].bytes <= job[c].room
  /\ file[c].bytes <= MaxFile
  /\ stage[c] \in Whole => file[c].there
  /\ \/ stage[c] \in Whole
     \/ stage[c] = "failed" /\ mishaps[c] = {} /\ file[c].there
     => file[c].bytes = job[c].size

\* A client runs only while the call listens to it or stops it, a container only under a
\* client or until it is removed.
DockerHeld(c) ==
  mishaps[c] = {} =>
    /\ client[c] = "running" => stage[c] \in {"listening", "stopping"}
    /\ box[c] = "running" => client[c] = "running" \/ stage[c] = "removing"
    /\ stage[c] # "killed"

\* While no two calls were at it at once: the one that writes fits with what it was left.
WithinQuota ==
  ~ together =>
    /\ _directory_usage <= Quota
    /\ \A c \in Fetches : stage[c] \in Writing =>
         /\ \A d \in Fetches \ {c} : stage[d] \notin Writing
         /\ _directory_usage - file[c].bytes + job[c].room <= Quota

MediaInv ==
  /\ MediaTypes
  /\ \A c \in Fetches : FileFits(c) /\ DockerHeld(c)
  /\ WithinQuota

-----------------------------------------------------------------------------
(* Bytes on disk.                                                           *)

\* One byte more in one file is one byte more in the directory.
LEMMA ByteLands ==
  ASSUME MediaTypes, NEW c \in Fetches, file' = [file EXCEPT ![c].bytes = @ + 1]
  PROVE  IsFiniteSet(Stored') /\ _directory_usage' = _directory_usage + 1
<1> DEFINE new == <<c, file[c].bytes + 1>>
<1>1. file[c].bytes \in Nat /\ file'[c].bytes = file[c].bytes + 1
  BY DEF MediaTypes
<1>2. \A d \in Fetches \ {c} : file'[d] = file[d]
  BY DEF MediaTypes
<1>3. Stored' = Stored \cup {new}
  <2>1. ASSUME NEW b, b \in Stored' PROVE b \in Stored \cup {new}
    <3>1. PICK d \in Fetches : \E n \in 1 .. file'[d].bytes : b = <<d, n>>
      BY <2>1 DEF Stored
    <3>2. PICK n \in 1 .. file'[d].bytes : b = <<d, n>>
      BY <3>1
    <3>3. CASE d = c /\ n = file[c].bytes + 1
      BY <3>2, <3>3
    <3>4. CASE ~ (d = c /\ n = file[c].bytes + 1)
      <4>1. n \in 1 .. file[d].bytes
        BY <1>1, <1>2, <3>2, <3>4
      <4> QED
        BY <3>2, <4>1 DEF Stored
    <3> QED
      BY <3>3, <3>4
  <2>2. ASSUME NEW b, b \in Stored PROVE b \in Stored'
    <3>1. PICK d \in Fetches : \E n \in 1 .. file[d].bytes : b = <<d, n>>
      BY <2>2 DEF Stored
    <3>2. PICK n \in 1 .. file[d].bytes : b = <<d, n>>
      BY <3>1
    <3>3. n \in 1 .. file'[d].bytes
      BY <1>1, <1>2, <3>2
    <3> QED
      BY <3>2, <3>3 DEF Stored
  <2>3. new \in Stored'
    <3>1. file[c].bytes + 1 \in 1 .. file'[c].bytes
      BY <1>1
    <3> QED
      BY <3>1 DEF Stored
  <2> QED
    BY <2>1, <2>2, <2>3
<1>4. new \notin Stored
  <2>1. ASSUME new \in Stored PROVE FALSE
    <3>1. PICK d \in Fetches : \E n \in 1 .. file[d].bytes : new = <<d, n>>
      BY <2>1 DEF Stored
    <3>2. PICK n \in 1 .. file[d].bytes : new = <<d, n>>
      BY <3>1
    <3>3. d = c /\ n = file[c].bytes + 1
      BY <3>2
    <3> QED
      BY <1>1, <3>2, <3>3
  <2> QED
    BY <2>1
<1> HIDE DEF new
<1>5. IsFiniteSet(Stored)
  BY DEF MediaTypes
<1>6. /\ IsFiniteSet(Stored \cup {new})
      /\ Cardinality(Stored \cup {new}) = Cardinality(Stored) + 1
  BY <1>4, <1>5, FS_AddElement
<1> QED
  BY <1>3, <1>6 DEF _directory_usage

\* A file that goes, or comes empty, adds nothing.
LEMMA NothingLands ==
  ASSUME MediaTypes, \A c \in Fetches : file'[c].bytes \in Nat /\ file'[c].bytes <= file[c].bytes
  PROVE  IsFiniteSet(Stored') /\ _directory_usage' <= _directory_usage
<1>1. \A c \in Fetches : file[c].bytes \in Nat
  BY DEF MediaTypes
<1>2. Stored' \subseteq Stored
  <2>1. ASSUME NEW b, b \in Stored' PROVE b \in Stored
    <3>1. PICK c \in Fetches : \E n \in 1 .. file'[c].bytes : b = <<c, n>>
      BY <2>1 DEF Stored
    <3>2. PICK n \in 1 .. file'[c].bytes : b = <<c, n>>
      BY <3>1
    <3>3. n \in 1 .. file[c].bytes
      BY <1>1, <3>2
    <3> QED
      BY <3>2, <3>3 DEF Stored
  <2> QED
    BY <2>1
<1> QED
  BY <1>2, FS_Subset DEF _directory_usage, MediaTypes

\* The usage counted is a number.
LEMMA UsageType == ASSUME MediaTypes PROVE _directory_usage \in Nat
BY FS_CardinalityType DEF MediaTypes, _directory_usage

-----------------------------------------------------------------------------
(* Media: one step.                                                         *)

\* A mishap is on record.
LEMMA MishapHappens ==
  ASSUME MediaTypes, NEW c \in Fetches, NEW what \in Mishaps, Mishap(c, what)
  PROVE  /\ mishaps' \in [Fetches -> SUBSET Mishaps]
         /\ mishaps'[c] # {}
         /\ \A d \in Fetches \ {c} : mishaps'[d] = mishaps[d]
<1>1. mishaps' = [mishaps EXCEPT ![c] = @ \cup {what}]
  BY DEF Mishap
<1> QED
  BY <1>1 DEF MediaTypes

\* A step is about one call, and writes one byte of its file or none.
LEMMA OneCall ==
  ASSUME MediaTypes, NEW c \in Fetches, MediaStep(c)
  PROVE  /\ \A d \in Fetches \ {c} :
              /\ stage'[d] = stage[d] /\ job'[d] = job[d] /\ file'[d] = file[d]
              /\ client'[d] = client[d] /\ box'[d] = box[d] /\ mishaps'[d] = mishaps[d]
         /\ \/ \A d \in Fetches : file'[d].bytes \in Nat /\ file'[d].bytes <= file[d].bytes
            \/ /\ stage[c] = "fetching" /\ MayWrite(c)
               /\ file' = [file EXCEPT ![c].bytes = @ + 1]
               /\ UNCHANGED <<stage, job, docker, mishaps, together>>
<1>1. /\ stage \in [Fetches -> Stages] /\ DOMAIN job = Fetches
      /\ file \in [Fetches -> [there : BOOLEAN, bytes : Nat]]
      /\ DOMAIN client = Fetches /\ DOMAIN box = Fetches /\ DOMAIN mishaps = Fetches
  BY DEF MediaTypes
<1>2. CASE \E size \in Sizes, advertised \in Sizes \cup {0}, transcribe \in BOOLEAN :
            Count(c, size, advertised, transcribe)
  BY <1>1, <1>2 DEF Count, GoTo, NoFile, docker
<1>3. CASE _create_artifact(c)
  BY <1>1, <1>3 DEF _create_artifact, GoTo, docker
<1>4. CASE AuditFails(c)
  <2>1. Mishap(c, "audit")
    BY <1>4 DEF AuditFails
  <2>2. "audit" \in Mishaps
    BY DEF Mishaps
  <2> QED
    BY <1>1, <1>4, <2>1, <2>2, MishapHappens DEF AuditFails, GoTo, docker
<1>5. CASE _CappedWriter(c)
  BY <1>1, <1>5 DEF _CappedWriter, unlink, GoTo, NoFile, MayWrite, docker
<1>6. CASE DownloadFails(c)
  BY <1>1, <1>6 DEF DownloadFails, unlink, GoTo, NoFile, docker
<1>7. CASE Fetched(c)
  BY <1>1, <1>7 DEF Fetched, GoTo, docker
<1>8. CASE \E ready \in BOOLEAN : _image_present(c, ready)
  BY <1>1, <1>8 DEF _image_present, GoTo, docker
<1>9. CASE Spawn(c)
  BY <1>1, <1>9 DEF Spawn, GoTo, docker
<1>10. CASE SpawnCancelled(c)
  <2>1. Mishap(c, "spawn")
    BY <1>10 DEF SpawnCancelled
  <2>2. "spawn" \in Mishaps
    BY DEF Mishaps
  <2> QED
    BY <1>1, <1>10, <2>1, <2>2, MishapHappens DEF SpawnCancelled, GoTo, docker
<1>11. CASE \E well \in BOOLEAN : Exits(c, well)
  BY <1>1, <1>11 DEF Exits, GoTo, docker
<1>12. CASE Interrupted(c)
  BY <1>1, <1>12 DEF Interrupted, GoTo, docker
<1>13. CASE _stop_process(c)
  BY <1>1, <1>13 DEF _stop_process, GoTo, StopClient, docker
<1>14. CASE force_remove_async(c)
  BY <1>1, <1>14 DEF force_remove_async, GoTo, docker
<1>15. CASE RemoveFails(c)
  <2>1. Mishap(c, "rm")
    BY <1>15 DEF RemoveFails
  <2>2. "rm" \in Mishaps
    BY DEF Mishaps
  <2> QED
    BY <1>1, <1>15, <2>1, <2>2, MishapHappens DEF RemoveFails, GoTo, docker
<1>16. CASE CancelledAgain(c)
  <2>1. Mishap(c, "again")
    BY <1>16 DEF CancelledAgain
  <2>2. "again" \in Mishaps
    BY DEF Mishaps
  <2> QED
    BY <1>1, <1>16, <2>1, <2>2, MishapHappens DEF CancelledAgain, GoTo, docker
<1>17. CASE ClientStarts(c)
  BY <1>1, <1>17 DEF ClientStarts, docker
<1>18. CASE BoxEnds(c)
  BY <1>1, <1>18 DEF BoxEnds, docker
<1>19. CASE ClientEnds(c)
  BY <1>1, <1>19 DEF ClientEnds, docker
<1>20. CASE ClientDies(c)
  <2>1. Mishap(c, "client")
    BY <1>20 DEF ClientDies
  <2>2. "client" \in Mishaps
    BY DEF Mishaps
  <2> QED
    BY <1>1, <1>20, <2>1, <2>2, MishapHappens DEF ClientDies, docker
<1>21. CASE Killed(c)
  <2>1. Mishap(c, "killed")
    BY <1>21 DEF Killed
  <2>2. "killed" \in Mishaps
    BY DEF Mishaps
  <2> QED
    BY <1>1, <1>21, <2>1, <2>2, MishapHappens DEF Killed, GoTo, docker
<1> QED
  BY <1>2, <1>3, <1>4, <1>5, <1>6, <1>7, <1>8, <1>9, <1>10, <1>11, <1>12,
     <1>13, <1>14, <1>15, <1>16, <1>17, <1>18, <1>19, <1>20, <1>21 DEF MediaStep

\* The call's own part of the invariant.
LEMMA CallStep ==
  ASSUME MediaInv, NEW c \in Fetches, MediaStep(c)
  PROVE  /\ stage' \in [Fetches -> Stages]
         /\ job' \in [Fetches -> [size : Nat, room : Int, transcribe : BOOLEAN]]
         /\ file' \in [Fetches -> [there : BOOLEAN, bytes : Nat]]
         /\ client' \in [Fetches -> Lives] /\ box' \in [Fetches -> Lives]
         /\ mishaps' \in [Fetches -> SUBSET Mishaps]
         /\ together' \in BOOLEAN
         /\ FileFits(c)' /\ DockerHeld(c)'
<1> USE DEF MediaTypes, FileFits, DockerHeld, Stages, Over, Lives, Whole, Mishaps
<1>1. /\ MediaTypes /\ FileFits(c) /\ DockerHeld(c)
      /\ _directory_usage \in Nat /\ Quota \in Nat /\ MaxFile \in Nat /\ Sizes \subseteq Nat
  BY UsageType, MediaAssumption DEF MediaInv
<1>2. CASE \E size \in Sizes, advertised \in Sizes \cup {0}, transcribe \in BOOLEAN :
            Count(c, size, advertised, transcribe)
  BY <1>1, <1>2 DEF Count, GoTo, NoFile, docker
<1>3. CASE _create_artifact(c)
  <2>1. stage[c] = "counted" /\ file[c].bytes = 0 /\ job[c].room > 0
    BY <1>1, <1>3 DEF _create_artifact, NoFile
  <2>2. /\ file' \in [Fetches -> [there : BOOLEAN, bytes : Nat]]
        /\ file'[c].there /\ file'[c].bytes = 0
    BY <1>1, <1>3, <2>1 DEF _create_artifact
  <2>3. stage' \in [Fetches -> Stages] /\ stage'[c] = "fetching"
    BY <1>1, <1>3 DEF _create_artifact, GoTo
  <2> QED
    BY <1>1, <1>3, <2>1, <2>2, <2>3 DEF _create_artifact, docker
<1>4. CASE AuditFails(c)
  <2>1. Mishap(c, "audit")
    BY <1>4 DEF AuditFails
  <2>2. "audit" \in Mishaps
    BY DEF Mishaps
  <2> QED
    BY <1>1, <1>4, <2>1, <2>2, MishapHappens DEF AuditFails, GoTo, NoFile, docker
<1>5. CASE _CappedWriter(c)
  <2>1. CASE MayWrite(c)
    <3>1. /\ file' = [file EXCEPT ![c].bytes = @ + 1] /\ stage[c] = "fetching"
          /\ UNCHANGED <<stage, job, client, box, mishaps, together>>
      BY <1>5, <2>1 DEF _CappedWriter, docker
    <3>2. /\ file' \in [Fetches -> [there : BOOLEAN, bytes : Nat]]
          /\ file'[c].there = file[c].there /\ file'[c].bytes = file[c].bytes + 1
      BY <1>1, <3>1
    <3>3. file'[c].bytes <= MaxFile /\ file'[c].bytes <= job[c].room
      BY <2>1, <3>2 DEF MayWrite
    <3> QED
      BY <1>1, <3>1, <3>2, <3>3
  <2>2. CASE ~ MayWrite(c)
    <3>1. /\ unlink(c) /\ GoTo(c, "failed") /\ stage[c] = "fetching"
          /\ UNCHANGED <<job, client, box, mishaps, together>>
      BY <1>5, <2>2 DEF _CappedWriter, docker
    <3> QED
      BY <1>1, <3>1 DEF unlink, GoTo, NoFile
  <2> QED
    BY <2>1, <2>2
<1>6. CASE DownloadFails(c)
  BY <1>1, <1>6 DEF DownloadFails, unlink, GoTo, NoFile, docker
<1>7. CASE Fetched(c)
  BY <1>1, <1>7 DEF Fetched, GoTo, docker
<1>8. CASE \E ready \in BOOLEAN : _image_present(c, ready)
  BY <1>1, <1>8 DEF _image_present, GoTo, docker
<1>9. CASE Spawn(c)
  BY <1>1, <1>9 DEF Spawn, GoTo, docker
<1>10. CASE SpawnCancelled(c)
  <2>1. Mishap(c, "spawn")
    BY <1>10 DEF SpawnCancelled
  <2>2. "spawn" \in Mishaps
    BY DEF Mishaps
  <2> QED
    BY <1>1, <1>10, <2>1, <2>2, MishapHappens DEF SpawnCancelled, GoTo, docker
<1>11. CASE \E well \in BOOLEAN : Exits(c, well)
  BY <1>1, <1>11 DEF Exits, GoTo, docker
<1>12. CASE Interrupted(c)
  BY <1>1, <1>12 DEF Interrupted, GoTo, docker
<1>13. CASE _stop_process(c)
  BY <1>1, <1>13 DEF _stop_process, GoTo, StopClient, docker
<1>14. CASE force_remove_async(c)
  BY <1>1, <1>14 DEF force_remove_async, GoTo, docker
<1>15. CASE RemoveFails(c)
  <2>1. Mishap(c, "rm")
    BY <1>15 DEF RemoveFails
  <2>2. "rm" \in Mishaps
    BY DEF Mishaps
  <2> QED
    BY <1>1, <1>15, <2>1, <2>2, MishapHappens DEF RemoveFails, GoTo, docker
<1>16. CASE CancelledAgain(c)
  <2>1. Mishap(c, "again")
    BY <1>16 DEF CancelledAgain
  <2>2. "again" \in Mishaps
    BY DEF Mishaps
  <2> QED
    BY <1>1, <1>16, <2>1, <2>2, MishapHappens DEF CancelledAgain, GoTo, docker
<1>17. CASE ClientStarts(c)
  BY <1>1, <1>17 DEF ClientStarts, docker
<1>18. CASE BoxEnds(c)
  BY <1>1, <1>18 DEF BoxEnds, docker
<1>19. CASE ClientEnds(c)
  BY <1>1, <1>19 DEF ClientEnds, docker
<1>20. CASE ClientDies(c)
  <2>1. Mishap(c, "client")
    BY <1>20 DEF ClientDies
  <2>2. "client" \in Mishaps
    BY DEF Mishaps
  <2> QED
    BY <1>1, <1>20, <2>1, <2>2, MishapHappens DEF ClientDies, docker
<1>21. CASE Killed(c)
  <2>1. Mishap(c, "killed")
    BY <1>21 DEF Killed
  <2>2. "killed" \in Mishaps
    BY DEF Mishaps
  <2> QED
    BY <1>1, <1>21, <2>1, <2>2, MishapHappens DEF Killed, GoTo, docker
<1> QED
  BY <1>2, <1>3, <1>4, <1>5, <1>6, <1>7, <1>8, <1>9, <1>10, <1>11, <1>12,
     <1>13, <1>14, <1>15, <1>16, <1>17, <1>18, <1>19, <1>20, <1>21 DEF MediaStep

\* Only Count makes a writer of a call, with the room it counted.
LEMMA Writers ==
  ASSUME MediaTypes, NEW c \in Fetches, MediaStep(c)
  PROVE  \/ /\ stage'[c] \in Writing => stage[c] \in Writing /\ file'[c].bytes = file[c].bytes
            /\ UNCHANGED <<job, together>>
         \/ /\ stage[c] = "idle" /\ job'[c].room = Quota - _directory_usage
            /\ \/ together'
               \/ ~ together /\ \A d \in Fetches \ {c} : stage[d] \notin Writing
            /\ UNCHANGED file
         \/ /\ stage[c] = "fetching" /\ MayWrite(c)
            /\ file' = [file EXCEPT ![c].bytes = @ + 1]
            /\ UNCHANGED <<stage, job, together>>
<1>1. /\ stage \in [Fetches -> Stages] /\ DOMAIN job = Fetches
      /\ file \in [Fetches -> [there : BOOLEAN, bytes : Nat]]
  BY DEF MediaTypes
<1> USE DEF Writing
<1>2. CASE \E size \in Sizes, advertised \in Sizes \cup {0}, transcribe \in BOOLEAN :
            Count(c, size, advertised, transcribe)
  <2>1. /\ stage[c] = "idle" /\ UNCHANGED file
        /\ \E size, transcribe :
             job' = [job EXCEPT ![c] = [size |-> size, room |-> Quota - _directory_usage,
                                        transcribe |-> transcribe]]
        /\ together' = (together \/ \E d \in Fetches \ {c} : stage[d] \in Writing)
    BY <1>2 DEF Count
  <2>2. job'[c].room = Quota - _directory_usage
    BY <1>1, <2>1
  <2>3. \/ together'
        \/ ~ together /\ \A d \in Fetches \ {c} : stage[d] \notin Writing
    BY <2>1, Zenon
  <2> QED
    BY <2>1, <2>2, <2>3
<1>3. CASE _create_artifact(c)
  BY <1>1, <1>3 DEF _create_artifact, GoTo, docker
<1>4. CASE AuditFails(c)
  BY <1>1, <1>4 DEF AuditFails, GoTo, docker
<1>5. CASE _CappedWriter(c)
  BY <1>1, <1>5 DEF _CappedWriter, unlink, GoTo, NoFile, MayWrite, docker
<1>6. CASE DownloadFails(c)
  BY <1>1, <1>6 DEF DownloadFails, unlink, GoTo, NoFile, docker
<1>7. CASE Fetched(c)
  BY <1>1, <1>7 DEF Fetched, GoTo, docker
<1>8. CASE \E ready \in BOOLEAN : _image_present(c, ready)
  BY <1>1, <1>8 DEF _image_present, GoTo, docker
<1>9. CASE Spawn(c)
  BY <1>1, <1>9 DEF Spawn, GoTo, docker
<1>10. CASE SpawnCancelled(c)
  BY <1>1, <1>10 DEF SpawnCancelled, GoTo, docker
<1>11. CASE \E well \in BOOLEAN : Exits(c, well)
  BY <1>1, <1>11 DEF Exits, GoTo, docker
<1>12. CASE Interrupted(c)
  BY <1>1, <1>12 DEF Interrupted, GoTo, docker
<1>13. CASE _stop_process(c)
  BY <1>1, <1>13 DEF _stop_process, GoTo, StopClient, docker
<1>14. CASE force_remove_async(c)
  BY <1>1, <1>14 DEF force_remove_async, GoTo, docker
<1>15. CASE RemoveFails(c)
  BY <1>1, <1>15 DEF RemoveFails, GoTo, docker
<1>16. CASE CancelledAgain(c)
  BY <1>1, <1>16 DEF CancelledAgain, GoTo, docker
<1>17. CASE ClientStarts(c)
  BY <1>1, <1>17 DEF ClientStarts, docker
<1>18. CASE BoxEnds(c)
  BY <1>1, <1>18 DEF BoxEnds, docker
<1>19. CASE ClientEnds(c)
  BY <1>1, <1>19 DEF ClientEnds, docker
<1>20. CASE ClientDies(c)
  BY <1>1, <1>20 DEF ClientDies, docker
<1>21. CASE Killed(c)
  BY <1>1, <1>21 DEF Killed, GoTo, docker
<1> QED
  BY <1>2, <1>3, <1>4, <1>5, <1>6, <1>7, <1>8, <1>9, <1>10, <1>11, <1>12,
     <1>13, <1>14, <1>15, <1>16, <1>17, <1>18, <1>19, <1>20, <1>21 DEF MediaStep


\* The quota is not outgrown while the calls go one after another.
LEMMA QuotaStep ==
  ASSUME MediaInv, NEW c \in Fetches, MediaStep(c)
  PROVE  IsFiniteSet(Stored') /\ WithinQuota'
<1>1. /\ MediaTypes /\ FileFits(c) /\ WithinQuota /\ Quota \in Nat
      /\ _directory_usage \in Nat
  BY UsageType, MediaAssumption DEF MediaInv
<1>2. /\ file' \in [Fetches -> [there : BOOLEAN, bytes : Nat]]
      /\ job' \in [Fetches -> [size : Nat, room : Int, transcribe : BOOLEAN]]
  BY CallStep
<1>3. \A d \in Fetches \ {c} :
        stage'[d] = stage[d] /\ job'[d] = job[d] /\ file'[d] = file[d]
  BY <1>1, OneCall
<1>4. IsFiniteSet(Stored')
  BY <1>1, ByteLands, NothingLands, OneCall
<1>5. _directory_usage' \in Nat
  BY <1>4, FS_CardinalityType DEF _directory_usage
<1>6. SUFFICES ASSUME ~ together'
               PROVE  /\ _directory_usage' <= Quota
                      /\ \A d \in Fetches : stage'[d] \in Writing =>
                           /\ \A e \in Fetches \ {d} : stage'[e] \notin Writing
                           /\ _directory_usage' - file'[d].bytes + job'[d].room <= Quota
  BY <1>4 DEF WithinQuota
<1>7. CASE /\ stage'[c] \in Writing => stage[c] \in Writing /\ file'[c].bytes = file[c].bytes
           /\ UNCHANGED <<job, together>>
           /\ \A d \in Fetches : file'[d].bytes \in Nat /\ file'[d].bytes <= file[d].bytes
  <2>1. _directory_usage' <= _directory_usage /\ _directory_usage <= Quota
    BY <1>1, <1>6, <1>7, NothingLands DEF WithinQuota
  <2>2. ASSUME NEW d \in Fetches, stage'[d] \in Writing
        PROVE  /\ \A e \in Fetches \ {d} : stage'[e] \notin Writing
               /\ _directory_usage' - file'[d].bytes + job'[d].room <= Quota
    <3>1. /\ stage[d] \in Writing /\ file'[d].bytes = file[d].bytes /\ job'[d] = job[d]
          /\ file[d].bytes \in Nat /\ job[d].room \in Int
      BY <1>1, <1>3, <1>7, <2>2 DEF MediaTypes
    <3>2. /\ \A e \in Fetches \ {d} : stage[e] \notin Writing
          /\ _directory_usage - file[d].bytes + job[d].room <= Quota
      BY <1>1, <1>6, <1>7, <3>1 DEF WithinQuota
    <3>3. \A e \in Fetches \ {d} : stage'[e] \notin Writing
      BY <1>3, <1>7, <3>2
    <3> QED
      BY <1>1, <1>5, <2>1, <3>1, <3>2, <3>3
  <2> QED
    BY <1>1, <1>5, <2>1, <2>2
<1>8. CASE /\ stage[c] = "idle" /\ job'[c].room = Quota - _directory_usage
           /\ \/ together'
              \/ ~ together /\ \A d \in Fetches \ {c} : stage[d] \notin Writing
           /\ UNCHANGED file
  <2>1. _directory_usage' = _directory_usage /\ _directory_usage <= Quota
    BY <1>1, <1>6, <1>8 DEF WithinQuota, _directory_usage, Stored
  <2>2. \A d \in Fetches \ {c} : stage'[d] \notin Writing
    BY <1>3, <1>6, <1>8
  <2>3. file'[c].bytes \in Nat
    BY <1>2
  <2>4. _directory_usage' - file'[c].bytes + job'[c].room <= Quota
    BY <1>1, <1>8, <2>1, <2>3
  <2> QED
    BY <2>1, <2>2, <2>4
<1>9. CASE /\ stage[c] = "fetching" /\ MayWrite(c)
           /\ file' = [file EXCEPT ![c].bytes = @ + 1]
           /\ UNCHANGED <<stage, job, together>>
  <2>1. _directory_usage' = _directory_usage + 1
    BY <1>1, <1>9, ByteLands
  <2>2. /\ file[c].bytes \in Nat /\ job[c].room \in Int
        /\ file'[c].bytes = file[c].bytes + 1 /\ file[c].bytes + 1 <= job[c].room
    BY <1>1, <1>9 DEF MediaTypes, MayWrite
  <2>3. /\ \A d \in Fetches \ {c} : stage[d] \notin Writing
        /\ _directory_usage - file[c].bytes + job[c].room <= Quota
    BY <1>1, <1>6, <1>9 DEF WithinQuota, Writing
  <2> QED
    BY <1>1, <1>9, <2>1, <2>2, <2>3
<1> QED
  <2>1. CASE \A d \in Fetches : file'[d].bytes \in Nat /\ file'[d].bytes <= file[d].bytes
    BY <1>1, <1>7, <1>8, <1>9, <2>1, Writers
  <2>2. CASE /\ stage[c] = "fetching" /\ MayWrite(c)
             /\ file' = [file EXCEPT ![c].bytes = @ + 1]
             /\ UNCHANGED <<stage, job, docker, mishaps, together>>
    BY <1>9, <2>2
  <2> QED
    BY <1>1, <2>1, <2>2, OneCall

-----------------------------------------------------------------------------
(* Media: the theorem.                                                      *)

\* Nothing is fetched at first.
LEMMA MediaInitInv == ASSUME MediaInit PROVE MediaInv
<1> USE MediaAssumption DEF MediaInit, NoFile
<1>1. Stored = {}
  BY DEF Stored
<1>2. IsFiniteSet(Stored) /\ _directory_usage = 0
  BY <1>1, FS_EmptySet DEF _directory_usage
<1>3. MediaTypes
  <2>1. /\ stage \in [Fetches -> Stages] /\ client \in [Fetches -> Lives]
        /\ box \in [Fetches -> Lives] /\ together \in BOOLEAN
    BY DEF Stages, Lives
  <2>2. job \in [Fetches -> [size : Nat, room : Int, transcribe : BOOLEAN]]
    OBVIOUS
  <2>3. file \in [Fetches -> [there : BOOLEAN, bytes : Nat]]
    OBVIOUS
  <2>4. mishaps \in [Fetches -> SUBSET Mishaps]
    OBVIOUS
  <2> QED
    BY <1>2, <2>1, <2>2, <2>3, <2>4 DEF MediaTypes
<1>4. \A c \in Fetches : FileFits(c) /\ DockerHeld(c)
  BY DEF FileFits, DockerHeld, Whole
<1>5. WithinQuota
  BY <1>2 DEF WithinQuota, Writing
<1> QED
  BY <1>3, <1>4, <1>5 DEF MediaInv

\* Every step of a fetch or a transcription keeps the invariant.
LEMMA MediaStepInv == ASSUME MediaInv, [MediaNext]_mediaVars PROVE MediaInv'
<1>1. CASE MediaNext
  <2>1. PICK c \in Fetches : MediaStep(c)
    BY <1>1 DEF MediaNext
  <2>2. MediaTypes'
    BY <2>1, CallStep, QuotaStep DEF MediaTypes
  <2>3. ASSUME NEW d \in Fetches PROVE FileFits(d)' /\ DockerHeld(d)'
    <3>1. CASE d = c
      BY <2>1, <3>1, CallStep
    <3>2. CASE d # c
      <4>1. /\ stage'[d] = stage[d] /\ job'[d] = job[d] /\ file'[d] = file[d]
            /\ client'[d] = client[d] /\ box'[d] = box[d] /\ mishaps'[d] = mishaps[d]
        BY <2>1, <3>2, OneCall DEF MediaInv
      <4>2. FileFits(d) /\ DockerHeld(d)
        BY DEF MediaInv
      <4> QED
        BY <4>1, <4>2 DEF FileFits, DockerHeld
    <3> QED
      BY <3>1, <3>2
  <2> QED
    BY <2>1, <2>2, <2>3, QuotaStep DEF MediaInv
<1>2. CASE UNCHANGED mediaVars
  BY <1>2 DEF mediaVars, MediaInv, MediaTypes, FileFits, DockerHeld, WithinQuota,
              _directory_usage, Stored
<1> QED
  BY <1>1, <1>2

\* A download that is over leaves a whole file or none, and no client or container, but for
\* the mishaps named; and the quota is outgrown only by calls that were at it together, for
\* any number of calls, sizes and quota (ops/media.py, transcribe.py).
THEOREM NothingLeftBehindHolds == MediaSpec => []NothingLeftBehind
<1>1. ASSUME MediaInv PROVE NothingLeftBehind
  <2>1. ASSUME NEW c \in Fetches, stage[c] \in Over, mishaps[c] = {}
        PROVE  /\ file[c].there => file[c].bytes = job[c].size /\ file[c].bytes <= MaxFile
               /\ stage[c] = "done" => file[c].there
               /\ client[c] # "running" /\ box[c] # "running"
    <3>1. FileFits(c) /\ DockerHeld(c)
      BY <1>1 DEF MediaInv
    <3>2. stage[c] = "refused" => ~ file[c].there
      BY <3>1 DEF FileFits, NoFile
    <3> QED
      BY <2>1, <3>1, <3>2 DEF FileFits, DockerHeld, Over, Whole
  <2>2. ~ together => _directory_usage <= Quota
    BY <1>1 DEF MediaInv, WithinQuota
  <2> QED
    BY <2>1, <2>2 DEF NothingLeftBehind
<1> QED
  BY <1>1, MediaInitInv, MediaStepInv, PTL DEF MediaSpec

-----------------------------------------------------------------------------
(* Watch: what is true of it at every step.                                 *)

Phases   == {"idle", "opening", "setup", "wait", "lookup", "done", "refused"}
Arrival  == [peer : Peers, attached : BOOLEAN, at : Nat]
Numbers  == 1 .. Len(arrivals)
Looking  == phase \in {"wait", "lookup"}
Attached == \A n \in Numbers : arrivals[n].attached

WatchTypes ==
  /\ call \in Calls /\ phase \in Phases
  /\ now \in Nat /\ deadline \in Nat /\ ends \in Nat /\ until \in Nat /\ kept \in Nat
  /\ bounded \in BOOLEAN
  /\ arrivals \in Seq(Arrival)
  /\ queue \in Seq(Nat) /\ \A i \in DOMAIN queue : queue[i] \in Numbers
  /\ events \in Seq(Nat) /\ \A i \in DOMAIN events : events[i] \in Numbers
  /\ late \subseteq Numbers /\ unknown \subseteq Numbers
  /\ phase = "lookup" => item \in Numbers

\* Messages are dealt with in the order they came, which is that of the clock.
InOrder ==
  /\ \A i, j \in DOMAIN queue : i < j => queue[i] < queue[j]
  /\ \A i, j \in DOMAIN events : i < j => events[i] < events[j]
  /\ \A i \in DOMAIN queue :
       /\ \A j \in DOMAIN events : events[j] < queue[i]
       /\ \A n \in unknown : n < queue[i]
       /\ phase = "lookup" => item < queue[i]
  /\ phase = "lookup" =>
       /\ \A j \in DOMAIN events : events[j] < item
       /\ \A n \in unknown : n < item
  /\ \A m, n \in Numbers : m < n => arrivals[m].at <= arrivals[n].at
  /\ \A n \in Numbers : arrivals[n].at <= now

\* A message is reported, waits, is looked up, came too late, has no chat or is refused.
Accounted ==
  \A n \in Numbers :
    \/ \E i \in DOMAIN events : events[i] = n
    \/ \E i \in DOMAIN queue : queue[i] = n
    \/ phase = "lookup" /\ item = n
    \/ n \in late \cup unknown
    \/ ~ admits(arrivals[n].peer)

Screened ==
  \A i \in DOMAIN events : admits(arrivals[events[i]].peer) /\ events[i] \notin unknown

\* The wait ends with the debounce after the last message kept, or with the call.
Waiting ==
  /\ kept <= now
  /\ phase \in {"idle", "opening", "setup", "refused"} => events = <<>>
  /\ phase # "done" => reason = None
  /\ Looking =>
       /\ ends = deadline /\ Len(events) < call.limit
       /\ call.debounce = 0 => events = <<>>
       /\ bounded <=> events # <<>> /\ kept + call.debounce < ends
       /\ until = IF bounded THEN kept + call.debounce ELSE ends
  /\ phase = "lookup" => ~ arrivals[item].attached

\* Once the clock has moved since the last message kept, what waits has come just now.
JustCame ==
  Attached /\ phase = "wait" /\ events # <<>> /\ kept < now =>
    \A i \in DOMAIN queue : arrivals[queue[i]].at >= now

\* The reason given is the true one.
Ended ==
  phase = "done" =>
    /\ call.debounce = 0 => Len(events) <= 1
    /\ reason = "limit" => Len(events) = call.limit
    /\ reason = "timeout" => now >= deadline
    /\ reason = "quiet" =>
         /\ events # <<>> /\ kept + call.debounce < deadline /\ now >= kept + call.debounce
         /\ call.debounce > 0 /\ Attached =>
              \A i \in DOMAIN queue : arrivals[queue[i]].at >= kept + call.debounce

WatchInv == WatchTypes /\ InOrder /\ Accounted /\ Screened /\ Waiting /\ JustCame /\ Ended

-----------------------------------------------------------------------------
(* Watch: what its operators do.                                            *)

\* A message is admitted where the policy promises it to whoever named its chat.
LEMMA AdmitsAsPromised ==
  ASSUME NEW peer \in Peers
  PROVE  admits(peer) <=> /\ Promised(WatchConfig, "READ_CHAT", peer)
                          /\ call.chats # {} => peer.id \in call.chats
<1>1. "READ_CHAT" \in PeerCapabilities
  BY DEF PeerCapabilities, ReadCapabilities
<1>2. Allowed(WatchConfig, "READ_CHAT", peer) <=> Promised(WatchConfig, "READ_CHAT", peer)
  BY <1>1, WatchAssumption, KernelKeepsItsPromise
<1>3. Promised(WatchConfig, "READ_CHAT", peer) => ~ HardDeny(peer)
  BY DEF Promised, HardDeny
<1> QED
  BY <1>2, <1>3 DEF admits

\* What a call of watch asks for.
LEMMA CallTypes ==
  ASSUME WatchTypes
  PROVE  call.timeout \in Nat /\ call.debounce \in Nat /\ call.limit \in Nat \ {0}
BY WatchAssumption DEF WatchTypes

\* What is known of a message that arrived.
LEMMA ArrivalTypes ==
  ASSUME WatchTypes
  PROVE  \A n \in Numbers : arrivals[n].peer \in Peers /\ arrivals[n].at \in Nat
<1>1. \A n \in Numbers : arrivals[n] \in Arrival
  BY DEF WatchTypes, Numbers
<1> QED
  BY <1>1 DEF Arrival

\* collect_burst's loop waits, or ends for one of two reasons.
LEMMA Waits ==
  ASSUME NEW some \in BOOLEAN, NEW end \in Nat, now \in Nat, call.debounce \in Nat,
         NextWait(some, end)
  PROVE  \/ /\ phase' = "done" /\ reason' = "timeout" /\ end <= now
            /\ UNCHANGED <<until, bounded>>
         \/ /\ phase' = "done" /\ reason' = "quiet" /\ now < end
            /\ some /\ call.debounce = 0
            /\ UNCHANGED <<until, bounded>>
         \/ /\ phase' = "wait" /\ UNCHANGED reason /\ now < end
            /\ some => call.debounce > 0
            /\ bounded' \in BOOLEAN /\ (bounded' <=> some /\ now + call.debounce < end)
            /\ until' = IF some /\ now + call.debounce < end THEN now + call.debounce ELSE end
<1> DEFINE remaining == end - now
           window == IF some /\ call.debounce < remaining THEN call.debounce ELSE remaining
<1>1. remaining \in Int /\ (call.debounce < remaining <=> now + call.debounce < end)
  OBVIOUS
<1>2. CASE remaining <= 0
  BY <1>1, <1>2 DEF NextWait, Finish
<1>3. CASE remaining > 0 /\ window = 0
  <2>1. Finish("quiet")
    BY <1>1, <1>3 DEF NextWait
  <2>2. some /\ call.debounce = 0 /\ now < end
    BY <1>1, <1>3
  <2> QED
    BY <2>1, <2>2 DEF Finish
<1>4. CASE remaining > 0 /\ window # 0
  <2>1. /\ phase' = "wait" /\ until' = now + window
        /\ bounded' = (some /\ call.debounce < remaining)
        /\ UNCHANGED reason
    BY <1>1, <1>4 DEF NextWait
  <2>2. bounded' \in BOOLEAN /\ (bounded' <=> some /\ call.debounce < remaining)
    BY <2>1
  <2>3. until' = IF some /\ now + call.debounce < end THEN now + call.debounce ELSE end
    BY <1>1, <2>1
  <2>4. now < end /\ (some => call.debounce > 0)
    BY <1>1, <1>4
  <2> QED
    BY <1>1, <2>1, <2>2, <2>3, <2>4
<1> QED
  BY <1>1, <1>2, <1>3, <1>4

\* What is dropped leaves the wait as it was, or finds it over.
LEMMA Drops ==
  ASSUME WatchTypes, Waiting, Looking, NEW n, Drop(n)
  PROVE  /\ UNCHANGED <<events, kept, until, bounded>>
         /\ \/ phase' = "wait" /\ UNCHANGED reason
            \/ phase' = "done" /\ reason' = "timeout" /\ deadline <= now
            \/ /\ phase' = "done" /\ reason' = "quiet"
               /\ events # <<>> /\ kept + call.debounce < deadline
               /\ kept + call.debounce <= now
<1>1. call.debounce \in Nat /\ until \in Nat /\ now \in Nat /\ kept \in Nat /\ ends = deadline
  BY CallTypes DEF WatchTypes, Waiting
<1>2. UNCHANGED <<events, kept>>
  BY DEF Drop
<1>3. CASE until - now <= 0
  <2>1. Finish(IF bounded THEN "quiet" ELSE "timeout")
    BY <1>3 DEF Drop, GivesUp
  <2>2. CASE bounded
    BY <1>1, <1>2, <1>3, <2>1, <2>2 DEF Finish, Waiting
  <2>3. CASE ~ bounded
    BY <1>1, <1>2, <1>3, <2>1, <2>3 DEF Finish, Waiting
  <2> QED
    BY <2>2, <2>3
<1>4. CASE ~ until - now <= 0
  BY <1>2, <1>4 DEF Drop
<1> QED
  BY <1>3, <1>4

\* What is kept fills the burst, or starts the debounce anew.
LEMMA Keeps ==
  ASSUME WatchTypes, Waiting, Looking, NEW n, Keep(n)
  PROVE  /\ events' = Append(events, n) /\ kept' = now
         /\ \/ /\ phase' = "done" /\ reason' = "limit" /\ Len(events') = call.limit
               /\ UNCHANGED <<until, bounded>>
            \/ /\ phase' = "done" /\ reason' = "timeout" /\ deadline <= now
               /\ UNCHANGED <<until, bounded>>
            \/ /\ phase' = "done" /\ reason' = "quiet" /\ now < deadline
               /\ call.debounce = 0
               /\ UNCHANGED <<until, bounded>>
            \/ /\ phase' = "wait" /\ UNCHANGED reason /\ Len(events') < call.limit
               /\ call.debounce > 0
               /\ bounded' \in BOOLEAN /\ (bounded' <=> now + call.debounce < deadline)
               /\ until' = IF now + call.debounce < deadline
                           THEN now + call.debounce ELSE deadline
<1>1. /\ call.debounce \in Nat /\ call.limit \in Nat /\ now \in Nat /\ ends = deadline
      /\ ends \in Nat /\ events \in Seq(Nat) /\ Len(events) < call.limit
  BY CallTypes DEF WatchTypes, Waiting
<1>2. events' = Append(events, n) /\ kept' = now /\ Len(events') = Len(events) + 1
  BY <1>1 DEF Keep
<1>3. CASE Len(events') >= call.limit
  BY <1>1, <1>2, <1>3 DEF Keep, Finish
<1>4. CASE ~ Len(events') >= call.limit
  <2>1. NextWait(TRUE, ends)
    BY <1>4, Zenon DEF Keep
  <2>2. Len(events') < call.limit
    BY <1>1, <1>2, <1>4
  <2> QED
    BY <1>1, <1>2, <2>1, <2>2, Waits
<1> QED
  BY <1>3, <1>4

-----------------------------------------------------------------------------
(* Watch: a message taken in hand.                                          *)

\* n is the next of those not yet dealt with, and the queue holds the others.
InHand(n) ==
  /\ queue' \in Seq(Nat)
  /\ \A i, j \in DOMAIN queue' : i < j => queue'[i] < queue'[j]
  /\ \A i \in DOMAIN queue' : n < queue'[i] /\ \E j \in DOMAIN queue : queue[j] = queue'[i]
  /\ \A j \in DOMAIN queue : queue[j] # n => \E i \in DOMAIN queue' : queue'[i] = queue[j]
  /\ \A j \in DOMAIN events : events[j] < n
  /\ \A m \in unknown : m < n
  /\ phase = "lookup" => item = n

\* It is kept, refused, or its chat is not to be learned; or that is looked up.
Dealt(n) ==
  \/ admits(arrivals[n].peer) /\ Keep(n) /\ UNCHANGED unknown
  \/ ~ admits(arrivals[n].peer) /\ Drop(n) /\ UNCHANGED unknown
  \/ Drop(n) /\ unknown' = unknown \cup {n}

SentToLookup(n) ==
  /\ phase' = "lookup" /\ item' = n /\ ~ arrivals[n].attached
  /\ UNCHANGED <<unknown, events, kept, until, bounded, reason>>

OneInHand ==
  \E n \in Numbers :
    /\ InHand(n) /\ (Dealt(n) \/ SentToLookup(n))
    /\ UNCHANGED <<parameters, now, arrivals, late, ends>>

\* Taking the first of the queue leaves the burst and what waits in order.
LEMMA TakesOne == ASSUME WatchInv, Take PROVE Looking /\ OneInHand
<1> DEFINE n == Head(queue)
<1>1. WatchTypes /\ InOrder
  BY DEF WatchInv
<1>2. phase = "wait" /\ queue # <<>> /\ queue' = Tail(queue)
  BY DEF Take
<1>3. /\ queue \in Seq(Nat) /\ DOMAIN queue = 1 .. Len(queue) /\ Len(queue) \in Nat \ {0}
      /\ n = queue[1] /\ n \in Numbers
      /\ queue' \in Seq(Nat) /\ DOMAIN queue' = 1 .. Len(queue) - 1
      /\ \A i \in 1 .. Len(queue) - 1 : queue'[i] = queue[i + 1]
  BY <1>1, <1>2 DEF WatchTypes
<1>4. InHand(n)
  <2>1. \A i \in DOMAIN queue' : i + 1 \in DOMAIN queue /\ queue'[i] = queue[i + 1]
    BY <1>3
  <2>2. ASSUME NEW i \in DOMAIN queue'
        PROVE  n < queue'[i] /\ \E j \in DOMAIN queue : queue[j] = queue'[i]
    <3>1. 1 \in DOMAIN queue /\ i + 1 \in DOMAIN queue /\ 1 < i + 1
      BY <1>3
    <3> QED
      BY <1>1, <1>3, <2>1, <3>1 DEF InOrder
  <2>3. \A i, j \in DOMAIN queue' : i < j => queue'[i] < queue'[j]
    BY <1>1, <1>3, <2>1 DEF InOrder
  <2>4. ASSUME NEW j \in DOMAIN queue, queue[j] # n
        PROVE  \E i \in DOMAIN queue' : queue'[i] = queue[j]
    <3>1. j - 1 \in DOMAIN queue' /\ queue'[j - 1] = queue[j]
      <4>1. j \in 1 .. Len(queue) /\ j # 1 /\ Len(queue) \in Nat
        BY <1>3, <2>4
      <4>2. j - 1 \in 1 .. Len(queue) - 1 /\ (j - 1) + 1 = j
        BY <4>1
      <4> QED
        BY <1>3, <4>2
    <3> QED
      BY <3>1
  <2>5. 1 \in DOMAIN queue
    BY <1>3
  <2>6. (\A j \in DOMAIN events : events[j] < n) /\ \A m \in unknown : m < n
    BY <1>1, <1>3, <2>5 DEF InOrder
  <2> QED
    BY <1>2, <1>3, <2>2, <2>3, <2>4, <2>6 DEF InHand
<1>5. Dealt(n) \/ SentToLookup(n)
  <2>1. CASE arrivals[n].attached /\ Screen(n) /\ UNCHANGED <<item, unknown>>
    BY <2>1, Zenon DEF Screen, Dealt
  <2>2. CASE /\ ~ arrivals[n].attached /\ phase' = "lookup" /\ item' = n
             /\ UNCHANGED <<unknown, events, kept, until, bounded, reason>>
    BY <2>2, Zenon DEF SentToLookup
  <2>3. CASE unknown' = unknown \cup {n} /\ Drop(n)
    BY <2>3, Zenon DEF Dealt
  <2> QED
    BY <2>1, <2>2, <2>3 DEF Take
<1>6. UNCHANGED <<parameters, now, arrivals, late, ends>>
  BY DEF Take
<1> QED
  BY <1>2, <1>3, <1>4, <1>5, <1>6 DEF Looking, OneInHand

\* A lookup that ends has one message in hand.
LEMMA LooksOneUp ==
  ASSUME WatchInv, NEW found \in BOOLEAN, LookedUp(found)
  PROVE  Looking /\ OneInHand
<1>1. WatchTypes /\ InOrder /\ phase = "lookup" /\ item \in Numbers
  BY DEF WatchInv, WatchTypes, LookedUp
<1>2. UNCHANGED <<queue, parameters, now, arrivals, late, ends>>
  BY DEF LookedUp
<1>3. InHand(item)
  <2>1. queue' = queue
    BY <1>2
  <2> QED
    BY <1>1, <2>1 DEF InHand, InOrder, WatchTypes
<1>4. Dealt(item)
  BY Zenon DEF LookedUp, Screen, Dealt
<1> QED
  BY <1>1, <1>2, <1>3, <1>4 DEF Looking, OneInHand

\* What it leaves of the invariant.
LEMMA HandStep == ASSUME WatchInv, Looking, OneInHand PROVE WatchInv'
<1>1. PICK n \in Numbers :
        /\ InHand(n) /\ (Dealt(n) \/ SentToLookup(n))
        /\ UNCHANGED <<parameters, now, arrivals, late, ends>>
  BY DEF OneInHand
<1>2. /\ WatchTypes /\ InOrder /\ Accounted /\ Screened /\ Waiting /\ JustCame
      /\ phase \in {"wait", "lookup"}
      /\ UNCHANGED <<call, deadline, now, arrivals, late, ends>>
      /\ call.debounce \in Nat /\ call.limit \in Nat \ {0}
  BY <1>1, CallTypes DEF WatchInv, Looking, parameters
<1>3. Numbers' = Numbers /\ Attached' = Attached /\ \A peer : admits(peer)' = admits(peer)
  BY <1>2 DEF Numbers, Attached, admits
<1>4. CASE admits(arrivals[n].peer) /\ Keep(n) /\ UNCHANGED unknown
  <2>1. /\ events' = Append(events, n) /\ kept' = now /\ phase' \in {"wait", "done"}
        /\ unknown' = unknown
    BY <1>2, <1>4, Keeps DEF Looking
  <2>2. /\ events \in Seq(Nat) /\ n \in Nat /\ now \in Nat /\ deadline \in Nat
        /\ ends = deadline
    BY <1>2 DEF WatchTypes, Waiting, Numbers
  <2>3. /\ events' \in Seq(Nat) /\ events' # <<>>
        /\ DOMAIN events' = 1 .. Len(events) + 1 /\ DOMAIN events = 1 .. Len(events)
        /\ Len(events) \in Nat /\ Len(events') = Len(events) + 1
        /\ \A i \in DOMAIN events : events'[i] = events[i]
        /\ events'[Len(events) + 1] = n
    BY <2>1, <2>2
  <2>4. \A i \in DOMAIN events' : (i \in DOMAIN events /\ events'[i] = events[i]) \/ events'[i] = n
    BY <2>3
  <2>5. WatchTypes'
    <3>1. phase' \in Phases /\ phase' # "lookup"
      BY <2>1 DEF Phases
    <3>2. until' \in Nat /\ bounded' \in BOOLEAN
      <4>1. \/ UNCHANGED <<until, bounded>>
            \/ /\ bounded' \in BOOLEAN
               /\ until' = IF now + call.debounce < deadline
                           THEN now + call.debounce ELSE deadline
        BY <1>2, <1>4, Keeps DEF Looking
      <4>2. until \in Nat /\ bounded \in BOOLEAN
        BY <1>2 DEF WatchTypes
      <4>3. CASE UNCHANGED <<until, bounded>>
        BY <4>2, <4>3
      <4>4. CASE /\ bounded' \in BOOLEAN
                 /\ until' = IF now + call.debounce < deadline
                             THEN now + call.debounce ELSE deadline
        BY <1>2, <2>2, <4>4
      <4> QED
        BY <4>1, <4>3, <4>4
    <3>3. queue' \in Seq(Nat) /\ \A i \in DOMAIN queue' : queue'[i] \in Numbers
      BY <1>1, <1>2 DEF InHand, WatchTypes
    <3>4. \A i \in DOMAIN events' : events'[i] \in Numbers
      BY <1>2, <2>4 DEF WatchTypes
    <3> QED
      BY <1>2, <1>3, <2>1, <2>2, <2>3, <3>1, <3>2, <3>3, <3>4 DEF WatchTypes
  <2>6. InOrder'
    <3>1. ASSUME NEW i \in DOMAIN events', NEW j \in DOMAIN events', i < j
          PROVE  events'[i] < events'[j]
      <4>1. i \in DOMAIN events
        BY <2>3, <3>1
      <4>2. CASE j \in DOMAIN events
        BY <1>2, <2>3, <3>1, <4>1, <4>2 DEF InOrder
      <4>3. CASE j = Len(events) + 1
        BY <1>1, <2>3, <4>1, <4>3 DEF InHand
      <4> QED
        BY <2>3, <4>2, <4>3
    <3>2. ASSUME NEW i \in DOMAIN queue'
          PROVE  /\ \A j \in DOMAIN events' : events'[j] < queue'[i]
                 /\ \A m \in unknown' : m < queue'[i]
      <4>1. queue'[i] \in Nat /\ n < queue'[i]
        BY <1>1 DEF InHand
      <4>2. \A j \in DOMAIN events : events[j] \in Nat /\ events[j] < n
        <5>1. \A j \in DOMAIN events : events[j] \in Nat
          BY <1>2 DEF WatchTypes
        <5>2. \A j \in DOMAIN events : events[j] < n
          BY <1>1 DEF InHand
        <5> QED
          BY <5>1, <5>2
      <4>3. \A m \in unknown : m \in Nat /\ m < n
        BY <1>1, <1>2 DEF InHand, WatchTypes, Numbers
      <4> QED
        BY <2>1, <2>2, <2>4, <4>1, <4>2, <4>3
    <3>3. \A i, j \in DOMAIN queue' : i < j => queue'[i] < queue'[j]
      BY <1>1 DEF InHand
    <3> QED
      BY <1>2, <1>3, <2>1, <3>1, <3>2, <3>3 DEF InOrder
  <2>7. Accounted'
    <3>1. ASSUME NEW m \in Numbers
          PROVE  \/ \E i \in DOMAIN events' : events'[i] = m
                 \/ \E i \in DOMAIN queue' : queue'[i] = m
                 \/ m \in late \cup unknown
                 \/ ~ admits(arrivals[m].peer)
      <4>1. CASE m = n
        BY <2>3, <4>1
      <4>2. CASE m # n
        <5>1. CASE \E i \in DOMAIN events : events[i] = m
          BY <2>3, <5>1
        <5>2. CASE \E i \in DOMAIN queue : queue[i] = m
          BY <1>1, <4>2, <5>2 DEF InHand
        <5>3. CASE phase = "lookup" /\ item = m
          BY <1>1, <4>2, <5>3 DEF InHand
        <5> QED
          BY <1>2, <5>1, <5>2, <5>3 DEF Accounted
      <4> QED
        BY <4>1, <4>2
    <3> QED
      BY <1>2, <1>3, <2>1, <3>1 DEF Accounted
  <2>8. Screened'
    <3>1. n \notin unknown
      BY <1>1, <1>2, <2>2 DEF InHand, WatchTypes, Numbers
    <3> QED
      BY <1>2, <1>3, <1>4, <2>1, <2>4, <3>1 DEF Screened
  <2>9. Waiting' /\ Ended'
    <3>1. CASE phase' = "done" /\ reason' = "limit" /\ Len(events') = call.limit
      <4>1. call.debounce = 0 => events = <<>>
        BY <1>2 DEF Waiting, Looking
      <4> QED
        BY <1>2, <2>1, <2>2, <2>3, <3>1, <4>1 DEF Waiting, Ended, Looking
    <3>2. CASE phase' = "done" /\ reason' = "timeout" /\ deadline <= now
      <4>1. call.debounce = 0 => events = <<>>
        BY <1>2 DEF Waiting, Looking
      <4> QED
        BY <1>2, <2>1, <2>2, <2>3, <3>2, <4>1 DEF Waiting, Ended, Looking
    <3>3. CASE phase' = "done" /\ reason' = "quiet" /\ now < deadline /\ call.debounce = 0
      <4>1. events = <<>>
        BY <1>2, <3>3 DEF Waiting, Looking
      <4> QED
        BY <1>2, <2>1, <2>2, <2>3, <3>3, <4>1 DEF Waiting, Ended, Looking
    <3>4. CASE /\ phase' = "wait" /\ UNCHANGED reason /\ Len(events') < call.limit
               /\ call.debounce > 0
               /\ bounded' \in BOOLEAN /\ (bounded' <=> now + call.debounce < deadline)
               /\ until' = IF now + call.debounce < deadline
                           THEN now + call.debounce ELSE deadline
      BY <1>2, <2>1, <2>2, <2>3, <3>4 DEF Waiting, Ended, Looking
    <3> QED
      BY <1>2, <1>4, <3>1, <3>2, <3>3, <3>4, Keeps DEF Looking
  <2>10. JustCame'
    BY <1>2, <2>1, <2>2 DEF JustCame
  <2> QED
    BY <2>5, <2>6, <2>7, <2>8, <2>9, <2>10 DEF WatchInv
<1>5. CASE /\ Drop(n)
           /\ \/ ~ admits(arrivals[n].peer) /\ UNCHANGED unknown
              \/ unknown' = unknown \cup {n}
  <2>1. /\ UNCHANGED <<events, kept, until, bounded>> /\ phase' \in {"wait", "done"}
        /\ n \in Nat /\ unknown \subseteq unknown' /\ unknown' \subseteq unknown \cup {n}
    BY <1>2, <1>5, Drops DEF Looking, Numbers
  <2>2. WatchTypes'
    <3>1. phase' \in Phases /\ phase' # "lookup" /\ unknown' \subseteq Numbers
      BY <1>2, <2>1 DEF Phases, WatchTypes
    <3>2. queue' \in Seq(Nat) /\ \A i \in DOMAIN queue' : queue'[i] \in Numbers
      BY <1>1, <1>2 DEF InHand, WatchTypes
    <3> QED
      BY <1>2, <1>3, <2>1, <3>1, <3>2 DEF WatchTypes
  <2>3. InOrder'
    <3>1. ASSUME NEW i \in DOMAIN queue'
          PROVE  /\ \A j \in DOMAIN events : events[j] < queue'[i]
                 /\ \A m \in unknown' : m < queue'[i]
      <4>1. queue'[i] \in Nat /\ n < queue'[i]
        BY <1>1 DEF InHand
      <4>2. \A j \in DOMAIN events : events[j] \in Nat /\ events[j] < n
        <5>1. \A j \in DOMAIN events : events[j] \in Nat
          BY <1>2 DEF WatchTypes
        <5>2. \A j \in DOMAIN events : events[j] < n
          BY <1>1 DEF InHand
        <5> QED
          BY <5>1, <5>2
      <4>3. \A m \in unknown : m \in Nat /\ m < n
        BY <1>1, <1>2 DEF InHand, WatchTypes, Numbers
      <4> QED
        BY <2>1, <4>1, <4>2, <4>3
    <3>2. \A i, j \in DOMAIN queue' : i < j => queue'[i] < queue'[j]
      BY <1>1 DEF InHand
    <3> QED
      BY <1>2, <1>3, <2>1, <3>1, <3>2 DEF InOrder
  <2>4. Accounted'
    <3>1. ASSUME NEW m \in Numbers
          PROVE  \/ \E i \in DOMAIN events : events[i] = m
                 \/ \E i \in DOMAIN queue' : queue'[i] = m
                 \/ m \in late \cup unknown'
                 \/ ~ admits(arrivals[m].peer)
      <4>1. CASE m = n
        BY <1>5, <4>1
      <4>2. CASE m # n
        <5>1. CASE \E i \in DOMAIN queue : queue[i] = m
          BY <1>1, <4>2, <5>1 DEF InHand
        <5>2. CASE phase = "lookup" /\ item = m
          BY <1>1, <4>2, <5>2 DEF InHand
        <5> QED
          BY <1>2, <2>1, <5>1, <5>2 DEF Accounted
      <4> QED
        BY <4>1, <4>2
    <3> QED
      BY <1>2, <1>3, <2>1, <3>1 DEF Accounted
  <2>5. Screened'
    <3>1. \A i \in DOMAIN events : events[i] # n
      BY <1>1, <1>2 DEF InHand, WatchTypes
    <3> QED
      BY <1>2, <1>3, <2>1, <3>1 DEF Screened
  <2>6. JustCame' /\ (phase = "lookup" => ~ Attached)
    <3>1. phase = "lookup" => ~ Attached
      BY <1>1, <1>2 DEF InHand, Waiting, Attached
    <3>2. \A i \in DOMAIN queue' : \E j \in DOMAIN queue : queue[j] = queue'[i]
      BY <1>1 DEF InHand
    <3> QED
      BY <1>2, <1>3, <2>1, <3>1, <3>2 DEF JustCame
  <2>7. Waiting'
    BY <1>2, <1>5, <2>1, Drops DEF Waiting, Looking
  <2>8. Ended'
    <3>1. call.debounce = 0 => events = <<>>
      BY <1>2 DEF Waiting, Looking
    <3>2. CASE phase' = "wait"
      BY <3>2 DEF Ended
    <3>3. CASE phase' = "done" /\ reason' = "timeout" /\ deadline <= now
      BY <1>2, <2>1, <3>1, <3>3 DEF Ended
    <3>4. CASE /\ phase' = "done" /\ reason' = "quiet"
               /\ events # <<>> /\ kept + call.debounce < deadline
               /\ kept + call.debounce <= now
      <4>1. ASSUME call.debounce > 0, Attached, NEW i \in DOMAIN queue'
            PROVE  arrivals[queue'[i]].at >= kept + call.debounce
        <5>1. phase = "wait" /\ kept < now /\ kept \in Nat /\ now \in Nat
          BY <1>2, <2>6, <3>4, <4>1 DEF WatchTypes
        <5>2. PICK j \in DOMAIN queue : queue[j] = queue'[i]
          BY <1>1 DEF InHand
        <5>3. arrivals[queue[j]].at >= now
          BY <1>2, <3>4, <4>1, <5>1 DEF JustCame
        <5>4. arrivals[queue[j]].at \in Nat
          BY <1>2, ArrivalTypes DEF WatchTypes
        <5> QED
          BY <1>2, <3>4, <5>1, <5>2, <5>3, <5>4
      <4> QED
        BY <1>2, <1>3, <2>1, <3>1, <3>4, <4>1 DEF Ended
    <3> QED
      BY <1>2, <1>5, <3>2, <3>3, <3>4, Drops DEF Looking
  <2> QED
    BY <2>2, <2>3, <2>4, <2>5, <2>6, <2>7, <2>8 DEF WatchInv
<1>6. CASE SentToLookup(n)
  <2>1. /\ phase' = "lookup" /\ item' = n /\ ~ arrivals[n].attached
        /\ UNCHANGED <<unknown, events, kept, until, bounded, reason>>
    BY <1>6 DEF SentToLookup
  <2>2. WatchTypes'
    <3>1. queue' \in Seq(Nat) /\ \A i \in DOMAIN queue' : queue'[i] \in Numbers
      BY <1>1, <1>2 DEF InHand, WatchTypes
    <3> QED
      BY <1>2, <1>3, <2>1, <3>1 DEF WatchTypes, Phases
  <2>3. InOrder'
    <3>1. ASSUME NEW i \in DOMAIN queue'
          PROVE  /\ \A j \in DOMAIN events : events[j] < queue'[i]
                 /\ \A m \in unknown : m < queue'[i]
                 /\ n < queue'[i]
      BY <1>1, <1>2 DEF InHand, InOrder
    <3> QED
      BY <1>1, <1>2, <1>3, <2>1, <3>1 DEF InHand, InOrder
  <2>4. Accounted'
    <3>1. ASSUME NEW m \in Numbers, m # n, \E i \in DOMAIN queue : queue[i] = m
          PROVE  \E i \in DOMAIN queue' : queue'[i] = m
      BY <1>1, <3>1 DEF InHand
    <3>2. ASSUME NEW m \in Numbers, phase = "lookup", item = m PROVE m = n
      BY <1>1, <3>2 DEF InHand
    <3> QED
      BY <1>2, <1>3, <2>1, <3>1, <3>2 DEF Accounted
  <2>5. Screened'
    BY <1>2, <1>3, <2>1 DEF Screened
  <2>6. Waiting' /\ JustCame' /\ Ended'
    BY <1>2, <2>1 DEF Waiting, JustCame, Ended, Looking
  <2> QED
    BY <2>2, <2>3, <2>4, <2>5, <2>6 DEF WatchInv
<1> QED
  BY <1>1, <1>4, <1>5, <1>6 DEF Dealt

-----------------------------------------------------------------------------
(* Watch: the other steps.                                                  *)

\* Nothing is dealt with, and none is being looked up.
LEMMA NothingInHand ==
  ASSUME WatchInv, phase # "lookup", phase' # "lookup", phase' \in Phases,
         UNCHANGED <<call, arrivals, queue, late, unknown, events, kept>>,
         now' \in Nat, now <= now', deadline' \in Nat, ends' \in Nat, until' \in Nat,
         bounded' \in BOOLEAN
  PROVE  WatchTypes' /\ InOrder' /\ Accounted' /\ Screened'
<1>1. /\ WatchTypes /\ InOrder /\ Accounted /\ Screened
      /\ Numbers' = Numbers /\ \A peer : admits(peer)' = admits(peer)
  BY DEF WatchInv, Numbers, admits
<1>2. WatchTypes'
  BY <1>1 DEF WatchTypes
<1>3. \A n \in Numbers : arrivals[n].at \in Nat /\ now \in Nat
  BY <1>1, ArrivalTypes DEF WatchTypes
<1>4. InOrder'
  BY <1>1, <1>3 DEF InOrder
<1>5. Accounted' /\ Screened'
  BY <1>1 DEF Accounted, Screened
<1> QED
  BY <1>2, <1>4, <1>5

\* The steps before the first wait.
LEMMA OpeningStep == ASSUME WatchInv, handle_watch \/ Subscribe PROVE WatchInv'
<1>1. WatchTypes /\ Waiting /\ call.timeout \in Nat
  BY CallTypes DEF WatchInv
<1>2. /\ phase \in {"idle", "opening"} /\ phase' \in {"opening", "setup", "refused"}
      /\ UNCHANGED <<call, arrivals, queue, late, unknown, events, kept, now, ends, until,
                     bounded, reason>>
      /\ deadline' \in {deadline, now + call.timeout}
  BY DEF handle_watch, Subscribe, parameters
<1>3. WatchTypes' /\ InOrder' /\ Accounted' /\ Screened'
  BY <1>1, <1>2, NothingInHand DEF WatchTypes, Phases
<1>4. Waiting' /\ JustCame' /\ Ended'
  BY <1>1, <1>2 DEF Waiting, JustCame, Ended, Looking
<1> QED
  BY <1>3, <1>4 DEF WatchInv

\* When the chats are resolved the wait begins.
LEMMA ResolvedStep == ASSUME WatchInv, Resolved PROVE WatchInv'
<1>1. /\ WatchTypes /\ Waiting /\ call.debounce \in Nat /\ call.limit \in Nat \ {0}
      /\ now \in Nat /\ deadline \in Nat
  BY CallTypes DEF WatchInv, WatchTypes
<1>2. /\ phase = "setup"
      /\ UNCHANGED <<call, deadline, now, arrivals, queue, late, item, unknown, events, kept>>
  BY DEF Resolved, parameters
<1>3. events = <<>> /\ Len(events) = 0
  BY <1>1, <1>2 DEF Waiting
<1>4. CASE phase' = "refused" /\ UNCHANGED <<ends, until, bounded, reason>>
  <2>1. WatchTypes' /\ InOrder' /\ Accounted' /\ Screened'
    BY <1>1, <1>2, <1>4, NothingInHand DEF WatchTypes, Phases
  <2> QED
    BY <1>1, <1>2, <1>3, <1>4, <2>1 DEF WatchInv, Waiting, JustCame, Ended, Looking
<1>5. CASE ends' = Max({now, deadline}) /\ NextWait(FALSE, ends')
  <2>1. ends' \in {now, deadline} /\ ends' >= now /\ ends' >= deadline
    <3>1. \E x \in {now, deadline} : \A y \in {now, deadline} : x >= y
      BY <1>1
    <3> QED
      BY <1>5, <3>1 DEF Max
  <2>2. \/ /\ phase' = "done" /\ reason' = "timeout" /\ ends' <= now
           /\ UNCHANGED <<until, bounded>>
        \/ /\ phase' = "wait" /\ UNCHANGED reason /\ now < ends'
           /\ bounded' \in BOOLEAN /\ ~ bounded' /\ until' = ends'
    <3>1. ends' \in Nat
      BY <1>1, <2>1
    <3> QED
      BY <1>1, <1>5, <3>1, Waits
  <2>3. WatchTypes' /\ InOrder' /\ Accounted' /\ Screened'
    BY <1>1, <1>2, <2>1, <2>2, NothingInHand DEF WatchTypes, Phases
  <2>4. CASE phase' = "done" /\ reason' = "timeout" /\ ends' <= now
    BY <1>1, <1>2, <1>3, <2>1, <2>3, <2>4 DEF WatchInv, Waiting, JustCame, Ended, Looking
  <2>5. CASE /\ phase' = "wait" /\ UNCHANGED reason /\ now < ends'
             /\ bounded' \in BOOLEAN /\ ~ bounded' /\ until' = ends'
    BY <1>1, <1>2, <1>3, <2>1, <2>3, <2>5 DEF WatchInv, Waiting, JustCame, Ended, Looking
  <2> QED
    BY <2>2, <2>4, <2>5
<1> QED
  BY <1>4, <1>5 DEF Resolved

\* Time passes only while the queue is empty or a message is being looked up.
LEMMA TickStep == ASSUME WatchInv, Tick PROVE WatchInv'
<1>1. WatchTypes /\ InOrder /\ Accounted /\ Screened /\ Waiting /\ Ended
  BY DEF WatchInv
<1>2. /\ now \in Nat /\ now' = now + 1 /\ kept \in Nat
      /\ phase # "done" /\ (phase = "wait" => queue = <<>>)
      /\ UNCHANGED <<call, phase, deadline, arrivals, queue, late, item, unknown, events, kept,
                     ends, until, bounded, reason>>
  BY <1>1 DEF Tick, WatchTypes
<1>3. WatchTypes' /\ Accounted' /\ Screened'
  <2>1. Numbers' = Numbers /\ \A peer : admits(peer)' = admits(peer)
    BY <1>2 DEF Numbers, admits
  <2>2. WatchTypes'
    BY <1>1, <1>2, <2>1 DEF WatchTypes
  <2> QED
    BY <1>1, <1>2, <2>1, <2>2 DEF Accounted, Screened
<1>4. InOrder'
  <2>1. \A n \in Numbers : arrivals[n].at \in Nat
    BY <1>1, ArrivalTypes
  <2> QED
    BY <1>1, <1>2, <2>1 DEF InOrder, Numbers
<1>5. Waiting' /\ JustCame' /\ Ended'
  BY <1>1, <1>2 DEF Waiting, JustCame, Ended, Looking
<1> QED
  BY <1>3, <1>4, <1>5 DEF WatchInv

\* A message that arrives goes to the end of the queue, or is too late.
LEMMA ArrivesStep ==
  ASSUME WatchInv, NEW peer \in Peers, NEW attached \in BOOLEAN, Arrives(peer, attached)
  PROVE  WatchInv'
<1> DEFINE n == Len(arrivals) + 1
           new == [peer |-> peer, attached |-> attached, at |-> now]
<1>1. WatchTypes /\ InOrder /\ Accounted /\ Screened /\ Waiting /\ JustCame
  BY DEF WatchInv
<1>2. /\ phase \in {"setup", "wait", "lookup"} /\ arrivals' = Append(arrivals, new)
      /\ UNCHANGED <<call, phase, deadline, now, item, unknown, events, kept, ends, until,
                     bounded, reason>>
  BY DEF Arrives, parameters
<1>3. /\ arrivals' \in Seq(Arrival) /\ Numbers' = Numbers \cup {n} /\ n \in Nat
      /\ n \notin Numbers /\ Numbers \subseteq Nat /\ \A m \in Numbers : m < n
      /\ \A m \in Numbers : arrivals'[m] = arrivals[m]
      /\ arrivals'[n] = new
  <2>1. arrivals \in Seq(Arrival) /\ new \in Arrival /\ Len(arrivals) \in Nat
    BY <1>1 DEF WatchTypes, Arrival
  <2> HIDE DEF new
  <2> QED
    BY <1>2, <2>1 DEF Numbers
<1>4. \/ /\ queue' = Append(queue, n) /\ queue' \in Seq(Nat)
         /\ DOMAIN queue = 1 .. Len(queue) /\ DOMAIN queue' = 1 .. Len(queue) + 1
         /\ \A i \in DOMAIN queue : queue'[i] = queue[i]
         /\ queue'[Len(queue) + 1] = n /\ Len(queue) \in Nat
         /\ late' = late
      \/ queue' = queue /\ late' = late \cup {n}
  <2>1. CASE queue' = Append(queue, n) /\ late' = late
    BY <1>1, <1>3, <2>1 DEF WatchTypes
  <2>2. CASE queue' = queue /\ late' = late \cup {n}
    BY <2>2
  <2> QED
    BY <2>1, <2>2 DEF Arrives, put_nowait
<1> HIDE DEF n
<1>5. \A i \in DOMAIN queue' :
        \/ i \in DOMAIN queue /\ queue'[i] = queue[i]
        \/ queue'[i] = n /\ \A j \in DOMAIN queue' : j <= i
  BY <1>4
<1>6. \A i \in DOMAIN queue : i \in DOMAIN queue' /\ queue'[i] = queue[i]
  BY <1>4
<1>7. \A p : admits(p)' = admits(p)
  BY <1>2 DEF admits
<1>8. WatchTypes'
  <2>1. queue' \in Seq(Nat) /\ \A i \in DOMAIN queue' : queue'[i] \in Numbers'
    BY <1>1, <1>3, <1>4, <1>5 DEF WatchTypes
  <2>2. \A i \in DOMAIN events : events[i] \in Numbers'
    BY <1>1, <1>3 DEF WatchTypes
  <2>3. /\ late' \subseteq Numbers' /\ unknown' \subseteq Numbers'
        /\ phase' = "lookup" => item' \in Numbers'
    BY <1>1, <1>2, <1>3, <1>4 DEF WatchTypes
  <2> QED
    BY <1>1, <1>2, <1>3, <2>1, <2>2, <2>3 DEF WatchTypes
<1>9. InOrder'
  <2>1. ASSUME NEW i \in DOMAIN queue', NEW j \in DOMAIN queue', i < j
        PROVE  queue'[i] < queue'[j]
    <3>1. i \in DOMAIN queue /\ queue'[i] = queue[i] /\ i \in Nat /\ j \in Nat
      <4>1. i \in Nat /\ j \in Nat
        <5>1. queue' \in Seq(Nat)
          BY <1>8 DEF WatchTypes
        <5> QED
          BY <2>1, <5>1
      <4> QED
        BY <1>5, <2>1, <4>1
    <3>2. queue[i] < n
      BY <1>1, <1>3, <3>1 DEF WatchTypes
    <3> QED
      BY <1>1, <1>5, <2>1, <3>1, <3>2 DEF InOrder
  <2>2. ASSUME NEW i \in DOMAIN queue'
        PROVE  /\ \A j \in DOMAIN events : events[j] < queue'[i]
               /\ \A m \in unknown : m < queue'[i]
               /\ phase = "lookup" => item < queue'[i]
    <3>1. CASE i \in DOMAIN queue /\ queue'[i] = queue[i]
      BY <1>1, <3>1 DEF InOrder
    <3>2. CASE queue'[i] = n
      BY <1>1, <1>3, <3>2 DEF WatchTypes
    <3> QED
      BY <1>5, <3>1, <3>2
  <2>3. ASSUME NEW m \in Numbers', NEW k \in Numbers', m < k
        PROVE  arrivals'[m].at <= arrivals'[k].at
    <3>1. m \in Numbers /\ arrivals'[m] = arrivals[m]
      <4>1. k \in Numbers \cup {n} /\ n \in Nat
        BY <1>3, <2>3
      <4>2. k \in Nat /\ k <= n
        BY <1>3, <4>1
      <4>3. m # n
        BY <2>3, <4>1, <4>2
      <4> QED
        BY <1>3, <2>3, <4>3
    <3>2. CASE k \in Numbers
      BY <1>1, <1>3, <2>3, <3>1, <3>2 DEF InOrder
    <3>3. CASE k = n
      BY <1>1, <1>3, <3>1, <3>3 DEF InOrder
    <3> QED
      BY <1>3, <3>2, <3>3
  <2>4. \A m \in Numbers' : arrivals'[m].at <= now
    <3>1. now \in Nat /\ new.at = now
      BY <1>1 DEF WatchTypes
    <3> QED
      BY <1>1, <1>3, <3>1 DEF InOrder
  <2> QED
    BY <1>1, <1>2, <2>1, <2>2, <2>3, <2>4 DEF InOrder
<1>10. Accounted'
  <2>1. (\E i \in DOMAIN queue' : queue'[i] = n) \/ n \in late'
    BY <1>4
  <2>2. ASSUME NEW m \in Numbers, \E i \in DOMAIN queue : queue[i] = m
        PROVE  \E i \in DOMAIN queue' : queue'[i] = m
    BY <1>6, <2>2
  <2>3. late \subseteq late'
    BY <1>4
  <2> QED
    BY <1>1, <1>2, <1>3, <1>7, <2>1, <2>2, <2>3 DEF Accounted
<1>11. Screened'
  <2>1. \A i \in DOMAIN events : arrivals'[events[i]] = arrivals[events[i]]
    BY <1>1, <1>3 DEF WatchTypes
  <2> QED
    BY <1>1, <1>2, <1>7, <2>1 DEF Screened
<1>12. Waiting' /\ JustCame' /\ Ended'
  <2>1. Waiting'
    <3>1. phase = "lookup" => arrivals'[item] = arrivals[item]
      BY <1>1, <1>3 DEF WatchTypes
    <3> QED
      BY <1>1, <1>2, <3>1 DEF Waiting, Looking
  <2>2. ASSUME Attached', phase = "wait", events # <<>>, kept < now, NEW i \in DOMAIN queue'
        PROVE  arrivals'[queue'[i]].at >= now
    <3>1. Attached
      BY <1>3, <2>2 DEF Attached
    <3>2. CASE i \in DOMAIN queue /\ queue'[i] = queue[i]
      <4>1. queue[i] \in Numbers /\ arrivals[queue[i]].at >= now
        BY <1>1, <2>2, <3>1, <3>2 DEF JustCame, WatchTypes
      <4> QED
        BY <1>3, <3>2, <4>1
    <3>3. CASE queue'[i] = n
      BY <1>1, <1>3, <3>3 DEF WatchTypes
    <3> QED
      BY <1>5, <3>2, <3>3
  <2>3. Ended'
    BY <1>2 DEF Ended
  <2> QED
    BY <1>2, <2>1, <2>2, <2>3 DEF JustCame
<1> QED
  BY <1>8, <1>9, <1>10, <1>11, <1>12 DEF WatchInv

\* A wait that ends for want of messages says so truly.
LEMMA WaitEndsStep == ASSUME WatchInv, WaitEnds PROVE WatchInv'
<1>1. /\ WatchTypes /\ InOrder /\ Waiting /\ call.debounce \in Nat
      /\ kept \in Nat /\ now \in Nat /\ until \in Nat
  BY CallTypes DEF WatchInv, WatchTypes
<1>2. /\ phase = "wait" /\ now >= until /\ phase' = "done"
      /\ queue # <<>> => arrivals[Head(queue)].at >= until
      /\ reason' = IF bounded THEN "quiet" ELSE "timeout"
      /\ UNCHANGED <<call, deadline, now, arrivals, queue, late, item, unknown, events, kept,
                     ends, until, bounded>>
  BY DEF WaitEnds, GivesUp, Finish, parameters
<1>3. WatchTypes' /\ InOrder' /\ Accounted' /\ Screened'
  BY <1>1, <1>2, NothingInHand DEF WatchTypes, Phases
<1>4. \A i \in DOMAIN queue : arrivals[queue[i]].at >= until
  <2>1. ASSUME NEW i \in DOMAIN queue PROVE arrivals[queue[i]].at >= until
    <3>1. /\ queue # <<>> /\ 1 \in DOMAIN queue /\ Head(queue) = queue[1]
          /\ i \in Nat /\ (i = 1 \/ 1 < i)
      BY <1>1 DEF WatchTypes
    <3>2. /\ queue[1] \in Numbers /\ queue[i] \in Numbers
          /\ arrivals[queue[1]].at \in Nat /\ arrivals[queue[i]].at \in Nat
      BY <1>1, <3>1, ArrivalTypes DEF WatchTypes
    <3>3. arrivals[queue[1]].at <= arrivals[queue[i]].at
      BY <1>1, <3>1, <3>2 DEF InOrder
    <3> QED
      BY <1>1, <1>2, <3>1, <3>2, <3>3
  <2> QED
    BY <2>1
<1>5. Waiting' /\ JustCame'
  BY <1>1, <1>2 DEF Waiting, JustCame, Looking
<1>6. Ended'
  <2>1. call.debounce = 0 => events = <<>>
    BY <1>1, <1>2 DEF Waiting, Looking
  <2>2. CASE bounded
    <3>1. /\ until = kept + call.debounce /\ events # <<>>
          /\ kept + call.debounce < deadline
      BY <1>1, <1>2, <2>2 DEF Waiting, Looking
    <3> QED
      BY <1>1, <1>2, <1>4, <2>1, <2>2, <3>1 DEF Ended
  <2>3. CASE ~ bounded
    <3>1. until = deadline
      BY <1>1, <1>2, <2>3 DEF Waiting, Looking
    <3> QED
      BY <1>1, <1>2, <2>1, <2>3, <3>1 DEF Ended
  <2> QED
    BY <2>2, <2>3
<1> QED
  BY <1>3, <1>5, <1>6 DEF WatchInv

-----------------------------------------------------------------------------
(* Watch: the theorem.                                                      *)

\* Nothing has arrived at first.
LEMMA WatchInitInv == ASSUME WatchInit PROVE WatchInv
<1>1. WatchTypes
  <2>1. \A S : <<>> \in Seq(S) /\ DOMAIN <<>> = {}
    OBVIOUS
  <2> QED
    BY <2>1 DEF WatchInit, WatchTypes, Phases
<1>2. InOrder /\ Accounted /\ Screened
  BY DEF WatchInit, InOrder, Accounted, Screened, Numbers
<1>3. Waiting /\ JustCame /\ Ended
  BY DEF WatchInit, Waiting, JustCame, Ended, Looking
<1> QED
  BY <1>1, <1>2, <1>3 DEF WatchInv

\* Every step of a watch keeps the invariant.
LEMMA WatchStepInv == ASSUME WatchInv, [WatchNext]_watchVars PROVE WatchInv'
<1>1. CASE handle_watch \/ Subscribe
  BY <1>1, OpeningStep
<1>2. CASE Resolved
  BY <1>2, ResolvedStep
<1>3. CASE Tick
  BY <1>3, TickStep
<1>4. CASE \E peer \in Peers, attached \in BOOLEAN : Arrives(peer, attached)
  BY <1>4, ArrivesStep
<1>5. CASE Take
  BY <1>5, TakesOne, HandStep
<1>6. CASE \E found \in BOOLEAN : LookedUp(found)
  BY <1>6, LooksOneUp, HandStep
<1>7. CASE WaitEnds
  BY <1>7, WaitEndsStep
<1>8. CASE UNCHANGED watchVars
  <2>1. /\ Numbers' = Numbers /\ (Attached' <=> Attached) /\ (Looking' <=> Looking)
        /\ \A peer : admits(peer)' = admits(peer)
    BY <1>8 DEF watchVars, Numbers, Attached, Looking, admits
  <2>2. WatchTypes' /\ InOrder' /\ Accounted' /\ Screened'
    BY <1>8, <2>1 DEF watchVars, WatchInv, WatchTypes, InOrder, Accounted, Screened
  <2>3. Waiting' /\ JustCame' /\ Ended'
    BY <1>8, <2>1 DEF watchVars, WatchInv, Waiting, JustCame, Ended
  <2> QED
    BY <2>2, <2>3 DEF WatchInv
<1> QED
  BY <1>1, <1>2, <1>3, <1>4, <1>5, <1>6, <1>7, <1>8 DEF WatchNext

\* What an ended or a running watch has in hand is the burst as it came, whole up to the
\* first overflow, and the reason it gives is the true one, for every queue size, limit,
\* debounce, timeout and clock (ops/watch.py).
THEOREM BurstIsWholeHolds == WatchSpec => []BurstIsWhole
<1>1. ASSUME WatchInv PROVE BurstIsWhole
  <2>1. /\ WatchTypes /\ InOrder /\ Accounted /\ Screened /\ Waiting /\ Ended
        /\ call.debounce \in Nat /\ call.limit \in Nat \ {0}
    BY <1>1, CallTypes DEF WatchInv
  <2>2. /\ DOMAIN arrivals = Numbers /\ Numbers \subseteq Nat
        /\ \A m : m \in ToSet(events) <=> \E i \in DOMAIN events : events[i] = m
    BY <2>1 DEF WatchTypes, Numbers, ToSet
  <2>3. \A n \in Numbers : n \in Wanted <=> admits(arrivals[n].peer) /\ n \notin unknown
    BY <2>1, <2>2, ArrivalTypes, AdmitsAsPromised DEF Wanted
  <2>4. Wanted \subseteq Numbers
    BY <2>2 DEF Wanted
  <2>5. \A n \in BeforeOverflow : n \in Nat /\ n \notin late
    <3>1. \A n \in BeforeOverflow : n \in Nat /\ (n \in late => n < n)
      BY <2>2 DEF BeforeOverflow
    <3> QED
      BY <3>1
  <2>6. ToSet(events) \subseteq Wanted
    <3>1. ASSUME NEW i \in DOMAIN events PROVE events[i] \in Wanted
      <4>1. events[i] \in Numbers
        BY <2>1 DEF WatchTypes
      <4> QED
        BY <2>1, <2>3, <4>1 DEF Screened
    <3> QED
      BY <2>2, <3>1
  <2>7. \A i, j \in DOMAIN events : i < j => events[i] < events[j]
    BY <2>1 DEF InOrder
  <2>8. \A n \in Wanted \cap BeforeOverflow :
          \/ n \in ToSet(events)
          \/ \E i \in DOMAIN queue : queue[i] = n
          \/ phase = "lookup" /\ item = n
    BY <2>1, <2>2, <2>3, <2>4, <2>5 DEF Accounted
  <2>9. ASSUME NEW n \in Wanted \cap BeforeOverflow, NEW i \in DOMAIN events, n < events[i]
        PROVE  n \in ToSet(events)
    <3>1. \A j \in DOMAIN queue : events[i] < queue[j] /\ queue[j] \in Nat
      BY <2>1, <2>2 DEF InOrder, WatchTypes
    <3>2. phase = "lookup" => events[i] < item /\ item \in Nat
      BY <2>1, <2>2 DEF InOrder, WatchTypes
    <3>3. n \in Nat /\ events[i] \in Nat
      BY <2>1, <2>2, <2>4 DEF WatchTypes
    <3> QED
      BY <2>8, <2>9, <3>1, <3>2, <3>3
  <2>10. phase = "wait" =>
           until = IF events = <<>> THEN ends ELSE Min({ends, kept + call.debounce})
    <3>1. kept \in Nat /\ ends \in Nat
      BY <2>1 DEF WatchTypes
    <3>2. /\ Min({ends, kept + call.debounce}) \in {ends, kept + call.debounce}
          /\ Min({ends, kept + call.debounce}) <= ends
          /\ Min({ends, kept + call.debounce}) <= kept + call.debounce
      <4>1. \E x \in {ends, kept + call.debounce} :
              \A y \in {ends, kept + call.debounce} : x <= y
        BY <2>1, <3>1
      <4> QED
        BY <4>1 DEF Min
    <3> QED
      BY <2>1, <3>1, <3>2 DEF Waiting, Looking
  <2>11. call.debounce = 0 => Len(events) <= 1
    <3>1. phase \in {"idle", "opening", "setup", "refused", "wait", "lookup", "done"}
      BY <2>1 DEF WatchTypes, Phases
    <3>2. events = <<>> => Len(events) <= 1
      OBVIOUS
    <3> QED
      BY <2>1, <3>1, <3>2 DEF Waiting, Looking, Ended
  <2>12. reason \in {"limit", "timeout", "quiet"} => phase = "done"
    BY <2>1, WatchAssumption DEF Waiting
  <2>13. ASSUME reason = "quiet", call.debounce > 0,
                \A n \in DOMAIN arrivals : arrivals[n].attached,
                NEW n \in Wanted \cap BeforeOverflow
         PROVE  n \in ToSet(events) \/ arrivals[n].at >= kept + call.debounce
    <3>1. phase = "done" /\ Attached
      BY <2>2, <2>12, <2>13 DEF Attached
    <3>2. \A i \in DOMAIN queue : arrivals[queue[i]].at >= kept + call.debounce
      BY <2>1, <2>13, <3>1 DEF Ended
    <3> QED
      BY <2>8, <3>1, <3>2
  <2> QED
    BY <2>1, <2>6, <2>7, <2>9, <2>10, <2>11, <2>12, <2>13 DEF Ended, BurstIsWhole
<1> QED
  BY <1>1, WatchInitInv, WatchStepInv, PTL DEF WatchSpec

=============================================================================
