------------------------------- MODULE Archive -------------------------------
(***************************************************************************)
(* The local archive of one chat: archive.py (ArchiveStore) and the sync   *)
(* and forget operations of ops/archive.py.  A sync pages backwards twice, *)
(* for what is new and for what is old, and records afterwards what it has *)
(* covered; every statement it makes commits by itself.  A forget may run  *)
(* in another process at any moment; a second sync of the account may not, *)
(* for a sync holds the account's session.                                 *)
(*                                                                         *)
(* A message is its id; ids start at 1 and 0 stands for None.              *)
(***************************************************************************)
EXTENDS Integers, FiniteSets

CONSTANTS
  MaxId,   \* bound: how many messages are ever sent
  Page,    \* ARCHIVE_PAGE
  Limits,  \* the budgets a sync is asked for
  MaxTroubles, \* bound: failed and killed syncs, and forgets
  Faults

ASSUME ArchiveAssumption ==
  /\ MaxId \in Nat /\ MaxTroubles \in Nat
  /\ Page \in Nat \ {0}
  /\ Limits \subseteq Nat \ {0}
  /\ Faults \subseteq {"network", "crash"}

Ids == 1 .. MaxId

VARIABLES
  last,    \* the newest id Telegram has given out in the chat
  live,    \* the messages Telegram holds
  disk,    \* the archived messages
  archived, \* whether the chat has a row
  row,     \* its watermarks
  pc,      \* the next step of the sync
  mark,    \* the watermarks the sync is working out
  walk,    \* the walk it is on
  page,    \* the messages just fetched
  forget,  \* the next step of the forget
  troubles \* how often a sync failed, was killed or was overtaken by a forget

telegram == <<last, live>>
sync     == <<pc, mark, walk, page>>
vars     == <<telegram, disk, archived, row, sync, forget, troubles>>

\* oldest and newest bound what was covered; a hole lies between newest and from,
\* and top is the newest message above it.
Marks == [oldest : Nat, newest : Nat, complete : BOOLEAN, from : Nat, top : Nat]
Walks == [cursor : Nat, floor : Nat, low : Nat, high : Nat, budget : Nat]

NoMarks == [oldest |-> 0, newest |-> 0, complete |-> FALSE, from |-> 0, top |-> 0]
NoWalk  == [cursor |-> 0, floor |-> 0, low |-> 0, high |-> 0, budget |-> 0]

TypeOK ==
  /\ last \in 0 .. MaxId
  /\ live \subseteq 1 .. last
  /\ disk \subseteq 1 .. last
  /\ archived \in BOOLEAN
  /\ row \in Marks
  /\ pc \in {"idle", "fetch_new", "store_new", "fetch_old", "store_old", "save"}
  /\ mark \in Marks
  /\ walk \in Walks
  /\ page \subseteq 1 .. last
  /\ forget \in {"idle", "half", "torn"}
  /\ troubles \in 0 .. MaxTroubles

Init ==
  /\ last = 0
  /\ live = {}
  /\ disk = {}
  /\ archived = FALSE
  /\ row = NoMarks
  /\ pc = "idle"
  /\ mark = NoMarks
  /\ walk = NoWalk
  /\ page = {}
  /\ forget = "idle"
  /\ troubles = 0

Trouble == troubles < MaxTroubles /\ troubles' = troubles + 1

Lower(a, b)  == IF a = 0 \/ (b # 0 /\ b < a) THEN b ELSE a
Higher(a, b) == IF b > a THEN b ELSE a
Least(S)     == CHOOSE x \in S : \A y \in S : x <= y
Greatest(S)  == CHOOSE x \in S : \A y \in S : y <= x

-----------------------------------------------------------------------------
(* Telegram.                                                                *)

Send ==
  /\ last < MaxId
  /\ last' = last + 1
  /\ live' = live \cup {last + 1}
  /\ UNCHANGED <<disk, archived, row, sync, forget, troubles>>

Delete(m) ==
  /\ m \in live
  /\ live' = live \ {m}
  /\ UNCHANGED <<last, disk, archived, row, sync, forget, troubles>>

\* get_messages: both bounds are exclusive, and 0 is no upper bound.
Between(cursor, floor) == {m \in live : m > floor /\ (cursor = 0 \/ m < cursor)}

\* The newest messages between the bounds, as many as were asked for.
IsPage(P, cursor, floor, want) ==
  LET range == Between(cursor, floor)
  IN /\ P \subseteq range
     /\ \A m \in range \ P, n \in P : m < n
     /\ Cardinality(P) <= want
     /\ P # range => Cardinality(P) = want

-----------------------------------------------------------------------------
(* archive.sync                                                             *)

NewWalk(start, floor, budget) ==
  [cursor |-> start, floor |-> floor, low |-> 0, high |-> 0, budget |-> budget]

\* The walk for what is old, unless the budget is spent or the beginning reached.
ThenBackwards(m, budget) ==
  /\ mark' = m
  /\ IF budget > 0 /\ ~ m.complete
     THEN pc' = "fetch_old" /\ walk' = NewWalk(m.oldest, 0, budget)
     ELSE pc' = "save" /\ walk' = NoWalk

\* register_chat; what was on disk before is where the sync continues.
Begin(limit) ==
  /\ pc = "idle"
  /\ archived' = TRUE
  /\ row' = IF archived THEN row ELSE NoMarks
  /\ IF row'.newest # 0
     THEN /\ pc' = "fetch_new"
          /\ mark' = row'
          /\ walk' = NewWalk(row'.from, row'.newest, limit)
     ELSE ThenBackwards(row', limit)
  /\ UNCHANGED <<telegram, disk, page, forget, troubles>>

Want == IF walk.budget < Page THEN walk.budget ELSE Page

\* (Variation: the mark moves to the newest message seen, hole or not.)
AcrossTheHole(m, w, reached) ==
  [m EXCEPT !.newest = Higher(@, w.high), !.from = 0, !.top = 0]

\* (Variation: an interrupted walk starts again at the newest message.)
FromTheTop(m, w, reached) ==
  LET top == Higher(m.top, w.high)
  IN IF reached THEN [m EXCEPT !.newest = Higher(@, top), !.from = 0, !.top = 0]
     ELSE [m EXCEPT !.top = top]

\* The hole is closed, or both its ends are remembered and the mark stays put.
AfterNew(m, w, reached) ==
  LET top == Higher(m.top, w.high)
  IN IF reached
     THEN [m EXCEPT !.newest = Higher(@, top), !.from = 0, !.top = 0]
     ELSE [m EXCEPT !.top = top, !.from = IF w.low = 0 THEN @ ELSE w.low]

AfterOld(m, w, beginning) ==
  [m EXCEPT !.oldest = Lower(@, w.low), !.newest = Higher(@, w.high), !.complete = beginning]

EndWalk(w, reached) ==
  \/ pc \in {"fetch_new", "store_new"} /\ ThenBackwards(AfterNew(mark, w, reached), w.budget)
  \/ /\ pc \in {"fetch_old", "store_old"}
     /\ mark' = AfterOld(mark, w, reached)
     /\ walk' = NoWalk
     /\ pc' = "save"

Fetch ==
  /\ pc \in {"fetch_new", "fetch_old"}
  /\ \E P \in SUBSET live :
       /\ IsPage(P, walk.cursor, walk.floor, Want)
       /\ page' = P
       /\ IF P = {} THEN EndWalk(walk, TRUE)
          ELSE /\ pc' = IF pc = "fetch_new" THEN "store_new" ELSE "store_old"
               /\ UNCHANGED <<mark, walk>>
  /\ UNCHANGED <<telegram, disk, archived, row, forget, troubles>>

\* A flood wait or a lost connection ends the run: nothing more is recorded.
FetchFails ==
  /\ Trouble
  /\ "network" \in Faults
  /\ pc \in {"fetch_new", "fetch_old"}
  /\ pc' = "idle" /\ mark' = NoMarks /\ walk' = NoWalk
  /\ UNCHANGED <<telegram, disk, archived, row, page, forget>>

\* (Variation: every page is a full one.)
FullPage == Page

Spent == Cardinality(page)

AfterPage ==
  [walk EXCEPT !.low = Lower(@, Least(page)), !.high = Higher(@, Greatest(page)),
               !.budget = @ - Spent, !.cursor = Least(page)]

\* Fewer messages than were asked for, or no id left above the floor.
LastPage(w) == Cardinality(page) < Want \/ w.cursor <= w.floor + 1

\* (Variation: a message needs no chat.)
NoForeignKey == TRUE

\* FOREIGN KEY (account, chat_id) REFERENCES archived_chats.
ForeignKey == archived

Store ==
  /\ pc \in {"store_new", "store_old"}
  /\ page' = {}
  /\ IF ForeignKey
     THEN /\ disk' = disk \cup page
          /\ LET w == AfterPage
             IN IF LastPage(w) \/ w.budget = 0 THEN EndWalk(w, LastPage(w))
                ELSE /\ walk' = w
                     /\ pc' = IF pc = "store_new" THEN "fetch_new" ELSE "fetch_old"
                     /\ UNCHANGED mark
     ELSE pc' = "idle" /\ mark' = NoMarks /\ walk' = NoWalk /\ UNCHANGED disk
  /\ UNCHANGED <<telegram, archived, row, forget, troubles>>

\* set_watermarks updates the row there is.
Save ==
  /\ pc = "save"
  /\ row' = IF archived THEN mark ELSE row
  /\ pc' = "idle" /\ mark' = NoMarks
  /\ UNCHANGED <<telegram, disk, archived, walk, page, forget, troubles>>

\* A sync is killed; of the page it was storing some rows are committed.
Kill ==
  /\ Trouble
  /\ "crash" \in Faults
  /\ pc # "idle"
  /\ disk' \in IF archived THEN {disk \cup P : P \in SUBSET page} ELSE {disk}
  /\ pc' = "idle" /\ mark' = NoMarks /\ walk' = NoWalk /\ page' = {}
  /\ UNCHANGED <<telegram, archived, row, forget>>

-----------------------------------------------------------------------------
(* archive.forget: two statements.                                          *)

ForgetMessages ==
  /\ Trouble
  /\ forget \in {"idle", "torn"}
  /\ disk' = {}
  /\ forget' = "half"
  /\ UNCHANGED <<telegram, archived, row, sync>>

\* ON DELETE CASCADE takes what was stored since.
ForgetChat ==
  /\ forget = "half"
  /\ archived' = FALSE
  /\ row' = NoMarks
  /\ disk' = IF archived THEN {} ELSE disk
  /\ forget' = "idle"
  /\ UNCHANGED <<telegram, sync, troubles>>

\* A forget killed in between leaves the watermarks without the messages.
ForgetKilled ==
  /\ Trouble
  /\ "crash" \in Faults
  /\ forget = "half"
  /\ forget' = "torn"
  /\ UNCHANGED <<telegram, disk, archived, row, sync>>

-----------------------------------------------------------------------------
Next ==
  \/ Send
  \/ \E m \in Ids : Delete(m)
  \/ \E limit \in Limits : Begin(limit)
  \/ Fetch \/ FetchFails \/ Store \/ Save \/ Kill
  \/ ForgetMessages \/ ForgetChat \/ ForgetKilled

Spec == Init /\ [][Next]_vars

\* The command is run again and again, and what was begun goes on.
Fairness ==
  /\ WF_vars(\E limit \in Limits : Begin(limit))
  /\ WF_vars(Fetch) /\ WF_vars(Store) /\ WF_vars(Save)
  /\ WF_vars(ForgetChat)

FairSpec == Spec /\ Fairness

-----------------------------------------------------------------------------
(* Properties.                                                              *)

\* The ids the watermarks vouch for.
Covered(m, id) ==
  \/ m.newest # 0 /\ (m.complete \/ m.oldest <= id) /\ id <= m.newest
  \/ m.from # 0 /\ m.from <= id /\ id <= m.top

\* The archive claims no range it has a hole in: every message Telegram still holds
\* inside the range the row vouches for is on disk, through interrupted runs, messages
\* that arrive or disappear meanwhile, and forgets, except one that is halfway or was
\* killed there (ops/archive.py handle_archive_sync).
NoHole ==
  archived /\ forget = "idle" => \A m \in live : Covered(row, m) => m \in disk

\* Nothing of a chat that was forgotten stays on disk, though a sync was running
\* (archive.py: forget, the foreign key and its cascade).
NoOrphans == disk # {} => archived

\* A chat that is synced again and again comes to be archived whole, whatever failed
\* before; unless a forget was killed halfway, or it was empty when it was first synced
\* (handle_archive_sync: newest stays None and complete is set: nothing is fetched again).
CatchesUp ==
  <>[](live \subseteq disk \/ (row.complete /\ row.newest = 0) \/ forget = "torn")
=============================================================================
