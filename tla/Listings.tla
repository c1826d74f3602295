------------------------------- MODULE Listings -------------------------------
(***************************************************************************)
(* The reads that sweep (ops/inbox.py, mentions.py, chats.py, pending.py,  *)
(* search.py, archive.py, folders.py): a walk over what Telegram or the    *)
(* archive holds, each item listed, hidden, withheld or passed over, the   *)
(* rest ranked and cut.  One answer to one question.                       *)
(*                                                                         *)
(* An item is a dialog, draft or message:                                  *)
(*   [peer, known, mentions, reactions, unread, mark, muted, archived,     *)
(*    about, hit, at]                                                      *)
(* known says its chat came with it, muted is its own setting or None, hit *)
(* that it matches the words asked for; a larger `at` is later.  It is     *)
(* known by its place <<a, i>>, the i-th item of the a-th account asked.   *)
(* What a sweep collects is a set of places; sorting and cutting it leaves *)
(* those with few enough of the others ahead of them.                      *)
(***************************************************************************)
EXTENDS Safety, Integers, FiniteSets, Sequences

CONSTANTS
  ScanLimit,    \* MAX_DIALOG_SCAN, ARCHIVE_MAX_SCAN
  Overscan,     \* a global search reads limit * 4 results
  Asks,         \* what is asked: [op, config, fleet, named, private, limit, ...]
  Fleets        \* [fleet -> lists of accounts]: [up, items, silent, folders]

VARIABLES question, answer

listingVars == <<question, answer>>

Handlers ==
  {"inbox", "mentions", "chats", "drafts", "search", "archive.search", "archive.status",
   "folders"}

\* Answered from the archive on disk, whether or not the account can be opened.
Offline == {"archive.search", "archive.status"}

Counters(item) == {item.mentions, item.reactions, item.unread, item.at}

\* An item's chat has an id and a kind; the service account is closed by its id.
IsItem(item) ==
  /\ item.peer.kind \in Kinds /\ item.peer.id # None
  /\ item.peer.kind = "service" => item.peer.id \in HardDenied
  /\ Counters(item) \subseteq Int

IsList(s) == Len(s) \in Nat /\ DOMAIN s = 1..Len(s)

\* Only an inbox and the mentions ask more than one account, only an inbox and a list of
\* chats can be asked within a folder.
ASSUME ListingAssumption ==
  /\ ScanLimit \in Nat /\ Overscan \in Nat
  /\ \A ask \in Asks :
       /\ {"op", "fleet", "named", "limit", "accounts", "folder"} \subseteq DOMAIN ask
       /\ ask.op \in Handlers /\ ask.limit \in Nat
       /\ ask.op \notin {"inbox", "chats"} => ask.folder = None
       /\ \A fleet \in Fleets[ask.fleet] :
            /\ IsList(fleet)
            /\ Len(fleet) = 1 \/ (ask.op \in {"inbox", "mentions"} /\ ~ ask.named)
            /\ \A a \in DOMAIN fleet :
                 /\ IsList(fleet[a].items)
                 /\ \A i \in DOMAIN fleet[a].items : IsItem(fleet[a].items[i])

-----------------------------------------------------------------------------
(* Ranking, cutting, answering.                                             *)

ItemAt(q, p) == q.accounts[p[1]].items[p[2]]

Earlier(a, b) == a[1] < b[1] \/ (a[1] = b[1] /\ a[2] < b[2])

\* Of two lists of numbers the first that differs decides; more comes first.
More(a, b) ==
  \E k \in DOMAIN a : a[k] > b[k] /\ \A j \in 1..(k - 1) : a[j] = b[j]

\* Python's sort is stable.
Ahead(rank, a, b) == More(rank[a], rank[b]) \/ (rank[a] = rank[b] /\ Earlier(a, b))

\* What is walked until n of the hits are found.
UpTo(places, hits, n, rank) ==
  {p \in places : Cardinality({h \in hits : Ahead(rank, h, p)}) < n}

\* sort, then [:n].
First(places, n, rank) == UpTo(places, places, n, rank)

AsListed(places) == [p \in places |-> <<0>>]

Refusal == [refused |-> TRUE]

Reply(rows, total, hidden, withheld, failed, truncated) ==
  [refused |-> FALSE, rows |-> rows, total |-> total, hidden |-> hidden,
   withheld |-> withheld, failed |-> failed, truncated |-> truncated]

\* The kernel's answer for the contents of a chat.
Opens(q, p) == Allowed(q.config, "READ_CHAT", ItemAt(q, p).peer)

Rows(q, places) == {[place |-> p, text |-> Opens(q, p)] : p \in places}
Titles(places) == {[place |-> p, text |-> FALSE] : p \in places}

\* require_enumeration.
Enumerable(q, private) == MayEnumerate(q.config, private)

Hides(q, p) == IsPrivate(ItemAt(q, p).peer) /\ ~ q.private

-----------------------------------------------------------------------------
(* Chat folders.                                                            *)

\* resolve_folder: an id, else the whole title, else (not for a number) a part of it.
resolve_folder(views, token) ==
  LET byId   == {v \in views : v.id = token.text}
      exact  == {v \in views : v.title = token.text}
      within == {v \in views : v.title \in token.within}
      found  == IF byId # {} THEN byId
                ELSE IF exact # {} \/ token.numeric THEN exact ELSE within
  IN IF Cardinality(found) = 1 THEN CHOOSE v \in found : TRUE ELSE None

dialog_is_muted(item, defaults) ==
  IF item.muted # None THEN item.muted
  ELSE (IF IsPrivate(item.peer) THEN "user" ELSE item.peer.kind) \in defaults

_kind_admitted(folder, item) ==
  CASE item.peer.kind \in {"group", "channel"} -> item.peer.kind \in folder.kinds
    [] item.peer.kind = "user" -> item.about \in folder.kinds
    [] OTHER -> FALSE

IsWaiting(item) == item.unread > 0 \/ item.mentions > 0 \/ item.mark

\* FolderView.contains: the order is the rule.
contains(folder, item, defaults) ==
  /\ item.peer.id \notin folder.exclude
  /\ \/ item.peer.id \in folder.include \cup folder.pinned
     \/ /\ _kind_admitted(folder, item)
        /\ folder.muted  => ~ dialog_is_muted(item, defaults) \/ item.mentions > 0
        /\ folder.read   => IsWaiting(item)
        /\ folder.stored => ~ item.archived

FolderOf(q, account) ==
  IF q.folder = None THEN None ELSE resolve_folder(account.folders, q.folder)

\* A folder that is not found is an error like any other.
Fails(q, account) ==
  q.op \notin Offline /\ (~ account.up \/ (q.folder # None /\ FolderOf(q, account) = None))

InFolder(q, account, item, defaults) ==
  q.folder # None => contains(FolderOf(q, account), item, defaults)

-----------------------------------------------------------------------------
(* The walk.                                                                *)

\* visible_labels, or the one account that was named.
Answering(q) == {a \in DOMAIN q.accounts : ~ Fails(q, q.accounts[a])}
NamedFails(q) == q.named /\ Fails(q, Head(q.accounts))

\* The first n items of every account that answers, or all.
Walk(q, n) ==
  UNION {{a} \X {i \in DOMAIN q.accounts[a].items : i <= n} : a \in Answering(q)}
Everything(q) == UNION {{a} \X DOMAIN q.accounts[a].items : a \in Answering(q)}

Listed(q, walk)  == {p \in walk : ItemAt(q, p).known /\ ~ HardDeny(ItemAt(q, p).peer)}
Shown(q, listed) == {p \in listed : ~ Hides(q, p)}

Failed(q) == Cardinality(DOMAIN q.accounts \ Answering(q))

-----------------------------------------------------------------------------
(* telegram_inbox.                                                          *)

_waiting(q, item) ==
  IF q.mentionsOnly THEN item.mentions > 0
  ELSE item.unread > 0 \/ item.mentions > 0 \/ item.reactions > 0

\* Most mentions, then reactions, then unread, the longest waiting first.
_rank(item) == <<item.mentions, item.reactions, item.unread, -item.at>>

\* Asked for only when somebody asks about muted chats; otherwise all are audible.
load_notify_defaults(q, account) ==
  IF (q.op = "inbox" /\ ~ q.muted) \/ (q.folder # None /\ FolderOf(q, account).muted)
  THEN account.silent ELSE {}

\* What the walk keeps of the chats it may show.
Waits(q, p) ==
  LET account  == q.accounts[p[1]]
      item     == account.items[p[2]]
      defaults == load_notify_defaults(q, account)
  IN /\ q.muted \/ ~ dialog_is_muted(item, defaults)
     /\ InFolder(q, account, item, defaults)
     /\ _waiting(q, item)

handle_inbox(q) ==
  LET listed == Listed(q, Walk(q, ScanLimit))
      shown  == Shown(q, listed)
      all    == {p \in shown : Waits(q, p)}
      rows   == First(all, q.limit, [p \in all |-> _rank(ItemAt(q, p))])
  IN IF ~ Enumerable(q, q.private) \/ NamedFails(q) THEN Refusal
     ELSE Reply(Rows(q, rows), Cardinality(all), Cardinality(listed \ shown),
                Cardinality({p \in all : ~ Opens(q, p)}), Failed(q),
                Cardinality(rows) < Cardinality(all))

-----------------------------------------------------------------------------
(* telegram_mentions.                                                       *)

\* The counts the caller left out count as none.
Asked(q, item) ==
  <<IF q.mentions THEN item.mentions ELSE 0, IF q.reactions THEN item.reactions ELSE 0>>

_candidates_of(q, shown) == {p \in shown : Asked(q, ItemAt(q, p)) # <<0, 0>>}

Ranking(q, places) == [p \in places |-> Asked(q, ItemAt(q, p))]

OfAccount(a, places) == {p \in places : p[1] = a}

\* (Variation: the account is cut before its chats are ranked.)
CutThenRank(q, found) ==
  {p \in found : LET own == OfAccount(p[1], found) IN p \in First(own, q.limit, AsListed(own))}

\* Of each account only the chats that can be shown are opened.
Opened(q, found) ==
  {p \in found : LET own == OfAccount(p[1], found)
                 IN p \in First(own, q.limit, Ranking(q, own))}

handle_mentions(q) ==
  LET listed == Listed(q, Walk(q, ScanLimit))
      shown  == Shown(q, listed)
      wanted == _candidates_of(q, shown)
      found  == {p \in wanted : Opens(q, p)}
      opened == Opened(q, found)
      rows   == First(opened, q.limit, Ranking(q, opened))
  IN IF ~ Enumerable(q, q.private) \/ NamedFails(q) THEN Refusal
     ELSE Reply(Rows(q, rows), Cardinality(found), Cardinality(listed \ shown),
                Cardinality(wanted \ found), Failed(q),
                \/ Cardinality(rows) < Cardinality(found)
                \/ \E a \in Answering(q) : Len(q.accounts[a].items) >= ScanLimit)

-----------------------------------------------------------------------------
(* telegram_chats: matches are counted past the limit.  The walk stops at a *)
(* match at or beyond the cap.                                              *)

ListedChat(q, p) ==
  LET account == q.accounts[p[1]]
      item    == account.items[p[2]]
  IN InFolder(q, account, item, load_notify_defaults(q, account)) /\ (q.needle => item.hit)

handle_chats(q) ==
  LET match(walk) == {p \in Shown(q, Listed(q, walk)) : ListedChat(q, p)}
      walked == {p \in Everything(q) :
                   \A m \in match(Everything(q)) : m[2] >= ScanLimit => p[2] <= m[2]}
      found  == match(walked)
      rows   == First(found, q.limit, AsListed(found))
  IN IF ~ Enumerable(q, q.private) \/ Fails(q, Head(q.accounts)) THEN Refusal
     ELSE Reply(Titles(rows), Cardinality(found),
                Cardinality(Listed(q, walked) \ Shown(q, Listed(q, walked))), 0, 0,
                Cardinality(found) > Cardinality(rows) \/ Cardinality(walked) >= ScanLimit)

-----------------------------------------------------------------------------
(* telegram_drafts.                                                         *)

draft_visibility(q, peer) ==
  CASE HardDeny(peer) -> "closed"
    [] ~ HardDeny(peer) /\ IsPrivate(peer) /\ ~ q.private -> "private"
    [] OTHER -> IF Allowed(q.config, "READ_CHAT", peer) THEN "show" ELSE "withheld"

handle_drafts(q) ==
  LET Seen(v) == {p \in Everything(q) :
                    ItemAt(q, p).known /\ draft_visibility(q, ItemAt(q, p).peer) = v}
      \* An empty draft is not one.
      written == {p \in Seen("show") : ItemAt(q, p).hit}
      rows    == First(written, q.limit, [p \in written |-> <<ItemAt(q, p).at>>])
  IN IF ~ Enumerable(q, q.private) \/ Fails(q, Head(q.accounts)) THEN Refusal
     ELSE Reply(Rows(q, rows), Cardinality(written), Cardinality(Seen("private")),
                Cardinality(Seen("withheld")), 0, Cardinality(rows) < Cardinality(written))

-----------------------------------------------------------------------------
(* telegram_search without a chat: Telegram sends its matches newest first. *)

\* A result whose chat did not come with it cannot be judged.
Reportable(q, p) == ItemAt(q, p).known /\ Opens(q, p)

_search_everywhere(q) ==
  LET walk    == Walk(q, Overscan * q.limit)
      hits    == {p \in walk : Reportable(q, p)}
      scanned == UpTo(walk, hits, q.limit, AsListed(walk))
      rows    == hits \cap scanned
  IN IF ~ Enumerable(q, FALSE) \/ Fails(q, Head(q.accounts)) THEN Refusal
     ELSE Reply(Rows(q, rows), Cardinality(rows), 0, Cardinality(scanned \ rows), 0,
                Cardinality(rows) >= q.limit)

-----------------------------------------------------------------------------
(* telegram_archive_search and _status: judged by today's policy.           *)

\* ArchivedChat.peer: the name a chat had when it was stored is not judged by.
StoredPeer(peer) == [id |-> peer.id, kind |-> peer.kind, name |-> None]

\* A kind this build does not know is not judged at all.
readable(q, p) ==
  ItemAt(q, p).known /\ Allowed(q.config, "READ_CHAT", StoredPeer(ItemAt(q, p).peer))

_visible(q) == {p \in Everything(q) : readable(q, p)}

Stored(places) == {[place |-> p, text |-> TRUE] : p \in places}

\* An id taken literally, or a stored username: of those that had it, one.
_archived_chat_id(q) ==
  LET named == {p \in Everything(q) : q.chat \in {ItemAt(q, p).peer.id, ItemAt(q, p).peer.name}}
      chat  == ItemAt(q, CHOOSE p \in named : TRUE).peer
  IN {p \in named : ItemAt(q, p).peer = chat}

Newest(q, places) == [p \in places |-> <<ItemAt(q, p).at>>]

\* Newest first, at most so many; then the words are looked for.
candidates(q, places) == First(places, ScanLimit, Newest(q, places))

SearchArchive(q, places, withheld) ==
  LET walk    == candidates(q, places)
      hits    == {p \in walk : ItemAt(q, p).hit}
      scanned == UpTo(walk, hits, q.limit, Newest(q, walk))
      rows    == hits \cap scanned
  IN Reply(Stored(rows), Cardinality(rows), 0, withheld, 0,
           Cardinality(rows) >= q.limit \/ Cardinality(scanned) >= ScanLimit)

handle_archive_search(q) ==
  LET named  == _archived_chat_id(q)
      closed == Everything(q) \ _visible(q)
  IN IF q.chat # None
     THEN IF named = {} THEN Reply({}, 0, 0, 0, 0, FALSE)
          ELSE IF ~ named \subseteq _visible(q) THEN Refusal
          ELSE SearchArchive(q, named, 0)
     ELSE IF ~ Enumerable(q, FALSE) THEN Refusal
     ELSE SearchArchive(q, _visible(q), Cardinality({ItemAt(q, p).peer : p \in closed}))

\* One row for each chat that may still be read.
handle_archive_status(q) ==
  IF ~ Enumerable(q, FALSE) THEN Refusal
  ELSE Reply(Stored(_visible(q)), Cardinality(_visible(q)), 0,
             Cardinality(Everything(q) \ _visible(q)), 0, FALSE)

-----------------------------------------------------------------------------
(* telegram_folders: the chats a folder names, of which only ids are known. *)

\* self_id_of: asked for only when somebody private may be shown.
needs_self_id(q) ==
  q.private /\ \E p \in Everything(q) : ItemAt(q, p).known /\ IsPrivate(ItemAt(q, p).peer)

\* A person's id is positive; of the rest nothing is known.
KindById(peer, self) ==
  IF self /\ peer.kind = "self" THEN "self"
  ELSE IF IsPrivate(peer) THEN "user" ELSE "group"

_peer_visible(q, peer, self) ==
  /\ ~ HardDeny([id |-> peer.id, kind |-> KindById(peer, self), name |-> None])
  /\ q.private \/ ~ IsPrivate(peer)

handle_folders(q) ==
  LET visible == {p \in Everything(q) :
                    /\ ItemAt(q, p).known
                    /\ _peer_visible(q, ItemAt(q, p).peer, needs_self_id(q))}
  IN IF ~ Enumerable(q, q.private) \/ Fails(q, Head(q.accounts)) THEN Refusal
     ELSE Reply(Titles(visible), Cardinality(visible), Cardinality(Everything(q) \ visible),
                0, 0, FALSE)

-----------------------------------------------------------------------------
Answer(q) ==
  CASE q.op = "inbox"          -> handle_inbox(q)
    [] q.op = "mentions"       -> handle_mentions(q)
    [] q.op = "chats"          -> handle_chats(q)
    [] q.op = "drafts"         -> handle_drafts(q)
    [] q.op = "search"         -> _search_everywhere(q)
    [] q.op = "archive.search" -> handle_archive_search(q)
    [] q.op = "archive.status" -> handle_archive_status(q)
    [] q.op = "folders"        -> handle_folders(q)

ListingInit ==
  /\ \E ask \in Asks : question = [ask EXCEPT !.accounts = <<>>]
  /\ answer = None

\* Whatever the accounts asked hold.
Replies ==
  /\ answer = None
  /\ \E fleet \in Fleets[question.fleet] : question' = [question EXCEPT !.accounts = fleet]
  /\ answer' = Answer(question')

ListingNext == Replies
ListingSpec == ListingInit /\ [][ListingNext]_listingVars

-----------------------------------------------------------------------------
(* Properties, against what the question asks for and the policy promises.  *)

\* What the question asks for, wherever it lies.
Relevant(q, p) ==
  LET account == q.accounts[p[1]]
      item    == account.items[p[2]]
  IN CASE q.op = "inbox" ->
            /\ item.known /\ _waiting(q, item)
            /\ q.muted \/ ~ dialog_is_muted(item, account.silent)
            /\ InFolder(q, account, item, account.silent)
       [] q.op = "mentions" -> item.known /\ Asked(q, item) # <<0, 0>>
       [] q.op = "chats"    -> /\ item.known /\ (q.needle => item.hit)
                               /\ InFolder(q, account, item, account.silent)
       [] q.op = "drafts"   -> item.known /\ item.hit
       [] q.op = "archive.search" ->
            item.hit /\ (q.chat # None => p \in _archived_chat_id(q))
       [] OTHER -> TRUE

\* Whose contents may be shown: a copy on disk is judged by the chat's id alone.
MayRead(q, peer) ==
  LET name == IF q.op \in Offline THEN None ELSE peer.name
  IN Promised(q.config, "READ_CHAT", [id |-> peer.id, kind |-> peer.kind, name |-> name])

Closed(item) == item.peer.id \in HardDenied \/ item.peer.kind \in {"self", "service"}

\* What an answer may tell of: a list of chats names those that are not closed and not
\* private, unless asked for and allowed; contents come from chats that may be read.
Tellable(q, p) ==
  LET item == ItemAt(q, p)
  IN /\ item.known /\ ~ Closed(item)
     /\ q.op \in {"inbox", "mentions", "chats", "drafts", "folders"} /\ item.peer.kind = "user"
          => q.private /\ q.config.enumerateDms
     /\ q.op \notin {"inbox", "chats", "folders"} => MayRead(q, item.peer)

\* What one request sees: an inbox and a global search look only so far.
Looked(q) ==
  CASE q.op = "inbox"  -> Walk(q, ScanLimit)
    [] q.op = "search" -> Walk(q, Overscan * q.limit)
    [] OTHER -> Everything(q)

Told(p) == \E row \in answer.rows : row.place = p

\* Asked for and not told; of this what was cut, though it may be told, and the chats of
\* what may not be told, but for those whose very existence is not.
Missing    == {p \in Looked(question) : Relevant(question, p) /\ ~ Told(p)}
WasCut     == {p \in Missing : Tellable(question, p)}
Unreported ==
  {<<p[1], ItemAt(question, p).peer>> :
     p \in {m \in Missing \ WasCut : ItemAt(question, m).known => ~ Closed(ItemAt(question, m))}}

Outranks(q, m, p) ==
  LET a == ItemAt(q, m)
      b == ItemAt(q, p)
  IN CASE q.op = "inbox"    -> More(_rank(a), _rank(b))
       [] q.op = "mentions" -> More(Asked(q, a), Asked(q, b))
       [] q.op \in {"drafts", "archive.search"} -> a.at > b.at
       [] OTHER -> FALSE

\* Whatever is swept, an answer tells of nothing that was not asked for, of no chat it may
\* not, and shows no contents the policy does not open; what it says nothing of was cut
\* (and it says so) or is one of those it counts as hidden or withheld; and nothing that
\* was cut should have come before what is shown, though each account is ranked and cut by
\* itself (ops/inbox.py, mentions.py, chats.py, pending.py, search.py, archive.py,
\* folders.py).
ToldOrCounted ==
  answer # None /\ ~ answer.refused =>
    /\ \A row \in answer.rows :
         /\ row.place \in Looked(question) /\ Relevant(question, row.place)
         /\ Tellable(question, row.place)
         /\ row.text => MayRead(question, ItemAt(question, row.place).peer)
    /\ WasCut # {} => answer.truncated
    /\ ~ answer.truncated => Cardinality(Unreported) <= answer.hidden + answer.withheld
    /\ \A m \in WasCut, row \in answer.rows :
         Len(question.accounts[m[1]].items) < ScanLimit => ~ Outranks(question, m, row.place)

\* docs/operations.md: "Anything truncated says so in `meta.truncated`."  An inbox whose
\* walk stopped at MAX_DIALOG_SCAN does not (ops/inbox.py _sweep_account).
InboxSaysWhenItIsCut ==
  answer # None /\ ~ answer.refused /\ question.op = "inbox" /\ ~ answer.truncated =>
    \A p \in Everything(question) :
      Relevant(question, p) /\ Tellable(question, p) => Told(p)

=============================================================================
