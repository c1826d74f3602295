------------------------------- MODULE MCPolicy -------------------------------
(* What the configuration lets through.  A plan, from its request to its last  *)
(* step, in a world of a supergroup, a basic group, two people and Telegram's  *)
(* service account, with two usernames and three configurations; or one sweep  *)
(* over a short list of a few telling chats, for one account and for two.      *)
EXTENDS Review, Listings, SequencesExt, TLC

CONSTANT Parts
VARIABLE part

(* Plans. *)

MCIds    == {"club", "room", "ann", "bob", "service"}
MCKindOf == [club |-> "group", room |-> "group", ann |-> "user", bob |-> "user",
             service |-> "user"]
MCIsChannel == [id \in MCIds |-> id = "club"]
MCNames  == {"x", "y"}
MCNamesAtFirst == [x |-> "club", y |-> "ann"]

Rules(allow, deny) == [cap \in WriteCapabilities |-> [allow |-> allow, deny |-> deny]]

\* Everything is listed; a name and some ids are, another name is denied, one chat may not
\* be read and the outbox is closed; no plans at all.
WideOpen == [profile |-> "plan", profileEnabled |-> TRUE, outbox |-> TRUE,
             rules |-> Rules(MCIds \cup {"invite"}, {})]
Mixed    == [profile |-> "plan", profileEnabled |-> FALSE, outbox |-> FALSE,
             rules |-> ("READ_CHAT" :> [allow |-> {}, deny |-> {"club"}])
                         @@ Rules({"x", "club", "ann", "bob"}, {"y"})]
ReadOnly == [WideOpen EXCEPT !.profile = "readonly"]
MCConfigs == {WideOpen, Mixed, ReadOnly}

Planned(op) == [op |-> op, chat |-> "x", user |-> "y", source |-> "x", destination |-> "y",
            link |-> FALSE, wanted |-> "up", keep |-> FALSE, both |-> FALSE, online |-> FALSE,
            inside |-> "room", image |-> TRUE]

MCRequests ==
  {Planned(op) : op \in DOMAIN Planners}
    \cup {[Planned("reply") EXCEPT !.chat = "y", !.link = TRUE],
          [Planned("react") EXCEPT !.wanted = "party", !.keep = TRUE],
          [Planned("unreact") EXCEPT !.wanted = None],
          [Planned("pin") EXCEPT !.both = TRUE],
          [Planned("schedule") EXCEPT !.chat = "y", !.online = TRUE],
          [Planned("schedule") EXCEPT !.online = TRUE],
          [Planned("join") EXCEPT !.chat = "invite"],
          [Planned("unban") EXCEPT !.chat = "room"],
          [Planned("block") EXCEPT !.user = "x"],
          [Planned("set_about") EXCEPT !.chat = "y"],
          [Planned("set_photo") EXCEPT !.image = FALSE],
          [Planned("send") EXCEPT !.chat = "service"]}

(* Sweeps. *)

Ann     == [id |-> "ann", kind |-> "user", name |-> "a"]
Room    == [id |-> "room", kind |-> "group", name |-> None]
News    == [id |-> "news", kind |-> "channel", name |-> "n"]
Myself  == [id |-> "me", kind |-> "self", name |-> None]
Service == [id |-> "service", kind |-> "user", name |-> None]

NoRules == [cap \in {} |-> NoRule]
DmRule(allow) == [cap \in {"READ_DM"} |-> [allow |-> allow, deny |-> {}]]
Base == [profile |-> "readonly", rules |-> NoRules, enumerate |-> TRUE, enumerateDms |-> FALSE]

\* Groups only; one person readable; one chat denied; nothing to be listed.
Open   == [Base EXCEPT !.enumerateDms = TRUE]
WithDm == [Open EXCEPT !.rules = DmRule({"a"})]
Denied == [WithDm EXCEPT !.rules = [cap \in {"READ_CHAT", "READ_DM"} |->
             IF cap = "READ_CHAT" THEN [allow |-> {}, deny |-> {"room"}]
             ELSE [allow |-> {"ann"}, deny |-> {}]]]
Shut   == [Base EXCEPT !.enumerate = FALSE]
ListConfigs == {Base, Open, WithDm, Denied, Shut}

Item(peer, mentions, reactions, unread, time) ==
  [peer |-> peer, known |-> TRUE, mentions |-> mentions, reactions |-> reactions,
   unread |-> unread, mark |-> FALSE, muted |-> None, archived |-> FALSE,
   about |-> "contact", hit |-> unread > 0, at |-> time]

Items ==
  {Item(Ann, 1, 0, 1, 4), Item(Room, 0, 1, 2, 3), [Item(Room, 2, 0, 0, 5) EXCEPT !.muted = TRUE],
   Item(News, 0, 0, 1, 1), [Item(News, 1, 1, 0, 2) EXCEPT !.mark = TRUE, !.archived = TRUE],
   Item(Myself, 1, 0, 1, 6), [Item(Service, 0, 0, 1, 7) EXCEPT !.muted = FALSE],
   [Item([News EXCEPT !.id = "lost"], 1, 0, 1, 3) EXCEPT !.known = FALSE]}

\* A chat is listed once; a search returns several messages of one.
Lists(n)   == {s \in BoundedSeq(Items, n) : \A i, j \in DOMAIN s : i # j => s[i] # s[j]}
Dialogs(n) == {s \in Lists(n) : \A i, j \in DOMAIN s : i # j => s[i].peer # s[j].peer}

Folder(id, title) ==
  [id |-> id, title |-> title, include |-> {"me", "room"}, exclude |-> {"lost"},
   pinned |-> {}, kinds |-> {"channel", "contact"},
   muted |-> FALSE, read |-> FALSE, stored |-> FALSE]
Strict == [Folder("2", "work") EXCEPT !.include = {}, !.kinds = {"group", "channel"},
             !.muted = TRUE, !.read = TRUE, !.stored = TRUE]
Token(text) == [text |-> text, numeric |-> text \in {"1", "2"}, within |-> {"work", "home"}]

Account(items) ==
  [up |-> TRUE, items |-> items, silent |-> {"channel"},
   folders |-> {Folder("1", "home"), Strict}]

Simply == [private |-> FALSE, named |-> FALSE, muted |-> TRUE, mentionsOnly |-> FALSE,
          mentions |-> TRUE, reactions |-> TRUE, needle |-> FALSE, folder |-> None,
          chat |-> None, limit |-> 2, accounts |-> <<>>]

Ask(op, rules, fleet) == [op |-> op, config |-> rules, fleet |-> fleet] @@ Simply

\* One account with any list of chats or messages; two, of which one may be down or have
\* no such folder; one that is down.
Spare(items) == [Account(items) EXCEPT !.folders = {Strict}]
MCFleets ==
  [chats    |-> {<<Account(items)>> : items \in Dialogs(3)},
   messages |-> {<<Account(items)>> : items \in Lists(3)},
   two      |-> {<<[Account(items) EXCEPT !.up = up], Spare(others)>> :
                   items \in Dialogs(2), others \in Dialogs(2), up \in BOOLEAN},
   down     |-> {<<[Account(<<>>) EXCEPT !.up = FALSE]>>}]

\* A sweep and the folder it is asked within: the mentions have none.
Within(tokens) == ({"inbox", "chats"} \X (tokens \cup {None})) \cup {<<"mentions", None>>}

\* Every sweep; the searches; the switches of a listing; several accounts.
MCAsks ==
  {[Ask(op, rules, "chats") EXCEPT !.private = private, !.limit = limit] :
     op \in Handlers \ {"search", "archive.search"}, rules \in ListConfigs,
     private \in BOOLEAN, limit \in 1..2}
  \cup
  {[Ask(op, rules, "messages") EXCEPT !.limit = limit, !.chat = chat] :
     op \in {"search", "archive.search"}, rules \in ListConfigs,
     limit \in 1..2, chat \in {None, "n", "room", "me"}}
  \cup
  {[Ask(sweep[1], WithDm, "chats") EXCEPT
      !.private = TRUE, !.folder = sweep[2], !.muted = muted, !.needle = needle,
      !.mentionsOnly = needle, !.reactions = muted] :
     sweep \in Within({Token("1"), Token("work"), Token("o"), Token("7")}),
     muted \in BOOLEAN, needle \in BOOLEAN}
  \cup
  {[Ask(sweep[1], WithDm, "two") EXCEPT !.private = TRUE, !.limit = limit, !.folder = sweep[2]] :
     sweep \in {s \in Within({Token("1")}) : s[1] # "chats"}, limit \in 1..3}
  \cup
  {[Ask(op, WithDm, "down") EXCEPT !.named = TRUE] : op \in {"inbox", "mentions"}}

PolicyInit ==
  /\ part \in Parts
  /\ Init
  /\ part = "listings" =>
       /\ request = CHOOSE r \in Requests : TRUE
       /\ config = CHOOSE c \in Configs : TRUE
       /\ world = CHOOSE w \in Worlds(request.op) : TRUE
  /\ IF part = "listings" THEN ListingInit ELSE question = None /\ answer = None

PolicyNext ==
  \/ part = "review" /\ Next /\ UNCHANGED <<part, listingVars>>
  \/ part = "listings" /\ ListingNext /\ UNCHANGED <<part, vars>>

PolicySpec == PolicyInit /\ [][PolicyNext]_<<part, vars, listingVars>>
=============================================================================
