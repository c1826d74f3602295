-------------------------------- MODULE Review --------------------------------
(***************************************************************************)
(* A plan from its planner to its request: what a person is shown, what is *)
(* recorded of it, and what is checked again before anything leaves.       *)
(* ops/write.py, marks.py, settings.py, schedule.py, quiet.py and          *)
(* folder_write.py plan; _verify and _execute of apply.py apply.           *)
(*                                                                         *)
(* Each planner and each case of _verify is a list of steps, in the order  *)
(* of the code; between any two of them Telegram, the disk, the clock and  *)
(* the configuration may change.  A plan's parameters never do, so what is *)
(* compared with them alone (recheck_mute and its kin) is left out.  The   *)
(* life of the plan row is module PlanStore, that of the request ApplyPlan.*)
(***************************************************************************)
EXTENDS Safety, Naturals, Sequences, FiniteSets

CONSTANTS
  Ids,        \* the peers of Telegram
  KindOf, IsChannel,   \* what each is; channels and supergroups keep a ban list
  Names,      \* public usernames
  Invite, NoId, \* an invite link; peer id 0
  Configs,    \* what the configuration may say
  Requests,   \* what is asked for
  NamesAtFirst, \* who holds the names at first
  MaxChanges  \* bound: how often the world changes

ASSUME ReviewAssumption ==
  /\ KindOf \in [Ids -> Kinds] /\ IsChannel \in [Ids -> BOOLEAN]
  /\ NamesAtFirst \in [Names -> Ids \cup {None}]
  /\ MaxChanges \in Nat
  /\ None \notin Ids \cup Names
  /\ Invite \notin Ids \cup Names

VARIABLES
  request,  \* what was asked for: the operation, its targets and its flags
  config,   \* the configuration on disk
  loaded,   \* the one the running process has loaded
  holder,   \* who holds each name
  member,   \* whether the account has joined the chat of the invite
  world,    \* what Telegram and the disk hold of the things a plan describes
  phase, at, \* planning, pending, verifying, executing, sent or refused; and the step
  seen,     \* what the process has learned
  plan,     \* what the plan recorded
  held,     \* what has been as recorded at some moment since the verification began
  stays,    \* the chats in the folder since the execution began
  changes   \* how often the world has changed

vars == <<request, config, loaded, holder, member, world, phase, at, seen, plan, held, stays,
          changes>>
nature == <<holder, member, world, changes>>

Roles  == {"chat", "user", "source", "destination"}
Facets == {"text", "mine", "pinned", "title", "about", "photo", "file", "folder", "time"}

Reactions == {"up", "party", "paid"}
Gone == "gone"

\* A message's text is its body, its attachment and whether this account sent it.
NoMessage == [body |-> Gone, media |-> "none", own |-> FALSE]
Texts == [body : {"old", "new"}, media : {"none", "one", "other"}, own : BOOLEAN] \cup {NoMessage}

\* A folder: the id its name leads to, whether it is shareable or excludes the chat of
\* the plan, and the chats it names, "this" one and others.
Folders == [id : {1, 2}, shareable : BOOLEAN, excluded : BOOLEAN,
            members : SUBSET {"this", "a", "b"}]

Values == [text |-> Texts, mine |-> SUBSET Reactions, pinned |-> BOOLEAN,
           title |-> {"old", "new", "asked"}, about |-> {"old", "new", "asked"},
           photo |-> {"old", "new"}, file |-> {"old", "new", Gone}, folder |-> Folders,
           time |-> {"ahead", "passed"}]

Peer == [id : Ids \cup {NoId}, kind : Kinds, name : Names \cup {Invite, None}]

Nothing == [x \in Roles \cup Facets |-> None]

-----------------------------------------------------------------------------
(* The steps a program is made of.                                          *)

Profile == <<"profile", None>>
Resolve(role)    == <<"resolve", role>>
Allow(role, cap) == <<"allow", role, cap>>
Link(role)       == <<"link", role>>
Fetch(what)      == <<"fetch", what>>
Check(what)      == <<"check", what>>
Same(what)       == <<"same", what>>

\* resolve_chat_argument and _address_message: the policy before the link.
Named(role, cap)   == <<Resolve(role), Allow(role, cap)>>
Address(role, cap) == Named(role, cap) \o <<Link(role)>>

\* The planners.
Begin == <<Profile>>

plan_send_message    == Begin \o Named("chat", "SEND")
plan_reply_message   == Begin \o Address("chat", "SEND") \o <<Fetch("message")>>
plan_send_file       == <<Profile, Fetch("file")>> \o Named("chat", "SEND") \o <<Fetch("message")>>
plan_edit_message    == Begin \o Address("chat", "SEND") \o <<Fetch("message"), Check("own")>>
plan_delete_message  == Begin \o Address("chat", "SEND") \o <<Fetch("message"), Check("own")>>
plan_forward_message == Begin \o Address("source", "READ_CHAT") \o Named("destination", "SEND")
                              \o <<Fetch("message")>>
plan_mark_read       == Begin \o Named("chat", "SEND")
plan_join_chat       == Begin \o Named("chat", "JOIN")
plan_leave_chat      == Begin \o Named("chat", "JOIN")
plan_create_group    == <<Profile, Check("groups")>> \o Named("user", "ADMIN")

BothEnds == <<Resolve("chat"), Resolve("user"), Allow("chat", "ADMIN"), Allow("user", "ADMIN")>>

plan_invite_user   == Begin \o BothEnds
plan_promote_admin == Begin \o BothEnds
_moderation_target == Begin \o BothEnds
plan_ban_user      == _moderation_target
plan_unban_user    == _moderation_target \o <<Check("banlist")>>
plan_kick_user     == _moderation_target
plan_restrict_user == _moderation_target \o <<Check("banlist")>>
plan_demote_admin  == _moderation_target
plan_set_profile   == <<Profile, Check("profile")>>

_block_target      == Begin \o Named("user", "ADMIN") \o <<Check("person")>>
plan_block_user    == _block_target
plan_unblock_user  == _block_target

_chat_target        == Begin \o Named("chat", "ADMIN") \o <<Check("chat")>>
plan_set_chat_title == _chat_target \o <<Check("title")>>
plan_set_chat_about == _chat_target \o <<Fetch("about"), Check("about")>>
plan_set_chat_photo == <<Fetch("file"), Check("image"), Profile>> \o Named("chat", "ADMIN")
                       \o <<Check("chat"), Fetch("photo")>>

plan_react_message   == Begin \o Address("chat", "SEND") \o <<Fetch("message"), Check("final")>>
plan_unreact_message == Begin \o Address("chat", "SEND") \o <<Fetch("message"), Check("remaining")>>
plan_pin_message     == Begin \o Address("chat", "ADMIN")
                              \o <<Fetch("message"), Check("sides"), Check("unpinned")>>
plan_unpin_message   == Begin \o Address("chat", "ADMIN") \o <<Fetch("message"), Check("pinned")>>

plan_schedule_message == <<Profile, Fetch("time"), Check("time")>> \o Named("chat", "SEND")
                         \o <<Check("online")>>
plan_folder_add   == Begin \o Named("chat", "SEND") \o <<Fetch("folder"), Check("editable")>>
plan_archive_chat == Begin \o Named("chat", "SEND")
plan_mute_chat    == Begin \o Named("chat", "SEND")

Planners ==
  [send |-> plan_send_message, reply |-> plan_reply_message, send_file |-> plan_send_file,
   edit |-> plan_edit_message, delete |-> plan_delete_message, forward |-> plan_forward_message,
   mark_read |-> plan_mark_read, join |-> plan_join_chat, leave |-> plan_leave_chat,
   create |-> plan_create_group, invite |-> plan_invite_user, promote |-> plan_promote_admin,
   ban |-> plan_ban_user, unban |-> plan_unban_user, kick |-> plan_kick_user,
   restrict |-> plan_restrict_user, demote |-> plan_demote_admin, profile |-> plan_set_profile,
   block |-> plan_block_user, unblock |-> plan_unblock_user, set_title |-> plan_set_chat_title,
   set_about |-> plan_set_chat_about, set_photo |-> plan_set_chat_photo,
   react |-> plan_react_message, unreact |-> plan_unreact_message, pin |-> plan_pin_message,
   unpin |-> plan_unpin_message, schedule |-> plan_schedule_message,
   folder_add |-> plan_folder_add, archive |-> plan_archive_chat, mute |-> plan_mute_chat]

\* _verify.
verify_chat(cap)  == <<Profile>> \o Named("chat", cap) \o <<Same("chat")>>
verify_reply      == <<Profile>> \o Address("chat", "SEND")
                     \o <<Same("chat"), Fetch("message"), Same("text")>>
verify_schedule   == verify_chat("SEND") \o <<Fetch("time"), Check("time")>>
verify_folder     == verify_chat("SEND") \o <<Fetch("folder"), Same("folder"), Check("editable")>>
verify_file       == verify_chat("SEND")
                     \o <<Fetch("file"), Same("file"), Fetch("message"), Same("text")>>
verify_own        == verify_reply \o <<Check("own")>>
verify_mark(cap)  == <<Profile>> \o Address("chat", cap)
                     \o <<Fetch("message"), Same("chat"), Same("text")>>
verify_forward    == <<Profile>> \o Address("source", "READ_CHAT") \o Named("destination", "SEND")
                     \o <<Same("source"), Same("destination"), Fetch("message"), Same("text")>>
verify_join       == <<Profile>> \o Named("chat", "JOIN") \o <<Same("chat")>>
verify_create     == <<Profile, Check("groups")>> \o Named("user", "ADMIN") \o <<Same("user")>>
verify_member     == <<Profile>> \o BothEnds \o <<Same("chat"), Same("user")>>
verify_profile    == <<Profile, Check("profile")>>
verify_person     == <<Profile>> \o Named("user", "ADMIN") \o <<Check("person"), Same("user")>>
verify_setting    == <<Profile>> \o Named("chat", "ADMIN") \o <<Check("chat"), Same("chat")>>
verify_title      == verify_setting \o <<Same("title")>>
verify_about      == verify_setting \o <<Fetch("about"), Same("about")>>
verify_photo      == verify_setting \o <<Fetch("file"), Check("image"), Same("file"),
                                        Fetch("photo"), Same("photo")>>
verify_reaction(change) == verify_mark("SEND") \o <<Same("mine"), Check(change)>>
verify_pin        == verify_mark("ADMIN") \o <<Same("pinned")>>
verify_quiet      == verify_chat("SEND")
verify_leave      == verify_chat("JOIN")

Verifiers ==
  [send |-> verify_chat("SEND"), mark_read |-> verify_chat("SEND"), archive |-> verify_quiet,
   mute |-> verify_quiet, leave |-> verify_leave, reply |-> verify_reply,
   schedule |-> verify_schedule, folder_add |-> verify_folder, send_file |-> verify_file,
   edit |-> verify_own, delete |-> verify_own, forward |-> verify_forward, join |-> verify_join,
   react |-> verify_reaction("final"), unreact |-> verify_reaction("remaining"),
   pin |-> verify_pin, unpin |-> verify_pin, create |-> verify_create, invite |-> verify_member,
   promote |-> verify_member, ban |-> verify_member, unban |-> verify_member,
   kick |-> verify_member, restrict |-> verify_member, demote |-> verify_member,
   profile |-> verify_profile, block |-> verify_person, unblock |-> verify_person,
   set_title |-> verify_title, set_about |-> verify_about, set_photo |-> verify_photo]

\* A request has a peer or a name for each role, and only one to join may name an invite;
\* None is no value of anything that is there.
ASSUME RequestAssumption ==
  /\ \A q \in Requests :
       /\ q.op \in DOMAIN Planners
       /\ \A r \in Roles : q[r] \in Ids \cup Names \cup IF q.op = "join" THEN {Invite} ELSE {}
       /\ q.inside \in Ids
  /\ NoId \notin Ids \cup {None} /\ Invite # None
  /\ \A f \in Facets : \A v \in Values[f] : v # None

\* _execute; what is read there is read again.
Executors(op) ==
  CASE op = "folder_add" -> <<Fetch("folder"), Check("editable")>>
    [] op \in {"unban", "restrict"} -> <<Check("banlist")>>
    [] OTHER -> <<>>

Program ==
  CASE phase = "planning"  -> Planners[request.op]
    [] phase = "verifying" -> Verifiers[request.op]
    [] OTHER -> Executors(request.op)

-----------------------------------------------------------------------------
(* What a plan records and a person is shown.                               *)

\* The preconditions beyond the peers.
Recorded(op) ==
  CASE op \in {"reply", "edit", "delete", "forward"} -> {"text"}
    [] op = "send_file" -> {"text", "file"}
    [] op \in {"react", "unreact"} -> {"text", "mine"}
    [] op \in {"pin", "unpin"} -> {"text", "pinned"}
    [] op = "set_title" -> {"title"}
    [] op = "set_about" -> {"about"}
    [] op = "set_photo" -> {"photo", "file"}
    [] op = "schedule" /\ ~ request.online -> {"time"}
    [] op = "folder_add" -> {"folder"}
    [] OTHER -> {}

RolesOf(op) ==
  CASE op = "forward" -> {"source", "destination"}
    [] op \in {"create", "block", "unblock"} -> {"user"}
    [] op \in {"invite", "promote", "ban", "unban", "kick", "restrict", "demote"} ->
         {"chat", "user"}
    [] op = "profile" -> {}
    [] OTHER -> {"chat"}

\* The capability each end of a request is judged by.
CapabilityOf(op, role) ==
  CASE role = "source" -> "READ_CHAT"
    [] op \in {"join", "leave"} -> "JOIN"
    [] op \in {"create", "invite", "promote", "ban", "unban", "kick", "restrict", "demote", "block",
               "unblock", "set_title", "set_about", "set_photo", "pin", "unpin"} -> "ADMIN"
    [] OTHER -> "SEND"

\* The role whose chat the messages and settings of a request are in.
Home == IF request.op = "forward" THEN "source" ELSE "chat"

\* get_entity: the peer a target leads to now, None if there is none.
NameOf(id) ==
  LET mine == {n \in Names : holder[n] = id}
  IN IF mine = {} THEN None ELSE CHOOSE n \in mine : TRUE
PeerOf(id) == IF id = None THEN None ELSE [id |-> id, kind |-> KindOf[id], name |-> NameOf(id)]

reference(target) == IF target \in Names THEN PeerOf(holder[target]) ELSE PeerOf(target)

\* resolve_join_target: an invite not yet accepted has no id, and its hash for a name.
resolve_join_target(target) ==
  IF target # Invite THEN reference(target)
  ELSE IF member THEN PeerOf(request.inside)
  ELSE [id |-> NoId, kind |-> "group", name |-> Invite]

Found(role) ==
  IF request.op = "join" THEN resolve_join_target(request[role]) ELSE reference(request[role])

AsRecorded(what) ==
  CASE what \in Roles -> Found(what) = plan[what]
    [] what = "folder" -> world.folder.id = plan.folder.id
    [] OTHER -> world[what] = plan[what]

Reviewed == RolesOf(request.op) \cup Recorded(request.op)
-----------------------------------------------------------------------------
TypeOK ==
  /\ request \in Requests
  /\ {config, loaded} \subseteq Configs
  /\ holder \in [Names -> Ids \cup {None}]
  /\ member \in BOOLEAN
  /\ DOMAIN world = Facets /\ \A f \in Facets : world[f] \in Values[f]
  /\ phase \in {"planning", "pending", "verifying", "executing", "sent", "refused"}
  /\ at \in 1 .. Len(Program) + 1
  /\ \A k \in {seen, plan} :
       /\ DOMAIN k = Roles \cup Facets
       /\ \A r \in Roles : k[r] = None \/ k[r] \in Peer
       /\ \A f \in Facets : k[f] = None \/ k[f] \in Values[f]
       /\ k.text # NoMessage /\ k.file # Gone
  /\ held \subseteq Reviewed
  /\ stays \subseteq {"this", "a", "b"}
  /\ changes \in 0 .. MaxChanges

Plain == [text |-> [body |-> "old", media |-> "one", own |-> TRUE], mine |-> {}, pinned |-> FALSE,
          title |-> "old", about |-> "old", photo |-> "old", file |-> "old",
          folder |-> [id |-> 1, shareable |-> FALSE, excluded |-> FALSE, members |-> {"a"}],
          time |-> "ahead"]

\* The first worlds differ in what the operation looks at.
Worlds(op) ==
  CASE op \in {"edit", "delete"} -> {Plain, [Plain EXCEPT !.text.own = FALSE]}
    [] op \in {"react", "unreact"} ->
         {[Plain EXCEPT !.mine = r] : r \in {{}, {"up"}, {"up", "paid"}}}
    [] op \in {"pin", "unpin"} -> {[Plain EXCEPT !.pinned = b] : b \in BOOLEAN}
    [] OTHER -> {Plain}

Init ==
  /\ request \in Requests
  /\ config \in Configs
  /\ loaded = config
  /\ holder = NamesAtFirst
  /\ member = FALSE
  /\ world \in Worlds(request.op)
  /\ phase = "planning"
  /\ at = 1
  /\ seen = Nothing
  /\ plan = Nothing
  /\ held = {}
  /\ stays = {}
  /\ changes = 0

-----------------------------------------------------------------------------
(* What changes meanwhile.                                                  *)

\* Whatever is as recorded after a change has been so since the verification began.
Changed ==
  /\ phase \notin {"sent", "refused"}
  /\ changes < MaxChanges
  /\ changes' = changes + 1
  /\ UNCHANGED <<request, loaded, phase, at, seen, plan>>
  /\ held' = IF phase \in {"verifying", "executing"}
             THEN held \cup {x \in Reviewed : AsRecorded(x)'} ELSE held
  /\ stays' = stays \cap world'.folder.members

\* A name is given up, and perhaps taken by somebody else.
NameMoves(n, id) ==
  /\ n \in {request[r] : r \in RolesOf(request.op)}
  /\ holder[n] # id
  /\ id # None => \A m \in Names : holder[m] # id
  /\ holder' = [holder EXCEPT ![n] = id]
  /\ UNCHANGED <<config, member, world>>
  /\ Changed

\* This account joins the chat of the invite, or leaves it.
Joins ==
  /\ request.op = "join" /\ request.chat = Invite
  /\ member' = ~ member
  /\ UNCHANGED <<config, holder, world>>
  /\ Changed

\* Somebody edits a message or its attachment, deletes it, pins it, reacts from another
\* device, renames the chat, replaces the file, edits the folder; time passes.
MayBecome(f, v) ==
  CASE f = "text"   -> /\ world.text # NoMessage
                       /\ \/ v = NoMessage
                          \/ v = [world.text EXCEPT !.body = "new"]
                          \/ v.media # world.text.media /\ v = [world.text EXCEPT !.media = v.media]
    [] f = "time"   -> v = "passed"
    [] f = "folder" -> v \in {[world.folder EXCEPT !.id = 2],
                              [world.folder EXCEPT !.shareable = TRUE],
                              [world.folder EXCEPT !.excluded = TRUE],
                              [world.folder EXCEPT !.members = @ \cup {"b"}],
                              [world.folder EXCEPT !.members = @ \ {"a"}]}
    [] OTHER -> TRUE

WorldChanges(f, v) ==
  /\ f \in Recorded(request.op)
  /\ v # world[f]
  /\ MayBecome(f, v)
  /\ world' = [world EXCEPT ![f] = v]
  /\ UNCHANGED <<config, holder, member>>
  /\ Changed

\* The operator edits the configuration; a running process keeps what it loaded.
Reconfigure(c) ==
  /\ c # config
  /\ config' = c
  /\ UNCHANGED <<holder, member, world>>
  /\ Changed

-----------------------------------------------------------------------------
(* What the steps ask of what they see.                                     *)

require_planning_profile == loaded.profile = "plan"
require_peer(role, cap)  == Allowed(loaded, cap, seen[role])
guard_message_link(role) == request.link => ~ IsPrivate(seen[role])
_require_own_message     == seen.text.own
_require_ban_list        == IsChannel[seen.chat.id]
require_person           == seen.user.kind = "user"
require_chat_peer        == seen.chat.kind \in {"group", "channel"}
require_photo_file       == request.image
Differs(f)               == seen[f] # "asked"

\* The lists the account would be left with, and whether this tool can send them.
final_reactions(mine) == IF request.keep THEN mine \cup {request.wanted} ELSE {request.wanted}
remaining_reactions(mine) == IF request.wanted = None THEN {} ELSE mine \ {request.wanted}
guard_sendable(list) == "paid" \notin list

MayReact   == request.wanted \notin seen.mine /\ guard_sendable(final_reactions(seen.mine))
MayUnreact == /\ seen.mine # {}
              /\ request.wanted # None => request.wanted \in seen.mine
              /\ guard_sendable(remaining_reactions(seen.mine))

guard_both_sides        == request.both => IsPrivate(seen.chat)
guard_pin_state(pinned) == seen.pinned = pinned
require_a_reachable_time == request.online \/ seen.time = "ahead"
NeedsOnline             == request.online => IsPrivate(seen.chat)
Editable                == ~ seen.folder.shareable /\ ~ seen.folder.excluded

Met(what) ==
  CASE what = "own"       -> _require_own_message
    [] what = "groups"    -> MayCreateGroups(loaded)
    [] what = "profile"   -> MayChangeProfile(loaded)
    [] what = "banlist"   -> _require_ban_list
    [] what = "person"    -> require_person
    [] what = "chat"      -> require_chat_peer
    [] what = "image"     -> require_photo_file
    [] what \in {"title", "about"} -> Differs(what)
    [] what = "final"     -> MayReact
    [] what = "remaining" -> MayUnreact
    [] what = "sides"     -> guard_both_sides
    [] what = "unpinned"  -> guard_pin_state(FALSE)
    [] what = "pinned"    -> guard_pin_state(TRUE)
    [] what = "time"      -> require_a_reachable_time
    [] what = "online"    -> NeedsOnline
    [] what = "editable"  -> Editable

\* A changed access hash, title or path is a warning; these are refusals.
_check_peer(role) == seen[role].id = plan[role].id /\ seen[role].name = plan[role].name

\* (Variation: an attachment is not compared, and a photo without a caption is like another.)
BodiesOnly == seen.text.body = plan.text.body /\ seen.text.own = plan.text.own

_check_messages == /\ seen.text.body = plan.text.body
                   /\ seen.text.own = plan.text.own
                   /\ seen.text.media = plan.text.media

IsSame(what) ==
  CASE what \in Roles   -> _check_peer(what)
    [] what = "text"    -> _check_messages
    [] what = "folder"  -> seen.folder.id = plan.folder.id
    [] OTHER            -> seen[what] = plan[what]

Step == Program[at]

Passes ==
  CASE Step[1] = "profile" -> require_planning_profile
    [] Step[1] = "allow"   -> require_peer(Step[2], Step[3])
    [] Step[1] = "link"    -> guard_message_link(Step[2])
    [] Step[1] = "check"   -> Met(Step[2])
    [] Step[1] = "same"    -> IsSame(Step[2])

\* (Variation: a message that is gone is skipped over.)
AlwaysThere == TRUE

\* _fetch_messages refuses when one is missing.
MessageThere == world.text # NoMessage

\* resolve_outbound reads from the directories the configuration names.
Readable == loaded.outbox /\ world.file # Gone

IsFound ==
  CASE Step[1] = "resolve" -> Found(Step[2]) # None
    [] Step = Fetch("message") -> MessageThere
    [] Step = Fetch("file") -> Readable
    [] OTHER -> TRUE

\* A chat comes with its title, a message with its reactions and its pin, and the
\* execution finds a folder by the id it verified.
Learned ==
  CASE Step[1] = "resolve" -> [[seen EXCEPT ![Step[2]] = Found(Step[2])]
                               EXCEPT !.title = IF Step[2] = "chat" THEN world.title ELSE @]
    [] Step = Fetch("message") -> [seen EXCEPT !.text = world.text, !.mine = world.mine,
                                               !.pinned = world.pinned]
    [] Step = Fetch("folder") /\ phase = "executing" ->
                               [seen EXCEPT !.folder = [world.folder EXCEPT !.id = seen.folder.id]]
    [] OTHER -> [seen EXCEPT ![Step[2]] = world[Step[2]]]

-----------------------------------------------------------------------------
(* The process.                                                             *)

AtAStep == phase \in {"planning", "verifying", "executing"} /\ at <= Len(Program)
AtTheEnd == at = Len(Program) + 1
IsRead == Step[1] \in {"resolve", "fetch"}

Read ==
  /\ AtAStep /\ IsRead /\ IsFound
  /\ seen' = Learned
  /\ at' = at + 1
  /\ UNCHANGED <<request, config, loaded, phase, plan, held, stays, nature>>

Pass ==
  /\ AtAStep /\ ~ IsRead /\ Passes
  /\ at' = at + 1
  /\ UNCHANGED <<request, config, loaded, phase, seen, plan, held, stays, nature>>

Refuse ==
  /\ AtAStep
  /\ IF IsRead THEN ~ IsFound ELSE ~ Passes
  /\ phase' = "refused"
  /\ at' = 1
  /\ UNCHANGED <<request, config, loaded, seen, plan, held, stays, nature>>

\* peer_snapshot and message_snapshot: the plan row holds what the summary showed.
_create ==
  /\ phase = "planning" /\ AtTheEnd
  /\ phase' = "pending"
  /\ at' = 1
  /\ plan' = [x \in Roles \cup Facets |-> IF x \in Reviewed THEN seen[x] ELSE None]
  /\ UNCHANGED <<request, config, loaded, seen, held, stays, nature>>

\* apply_plan, in a process of its own, which loads the configuration as it is.
apply_plan ==
  /\ phase = "pending"
  /\ phase' = "verifying"
  /\ loaded' = config
  /\ seen' = Nothing
  /\ held' = {x \in Reviewed : AsRecorded(x)}
  /\ UNCHANGED <<request, config, at, plan, stays, nature>>

_verify ==
  /\ phase = "verifying" /\ AtTheEnd
  /\ phase' = "executing"
  /\ at' = 1
  /\ stays' = world.folder.members
  /\ UNCHANGED <<request, config, loaded, seen, plan, held, nature>>

\* A filter is replaced as a whole by the one just read and this chat.
add_peer_to_filter(folder) == [folder EXCEPT !.members = seen.folder.members \cup {"this"}]

\* The request leaves.
_execute ==
  /\ phase = "executing" /\ AtTheEnd
  /\ phase' = "sent"
  /\ world' = IF request.op = "folder_add"
              THEN [world EXCEPT !.folder = add_peer_to_filter(@)] ELSE world
  /\ at' = 1
  /\ UNCHANGED <<request, config, loaded, holder, member, seen, plan, held, stays, changes>>

Next ==
  \/ \E n \in Names, id \in Ids \cup {None} : NameMoves(n, id)
  \/ Joins
  \/ \E f \in Facets : \E v \in Values[f] : WorldChanges(f, v)
  \/ \E c \in Configs : Reconfigure(c)
  \/ Read \/ Pass \/ Refuse
  \/ _create \/ apply_plan \/ _verify \/ _execute

Spec == Init /\ [][Next]_vars

-----------------------------------------------------------------------------
(* Properties.                                                              *)

\* A request goes to the ids the plan recorded, with each thing the person was shown -
\* who holds the name, the message and its attachment, the reactions, the value that is
\* overwritten, the file, the time - found as recorded since the apply began; the list of
\* reactions sent is the one the summary named, and no chat leaves a folder that was in
\* it when the execution began.  (_check_peer, _check_messages, _check_file, _verify_mark.)
ActsOnWhatWasReviewed ==
  phase = "sent" =>
    /\ \A r \in RolesOf(request.op) : seen[r].id = plan[r].id
    /\ Reviewed \subseteq held
    /\ request.op = "react" => final_reactions(seen.mine) = final_reactions(plan.mine)
    /\ request.op = "unreact" => remaining_reactions(seen.mine) = remaining_reactions(plan.mine)
    /\ request.op = "folder_add" => stays \subseteq world.folder.members

Judged == \A r \in RolesOf(request.op) : Promised(loaded, CapabilityOf(request.op, r), seen[r])

\* The policy comes first, in planning and again in applying: no name is looked up for a
\* profile that may not write, no message, folder, description or photo is fetched from a
\* chat the configuration closes, no plan is recorded and no request leaves unless every
\* peer it touches is permitted.  (require_planning_profile, require_peer, safety.check.)
PolicyComesFirst ==
  /\ \A r \in Roles : seen[r] # None => loaded.profile = "plan"
  /\ (\E f \in {"text", "folder", "about", "photo"} : seen[f] # None) => Judged
  /\ phase \in {"pending", "executing", "sent"} => Judged
  /\ phase \in {"pending", "sent"} /\ request.op = "profile" => MayChangeProfile(loaded)

=============================================================================
