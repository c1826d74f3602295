------------------------------ MODULE PolicyProofs ------------------------------
(***************************************************************************)
(* Proofs about what the configuration lets through: about Review, its     *)
(* types, that the policy comes first, and that a request does what was    *)
(* reviewed; about Listings, that an answer tells of nothing it may not    *)
(* and counts what it does not tell.  For every configuration, request and *)
(* question, any peers, names and chats, any number of changes in between. *)
(*                                                                         *)
(* Review: two facts carry it.  Of each program, read as a list: nothing   *)
(* is read again once a step has passed that rests on it, and the policy   *)
(* stands before what it guards.  Of each state: the steps behind hold of  *)
(* what was seen, and everything seen was read by one of them.             *)
(*                                                                         *)
(* Listings: what is walked, found and shown are finite sets of places,    *)
(* one inside the other.  A rank orders the places, so that a cut list is  *)
(* full, a walk that ends early has found all it was to find, and nothing  *)
(* that was left out stands before what was taken.                         *)
(***************************************************************************)
EXTENDS Review, Listings, SafetyProofs, FiniteSetTheorems, WellFoundedInduction, TLAPS

-----------------------------------------------------------------------------
(* What is asked of a program.                                              *)

\* What a step reads.
Teaches(step, x) ==
  \/ x \in Roles /\ step = Resolve(x)
  \/ x = "title" /\ step = Resolve("chat")
  \/ x \in {"text", "mine", "pinned"} /\ step = Fetch("message")
  \/ x \in {"about", "photo", "file", "time", "folder"} /\ step = Fetch(x)

\* What a step that was passed says something about.
RestsOn(step, x) ==
  \/ step = Same(x)
  \/ step[1] = "allow" /\ step[2] = x
  \/ x = "time" /\ step = Check("time")

Contents == {Fetch("message"), Fetch("folder"), Fetch("about"), Fetch("photo")}

\* Nothing is read again once a step has passed that rests on it.
ReadsInOrder(p) ==
  /\ Len(p) \in Nat /\ DOMAIN p = 1 .. Len(p)
  /\ \A i \in DOMAIN p :
       /\ p[i][1] = "resolve" => p[i][2] \in Roles /\ p[i] = Resolve(p[i][2])
       /\ p[i][1] = "fetch" => /\ p[i] = Fetch(p[i][2])
                               /\ p[i][2] \in {"message", "about", "photo", "file", "time",
                                              "folder"}
       /\ \A j \in 1 .. i - 1, x \in Roles \cup Facets : Teaches(p[i], x) => ~ RestsOn(p[j], x)

\* The profile comes before any name is looked up, the peers before contents are fetched.
PolicyFirst(p, needs) ==
  /\ \A i \in DOMAIN p :
       /\ p[i][1] = "resolve" => \E j \in 1 .. i - 1 : p[j] = Profile
       /\ p[i][1] = "allow" => \E j \in 1 .. i - 1 : p[j] = Resolve(p[i][2])
       /\ p[i] \in Contents => \A s \in needs : \E j \in 1 .. i - 1 : p[j] = s
  /\ \A s \in needs : \E j \in DOMAIN p : p[j] = s

Reads(p, items)    == \A x \in items : \E i \in DOMAIN p : Teaches(p[i], x)
Compares(p, items) ==
  /\ \A x \in items \ {"time"} : \E i \in DOMAIN p : p[i] = Same(x)
  /\ "time" \in items => \E i \in DOMAIN p : p[i] = Check("time")

Plans(p, needs, items) == ReadsInOrder(p) /\ PolicyFirst(p, needs) /\ Reads(p, items)
Verifies(p, needs, items) == Plans(p, needs, items) /\ Compares(p, items)

\* p is the sequence q, said so that no prover need compute with tuples.
Lists(p, q) == Len(p) = Len(q) /\ DOMAIN p = DOMAIN q /\ \A i \in DOMAIN q : p[i] = q[i]

-----------------------------------------------------------------------------
(* The planners, step by step: what each asks of the policy, and reads.     *)

LEMMA PlanSendMessageSteps == Plans(plan_send_message, {Allow("chat", "SEND")}, {"chat"})
<1> DEFINE p == plan_send_message
<1> USE DEF Profile, Resolve, Allow, Link, Fetch, Check, Same
<1>1. Lists(p, <<Profile, Resolve("chat"), Allow("chat", "SEND")>>)
  BY DEF Lists, plan_send_message, Begin, Named
<1> HIDE DEF p
<1>2. Plans(p, {Allow("chat", "SEND")}, {"chat"})
  BY <1>1 DEF Lists, Plans, ReadsInOrder, PolicyFirst, Reads, Contents,
              Teaches, RestsOn, Roles, Facets
<1> QED
  BY <1>2 DEF p

LEMMA PlanReplyMessageSteps == Plans(plan_reply_message, {Allow("chat", "SEND")}, {"chat", "text"})
<1> DEFINE p == plan_reply_message
<1> USE DEF Profile, Resolve, Allow, Link, Fetch, Check, Same
<1>1. Lists(p, <<Profile, Resolve("chat"), Allow("chat", "SEND"), Link("chat"),
                 Fetch("message")>>)
  BY DEF Lists, plan_reply_message, Begin, Address, Named
<1> HIDE DEF p
<1>2. Plans(p, {Allow("chat", "SEND")}, {"chat", "text"})
  BY <1>1 DEF Lists, Plans, ReadsInOrder, PolicyFirst, Reads, Contents,
              Teaches, RestsOn, Roles, Facets
<1> QED
  BY <1>2 DEF p

LEMMA PlanSendFileSteps == Plans(plan_send_file, {Allow("chat", "SEND")}, {"chat", "text", "file"})
<1> DEFINE p == plan_send_file
<1> USE DEF Profile, Resolve, Allow, Link, Fetch, Check, Same
<1>1. Lists(p, <<Profile, Fetch("file"), Resolve("chat"), Allow("chat", "SEND"),
                 Fetch("message")>>)
  BY DEF Lists, plan_send_file, Named
<1> HIDE DEF p
<1>2. Plans(p, {Allow("chat", "SEND")}, {"chat", "text", "file"})
  BY <1>1 DEF Lists, Plans, ReadsInOrder, PolicyFirst, Reads, Contents,
              Teaches, RestsOn, Roles, Facets
<1> QED
  BY <1>2 DEF p

LEMMA PlanEditMessageSteps == Plans(plan_edit_message, {Allow("chat", "SEND")}, {"chat", "text"})
<1> DEFINE p == plan_edit_message
<1> USE DEF Profile, Resolve, Allow, Link, Fetch, Check, Same
<1>1. Lists(p, <<Profile, Resolve("chat"), Allow("chat", "SEND"), Link("chat"),
                 Fetch("message"), Check("own")>>)
  BY DEF Lists, plan_edit_message, Begin, Address, Named
<1> HIDE DEF p
<1>2. Plans(p, {Allow("chat", "SEND")}, {"chat", "text"})
  BY <1>1 DEF Lists, Plans, ReadsInOrder, PolicyFirst, Reads, Contents,
              Teaches, RestsOn, Roles, Facets
<1> QED
  BY <1>2 DEF p

LEMMA PlanForwardMessageSteps ==
  Plans(plan_forward_message, {Allow("source", "READ_CHAT"), Allow("destination", "SEND")},
        {"source", "destination", "text"})
<1> DEFINE p == plan_forward_message
<1> USE DEF Profile, Resolve, Allow, Link, Fetch, Check, Same
<1>1. Lists(p, <<Profile, Resolve("source"), Allow("source", "READ_CHAT"), Link("source"),
                 Resolve("destination"), Allow("destination", "SEND"), Fetch("message")>>)
  BY DEF Lists, plan_forward_message, Begin, Address, Named
<1> HIDE DEF p
<1>2. Plans(p, {Allow("source", "READ_CHAT"), Allow("destination", "SEND")},
          {"source", "destination", "text"})
  BY <1>1 DEF Lists, Plans, ReadsInOrder, PolicyFirst, Reads, Contents,
              Teaches, RestsOn, Roles, Facets
<1> QED
  BY <1>2 DEF p

LEMMA PlanJoinChatSteps == Plans(plan_join_chat, {Allow("chat", "JOIN")}, {"chat"})
<1> DEFINE p == plan_join_chat
<1> USE DEF Profile, Resolve, Allow, Link, Fetch, Check, Same
<1>1. Lists(p, <<Profile, Resolve("chat"), Allow("chat", "JOIN")>>)
  BY DEF Lists, plan_join_chat, Begin, Named
<1> HIDE DEF p
<1>2. Plans(p, {Allow("chat", "JOIN")}, {"chat"})
  BY <1>1 DEF Lists, Plans, ReadsInOrder, PolicyFirst, Reads, Contents,
              Teaches, RestsOn, Roles, Facets
<1> QED
  BY <1>2 DEF p

LEMMA PlanCreateGroupSteps == Plans(plan_create_group, {Allow("user", "ADMIN")}, {"user"})
<1> DEFINE p == plan_create_group
<1> USE DEF Profile, Resolve, Allow, Link, Fetch, Check, Same
<1>1. Lists(p, <<Profile, Check("groups"), Resolve("user"), Allow("user", "ADMIN")>>)
  BY DEF Lists, plan_create_group, Named
<1> HIDE DEF p
<1>2. Plans(p, {Allow("user", "ADMIN")}, {"user"})
  BY <1>1 DEF Lists, Plans, ReadsInOrder, PolicyFirst, Reads, Contents,
              Teaches, RestsOn, Roles, Facets
<1> QED
  BY <1>2 DEF p

LEMMA PlanInviteUserSteps ==
  Plans(plan_invite_user, {Allow("chat", "ADMIN"), Allow("user", "ADMIN")},
        {"chat", "user"})
<1> DEFINE p == plan_invite_user
<1> USE DEF Profile, Resolve, Allow, Link, Fetch, Check, Same
<1>1. Lists(p, <<Profile, Resolve("chat"), Resolve("user"), Allow("chat", "ADMIN"),
                 Allow("user", "ADMIN")>>)
  BY DEF Lists, plan_invite_user, Begin, BothEnds
<1> HIDE DEF p
<1>2. Plans(p, {Allow("chat", "ADMIN"), Allow("user", "ADMIN")}, {"chat", "user"})
  BY <1>1 DEF Lists, Plans, ReadsInOrder, PolicyFirst, Reads, Contents,
              Teaches, RestsOn, Roles, Facets
<1> QED
  BY <1>2 DEF p

LEMMA PlanUnbanUserSteps ==
  Plans(plan_unban_user, {Allow("chat", "ADMIN"), Allow("user", "ADMIN")},
        {"chat", "user"})
<1> DEFINE p == plan_unban_user
<1> USE DEF Profile, Resolve, Allow, Link, Fetch, Check, Same
<1>1. Lists(p, <<Profile, Resolve("chat"), Resolve("user"), Allow("chat", "ADMIN"),
                 Allow("user", "ADMIN"), Check("banlist")>>)
  BY DEF Lists, plan_unban_user, _moderation_target, Begin, BothEnds
<1> HIDE DEF p
<1>2. Plans(p, {Allow("chat", "ADMIN"), Allow("user", "ADMIN")}, {"chat", "user"})
  BY <1>1 DEF Lists, Plans, ReadsInOrder, PolicyFirst, Reads, Contents,
              Teaches, RestsOn, Roles, Facets
<1> QED
  BY <1>2 DEF p

LEMMA PlanSetProfileSteps == Plans(plan_set_profile, {}, {})
<1> DEFINE p == plan_set_profile
<1> USE DEF Profile, Resolve, Allow, Link, Fetch, Check, Same
<1>1. Lists(p, <<Profile, Check("profile")>>)
  BY DEF Lists, plan_set_profile
<1> HIDE DEF p
<1>2. Plans(p, {}, {})
  BY <1>1 DEF Lists, Plans, ReadsInOrder, PolicyFirst, Reads, Contents,
              Teaches, RestsOn, Roles, Facets
<1> QED
  BY <1>2 DEF p

LEMMA PlanBlockUserSteps == Plans(plan_block_user, {Allow("user", "ADMIN")}, {"user"})
<1> DEFINE p == plan_block_user
<1> USE DEF Profile, Resolve, Allow, Link, Fetch, Check, Same
<1>1. Lists(p, <<Profile, Resolve("user"), Allow("user", "ADMIN"), Check("person")>>)
  BY DEF Lists, plan_block_user, _block_target, Begin, Named
<1> HIDE DEF p
<1>2. Plans(p, {Allow("user", "ADMIN")}, {"user"})
  BY <1>1 DEF Lists, Plans, ReadsInOrder, PolicyFirst, Reads, Contents,
              Teaches, RestsOn, Roles, Facets
<1> QED
  BY <1>2 DEF p

LEMMA PlanSetChatTitleSteps ==
  Plans(plan_set_chat_title, {Allow("chat", "ADMIN")},
        {"chat", "title"})
<1> DEFINE p == plan_set_chat_title
<1> USE DEF Profile, Resolve, Allow, Link, Fetch, Check, Same
<1>1. Lists(p, <<Profile, Resolve("chat"), Allow("chat", "ADMIN"), Check("chat"),
                 Check("title")>>)
  BY DEF Lists, plan_set_chat_title, _chat_target, Begin, Named
<1> HIDE DEF p
<1>2. Plans(p, {Allow("chat", "ADMIN")}, {"chat", "title"})
  BY <1>1 DEF Lists, Plans, ReadsInOrder, PolicyFirst, Reads, Contents,
              Teaches, RestsOn, Roles, Facets
<1> QED
  BY <1>2 DEF p

LEMMA PlanSetChatAboutSteps ==
  Plans(plan_set_chat_about, {Allow("chat", "ADMIN")},
        {"chat", "about"})
<1> DEFINE p == plan_set_chat_about
<1> USE DEF Profile, Resolve, Allow, Link, Fetch, Check, Same
<1>1. Lists(p, <<Profile, Resolve("chat"), Allow("chat", "ADMIN"), Check("chat"),
                 Fetch("about"), Check("about")>>)
  BY DEF Lists, plan_set_chat_about, _chat_target, Begin, Named
<1> HIDE DEF p
<1>2. Plans(p, {Allow("chat", "ADMIN")}, {"chat", "about"})
  BY <1>1 DEF Lists, Plans, ReadsInOrder, PolicyFirst, Reads, Contents,
              Teaches, RestsOn, Roles, Facets
<1> QED
  BY <1>2 DEF p

LEMMA PlanSetChatPhotoSteps ==
  Plans(plan_set_chat_photo, {Allow("chat", "ADMIN")},
        {"chat", "photo", "file"})
<1> DEFINE p == plan_set_chat_photo
<1> USE DEF Profile, Resolve, Allow, Link, Fetch, Check, Same
<1>1. Lists(p, <<Fetch("file"), Check("image"), Profile, Resolve("chat"),
                 Allow("chat", "ADMIN"), Check("chat"), Fetch("photo")>>)
  BY DEF Lists, plan_set_chat_photo, Named
<1> HIDE DEF p
<1>2. Plans(p, {Allow("chat", "ADMIN")}, {"chat", "photo", "file"})
  BY <1>1 DEF Lists, Plans, ReadsInOrder, PolicyFirst, Reads, Contents,
              Teaches, RestsOn, Roles, Facets
<1> QED
  BY <1>2 DEF p

LEMMA PlanReactMessageSteps ==
  Plans(plan_react_message, {Allow("chat", "SEND")},
        {"chat", "text", "mine"})
<1> DEFINE p == plan_react_message
<1> USE DEF Profile, Resolve, Allow, Link, Fetch, Check, Same
<1>1. Lists(p, <<Profile, Resolve("chat"), Allow("chat", "SEND"), Link("chat"),
                 Fetch("message"), Check("final")>>)
  BY DEF Lists, plan_react_message, Begin, Address, Named
<1> HIDE DEF p
<1>2. Plans(p, {Allow("chat", "SEND")}, {"chat", "text", "mine"})
  BY <1>1 DEF Lists, Plans, ReadsInOrder, PolicyFirst, Reads, Contents,
              Teaches, RestsOn, Roles, Facets
<1> QED
  BY <1>2 DEF p

LEMMA PlanUnreactMessageSteps ==
  Plans(plan_unreact_message, {Allow("chat", "SEND")},
        {"chat", "text", "mine"})
<1> DEFINE p == plan_unreact_message
<1> USE DEF Profile, Resolve, Allow, Link, Fetch, Check, Same
<1>1. Lists(p, <<Profile, Resolve("chat"), Allow("chat", "SEND"), Link("chat"),
                 Fetch("message"), Check("remaining")>>)
  BY DEF Lists, plan_unreact_message, Begin, Address, Named
<1> HIDE DEF p
<1>2. Plans(p, {Allow("chat", "SEND")}, {"chat", "text", "mine"})
  BY <1>1 DEF Lists, Plans, ReadsInOrder, PolicyFirst, Reads, Contents,
              Teaches, RestsOn, Roles, Facets
<1> QED
  BY <1>2 DEF p

LEMMA PlanPinMessageSteps ==
  Plans(plan_pin_message, {Allow("chat", "ADMIN")},
        {"chat", "text", "pinned"})
<1> DEFINE p == plan_pin_message
<1> USE DEF Profile, Resolve, Allow, Link, Fetch, Check, Same
<1>1. Lists(p, <<Profile, Resolve("chat"), Allow("chat", "ADMIN"), Link("chat"),
                 Fetch("message"), Check("sides"), Check("unpinned")>>)
  BY DEF Lists, plan_pin_message, Begin, Address, Named
<1> HIDE DEF p
<1>2. Plans(p, {Allow("chat", "ADMIN")}, {"chat", "text", "pinned"})
  BY <1>1 DEF Lists, Plans, ReadsInOrder, PolicyFirst, Reads, Contents,
              Teaches, RestsOn, Roles, Facets
<1> QED
  BY <1>2 DEF p

LEMMA PlanUnpinMessageSteps ==
  Plans(plan_unpin_message, {Allow("chat", "ADMIN")},
        {"chat", "text", "pinned"})
<1> DEFINE p == plan_unpin_message
<1> USE DEF Profile, Resolve, Allow, Link, Fetch, Check, Same
<1>1. Lists(p, <<Profile, Resolve("chat"), Allow("chat", "ADMIN"), Link("chat"),
                 Fetch("message"), Check("pinned")>>)
  BY DEF Lists, plan_unpin_message, Begin, Address, Named
<1> HIDE DEF p
<1>2. Plans(p, {Allow("chat", "ADMIN")}, {"chat", "text", "pinned"})
  BY <1>1 DEF Lists, Plans, ReadsInOrder, PolicyFirst, Reads, Contents,
              Teaches, RestsOn, Roles, Facets
<1> QED
  BY <1>2 DEF p

LEMMA PlanScheduleMessageSteps ==
  Plans(plan_schedule_message, {Allow("chat", "SEND")},
        {"chat", "time"})
<1> DEFINE p == plan_schedule_message
<1> USE DEF Profile, Resolve, Allow, Link, Fetch, Check, Same
<1>1. Lists(p, <<Profile, Fetch("time"), Check("time"), Resolve("chat"),
                 Allow("chat", "SEND"), Check("online")>>)
  BY DEF Lists, plan_schedule_message, Named
<1> HIDE DEF p
<1>2. Plans(p, {Allow("chat", "SEND")}, {"chat", "time"})
  BY <1>1 DEF Lists, Plans, ReadsInOrder, PolicyFirst, Reads, Contents,
              Teaches, RestsOn, Roles, Facets
<1> QED
  BY <1>2 DEF p

LEMMA PlanFolderAddSteps == Plans(plan_folder_add, {Allow("chat", "SEND")}, {"chat", "folder"})
<1> DEFINE p == plan_folder_add
<1> USE DEF Profile, Resolve, Allow, Link, Fetch, Check, Same
<1>1. Lists(p, <<Profile, Resolve("chat"), Allow("chat", "SEND"), Fetch("folder"),
                 Check("editable")>>)
  BY DEF Lists, plan_folder_add, Begin, Named
<1> HIDE DEF p
<1>2. Plans(p, {Allow("chat", "SEND")}, {"chat", "folder"})
  BY <1>1 DEF Lists, Plans, ReadsInOrder, PolicyFirst, Reads, Contents,
              Teaches, RestsOn, Roles, Facets
<1> QED
  BY <1>2 DEF p

-----------------------------------------------------------------------------
(* The cases of _verify, which compare it too.                              *)

LEMMA VerifyChatSteps == Verifies(verify_chat("SEND"), {Allow("chat", "SEND")}, {"chat"})
<1> DEFINE p == verify_chat("SEND")
<1> USE DEF Profile, Resolve, Allow, Link, Fetch, Check, Same
<1>1. Lists(p, <<Profile, Resolve("chat"), Allow("chat", "SEND"), Same("chat")>>)
  BY DEF Lists, verify_chat, Named
<1> HIDE DEF p
<1>2. Verifies(p, {Allow("chat", "SEND")}, {"chat"})
  BY <1>1 DEF Lists, Verifies, Plans, ReadsInOrder, PolicyFirst, Reads, Compares, Contents,
              Teaches, RestsOn, Roles, Facets
<1> QED
  BY <1>2 DEF p

LEMMA VerifyReplySteps == Verifies(verify_reply, {Allow("chat", "SEND")}, {"chat", "text"})
<1> DEFINE p == verify_reply
<1> USE DEF Profile, Resolve, Allow, Link, Fetch, Check, Same
<1>1. Lists(p, <<Profile, Resolve("chat"), Allow("chat", "SEND"), Link("chat"),
                 Same("chat"), Fetch("message"), Same("text")>>)
  BY DEF Lists, verify_reply, Address, Named
<1> HIDE DEF p
<1>2. Verifies(p, {Allow("chat", "SEND")}, {"chat", "text"})
  BY <1>1 DEF Lists, Verifies, Plans, ReadsInOrder, PolicyFirst, Reads, Compares, Contents,
              Teaches, RestsOn, Roles, Facets
<1> QED
  BY <1>2 DEF p

LEMMA VerifyFileSteps == Verifies(verify_file, {Allow("chat", "SEND")}, {"chat", "text", "file"})
<1> DEFINE p == verify_file
<1> USE DEF Profile, Resolve, Allow, Link, Fetch, Check, Same
<1>1. Lists(p, <<Profile, Resolve("chat"), Allow("chat", "SEND"), Same("chat"),
                 Fetch("file"), Same("file"), Fetch("message"), Same("text")>>)
  BY DEF Lists, verify_file, verify_chat, Named
<1> HIDE DEF p
<1>2. Verifies(p, {Allow("chat", "SEND")}, {"chat", "text", "file"})
  BY <1>1 DEF Lists, Verifies, Plans, ReadsInOrder, PolicyFirst, Reads, Compares, Contents,
              Teaches, RestsOn, Roles, Facets
<1> QED
  BY <1>2 DEF p

LEMMA VerifyOwnSteps == Verifies(verify_own, {Allow("chat", "SEND")}, {"chat", "text"})
<1> DEFINE p == verify_own
<1> USE DEF Profile, Resolve, Allow, Link, Fetch, Check, Same
<1>1. Lists(p, <<Profile, Resolve("chat"), Allow("chat", "SEND"), Link("chat"),
                 Same("chat"), Fetch("message"), Same("text"), Check("own")>>)
  BY DEF Lists, verify_own, verify_reply, Address, Named
<1> HIDE DEF p
<1>2. Verifies(p, {Allow("chat", "SEND")}, {"chat", "text"})
  BY <1>1 DEF Lists, Verifies, Plans, ReadsInOrder, PolicyFirst, Reads, Compares, Contents,
              Teaches, RestsOn, Roles, Facets
<1> QED
  BY <1>2 DEF p

LEMMA VerifyForwardSteps ==
  Verifies(verify_forward, {Allow("source", "READ_CHAT"), Allow("destination", "SEND")},
           {"source", "destination", "text"})
<1> DEFINE p == verify_forward
<1> USE DEF Profile, Resolve, Allow, Link, Fetch, Check, Same
<1>1. Lists(p, <<Profile, Resolve("source"), Allow("source", "READ_CHAT"), Link("source"),
                 Resolve("destination"), Allow("destination", "SEND"), Same("source"),
                 Same("destination"), Fetch("message"), Same("text")>>)
  BY DEF Lists, verify_forward, Address, Named
<1> HIDE DEF p
<1>2. Verifies(p, {Allow("source", "READ_CHAT"), Allow("destination", "SEND")},
          {"source", "destination", "text"})
  BY <1>1 DEF Lists, Verifies, Plans, ReadsInOrder, PolicyFirst, Reads, Compares, Contents,
              Teaches, RestsOn, Roles, Facets
<1> QED
  BY <1>2 DEF p

LEMMA VerifyJoinSteps == Verifies(verify_join, {Allow("chat", "JOIN")}, {"chat"})
<1> DEFINE p == verify_join
<1> USE DEF Profile, Resolve, Allow, Link, Fetch, Check, Same
<1>1. Lists(p, <<Profile, Resolve("chat"), Allow("chat", "JOIN"), Same("chat")>>)
  BY DEF Lists, verify_join, Named
<1> HIDE DEF p
<1>2. Verifies(p, {Allow("chat", "JOIN")}, {"chat"})
  BY <1>1 DEF Lists, Verifies, Plans, ReadsInOrder, PolicyFirst, Reads, Compares, Contents,
              Teaches, RestsOn, Roles, Facets
<1> QED
  BY <1>2 DEF p

LEMMA VerifyCreateSteps == Verifies(verify_create, {Allow("user", "ADMIN")}, {"user"})
<1> DEFINE p == verify_create
<1> USE DEF Profile, Resolve, Allow, Link, Fetch, Check, Same
<1>1. Lists(p, <<Profile, Check("groups"), Resolve("user"), Allow("user", "ADMIN"),
                 Same("user")>>)
  BY DEF Lists, verify_create, Named
<1> HIDE DEF p
<1>2. Verifies(p, {Allow("user", "ADMIN")}, {"user"})
  BY <1>1 DEF Lists, Verifies, Plans, ReadsInOrder, PolicyFirst, Reads, Compares, Contents,
              Teaches, RestsOn, Roles, Facets
<1> QED
  BY <1>2 DEF p

LEMMA VerifyMemberSteps ==
  Verifies(verify_member, {Allow("chat", "ADMIN"), Allow("user", "ADMIN")},
           {"chat", "user"})
<1> DEFINE p == verify_member
<1> USE DEF Profile, Resolve, Allow, Link, Fetch, Check, Same
<1>1. Lists(p, <<Profile, Resolve("chat"), Resolve("user"), Allow("chat", "ADMIN"),
                 Allow("user", "ADMIN"), Same("chat"), Same("user")>>)
  BY DEF Lists, verify_member, BothEnds
<1> HIDE DEF p
<1>2. Verifies(p, {Allow("chat", "ADMIN"), Allow("user", "ADMIN")}, {"chat", "user"})
  BY <1>1 DEF Lists, Verifies, Plans, ReadsInOrder, PolicyFirst, Reads, Compares, Contents,
              Teaches, RestsOn, Roles, Facets
<1> QED
  BY <1>2 DEF p

LEMMA VerifyProfileSteps == Verifies(verify_profile, {}, {})
<1> DEFINE p == verify_profile
<1> USE DEF Profile, Resolve, Allow, Link, Fetch, Check, Same
<1>1. Lists(p, <<Profile, Check("profile")>>)
  BY DEF Lists, verify_profile
<1> HIDE DEF p
<1>2. Verifies(p, {}, {})
  BY <1>1 DEF Lists, Verifies, Plans, ReadsInOrder, PolicyFirst, Reads, Compares, Contents,
              Teaches, RestsOn, Roles, Facets
<1> QED
  BY <1>2 DEF p

LEMMA VerifyPersonSteps == Verifies(verify_person, {Allow("user", "ADMIN")}, {"user"})
<1> DEFINE p == verify_person
<1> USE DEF Profile, Resolve, Allow, Link, Fetch, Check, Same
<1>1. Lists(p, <<Profile, Resolve("user"), Allow("user", "ADMIN"), Check("person"),
                 Same("user")>>)
  BY DEF Lists, verify_person, Named
<1> HIDE DEF p
<1>2. Verifies(p, {Allow("user", "ADMIN")}, {"user"})
  BY <1>1 DEF Lists, Verifies, Plans, ReadsInOrder, PolicyFirst, Reads, Compares, Contents,
              Teaches, RestsOn, Roles, Facets
<1> QED
  BY <1>2 DEF p

LEMMA VerifyTitleSteps == Verifies(verify_title, {Allow("chat", "ADMIN")}, {"chat", "title"})
<1> DEFINE p == verify_title
<1> USE DEF Profile, Resolve, Allow, Link, Fetch, Check, Same
<1>1. Lists(p, <<Profile, Resolve("chat"), Allow("chat", "ADMIN"), Check("chat"),
                 Same("chat"), Same("title")>>)
  BY DEF Lists, verify_title, verify_setting, Named
<1> HIDE DEF p
<1>2. Verifies(p, {Allow("chat", "ADMIN")}, {"chat", "title"})
  BY <1>1 DEF Lists, Verifies, Plans, ReadsInOrder, PolicyFirst, Reads, Compares, Contents,
              Teaches, RestsOn, Roles, Facets
<1> QED
  BY <1>2 DEF p

LEMMA VerifyAboutSteps == Verifies(verify_about, {Allow("chat", "ADMIN")}, {"chat", "about"})
<1> DEFINE p == verify_about
<1> USE DEF Profile, Resolve, Allow, Link, Fetch, Check, Same
<1>1. Lists(p, <<Profile, Resolve("chat"), Allow("chat", "ADMIN"), Check("chat"),
                 Same("chat"), Fetch("about"), Same("about")>>)
  BY DEF Lists, verify_about, verify_setting, Named
<1> HIDE DEF p
<1>2. Verifies(p, {Allow("chat", "ADMIN")}, {"chat", "about"})
  BY <1>1 DEF Lists, Verifies, Plans, ReadsInOrder, PolicyFirst, Reads, Compares, Contents,
              Teaches, RestsOn, Roles, Facets
<1> QED
  BY <1>2 DEF p

LEMMA VerifyPhotoSteps ==
  Verifies(verify_photo, {Allow("chat", "ADMIN")},
           {"chat", "photo", "file"})
<1> DEFINE p == verify_photo
<1> USE DEF Profile, Resolve, Allow, Link, Fetch, Check, Same
<1>1. Lists(p, <<Profile, Resolve("chat"), Allow("chat", "ADMIN"), Check("chat"),
                 Same("chat"), Fetch("file"), Check("image"), Same("file"), Fetch("photo"),
                 Same("photo")>>)
  BY DEF Lists, verify_photo, verify_setting, Named
<1> HIDE DEF p
<1>2. Verifies(p, {Allow("chat", "ADMIN")}, {"chat", "photo", "file"})
  BY <1>1 DEF Lists, Verifies, Plans, ReadsInOrder, PolicyFirst, Reads, Compares, Contents,
              Teaches, RestsOn, Roles, Facets
<1> QED
  BY <1>2 DEF p

LEMMA VerifyReactSteps ==
  Verifies(verify_reaction("final"), {Allow("chat", "SEND")},
           {"chat", "text", "mine"})
<1> DEFINE p == verify_reaction("final")
<1> USE DEF Profile, Resolve, Allow, Link, Fetch, Check, Same
<1>1. Lists(p, <<Profile, Resolve("chat"), Allow("chat", "SEND"), Link("chat"),
                 Fetch("message"), Same("chat"), Same("text"), Same("mine"), Check("final")>>)
  BY DEF Lists, verify_reaction, verify_mark, Address, Named
<1> HIDE DEF p
<1>2. Verifies(p, {Allow("chat", "SEND")}, {"chat", "text", "mine"})
  BY <1>1 DEF Lists, Verifies, Plans, ReadsInOrder, PolicyFirst, Reads, Compares, Contents,
              Teaches, RestsOn, Roles, Facets
<1> QED
  BY <1>2 DEF p

LEMMA VerifyUnreactSteps ==
  Verifies(verify_reaction("remaining"), {Allow("chat", "SEND")},
           {"chat", "text", "mine"})
<1> DEFINE p == verify_reaction("remaining")
<1> USE DEF Profile, Resolve, Allow, Link, Fetch, Check, Same
<1>1. Lists(p, <<Profile, Resolve("chat"), Allow("chat", "SEND"), Link("chat"),
                 Fetch("message"), Same("chat"), Same("text"), Same("mine"),
                 Check("remaining")>>)
  BY DEF Lists, verify_reaction, verify_mark, Address, Named
<1> HIDE DEF p
<1>2. Verifies(p, {Allow("chat", "SEND")}, {"chat", "text", "mine"})
  BY <1>1 DEF Lists, Verifies, Plans, ReadsInOrder, PolicyFirst, Reads, Compares, Contents,
              Teaches, RestsOn, Roles, Facets
<1> QED
  BY <1>2 DEF p

LEMMA VerifyPinSteps == Verifies(verify_pin, {Allow("chat", "ADMIN")}, {"chat", "text", "pinned"})
<1> DEFINE p == verify_pin
<1> USE DEF Profile, Resolve, Allow, Link, Fetch, Check, Same
<1>1. Lists(p, <<Profile, Resolve("chat"), Allow("chat", "ADMIN"), Link("chat"),
                 Fetch("message"), Same("chat"), Same("text"), Same("pinned")>>)
  BY DEF Lists, verify_pin, verify_mark, Address, Named
<1> HIDE DEF p
<1>2. Verifies(p, {Allow("chat", "ADMIN")}, {"chat", "text", "pinned"})
  BY <1>1 DEF Lists, Verifies, Plans, ReadsInOrder, PolicyFirst, Reads, Compares, Contents,
              Teaches, RestsOn, Roles, Facets
<1> QED
  BY <1>2 DEF p

LEMMA VerifyScheduleSteps == Verifies(verify_schedule, {Allow("chat", "SEND")}, {"chat", "time"})
<1> DEFINE p == verify_schedule
<1> USE DEF Profile, Resolve, Allow, Link, Fetch, Check, Same
<1>1. Lists(p, <<Profile, Resolve("chat"), Allow("chat", "SEND"), Same("chat"),
                 Fetch("time"), Check("time")>>)
  BY DEF Lists, verify_schedule, verify_chat, Named
<1> HIDE DEF p
<1>2. Verifies(p, {Allow("chat", "SEND")}, {"chat", "time"})
  BY <1>1 DEF Lists, Verifies, Plans, ReadsInOrder, PolicyFirst, Reads, Compares, Contents,
              Teaches, RestsOn, Roles, Facets
<1> QED
  BY <1>2 DEF p

LEMMA VerifyFolderSteps == Verifies(verify_folder, {Allow("chat", "SEND")}, {"chat", "folder"})
<1> DEFINE p == verify_folder
<1> USE DEF Profile, Resolve, Allow, Link, Fetch, Check, Same
<1>1. Lists(p, <<Profile, Resolve("chat"), Allow("chat", "SEND"), Same("chat"),
                 Fetch("folder"), Same("folder"), Check("editable")>>)
  BY DEF Lists, verify_folder, verify_chat, Named
<1> HIDE DEF p
<1>2. Verifies(p, {Allow("chat", "SEND")}, {"chat", "folder"})
  BY <1>1 DEF Lists, Verifies, Plans, ReadsInOrder, PolicyFirst, Reads, Compares, Contents,
              Teaches, RestsOn, Roles, Facets
<1> QED
  BY <1>2 DEF p

-----------------------------------------------------------------------------
(* What each operation demands, and its two programs.                       *)

Demands(op) == {Allow(r, CapabilityOf(op, r)) : r \in RolesOf(op)}

\* The ends of each operation, and what they must be allowed.
LEMMA EndsOf ==
  /\ \A op \in {"send", "reply", "send_file", "edit", "delete", "mark_read", "react",
                "unreact", "schedule", "folder_add", "archive", "mute"} :
       RolesOf(op) = {"chat"} /\ Demands(op) = {Allow("chat", "SEND")}
  /\ \A op \in {"forward"} :
       /\ RolesOf(op) = {"source", "destination"}
       /\ Demands(op) = {Allow("source", "READ_CHAT"), Allow("destination", "SEND")}
  /\ \A op \in {"join", "leave"} :
       RolesOf(op) = {"chat"} /\ Demands(op) = {Allow("chat", "JOIN")}
  /\ \A op \in {"create", "block", "unblock"} :
       RolesOf(op) = {"user"} /\ Demands(op) = {Allow("user", "ADMIN")}
  /\ \A op \in {"invite", "promote", "ban", "unban", "kick", "restrict", "demote"} :
       /\ RolesOf(op) = {"chat", "user"}
       /\ Demands(op) = {Allow("chat", "ADMIN"), Allow("user", "ADMIN")}
  /\ \A op \in {"profile"} :
       RolesOf(op) = {} /\ Demands(op) = {}
  /\ \A op \in {"set_title", "set_about", "set_photo", "pin", "unpin"} :
       RolesOf(op) = {"chat"} /\ Demands(op) = {Allow("chat", "ADMIN")}
<1>1. \A op \in {"send", "reply", "send_file", "edit", "delete", "mark_read", "react",
                "unreact", "schedule", "folder_add", "archive", "mute"} :
       RolesOf(op) = {"chat"} /\ Demands(op) = {Allow("chat", "SEND")}
  <2> SUFFICES ASSUME NEW op \in {"send", "reply", "send_file", "edit", "delete",
                                      "mark_read", "react", "unreact", "schedule",
                                      "folder_add", "archive", "mute"}
               PROVE  RolesOf(op) = {"chat"} /\ Demands(op) = {Allow("chat", "SEND")}
    OBVIOUS
  <2>1. RolesOf(op) = {"chat"}
    BY DEF RolesOf
  <2>2. CapabilityOf(op, "chat") = "SEND"
    BY DEF CapabilityOf
  <2> QED
    BY <2>1, <2>2 DEF Demands
<1>2. \A op \in {"forward"} :
       /\ RolesOf(op) = {"source", "destination"}
       /\ Demands(op) = {Allow("source", "READ_CHAT"), Allow("destination", "SEND")}
  <2> SUFFICES ASSUME NEW op \in {"forward"}
               PROVE  /\ RolesOf(op) = {"source", "destination"}
                      /\ Demands(op) = {Allow("source", "READ_CHAT"), Allow("destination", "SEND")}
    OBVIOUS
  <2>1. RolesOf(op) = {"source", "destination"}
    BY DEF RolesOf
  <2>2. CapabilityOf(op, "source") = "READ_CHAT"
    BY DEF CapabilityOf
  <2>3. CapabilityOf(op, "destination") = "SEND"
    BY DEF CapabilityOf
  <2> QED
    BY <2>1, <2>2, <2>3 DEF Demands
<1>3. \A op \in {"join", "leave"} :
       RolesOf(op) = {"chat"} /\ Demands(op) = {Allow("chat", "JOIN")}
  <2> SUFFICES ASSUME NEW op \in {"join", "leave"}
               PROVE  RolesOf(op) = {"chat"} /\ Demands(op) = {Allow("chat", "JOIN")}
    OBVIOUS
  <2>1. RolesOf(op) = {"chat"}
    BY DEF RolesOf
  <2>2. CapabilityOf(op, "chat") = "JOIN"
    BY DEF CapabilityOf
  <2> QED
    BY <2>1, <2>2 DEF Demands
<1>4. \A op \in {"create", "block", "unblock"} :
       RolesOf(op) = {"user"} /\ Demands(op) = {Allow("user", "ADMIN")}
  <2> SUFFICES ASSUME NEW op \in {"create", "block", "unblock"}
               PROVE  RolesOf(op) = {"user"} /\ Demands(op) = {Allow("user", "ADMIN")}
    OBVIOUS
  <2>1. RolesOf(op) = {"user"}
    BY DEF RolesOf
  <2>2. CapabilityOf(op, "user") = "ADMIN"
    BY DEF CapabilityOf
  <2> QED
    BY <2>1, <2>2 DEF Demands
<1>5. \A op \in {"invite", "promote", "ban", "unban", "kick", "restrict", "demote"} :
       /\ RolesOf(op) = {"chat", "user"}
       /\ Demands(op) = {Allow("chat", "ADMIN"), Allow("user", "ADMIN")}
  <2> SUFFICES ASSUME NEW op \in {"invite", "promote", "ban", "unban", "kick",
                                      "restrict", "demote"}
               PROVE  /\ RolesOf(op) = {"chat", "user"}
                      /\ Demands(op) = {Allow("chat", "ADMIN"), Allow("user", "ADMIN")}
    OBVIOUS
  <2>1. RolesOf(op) = {"chat", "user"}
    BY DEF RolesOf
  <2>2. CapabilityOf(op, "chat") = "ADMIN"
    BY DEF CapabilityOf
  <2>3. CapabilityOf(op, "user") = "ADMIN"
    BY DEF CapabilityOf
  <2> QED
    BY <2>1, <2>2, <2>3 DEF Demands
<1>6. \A op \in {"profile"} :
       RolesOf(op) = {} /\ Demands(op) = {}
  <2> SUFFICES ASSUME NEW op \in {"profile"}
               PROVE  RolesOf(op) = {} /\ Demands(op) = {}
    OBVIOUS
  <2>1. RolesOf(op) = {}
    BY DEF RolesOf
  <2> QED
    BY <2>1 DEF Demands
<1>7. \A op \in {"set_title", "set_about", "set_photo", "pin", "unpin"} :
       RolesOf(op) = {"chat"} /\ Demands(op) = {Allow("chat", "ADMIN")}
  <2> SUFFICES ASSUME NEW op \in {"set_title", "set_about", "set_photo", "pin", "unpin"}
               PROVE  RolesOf(op) = {"chat"} /\ Demands(op) = {Allow("chat", "ADMIN")}
    OBVIOUS
  <2>1. RolesOf(op) = {"chat"}
    BY DEF RolesOf
  <2>2. CapabilityOf(op, "chat") = "ADMIN"
    BY DEF CapabilityOf
  <2> QED
    BY <2>1, <2>2 DEF Demands
<1> QED
  BY <1>1, <1>2, <1>3, <1>4, <1>5, <1>6, <1>7

\* What each operation records of them and beyond.
LEMMA ReviewedOf ==
  /\ \A op \in {"send", "mark_read", "join", "leave", "archive", "mute"} :
       RolesOf(op) \cup Recorded(op) = {"chat"}
  /\ \A op \in {"reply", "edit", "delete"} :
       RolesOf(op) \cup Recorded(op) = {"chat", "text"}
  /\ \A op \in {"send_file"} :
       RolesOf(op) \cup Recorded(op) = {"chat", "text", "file"}
  /\ \A op \in {"forward"} :
       RolesOf(op) \cup Recorded(op) = {"source", "destination", "text"}
  /\ \A op \in {"create", "block", "unblock"} :
       RolesOf(op) \cup Recorded(op) = {"user"}
  /\ \A op \in {"invite", "promote", "ban", "unban", "kick", "restrict", "demote"} :
       RolesOf(op) \cup Recorded(op) = {"chat", "user"}
  /\ \A op \in {"profile"} :
       RolesOf(op) \cup Recorded(op) = {}
  /\ \A op \in {"set_title"} :
       RolesOf(op) \cup Recorded(op) = {"chat", "title"}
  /\ \A op \in {"set_about"} :
       RolesOf(op) \cup Recorded(op) = {"chat", "about"}
  /\ \A op \in {"set_photo"} :
       RolesOf(op) \cup Recorded(op) = {"chat", "photo", "file"}
  /\ \A op \in {"react", "unreact"} :
       RolesOf(op) \cup Recorded(op) = {"chat", "text", "mine"}
  /\ \A op \in {"pin", "unpin"} :
       RolesOf(op) \cup Recorded(op) = {"chat", "text", "pinned"}
  /\ RolesOf("schedule") \cup Recorded("schedule") \subseteq {"chat", "time"}
  /\ \A op \in {"folder_add"} :
       RolesOf(op) \cup Recorded(op) = {"chat", "folder"}
<1>1. \A op \in {"send", "mark_read", "join", "leave", "archive", "mute"} :
       RolesOf(op) \cup Recorded(op) = {"chat"}
  BY EndsOf DEF Recorded
<1>2. \A op \in {"reply", "edit", "delete"} :
       RolesOf(op) \cup Recorded(op) = {"chat", "text"}
  BY EndsOf DEF Recorded
<1>3. \A op \in {"send_file"} :
       RolesOf(op) \cup Recorded(op) = {"chat", "text", "file"}
  BY EndsOf DEF Recorded
<1>4. \A op \in {"forward"} :
       RolesOf(op) \cup Recorded(op) = {"source", "destination", "text"}
  BY EndsOf DEF Recorded
<1>5. \A op \in {"create", "block", "unblock"} :
       RolesOf(op) \cup Recorded(op) = {"user"}
  BY EndsOf DEF Recorded
<1>6. \A op \in {"invite", "promote", "ban", "unban", "kick", "restrict", "demote"} :
       RolesOf(op) \cup Recorded(op) = {"chat", "user"}
  BY EndsOf DEF Recorded
<1>7. \A op \in {"profile"} :
       RolesOf(op) \cup Recorded(op) = {}
  BY EndsOf DEF Recorded
<1>8. \A op \in {"set_title"} :
       RolesOf(op) \cup Recorded(op) = {"chat", "title"}
  BY EndsOf DEF Recorded
<1>9. \A op \in {"set_about"} :
       RolesOf(op) \cup Recorded(op) = {"chat", "about"}
  BY EndsOf DEF Recorded
<1>10. \A op \in {"set_photo"} :
       RolesOf(op) \cup Recorded(op) = {"chat", "photo", "file"}
  BY EndsOf DEF Recorded
<1>11. \A op \in {"react", "unreact"} :
       RolesOf(op) \cup Recorded(op) = {"chat", "text", "mine"}
  BY EndsOf DEF Recorded
<1>12. \A op \in {"pin", "unpin"} :
       RolesOf(op) \cup Recorded(op) = {"chat", "text", "pinned"}
  BY EndsOf DEF Recorded
<1>13. RolesOf("schedule") \cup Recorded("schedule") \subseteq {"chat", "time"}
  BY DEF RolesOf, Recorded
<1>14. \A op \in {"folder_add"} :
       RolesOf(op) \cup Recorded(op) = {"chat", "folder"}
  BY EndsOf DEF Recorded
<1> QED
  BY <1>1, <1>2, <1>3, <1>4, <1>5, <1>6, <1>7, <1>8, <1>9, <1>10, <1>11, <1>12, <1>13, <1>14

\* A program that reads and compares more, reads and compares less.
LEMMA Fewer ==
  ASSUME NEW p, NEW needs, NEW items, NEW fewer, fewer \subseteq items
  PROVE  /\ Plans(p, needs, items) => Plans(p, needs, fewer)
         /\ Verifies(p, needs, items) => Verifies(p, needs, fewer)
BY DEF Plans, Verifies, Reads, Compares

\* Every planner asks the policy first and reads what it records.
LEMMA PlannersPlan ==
  ASSUME NEW op \in DOMAIN Planners
  PROVE  Plans(Planners[op], Demands(op), RolesOf(op) \cup Recorded(op))
<1>1. CASE op = "send"
  BY <1>1, PlanSendMessageSteps, EndsOf, ReviewedOf DEF Planners
<1>2. CASE op = "reply"
  BY <1>2, PlanReplyMessageSteps, EndsOf, ReviewedOf DEF Planners
<1>3. CASE op = "send_file"
  BY <1>3, PlanSendFileSteps, EndsOf, ReviewedOf DEF Planners
<1>4. CASE op = "edit"
  BY <1>4, PlanEditMessageSteps, EndsOf, ReviewedOf DEF Planners
<1>5. CASE op = "delete"
  BY <1>5, PlanEditMessageSteps, EndsOf, ReviewedOf
     DEF Planners, plan_delete_message, plan_edit_message
<1>6. CASE op = "forward"
  BY <1>6, PlanForwardMessageSteps, EndsOf, ReviewedOf DEF Planners
<1>7. CASE op = "mark_read"
  BY <1>7, PlanSendMessageSteps, EndsOf, ReviewedOf
     DEF Planners, plan_mark_read, plan_send_message
<1>8. CASE op = "join"
  BY <1>8, PlanJoinChatSteps, EndsOf, ReviewedOf DEF Planners
<1>9. CASE op = "leave"
  BY <1>9, PlanJoinChatSteps, EndsOf, ReviewedOf
     DEF Planners, plan_leave_chat, plan_join_chat
<1>10. CASE op = "create"
  BY <1>10, PlanCreateGroupSteps, EndsOf, ReviewedOf DEF Planners
<1>11. CASE op = "invite"
  BY <1>11, PlanInviteUserSteps, EndsOf, ReviewedOf DEF Planners
<1>12. CASE op = "promote"
  BY <1>12, PlanInviteUserSteps, EndsOf, ReviewedOf
     DEF Planners, plan_promote_admin, plan_invite_user
<1>13. CASE op = "ban"
  BY <1>13, PlanInviteUserSteps, EndsOf, ReviewedOf
     DEF Planners, plan_ban_user, plan_invite_user, _moderation_target
<1>14. CASE op = "unban"
  BY <1>14, PlanUnbanUserSteps, EndsOf, ReviewedOf DEF Planners
<1>15. CASE op = "kick"
  BY <1>15, PlanInviteUserSteps, EndsOf, ReviewedOf
     DEF Planners, plan_kick_user, plan_invite_user, _moderation_target
<1>16. CASE op = "restrict"
  BY <1>16, PlanUnbanUserSteps, EndsOf, ReviewedOf
     DEF Planners, plan_restrict_user, plan_unban_user
<1>17. CASE op = "demote"
  BY <1>17, PlanInviteUserSteps, EndsOf, ReviewedOf
     DEF Planners, plan_demote_admin, plan_invite_user, _moderation_target
<1>18. CASE op = "profile"
  BY <1>18, PlanSetProfileSteps, EndsOf, ReviewedOf DEF Planners
<1>19. CASE op = "block"
  BY <1>19, PlanBlockUserSteps, EndsOf, ReviewedOf DEF Planners
<1>20. CASE op = "unblock"
  BY <1>20, PlanBlockUserSteps, EndsOf, ReviewedOf
     DEF Planners, plan_unblock_user, plan_block_user
<1>21. CASE op = "set_title"
  BY <1>21, PlanSetChatTitleSteps, EndsOf, ReviewedOf DEF Planners
<1>22. CASE op = "set_about"
  BY <1>22, PlanSetChatAboutSteps, EndsOf, ReviewedOf DEF Planners
<1>23. CASE op = "set_photo"
  BY <1>23, PlanSetChatPhotoSteps, EndsOf, ReviewedOf DEF Planners
<1>24. CASE op = "react"
  BY <1>24, PlanReactMessageSteps, EndsOf, ReviewedOf DEF Planners
<1>25. CASE op = "unreact"
  BY <1>25, PlanUnreactMessageSteps, EndsOf, ReviewedOf DEF Planners
<1>26. CASE op = "pin"
  BY <1>26, PlanPinMessageSteps, EndsOf, ReviewedOf DEF Planners
<1>27. CASE op = "unpin"
  BY <1>27, PlanUnpinMessageSteps, EndsOf, ReviewedOf DEF Planners
<1>28. CASE op = "schedule"
  <2>1. Planners[op] = plan_schedule_message
    BY <1>28 DEF Planners
  <2>2. /\ Demands(op) = {Allow("chat", "SEND")}
        /\ RolesOf(op) \cup Recorded(op) \subseteq {"chat", "time"}
    BY <1>28, EndsOf, ReviewedOf
  <2> QED
    BY <2>1, <2>2, PlanScheduleMessageSteps, Fewer
<1>29. CASE op = "folder_add"
  BY <1>29, PlanFolderAddSteps, EndsOf, ReviewedOf DEF Planners
<1>30. CASE op = "archive"
  BY <1>30, PlanSendMessageSteps, EndsOf, ReviewedOf
     DEF Planners, plan_archive_chat, plan_send_message
<1>31. CASE op = "mute"
  BY <1>31, PlanSendMessageSteps, EndsOf, ReviewedOf
     DEF Planners, plan_mute_chat, plan_send_message
<1> QED
  BY <1>1, <1>2, <1>3, <1>4, <1>5, <1>6, <1>7, <1>8, <1>9, <1>10, <1>11, <1>12, <1>13,
     <1>14, <1>15, <1>16, <1>17, <1>18, <1>19, <1>20, <1>21, <1>22, <1>23, <1>24, <1>25,
     <1>26, <1>27, <1>28, <1>29, <1>30, <1>31 DEF Planners

\* Every case of _verify does so too, and compares it all with the plan.
LEMMA VerifiersVerify ==
  ASSUME NEW op \in DOMAIN Planners
  PROVE  Verifies(Verifiers[op], Demands(op), RolesOf(op) \cup Recorded(op))
<1>1. CASE op = "send"
  BY <1>1, VerifyChatSteps, EndsOf, ReviewedOf DEF Verifiers
<1>2. CASE op = "reply"
  BY <1>2, VerifyReplySteps, EndsOf, ReviewedOf DEF Verifiers
<1>3. CASE op = "send_file"
  BY <1>3, VerifyFileSteps, EndsOf, ReviewedOf DEF Verifiers
<1>4. CASE op = "edit"
  BY <1>4, VerifyOwnSteps, EndsOf, ReviewedOf DEF Verifiers
<1>5. CASE op = "delete"
  BY <1>5, VerifyOwnSteps, EndsOf, ReviewedOf DEF Verifiers
<1>6. CASE op = "forward"
  BY <1>6, VerifyForwardSteps, EndsOf, ReviewedOf DEF Verifiers
<1>7. CASE op = "mark_read"
  BY <1>7, VerifyChatSteps, EndsOf, ReviewedOf DEF Verifiers
<1>8. CASE op = "join"
  BY <1>8, VerifyJoinSteps, EndsOf, ReviewedOf DEF Verifiers
<1>9. CASE op = "leave"
  BY <1>9, VerifyJoinSteps, EndsOf, ReviewedOf
     DEF Verifiers, verify_leave, verify_join, verify_chat
<1>10. CASE op = "create"
  BY <1>10, VerifyCreateSteps, EndsOf, ReviewedOf DEF Verifiers
<1>11. CASE op = "invite"
  BY <1>11, VerifyMemberSteps, EndsOf, ReviewedOf DEF Verifiers
<1>12. CASE op = "promote"
  BY <1>12, VerifyMemberSteps, EndsOf, ReviewedOf DEF Verifiers
<1>13. CASE op = "ban"
  BY <1>13, VerifyMemberSteps, EndsOf, ReviewedOf DEF Verifiers
<1>14. CASE op = "unban"
  BY <1>14, VerifyMemberSteps, EndsOf, ReviewedOf DEF Verifiers
<1>15. CASE op = "kick"
  BY <1>15, VerifyMemberSteps, EndsOf, ReviewedOf DEF Verifiers
<1>16. CASE op = "restrict"
  BY <1>16, VerifyMemberSteps, EndsOf, ReviewedOf DEF Verifiers
<1>17. CASE op = "demote"
  BY <1>17, VerifyMemberSteps, EndsOf, ReviewedOf DEF Verifiers
<1>18. CASE op = "profile"
  BY <1>18, VerifyProfileSteps, EndsOf, ReviewedOf DEF Verifiers
<1>19. CASE op = "block"
  BY <1>19, VerifyPersonSteps, EndsOf, ReviewedOf DEF Verifiers
<1>20. CASE op = "unblock"
  BY <1>20, VerifyPersonSteps, EndsOf, ReviewedOf DEF Verifiers
<1>21. CASE op = "set_title"
  BY <1>21, VerifyTitleSteps, EndsOf, ReviewedOf DEF Verifiers
<1>22. CASE op = "set_about"
  BY <1>22, VerifyAboutSteps, EndsOf, ReviewedOf DEF Verifiers
<1>23. CASE op = "set_photo"
  BY <1>23, VerifyPhotoSteps, EndsOf, ReviewedOf DEF Verifiers
<1>24. CASE op = "react"
  BY <1>24, VerifyReactSteps, EndsOf, ReviewedOf DEF Verifiers
<1>25. CASE op = "unreact"
  BY <1>25, VerifyUnreactSteps, EndsOf, ReviewedOf DEF Verifiers
<1>26. CASE op = "pin"
  BY <1>26, VerifyPinSteps, EndsOf, ReviewedOf DEF Verifiers
<1>27. CASE op = "unpin"
  BY <1>27, VerifyPinSteps, EndsOf, ReviewedOf DEF Verifiers
<1>28. CASE op = "schedule"
  <2>1. Verifiers[op] = verify_schedule
    BY <1>28 DEF Verifiers
  <2>2. /\ Demands(op) = {Allow("chat", "SEND")}
        /\ RolesOf(op) \cup Recorded(op) \subseteq {"chat", "time"}
    BY <1>28, EndsOf, ReviewedOf
  <2> QED
    BY <2>1, <2>2, VerifyScheduleSteps, Fewer
<1>29. CASE op = "folder_add"
  BY <1>29, VerifyFolderSteps, EndsOf, ReviewedOf DEF Verifiers
<1>30. CASE op = "archive"
  BY <1>30, VerifyChatSteps, EndsOf, ReviewedOf DEF Verifiers, verify_quiet, verify_chat
<1>31. CASE op = "mute"
  BY <1>31, VerifyChatSteps, EndsOf, ReviewedOf DEF Verifiers, verify_quiet, verify_chat
<1> QED
  BY <1>1, <1>2, <1>3, <1>4, <1>5, <1>6, <1>7, <1>8, <1>9, <1>10, <1>11, <1>12, <1>13,
     <1>14, <1>15, <1>16, <1>17, <1>18, <1>19, <1>20, <1>21, <1>22, <1>23, <1>24, <1>25,
     <1>26, <1>27, <1>28, <1>29, <1>30, <1>31 DEF Planners

-----------------------------------------------------------------------------
(* What is true of every state.                                             *)

Items == Roles \cup Facets

\* The peers there are, of the kind they have, and an invite.
Visible == {k \in Peer : k.kind = IF k.id \in Ids THEN KindOf[k.id] ELSE "group"}

\* What x may be, when it is there.
Sort(x) == IF x \in Roles THEN Visible ELSE Values[x]

\* The program whose steps were passed, and how many were.
Behind == IF phase \in {"planning", "pending"} THEN Planners[request.op] ELSE Verifiers[request.op]
Passed == IF phase \in {"planning", "verifying"} THEN at - 1 ELSE Len(Behind)

\* What a step that was passed asked for is still so of what was seen.
Holds(step) ==
  /\ step = Profile => loaded.profile = "plan"
  /\ \A r \in Roles, cap \in PeerCapabilities :
       step = Allow(r, cap) => Allowed(loaded, cap, seen[r])
  /\ step = Check("profile") => MayChangeProfile(loaded)
  /\ step = Check("time") => require_a_reachable_time
  /\ \A x \in Items : /\ step = Same(x) => phase \in {"planning", "pending"} \/ IsSame(x)
                      /\ Teaches(step, x) => seen[x] \in Sort(x)

\* Everything seen was read by one of the steps behind, and they all hold of it.
Traced ==
  phase # "refused" =>
    /\ \A i \in 1 .. Passed : Holds(Behind[i])
    /\ \A x \in Items : seen[x] # None => \E i \in 1 .. Passed : Teaches(Behind[i], x)

\* A plan records things of the right sort, and a time that was still ahead.
Noted ==
  phase \in {"pending", "verifying", "executing", "sent"} =>
    \A x \in Reviewed : plan[x] \in Sort(x) /\ (x = "time" => plan[x] = "ahead")

\* Of a folder only the id is compared.
SeenAsRecorded(x) ==
  IF x = "folder" THEN seen[x].id = plan[x].id ELSE seen[x] = plan[x]

\* Whatever is as recorded is held, and so is what was read since and found as recorded.
Caught ==
  /\ phase \in {"verifying", "executing"} => \A x \in Reviewed : AsRecorded(x) => x \in held
  /\ phase \in {"verifying", "executing", "sent"} =>
       \A x \in Reviewed :
         (\E i \in 1 .. Passed : Teaches(Behind[i], x)) /\ SeenAsRecorded(x) => x \in held

\* The chats still in the folder are in the copy that will replace it.
FolderKept ==
  request.op = "folder_add" =>
    /\ phase \in {"executing", "sent"} => stays \subseteq world["folder"].members
    /\ phase = "executing" /\ at > 1 => stays \subseteq seen["folder"].members

\* What PolicyComesFirst says of what was seen.
PolicyKept ==
  /\ \A r \in Roles : seen[r] # None => loaded.profile = "plan"
  /\ (\E f \in {"text", "folder", "about", "photo"} : seen[f] # None) => Judged

AtRest == phase \notin {"planning", "verifying", "executing"} => at = 1

Inv == /\ TypeOK /\ Traced /\ Noted /\ Caught /\ FolderKept /\ AtRest
       /\ phase = "refused" => PolicyKept

-----------------------------------------------------------------------------
\* What is asked for has targets that may be there.
LEMMA RequestTypes ==
  ASSUME TypeOK
  PROVE  /\ request \in Requests /\ request.op \in DOMAIN Planners /\ request.inside \in Ids
         /\ \A r \in Roles :
              request[r] \in Ids \cup Names \cup IF request.op = "join" THEN {Invite} ELSE {}
BY RequestAssumption DEF TypeOK

\* An entity has the kind it has, and a name that is its own; an invite has none of the two.
LEMMA PeersAreVisible ==
  ASSUME TypeOK, NEW id \in Ids \cup {None}
  PROVE  PeerOf(id) = None \/ PeerOf(id) \in Visible
<1>1. NameOf(id) \in Names \cup {None}
  BY DEF NameOf
<1>2. CASE id = None
  BY <1>2 DEF PeerOf
<1>3. CASE id \in Ids
  <2>1. PeerOf(id) = [id |-> id, kind |-> KindOf[id], name |-> NameOf(id)]
    BY <1>3, ReviewAssumption DEF PeerOf
  <2>2. KindOf[id] \in Kinds
    BY <1>3, ReviewAssumption
  <2> QED
    BY <1>1, <1>3, <2>1, <2>2 DEF Visible, Peer
<1> QED
  BY <1>2, <1>3

\* What a target leads to has the kind it has, and a name.
LEMMA FoundIsVisible ==
  ASSUME TypeOK, NEW r \in Roles
  PROVE  Found(r) = None \/ Found(r) \in Visible
<1>1. \A target \in Ids \cup Names : reference(target) = None \/ reference(target) \in Visible
  <2>1. \A n \in Names : holder[n] \in Ids \cup {None}
    BY DEF TypeOK
  <2> QED
    BY <2>1, PeersAreVisible DEF reference
<1>2. [id |-> NoId, kind |-> "group", name |-> Invite] \in Visible
  BY RequestAssumption DEF Visible, Peer, Kinds
<1>3. CASE request.op = "join"
  <2>1. Found(r) = resolve_join_target(request[r])
    BY <1>3 DEF Found
  <2>2. request[r] \in Ids \cup Names \cup {Invite}
    BY <1>3, RequestTypes
  <2>3. CASE request[r] = Invite
    BY <1>2, <2>1, <2>3, RequestTypes, PeersAreVisible DEF resolve_join_target
  <2>4. CASE request[r] # Invite
    BY <1>1, <2>1, <2>2, <2>4 DEF resolve_join_target
  <2> QED
    BY <2>3, <2>4
<1>4. CASE request.op # "join"
  BY <1>1, <1>4, RequestTypes DEF Found
<1> QED
  BY <1>3, <1>4

\* The peers and the other things of a plan.
LEMMA ItemTypes ==
  /\ \A op \in DOMAIN Planners : RolesOf(op) \subseteq Roles
  /\ \A op \in DOMAIN Planners : Recorded(op) \subseteq Facets
  /\ Roles \cap Facets = {}
<1>1. \A op \in DOMAIN Planners : RolesOf(op) \subseteq Roles
  BY DEF RolesOf, Roles
<1>2. \A op \in DOMAIN Planners : Recorded(op) \subseteq Facets
  BY DEF Recorded, Facets
<1> QED
  BY <1>1, <1>2 DEF Roles, Facets

\* Whoever has the id and the name of a visible peer is that peer.
LEMMA SamePeer ==
  ASSUME NEW k \in Visible, NEW m \in Visible, k.id = m.id, k.name = m.name
  PROVE  k = m
BY DEF Visible, Peer

\* A comparison that was passed leaves no difference.
LEMMA SameMeansAsRecorded ==
  ASSUME NEW x \in Items, seen[x] \in Sort(x), plan[x] \in Sort(x), IsSame(x)
  PROVE  SeenAsRecorded(x)
<1>1. CASE x \in Roles
  <2>1. seen[x].id = plan[x].id /\ seen[x].name = plan[x].name
    BY <1>1 DEF IsSame, _check_peer, Roles
  <2> QED
    BY <1>1, <2>1, SamePeer, ItemTypes DEF Sort, SeenAsRecorded, Facets
<1>2. CASE x = "text"
  <2>1. /\ seen[x].body = plan[x].body /\ seen[x].own = plan[x].own
        /\ seen[x].media = plan[x].media
    BY <1>2 DEF IsSame, _check_messages, Roles
  <2>2. seen[x] \in Texts /\ plan[x] \in Texts
    BY <1>2 DEF Sort, Values, Roles
  <2>3. \A m \in Texts : m = [body |-> m.body, media |-> m.media, own |-> m.own]
    BY DEF Texts, NoMessage
  <2>4. seen[x] = plan[x]
    BY <2>1, <2>2, <2>3
  <2> QED
    BY <1>2, <2>4 DEF SeenAsRecorded
<1>3. CASE x = "folder"
  BY <1>3 DEF IsSame, SeenAsRecorded, Roles
<1>4. CASE x \in Facets \ {"text", "folder"}
  BY <1>4 DEF IsSame, SeenAsRecorded, Roles, Facets
<1> QED
  BY <1>1, <1>2, <1>3, <1>4 DEF Items

-----------------------------------------------------------------------------
\* So are the programs of this request.
LEMMA BehindIsSound ==
  ASSUME TypeOK
  PROVE  /\ Behind = Planners[request.op] =>
              Plans(Behind, Demands(request.op), Reviewed)
         /\ Behind = Verifiers[request.op] =>
              Verifies(Behind, Demands(request.op), Reviewed)
         /\ Behind \in {Planners[request.op], Verifiers[request.op]}
         /\ ReadsInOrder(Behind) /\ PolicyFirst(Behind, Demands(request.op))
BY RequestTypes, PlannersPlan, VerifiersVerify DEF Behind, Reviewed, Verifies, Plans

\* The program being run is the one whose steps are counted, or what _execute does.
LEMMA RunningProgram ==
  ASSUME TypeOK
  PROVE  /\ phase \in {"planning", "verifying"} => Program = Behind
         /\ phase \notin {"planning", "verifying"} => Program = Executors(request.op)
BY DEF Program, Behind

LEMMA ExecutorSteps ==
  ASSUME NEW op \in DOMAIN Planners
  PROVE  \/ /\ op = "folder_add" /\ Len(Executors(op)) = 2 /\ DOMAIN Executors(op) = 1 .. 2
            /\ Executors(op)[1] = Fetch("folder") /\ Executors(op)[2] = Check("editable")
         \/ /\ op # "folder_add" /\ Len(Executors(op)) = 1 /\ DOMAIN Executors(op) = 1 .. 1
            /\ Executors(op)[1] = Check("banlist")
         \/ /\ op # "folder_add" /\ Len(Executors(op)) = 0
BY DEF Executors, Fetch, Check

\* The steps behind hold in what was seen, and everything seen was read by one of them.
LEMMA PolicyIsKept ==
  ASSUME TypeOK, Traced, phase # "refused"
  PROVE  /\ PolicyKept
         /\ phase \in {"pending", "executing", "sent"} => Judged
<1> DEFINE p == Behind
<1>1. /\ \A i \in 1 .. Passed : Holds(p[i])
      /\ \A x \in Items : seen[x] # None => \E i \in 1 .. Passed : Teaches(p[i], x)
  BY DEF Traced
<1>2. ReadsInOrder(p) /\ PolicyFirst(p, Demands(request.op))
  BY BehindIsSound
<1>3. Len(p) \in Nat /\ DOMAIN p = 1 .. Len(p)
  BY <1>2 DEF ReadsInOrder
<1>8. Passed \in Nat /\ Passed <= Len(p)
  BY <1>3, RunningProgram DEF TypeOK, Passed
<1>9. phase \in {"pending", "executing", "sent"} => Passed = Len(p)
  BY DEF Passed
<1> HIDE DEF p
<1>0. 1 .. Passed \subseteq DOMAIN p
  BY <1>3, <1>8
<1>4. ASSUME NEW r \in RolesOf(request.op),
             NEW i \in 1 .. Passed, p[i] = Allow(r, CapabilityOf(request.op, r))
      PROVE  Promised(loaded, CapabilityOf(request.op, r), seen[r])
  <2>1. r \in Roles /\ CapabilityOf(request.op, r) \in PeerCapabilities
    BY RequestTypes, ItemTypes
       DEF CapabilityOf, PeerCapabilities, ReadCapabilities, WriteCapabilities
  <2>2. Allowed(loaded, CapabilityOf(request.op, r), seen[r])
    BY <1>1, <1>4, <2>1 DEF Holds
  <2>3. PICK j \in 1 .. i - 1 : p[j] = Resolve(r)
    <3>1. p[i][1] = "allow" /\ p[i][2] = r
      BY <1>4 DEF Allow
    <3>2. i \in DOMAIN p
      BY <1>0
    <3> QED
      BY <1>2, <3>1, <3>2 DEF PolicyFirst
  <2>4. j \in 1 .. Passed /\ Teaches(p[j], r) /\ r \in Items
    BY <1>8, <2>1, <2>3 DEF Teaches, Items
  <2>5. seen[r] \in Visible
    BY <1>1, <2>1, <2>4 DEF Holds, Sort
  <2>6. seen[r].kind \in Kinds /\ seen[r].id # None
    BY <2>5, ReviewAssumption, RequestAssumption DEF Visible, Peer
  <2> QED
    BY <2>1, <2>2, <2>6, KernelKeepsItsPromise
<1>5. ASSUME NEW r \in Roles, seen[r] # None PROVE loaded.profile = "plan"
  <2>1. PICK i \in 1 .. Passed : Teaches(p[i], r)
    BY <1>1, <1>5 DEF Items
  <2>2. p[i][1] = "resolve"
    BY <2>1 DEF Teaches, Resolve, Fetch, Roles
  <2>4. i \in DOMAIN p
    BY <1>0
  <2>3. PICK j \in 1 .. i - 1 : p[j] = Profile
    BY <1>2, <2>2, <2>4 DEF PolicyFirst
  <2>5. j \in 1 .. Passed
    BY <1>8
  <2> QED
    BY <1>1, <2>3, <2>5 DEF Holds
<1>6. ASSUME NEW f \in {"text", "folder", "about", "photo"}, seen[f] # None PROVE Judged
  <2>1. PICK i \in 1 .. Passed : Teaches(p[i], f)
    BY <1>1, <1>6 DEF Items, Facets
  <2>2. p[i] \in Contents /\ i \in DOMAIN p
    <3>1. f \notin Roles /\ f # "title"
      BY DEF Roles
    <3>2. p[i] \in {Fetch("message"), Fetch(f)} /\ (f = "text" => p[i] = Fetch("message"))
      BY <2>1, <3>1 DEF Teaches
    <3> QED
      BY <1>0, <3>2 DEF Contents
  <2>3. ASSUME NEW r \in RolesOf(request.op)
        PROVE  \E j \in 1 .. Passed : p[j] = Allow(r, CapabilityOf(request.op, r))
    <3>1. PICK j \in 1 .. i - 1 : p[j] = Allow(r, CapabilityOf(request.op, r))
      BY <1>2, <2>2 DEF PolicyFirst, Demands
    <3> QED
      BY <1>0, <1>8, <3>1
  <2> QED
    BY <1>4, <2>3 DEF Judged
<1>7. ASSUME phase \in {"pending", "executing", "sent"} PROVE Judged
  <2>1. ASSUME NEW r \in RolesOf(request.op)
        PROVE  \E j \in 1 .. Passed : p[j] = Allow(r, CapabilityOf(request.op, r))
    BY <1>2, <1>3, <1>7, <1>9 DEF PolicyFirst, Demands
  <2> QED
    BY <1>4, <2>1 DEF Judged
<1> QED
  BY <1>5, <1>6, <1>7 DEF PolicyKept

-----------------------------------------------------------------------------
(* What changes meanwhile.                                                  *)

\* The words of a plan depend on the request alone.
LEMMA SameRequest ==
  ASSUME UNCHANGED request
  PROVE  /\ Reviewed' = Reviewed
         /\ phase' = phase => Program' = Program /\ Behind' = Behind
         /\ phase' = phase /\ at' = at => Passed' = Passed
BY DEF Reviewed, Recorded, Program, Executors, Behind, Passed

\* A step that held still does while nothing that it is about has changed.
LEMMA StillHolds ==
  ASSUME UNCHANGED <<request, loaded, phase, seen, plan>>, NEW step
  PROVE  Holds(step)' <=> Holds(step)
<1>1. require_a_reachable_time' <=> require_a_reachable_time
  BY DEF require_a_reachable_time
<1>2. ASSUME NEW x PROVE IsSame(x)' <=> IsSame(x)
  BY DEF IsSame, _check_peer, _check_messages
<1>3. ASSUME NEW x PROVE (seen'[x] \in Sort(x)) <=> (seen[x] \in Sort(x))
  OBVIOUS
<1> QED
  BY <1>1, <1>2, <1>3 DEF Holds, Sort

\* The world, the names and the configuration may change at any moment.
LEMMA ChangedKeepsInv ==
  ASSUME Inv, Changed, holder' \in [Names -> Ids \cup {None}], member' \in BOOLEAN,
         config' \in Configs, DOMAIN world' = Facets, \A f \in Facets : world'[f] \in Values[f]
  PROVE  Inv'
<1>1. /\ UNCHANGED <<request, loaded, phase, at, seen, plan>>
      /\ stays' \subseteq stays /\ stays' \subseteq world'["folder"].members
      /\ phase \in {"verifying", "executing", "pending", "planning"}
      /\ changes' \in 0 .. MaxChanges
  BY ReviewAssumption DEF Changed, Inv, TypeOK
<1>2. Reviewed' = Reviewed /\ Program' = Program /\ Behind' = Behind /\ Passed' = Passed
  BY <1>1, SameRequest
<1>3. held \subseteq held' /\ held' \subseteq Reviewed
  BY DEF Changed, Inv, TypeOK
<1>4. phase \in {"verifying", "executing"} => \A x \in Reviewed : AsRecorded(x)' => x \in held'
  BY DEF Changed
<1>5. TypeOK'
  BY <1>1, <1>2, <1>3 DEF Inv, TypeOK, Changed
<1>6. Traced'
  BY <1>1, <1>2, StillHolds DEF Inv, Traced
<1>7. Noted'
  BY <1>1, <1>2 DEF Inv, Noted, Sort
<1>8. Caught'
  BY <1>1, <1>2, <1>3, <1>4 DEF Inv, Caught, SeenAsRecorded
<1>9. FolderKept'
  BY <1>1 DEF Inv, FolderKept
<1>10. AtRest'
  BY <1>1 DEF Inv, AtRest
<1> QED
  BY <1>1, <1>5, <1>6, <1>7, <1>8, <1>9, <1>10 DEF Inv

\* So does what each of them changes.
LEMMA EnvironmentKeepsInv ==
  ASSUME Inv,
         \/ \E n \in Names, id \in Ids \cup {None} : NameMoves(n, id)
         \/ Joins
         \/ \E f \in Facets : \E v \in Values[f] : WorldChanges(f, v)
         \/ \E c \in Configs : Reconfigure(c)
  PROVE  Inv'
<1>1. /\ holder \in [Names -> Ids \cup {None}] /\ member \in BOOLEAN /\ config \in Configs
      /\ DOMAIN world = Facets /\ \A f \in Facets : world[f] \in Values[f]
  BY DEF Inv, TypeOK
<1>2. ASSUME NEW n \in Names, NEW id \in Ids \cup {None}, NameMoves(n, id) PROVE Inv'
  BY <1>1, <1>2, ChangedKeepsInv DEF NameMoves
<1>3. CASE Joins
  BY <1>1, <1>3, ChangedKeepsInv DEF Joins
<1>4. ASSUME NEW f \in Facets, NEW v \in Values[f], WorldChanges(f, v) PROVE Inv'
  BY <1>1, <1>4, ChangedKeepsInv DEF WorldChanges
<1>5. ASSUME NEW c \in Configs, Reconfigure(c) PROVE Inv'
  BY <1>1, <1>5, ChangedKeepsInv DEF Reconfigure
<1> QED
  BY <1>2, <1>3, <1>4, <1>5

-----------------------------------------------------------------------------
(* Steps that read.                                                         *)

Fetched == {"message", "about", "photo", "file", "time", "folder"}

\* A program counts its steps from one.
LEMMA StepsAreCounted ==
  ASSUME TypeOK
  PROVE  /\ Len(Program) \in Nat /\ at \in 1 .. Len(Program) + 1
         /\ DOMAIN Program = 1 .. Len(Program) \/ Len(Program) = 0
         /\ phase \in {"planning", "verifying"} =>
              /\ Program = Behind /\ ReadsInOrder(Behind) /\ Passed = at - 1
              /\ DOMAIN Program = 1 .. Len(Program)
<1>1. phase \in {"planning", "verifying"} =>
        Program = Behind /\ ReadsInOrder(Behind) /\ Passed = at - 1
  BY RunningProgram, BehindIsSound DEF Passed
<1>2. phase \notin {"planning", "verifying"} => Program = Executors(request.op)
  BY RunningProgram
<1>3. at \in 1 .. Len(Program) + 1
  BY DEF TypeOK
<1>4. CASE phase \in {"planning", "verifying"}
  BY <1>1, <1>3, <1>4 DEF ReadsInOrder
<1>5. CASE phase \notin {"planning", "verifying"}
  BY <1>2, <1>3, <1>5, RequestTypes, ExecutorSteps
<1> QED
  BY <1>4, <1>5

\* A step that reads looks up a peer or fetches something; an execution reads a folder only.
LEMMA WhatIsRead ==
  ASSUME TypeOK, AtAStep, IsRead
  PROVE  \/ phase # "executing" /\ \E r \in Roles : Step = Resolve(r)
         \/ phase # "executing" /\ \E f \in Fetched : Step = Fetch(f)
         \/ /\ phase = "executing" /\ Step = Fetch("folder") /\ request.op = "folder_add"
            /\ at = 1
<1>1. at \in 1 .. Len(Program) /\ Len(Program) \in Nat
  BY StepsAreCounted DEF AtAStep
<1>2. CASE phase \in {"planning", "verifying"}
  <2>1. at \in DOMAIN Behind /\ Step = Behind[at] /\ ReadsInOrder(Behind)
    BY <1>1, <1>2, StepsAreCounted DEF Step
  <2>2. /\ Step[1] = "resolve" => Step[2] \in Roles /\ Step = Resolve(Step[2])
        /\ Step[1] = "fetch" => Step[2] \in Fetched /\ Step = Fetch(Step[2])
    BY <2>1 DEF ReadsInOrder, Fetched
  <2> QED
    BY <1>2, <2>2 DEF IsRead
<1>3. CASE phase = "executing"
  <2>1. Program = Executors(request.op) /\ request.op \in DOMAIN Planners
    BY <1>3, RunningProgram, RequestTypes
  <2>2. Step = Executors(request.op)[at] /\ at \in 1 .. Len(Executors(request.op))
    BY <1>1, <2>1 DEF Step
  <2>3. Step[1] # "check"
    BY DEF IsRead
  <2>4. at \in Nat /\ (at <= 1 => at = 1) /\ (at <= 2 => at \in {1, 2})
    BY <1>1
  <2> QED
    BY <1>3, <2>1, <2>2, <2>3, <2>4, ExecutorSteps DEF Check
<1> QED
  BY <1>2, <1>3 DEF AtAStep

\* Steps are told apart by their tags.
LEMMA Tags ==
  /\ \A r \in Roles : /\ Resolve(r)[1] = "resolve" /\ Resolve(r)[2] = r
                      /\ \A f : Resolve(r) # Fetch(f)
                      /\ \A s \in Roles : Resolve(r) = Resolve(s) => r = s
  /\ \A f \in Fetched : /\ Fetch(f)[1] = "fetch" /\ Fetch(f)[2] = f
                        /\ \A g \in Fetched : Fetch(f) = Fetch(g) => f = g
BY DEF Resolve, Fetch

\* What a step reads.
LEMMA TeachesOnly ==
  /\ \A r \in Roles, x \in Items : Teaches(Resolve(r), x) <=> x = r \/ (x = "title" /\ r = "chat")
  /\ \A x \in Items : Teaches(Fetch("message"), x) <=> x \in {"text", "mine", "pinned"}
  /\ \A f \in Fetched \ {"message"}, x \in Items : Teaches(Fetch(f), x) <=> x = f
<1>1. \A r \in Roles, x \in Items : Teaches(Resolve(r), x) <=> x = r \/ (x = "title" /\ r = "chat")
  BY Tags DEF Teaches, Items, Roles, Facets
<1>2. \A x \in Items : Teaches(Fetch("message"), x) <=> x \in {"text", "mine", "pinned"}
  BY Tags DEF Teaches, Items, Roles, Facets, Fetched
<1>3. \A f \in Fetched \ {"message"}, x \in Items : Teaches(Fetch(f), x) <=> x = f
  BY Tags DEF Teaches, Items, Roles, Facets, Fetched
<1> QED
  BY <1>1, <1>2, <1>3

-----------------------------------------------------------------------------
\* A peer is looked up: it is the one that is found, and a chat comes with its title.
LEMMA LearnsPeer ==
  ASSUME Inv, Read, NEW r \in Roles, Step = Resolve(r)
  PROVE  /\ DOMAIN seen' = Items
         /\ seen'[r] = Found(r) /\ seen'[r] \in Visible
         /\ r = "chat" => seen'["title"] = world["title"]
         /\ \A x \in Items : x # r /\ (x = "title" => r # "chat") => seen'[x] = seen[x]
<1>1. Step[1] = "resolve" /\ Step[2] = r
  BY Tags
<1>2. Found(r) # None
  BY <1>1, Tags DEF Read, IsFound, Fetched
<1>3. Found(r) \in Visible
  BY <1>2, FoundIsVisible DEF Inv
<1>4. DOMAIN seen = Items /\ "title" \in Items /\ r \in Items /\ r # "title"
  BY DEF Inv, TypeOK, Items, Roles, Facets
<1>5. seen' = [[seen EXCEPT ![r] = Found(r)]
               EXCEPT !["title"] = IF r = "chat" THEN world["title"] ELSE @]
  <2>1. Step # Fetch("message") /\ Step # Fetch("folder")
    BY Tags
  <2>2. Learned = [[seen EXCEPT ![Step[2]] = Found(Step[2])]
                   EXCEPT !["title"] = IF Step[2] = "chat" THEN world["title"] ELSE @]
    BY <1>1, <2>1 DEF Learned
  <2> QED
    BY <1>1, <2>2 DEF Read
<1> QED
  BY <1>3, <1>4, <1>5

\* Something else is fetched: it is what is there.
LEMMA LearnsContents ==
  ASSUME Inv, Read, NEW f \in Fetched, Step = Fetch(f), phase # "executing"
  PROVE  /\ DOMAIN seen' = Items
         /\ \A x \in Items : IF Teaches(Step, x) THEN seen'[x] = world[x] ELSE seen'[x] = seen[x]
         /\ f = "message" => world["text"] # NoMessage
         /\ f = "file" => world["file"] # Gone
<1>1. Step[1] = "fetch" /\ Step[2] = f
  BY Tags
<1>2. DOMAIN seen = Items /\ \A x \in {"text", "mine", "pinned"} : x \in Items
  BY DEF Inv, TypeOK, Items, Roles, Facets
<1>3. CASE f = "message"
  <2>1. seen' = [seen EXCEPT !["text"] = world["text"], !["mine"] = world["mine"],
                             !["pinned"] = world["pinned"]]
    BY <1>1, <1>3 DEF Read, Learned
  <2>2. world["text"] # NoMessage
    BY <1>1, <1>3, Tags DEF Read, IsFound, MessageThere, Fetched
  <2> QED
    BY <1>2, <1>3, <2>1, <2>2, TeachesOnly
<1>4. CASE f # "message"
  <2>1. Step # Fetch("message") /\ f \in Facets /\ f \in Items
    BY <1>4, Tags DEF Fetched, Facets, Items
  <2>2. seen' = [seen EXCEPT ![f] = world[f]]
    BY <1>1, <2>1 DEF Read, Learned
  <2>3. f = "file" => world["file"] # Gone
    BY <1>1, <2>1 DEF Read, IsFound, Readable
  <2> QED
    BY <1>2, <1>4, <2>1, <2>2, <2>3, TeachesOnly
<1> QED
  BY <1>3, <1>4

\* An execution reads the folder again, by the id that was verified.
LEMMA LearnsFolderAgain ==
  ASSUME Inv, Read, phase = "executing"
  PROVE  /\ DOMAIN seen' = Items /\ seen["folder"] \in Folders /\ seen'["folder"] \in Folders
         /\ seen'["folder"].id = seen["folder"].id
         /\ seen'["folder"].members = world["folder"].members
         /\ \A x \in Items \ {"folder"} : seen'[x] = seen[x]
<1>1. Step = Fetch("folder") /\ request.op = "folder_add" /\ AtAStep
  BY WhatIsRead DEF Inv, Read
<1>2. "folder" \in Fetched /\ "folder" \in Items /\ "folder" \in Facets
  BY DEF Fetched, Items, Facets
<1>3. Step[1] = "fetch" /\ Step # Fetch("message")
  BY <1>1, Tags DEF Fetched
<1>4. DOMAIN seen = Items /\ world["folder"] \in Folders
  BY <1>2 DEF Inv, TypeOK, Items, Values
<1>5. seen' = [seen EXCEPT !["folder"] = [world["folder"] EXCEPT !.id = seen["folder"].id]]
  BY <1>1, <1>3 DEF Read, Learned
<1>6. seen["folder"] \in Folders
  <2>1. Reads(Behind, Reviewed) /\ Passed = Len(Behind) /\ DOMAIN Behind = 1 .. Len(Behind)
    BY BehindIsSound DEF Inv, Passed, Behind, Verifies, Plans, ReadsInOrder
  <2>2. "folder" \in Reviewed
    BY <1>1 DEF Reviewed, Recorded
  <2>3. PICK i \in 1 .. Passed : Teaches(Behind[i], "folder")
    BY <2>1, <2>2 DEF Reads
  <2>4. Holds(Behind[i])
    BY DEF Inv, Traced
  <2>5. seen["folder"] \in Sort("folder")
    BY <1>2, <2>3, <2>4 DEF Holds
  <2> QED
    BY <2>5 DEF Sort, Values, Roles
<1>7. [world["folder"] EXCEPT !.id = seen["folder"].id] \in Folders
  BY <1>4, <1>6 DEF Folders
<1>8. /\ [world["folder"] EXCEPT !.id = seen["folder"].id].id = seen["folder"].id
      /\ [world["folder"] EXCEPT !.id = seen["folder"].id].members = world["folder"].members
  BY <1>4 DEF Folders
<1> QED
  BY <1>2, <1>4, <1>5, <1>6, <1>7, <1>8

\* A step that reads takes what is there now; an execution keeps the id of the folder.
LEMMA ReadTeaches ==
  ASSUME Inv, Read
  PROVE  /\ DOMAIN seen' = Items
         /\ \A x \in Items : ~ Teaches(Step, x) => seen'[x] = seen[x]
         /\ \A x \in Items :
              Teaches(Step, x) =>
                /\ seen'[x] \in Sort(x)
                /\ x = "text" => seen'[x] # NoMessage
                /\ x = "file" => seen'[x] # Gone
                /\ SeenAsRecorded(x)' =>
                     IF phase = "executing" THEN SeenAsRecorded(x) ELSE AsRecorded(x)
<1>1. \A f \in Facets :
        world[f] \in Values[f] /\ f \in Items /\ f \notin Roles /\ Sort(f) = Values[f]
  BY ItemTypes DEF Inv, TypeOK, Items, Sort
<1>2. UNCHANGED plan
  BY DEF Read
<1>3. ASSUME NEW x \in Facets, seen'[x] = world[x] PROVE SeenAsRecorded(x)' => AsRecorded(x)
  BY <1>1, <1>2, <1>3 DEF SeenAsRecorded, AsRecorded
<1>4. ASSUME NEW r \in Roles, Step = Resolve(r), phase # "executing"
      PROVE  \A x \in Items :
               /\ ~ Teaches(Step, x) => seen'[x] = seen[x]
               /\ Teaches(Step, x) =>
                /\ seen'[x] \in Sort(x)
                /\ x = "text" => seen'[x] # NoMessage
                /\ x = "file" => seen'[x] # Gone
                /\ SeenAsRecorded(x)' => AsRecorded(x)
  <2>1. /\ seen'[r] = Found(r) /\ seen'[r] \in Visible
        /\ r = "chat" => seen'["title"] = world["title"]
        /\ \A x \in Items : x # r /\ (x = "title" => r # "chat") => seen'[x] = seen[x]
    BY <1>4, LearnsPeer
  <2>2. SeenAsRecorded(r)' => AsRecorded(r)
    <3>1. r # "folder"
      BY DEF Roles
    <3> QED
      BY <1>2, <2>1, <3>1 DEF SeenAsRecorded, AsRecorded
  <2>3. "title" \in Facets /\ r # "text" /\ r # "file" /\ Sort(r) = Visible
    BY DEF Facets, Roles, Sort
  <2>4. \A x \in Items : Teaches(Step, x) <=> x = r \/ (x = "title" /\ r = "chat")
    BY <1>4, TeachesOnly
  <2> QED
    BY <1>1, <1>3, <2>1, <2>2, <2>3, <2>4
<1>5. ASSUME NEW f \in Fetched, Step = Fetch(f), phase # "executing"
      PROVE  \A x \in Items :
               /\ ~ Teaches(Step, x) => seen'[x] = seen[x]
               /\ Teaches(Step, x) =>
                /\ seen'[x] \in Sort(x)
                /\ x = "text" => seen'[x] # NoMessage
                /\ x = "file" => seen'[x] # Gone
                /\ SeenAsRecorded(x)' => AsRecorded(x)
  <2>1. /\ \A x \in Items : IF Teaches(Step, x) THEN seen'[x] = world[x] ELSE seen'[x] = seen[x]
        /\ f = "message" => world["text"] # NoMessage
        /\ f = "file" => world["file"] # Gone
    BY <1>5, LearnsContents
  <2>2. \A x \in Items : Teaches(Step, x) => /\ x \in Facets
                                             /\ x = "text" => f = "message"
                                             /\ x = "file" => f = "file"
    BY <1>5, TeachesOnly DEF Facets, Fetched
  <2> QED
    BY <1>1, <1>3, <2>1, <2>2
<1>6. ASSUME phase = "executing"
      PROVE  \A x \in Items :
               /\ ~ Teaches(Step, x) => seen'[x] = seen[x]
               /\ Teaches(Step, x) =>
                /\ seen'[x] \in Sort(x)
                /\ x = "text" => seen'[x] # NoMessage
                /\ x = "file" => seen'[x] # Gone
                /\ SeenAsRecorded(x)' => SeenAsRecorded(x)
  <2>1. Step = Fetch("folder")
    BY <1>6, WhatIsRead DEF Inv, Read
  <2>2. \A x \in Items : Teaches(Step, x) <=> x = "folder"
    BY <2>1, TeachesOnly DEF Fetched
  <2>3. /\ seen'["folder"] \in Folders /\ seen'["folder"].id = seen["folder"].id
        /\ \A x \in Items \ {"folder"} : seen'[x] = seen[x]
    BY <1>6, LearnsFolderAgain
  <2>4. Sort("folder") = Folders
    BY DEF Sort, Roles, Values
  <2>5. SeenAsRecorded("folder")' => SeenAsRecorded("folder")
    BY <1>2, <2>3 DEF SeenAsRecorded
  <2> QED
    BY <2>2, <2>3, <2>4, <2>5
<1>7. DOMAIN seen' = Items
  BY WhatIsRead, LearnsPeer, LearnsContents, LearnsFolderAgain DEF Inv, Read
<1>8. AtAStep /\ IsRead /\ TypeOK
  BY DEF Read, Inv
<1> QED
  BY <1>4, <1>5, <1>6, <1>7, <1>8, WhatIsRead

-----------------------------------------------------------------------------
\* A step that held still does when what it rests on is still seen.
LEMMA HoldsAfterwards ==
  ASSUME NEW step, Holds(step), UNCHANGED <<request, loaded, phase, plan>>,
         \A x \in Items : RestsOn(step, x) =>
           seen'[x] = seen[x] \/ (x = "folder" /\ seen'[x].id = seen[x].id),
         \A x \in Items : seen'[x] = seen[x] \/ seen'[x] \in Sort(x)
  PROVE  Holds(step)'
<1>1. ASSUME step = Profile PROVE loaded'.profile = "plan"
  BY <1>1 DEF Holds
<1>2. ASSUME NEW r \in Roles, NEW cap \in PeerCapabilities, step = Allow(r, cap)
      PROVE  Allowed(loaded, cap, seen[r])'
  <2>1. r \in Items /\ r # "folder" /\ RestsOn(step, r)
    BY <1>2 DEF Items, Roles, RestsOn, Allow
  <2>2. Allowed(loaded, cap, seen[r])
    BY <1>2 DEF Holds
  <2>3. loaded' = loaded /\ seen'[r] = seen[r]
    BY <2>1
  <2>4. Allowed(loaded', cap, seen'[r])
    BY <2>2, <2>3
  <2> QED
    BY <2>4 DEF Allowed, Verdict, HardDeny, ProfileAllows, JudgedAs, IsPrivate, RuleVerdict,
                RuleFor, Matches
<1>3. ASSUME step = Check("profile") PROVE MayChangeProfile(loaded)'
  BY <1>3 DEF Holds, MayChangeProfile, ProfileAllows
<1>4. ASSUME step = Check("time") PROVE require_a_reachable_time'
  <2>1. "time" \in Items /\ RestsOn(step, "time")
    BY <1>4 DEF Items, Facets, RestsOn
  <2>2. require_a_reachable_time /\ seen'["time"] = seen["time"]
    BY <1>4, <2>1 DEF Holds
  <2> QED
    BY <2>2 DEF require_a_reachable_time
<1>5. ASSUME NEW x \in Items, step = Same(x), phase \notin {"planning", "pending"}
      PROVE  IsSame(x)'
  <2>1. IsSame(x) /\ plan' = plan
    BY <1>5 DEF Holds
  <2>2. seen'[x] = seen[x] \/ (x = "folder" /\ seen'[x].id = seen[x].id)
    BY <1>5 DEF RestsOn
  <2>3. CASE x \in Roles
    BY <2>1, <2>2, <2>3 DEF IsSame, _check_peer, Roles
  <2>4. CASE x = "text"
    BY <2>1, <2>2, <2>4 DEF IsSame, _check_messages, Roles
  <2>5. CASE x = "folder"
    BY <2>1, <2>2, <2>5 DEF IsSame, Roles
  <2>6. CASE x \notin Roles \cup {"text", "folder"}
    BY <2>1, <2>2, <2>6 DEF IsSame
  <2> QED
    BY <2>3, <2>4, <2>5, <2>6
<1>6. ASSUME NEW x \in Items, Teaches(step, x) PROVE seen'[x] \in Sort(x)
  BY <1>6 DEF Holds
<1> QED
  BY <1>1, <1>2, <1>3, <1>4, <1>5, <1>6 DEF Holds

\* While a program runs, its steps behind still hold after a read, and so does the read.
LEMMA ReadKeepsTraced ==
  ASSUME Inv, Read
  PROVE  Traced'
<1>1. /\ UNCHANGED <<request, loaded, phase, plan>> /\ at' = at + 1 /\ AtAStep /\ IsRead
      /\ TypeOK /\ Traced
  BY DEF Read, Inv
<1>0. PICK b : b = Behind
  OBVIOUS
<1>9. PICK s : s = Step
  OBVIOUS
<1>2. Behind' = b
  BY <1>0, <1>1, SameRequest
<1>3. /\ \A x \in Items : ~ Teaches(s, x) => seen'[x] = seen[x]
      /\ \A x \in Items : seen'[x] = seen[x] \/ seen'[x] \in Sort(x)
      /\ \A x \in Items : Teaches(s, x) => seen'[x] \in Sort(x)
  BY <1>9, ReadTeaches
<1>4. /\ \A i \in 1 .. Passed : Holds(b[i])
      /\ \A x \in Items : seen[x] # None => \E i \in 1 .. Passed : Teaches(b[i], x)
  BY <1>0, <1>1 DEF Traced, AtAStep
<1>5. CASE phase = "executing"
  <2>1. Passed' = Passed /\ \A x \in Items \ {"folder"} : seen'[x] = seen[x]
    BY <1>0, <1>1, <1>2, <1>5, LearnsFolderAgain DEF Passed
  <2>2. seen'["folder"].id = seen["folder"].id /\ seen["folder"] # None
    BY <1>5, LearnsFolderAgain, RequestAssumption DEF Values, Facets
  <2>3. \A i \in 1 .. Passed : Holds(b[i])'
    BY <1>1, <1>3, <1>4, <2>1, <2>2, HoldsAfterwards
  <2>4. \A x \in Items : seen'[x] # None => \E i \in 1 .. Passed : Teaches(b[i], x)
    BY <1>4, <2>1, <2>2
  <2> QED
    BY <1>2, <2>1, <2>3, <2>4 DEF Traced
<1>6. CASE phase # "executing"
  <2>1. /\ s = b[at] /\ at \in Nat /\ at >= 1 /\ at \in DOMAIN b /\ ReadsInOrder(b)
        /\ Passed = at - 1 /\ Passed' = at
    BY <1>0, <1>9, <1>1, <1>2, <1>6, StepsAreCounted DEF Step, AtAStep, Passed
  <2>2. ASSUME NEW i \in 1 .. Passed PROVE Holds(b[i])'
    <3>1. \A x \in Items : RestsOn(b[i], x) => ~ Teaches(s, x)
      BY <2>1 DEF ReadsInOrder, Items
    <3> QED
      BY <1>1, <1>3, <1>4, <3>1, HoldsAfterwards
  <2>3. Holds(s)'
    <3>1. \/ \E r \in Roles : s = Resolve(r)
          \/ \E f \in Fetched : s = Fetch(f)
      BY <1>1, <1>9, WhatIsRead DEF Fetched
    <3>2. /\ s # Profile /\ s # Check("profile") /\ s # Check("time")
          /\ \A x \in Items : s # Same(x)
          /\ \A r \in Roles, cap \in PeerCapabilities : s # Allow(r, cap)
      BY <3>1 DEF Resolve, Fetch, Profile, Check, Same, Allow
    <3>3. \A x \in Items : Teaches(s, x) => (seen[x] \in Sort(x))'
      BY <1>3 DEF Sort
    <3> QED
      BY <3>2, <3>3 DEF Holds
  <2>4. ASSUME NEW x \in Items, seen'[x] # None
        PROVE  \E i \in 1 .. at : Teaches(b[i], x)
    <3>1. at \in 1 .. at /\ 1 .. Passed \subseteq 1 .. at
      BY <2>1
    <3>2. CASE Teaches(s, x)
      BY <2>1, <3>1, <3>2
    <3>3. CASE ~ Teaches(s, x)
      BY <1>3, <1>4, <2>4, <3>1, <3>3
    <3> QED
      BY <3>2, <3>3
  <2>5. \A i \in 1 .. at : i = at \/ i \in 1 .. Passed
    BY <2>1
  <2>6. \A i \in 1 .. at : Holds(b[i])'
    BY <2>1, <2>2, <2>3, <2>5
  <2> QED
    BY <1>2, <2>1, <2>4, <2>6 DEF Traced
<1> QED
  BY <1>5, <1>6

\* What is as recorded depends on the request, the plan and the world.
LEMMA StillAsRecorded ==
  ASSUME UNCHANGED <<request, plan, holder, member, world>>, NEW x
  PROVE  AsRecorded(x)' <=> AsRecorded(x)
<1>1. \A id : NameOf(id)' = NameOf(id)
  BY DEF NameOf
<1>2. \A id : PeerOf(id)' = PeerOf(id)
  BY <1>1 DEF PeerOf
<1>3. \A target : reference(target)' = reference(target)
  <2> SUFFICES ASSUME NEW target PROVE reference(target)' = reference(target)
    OBVIOUS
  <2>1. PICK id : id = holder[target]
    OBVIOUS
  <2>2. PeerOf(holder[target])' = PeerOf(holder[target])
    BY <1>2, <2>1 DEF PeerOf, NameOf
  <2> QED
    BY <1>2, <2>2 DEF reference
<1>4. Found(x)' = Found(x)
  BY <1>2, <1>3 DEF Found, resolve_join_target, PeerOf, reference, NameOf
<1> QED
  BY <1>4 DEF AsRecorded
\* What was read as recorded was so at that moment, during the verification.
LEMMA ReadKeepsCaught ==
  ASSUME Inv, Read
  PROVE  Caught'
<1>1. /\ UNCHANGED <<request, phase, plan, held, holder, member, world>> /\ AtAStep
      /\ TypeOK /\ Caught
  BY DEF Read, Inv, nature
<1>0. PICK b : b = Behind
  OBVIOUS
<1>9. PICK s : s = Step
  OBVIOUS
<1>2. Behind' = b /\ Reviewed' = Reviewed
  BY <1>0, <1>1, SameRequest
<1>3. \A x \in Reviewed : AsRecorded(x)' <=> AsRecorded(x)
  BY <1>1, StillAsRecorded
<1>4. Reviewed \subseteq Items
  BY <1>1, RequestTypes, ItemTypes DEF Reviewed, Items
<1>5. ASSUME phase = "verifying" \/ phase = "executing", NEW x \in Reviewed, SeenAsRecorded(x)',
             NEW i \in 1 .. Passed', Teaches(b[i], x)
      PROVE  x \in held
  <2>1. \A y \in Reviewed : AsRecorded(y) => y \in held
    BY <1>1, <1>5 DEF Caught
  <2>2. \A y \in Reviewed :
          (\E j \in 1 .. Passed : Teaches(b[j], y)) /\ SeenAsRecorded(y) => y \in held
    BY <1>0, <1>1, <1>5 DEF Caught
  <2>3. CASE Teaches(s, x)
    <3>1. IF phase = "executing" THEN SeenAsRecorded(x) ELSE AsRecorded(x)
      BY <1>4, <1>5, <1>9, <2>3, ReadTeaches
    <3>2. phase = "executing" => Passed' = Passed
      BY <1>0, <1>1, <1>2 DEF Passed
    <3> QED
      BY <1>5, <2>1, <2>2, <3>1, <3>2
  <2>4. CASE ~ Teaches(s, x)
    <3>1. seen'[x] = seen[x] /\ plan' = plan
      BY <1>1, <1>4, <1>9, <2>4, ReadTeaches
    <3>2. SeenAsRecorded(x)
      BY <1>5, <3>1 DEF SeenAsRecorded
    <3>3. i \in 1 .. Passed
      <4>1. CASE phase = "executing"
        BY <1>0, <1>1, <1>2, <1>5, <4>1 DEF Passed
      <4>2. CASE phase = "verifying"
        <5>1. Step = b[at] /\ Passed = at - 1 /\ Passed' = at /\ at \in Nat
          BY <1>0, <1>1, <1>2, <4>2, StepsAreCounted DEF Read, Step, Passed
        <5>2. i # at
          BY <1>5, <1>9, <2>4, <5>1
        <5> QED
          BY <5>1, <5>2
      <4> QED
        BY <1>5, <4>1, <4>2
    <3> QED
      BY <1>5, <2>2, <3>2, <3>3
  <2> QED
    BY <2>3, <2>4
<1>6. phase' \in {"verifying", "executing", "sent"} => phase = "verifying" \/ phase = "executing"
  BY <1>1 DEF AtAStep
<1>7. phase' \in {"verifying", "executing"} => \A x \in Reviewed' : AsRecorded(x)' => x \in held'
  BY <1>1, <1>2, <1>3 DEF Caught
<1>8. phase' \in {"verifying", "executing", "sent"} =>
        \A x \in Reviewed' :
          (\E i \in 1 .. Passed' : Teaches(b[i], x)) /\ SeenAsRecorded(x)' => x \in held'
  BY <1>1, <1>2, <1>5, <1>6
<1> QED
  BY <1>2, <1>7, <1>8 DEF Caught

\* A step that reads keeps the invariant.
LEMMA ReadKeepsInv ==
  ASSUME Inv, Read
  PROVE  Inv'
<1>1. /\ UNCHANGED <<request, config, loaded, phase, plan,
                  held, stays, holder, member, world, changes>>
      /\ at' = at + 1 /\ AtAStep /\ IsRead
  BY DEF Read, nature
<1>2. Reviewed' = Reviewed /\ Program' = Program
  BY <1>1, SameRequest
<1>3. TypeOK'
  <2>1. at' \in 1 .. Len(Program') + 1
    BY <1>1, <1>2, StepsAreCounted DEF Inv, AtAStep
  <2>2. DOMAIN seen' = Items
    BY ReadTeaches
  <2>3. \A x \in Items : \/ seen'[x] = seen[x]
                         \/ /\ seen'[x] \in Sort(x)
                            /\ x = "text" => seen'[x] # NoMessage
                            /\ x = "file" => seen'[x] # Gone
    BY ReadTeaches
  <2>4. \A r \in Roles : seen'[r] = None \/ seen'[r] \in Peer
    BY <2>3 DEF Inv, TypeOK, Items, Sort, Visible
  <2>5. \A f \in Facets : seen'[f] = None \/ seen'[f] \in Values[f]
    BY <2>3, ItemTypes DEF Inv, TypeOK, Items, Sort
  <2>6. seen'["text"] # NoMessage /\ seen'["file"] # Gone
    BY <2>3 DEF Inv, TypeOK, Items, Facets
  <2> QED
    BY <1>1, <1>2, <2>1, <2>2, <2>4, <2>5, <2>6 DEF Inv, TypeOK, Items
<1>4. Traced'
  BY ReadKeepsTraced
<1>5. Noted'
  BY <1>1, <1>2 DEF Inv, Noted, Sort
<1>6. Caught'
  BY ReadKeepsCaught
<1>7. FolderKept'
  <2>1. phase = "executing" => stays \subseteq world["folder"].members
    <3>1. phase = "executing" => request.op = "folder_add"
      BY <1>1, WhatIsRead DEF Inv
    <3> QED
      BY <3>1 DEF Inv, FolderKept
  <2>2. phase = "executing" => stays \subseteq seen'["folder"].members
    BY <2>1, LearnsFolderAgain
  <2> QED
    BY <1>1, <2>1, <2>2 DEF FolderKept, AtAStep
<1>8. AtRest'
  BY <1>1 DEF AtRest, AtAStep
<1> QED
  BY <1>1, <1>3, <1>4, <1>5, <1>6, <1>7, <1>8 DEF Inv, AtAStep

-----------------------------------------------------------------------------
\* A step that only looks at what was seen.
LEMMA PassedHolds ==
  ASSUME TypeOK, Pass, NEW s, s = Step
  PROVE  Holds(s) /\ \A x \in Items : ~ Teaches(s, x)
<1>1. s[1] # "resolve" /\ s[1] # "fetch" /\ Passes
  BY DEF Pass, IsRead
<1>2. \A x \in Items : ~ Teaches(s, x)
  BY <1>1 DEF Teaches, Resolve, Fetch
<1>3. s = Profile => loaded.profile = "plan"
  BY <1>1 DEF Passes, Profile, require_planning_profile
<1>4. \A r \in Roles, cap \in PeerCapabilities : s = Allow(r, cap) => Allowed(loaded, cap, seen[r])
  BY <1>1 DEF Passes, Allow, require_peer
<1>5. ASSUME s = Check("profile") PROVE MayChangeProfile(loaded)
  <2>1. s[1] = "check" /\ s[2] = "profile"
    BY <1>5 DEF Check
  <2>2. Met("profile")
    BY <1>1, <2>1 DEF Passes
  <2> QED
    BY <2>2 DEF Met
<1>6. ASSUME s = Check("time") PROVE require_a_reachable_time
  <2>1. s[1] = "check" /\ s[2] = "time"
    BY <1>6 DEF Check
  <2>2. Met("time")
    BY <1>1, <2>1 DEF Passes
  <2> QED
    BY <2>2 DEF Met
<1>7. \A x \in Items : s = Same(x) => IsSame(x)
  BY <1>1 DEF Passes, Same
<1> QED
  BY <1>2, <1>3, <1>4, <1>5, <1>6, <1>7 DEF Holds

-----------------------------------------------------------------------------
(* Steps that look at what was seen, and refusals.                          *)

\* A step that only looks keeps the invariant.
LEMMA PassKeepsInv ==
  ASSUME Inv, Pass
  PROVE  Inv'
<1>1. /\ UNCHANGED <<request, config, loaded, phase, seen, plan,
                  held, stays, holder, member, world, changes>>
      /\ at' = at + 1 /\ AtAStep /\ ~ IsRead /\ TypeOK
  BY DEF Pass, nature, Inv
<1>0. PICK b : b = Behind
  OBVIOUS
<1>9. PICK s : s = Step
  OBVIOUS
<1>2. Reviewed' = Reviewed /\ Program' = Program /\ Behind' = b
  BY <1>0, <1>1, SameRequest
<1>3. at \in Nat /\ at >= 1 /\ at <= Len(Program) /\ Len(Program) \in Nat
  BY <1>1, StepsAreCounted DEF AtAStep
<1>4. Holds(s) /\ \A x \in Items : ~ Teaches(s, x)
  BY <1>1, <1>9, PassedHolds
<1>5. \A t : Holds(t)' <=> Holds(t)
  BY <1>1, StillHolds
<1>6. phase = "executing" => Passed' = Passed
  BY <1>0, <1>1, <1>2 DEF Passed
<1>7. phase # "executing" => b[at] = s /\ Passed = at - 1 /\ Passed' = at
  BY <1>0, <1>1, <1>2, <1>9, StepsAreCounted DEF AtAStep, Step, Passed
<1>8. TypeOK'
  BY <1>1, <1>2, <1>3 DEF TypeOK
<1>10. Traced'
  <2>1. /\ \A i \in 1 .. Passed : Holds(b[i])
        /\ \A x \in Items : seen[x] # None => \E i \in 1 .. Passed : Teaches(b[i], x)
    BY <1>0, <1>1 DEF Inv, Traced, AtAStep
  <2>2. \A i \in 1 .. Passed' : i \in 1 .. Passed \/ b[i] = s
    BY <1>3, <1>6, <1>7
  <2>3. \A i \in 1 .. Passed' : Holds(b[i])'
    BY <1>4, <1>5, <2>1, <2>2
  <2>4. 1 .. Passed \subseteq 1 .. Passed'
    BY <1>3, <1>6, <1>7
  <2> QED
    BY <1>1, <1>2, <2>1, <2>3, <2>4 DEF Traced
<1>11. Noted'
  BY <1>1, <1>2 DEF Inv, Noted, Sort
<1>12. Caught'
  <2>1. \A x \in Reviewed : /\ AsRecorded(x)' <=> AsRecorded(x)
                            /\ SeenAsRecorded(x)' <=> SeenAsRecorded(x)
    BY <1>1, StillAsRecorded DEF SeenAsRecorded
  <2>2. \A x \in Reviewed, i \in 1 .. Passed' : Teaches(b[i], x) => i \in 1 .. Passed
    <3>1. Reviewed \subseteq Items
      BY <1>1, RequestTypes, ItemTypes DEF Reviewed, Items
    <3>2. \A i \in 1 .. Passed' : i \in 1 .. Passed \/ b[i] = s
      BY <1>3, <1>6, <1>7
    <3> QED
      BY <1>4, <3>1, <3>2
  <2>3. /\ phase \in {"verifying", "executing"} => \A x \in Reviewed : AsRecorded(x) => x \in held
        /\ phase \in {"verifying", "executing", "sent"} =>
             \A x \in Reviewed :
               (\E i \in 1 .. Passed : Teaches(b[i], x)) /\ SeenAsRecorded(x) => x \in held
    BY <1>0 DEF Inv, Caught
  <2> QED
    BY <1>1, <1>2, <2>1, <2>2, <2>3 DEF Caught
<1>13. FolderKept'
  <2>1. phase = "executing" /\ request.op = "folder_add" => at > 1
    <3> SUFFICES ASSUME phase = "executing", request.op = "folder_add" PROVE at # 1
      BY <1>3
    <3>1. Program[1] = Fetch("folder")
      BY <1>1, RunningProgram, RequestTypes, ExecutorSteps
    <3> QED
      BY <1>1, <3>1 DEF IsRead, Step, Fetch
  <2> QED
    BY <1>1, <2>1 DEF Inv, FolderKept
<1>14. AtRest'
  BY <1>1 DEF AtRest, AtAStep
<1> QED
  BY <1>1, <1>8, <1>10, <1>11, <1>12, <1>13, <1>14 DEF Inv, AtAStep

\* The policy depends on the request, the configuration loaded and what was seen.
LEMMA PolicyStays ==
  ASSUME UNCHANGED <<request, loaded, seen>>, PolicyKept
  PROVE  PolicyKept'
<1>1. PICK q : q = request
  OBVIOUS
<1>2. PICK c : c = loaded
  OBVIOUS
<1>3. PICK k : k = seen
  OBVIOUS
<1>4. Judged <=> \A r \in RolesOf(q.op) : Promised(c, CapabilityOf(q.op, r), k[r])
  BY <1>1, <1>2, <1>3 DEF Judged
<1>5. request' = q /\ loaded' = c /\ seen' = k
  BY <1>1, <1>2, <1>3
<1>6. Judged' <=> \A r \in RolesOf(q.op) : Promised(c, CapabilityOf(q.op, r), k[r])
  BY <1>5 DEF Judged
<1> QED
  BY <1>3, <1>4, <1>5, <1>6 DEF PolicyKept

\* What a refused plan has seen, the policy let it see.
LEMMA RefuseKeepsInv ==
  ASSUME Inv, Refuse
  PROVE  Inv'
<1>1. /\ UNCHANGED <<request, config, loaded, seen, plan,
                  held, stays, holder, member, world, changes>>
      /\ phase' = "refused" /\ at' = 1 /\ phase # "refused"
  BY DEF Refuse, nature, AtAStep
<1>2. PolicyKept
  BY <1>1, PolicyIsKept DEF Inv
<1>3. PolicyKept'
  BY <1>1, <1>2, PolicyStays
<1>4. at' \in 1 .. Len(Program') + 1
  <2>1. Program' = Executors(request.op)
    BY <1>1 DEF Program, Executors
  <2>2. Len(Program') \in Nat
    BY <2>1, RequestTypes, ExecutorSteps DEF Inv
  <2> QED
    BY <1>1, <2>2
<1>5. Reviewed' = Reviewed
  BY <1>1, SameRequest
<1>6. TypeOK'
  BY <1>1, <1>4, <1>5 DEF Inv, TypeOK
<1>7. Traced' /\ Noted' /\ Caught' /\ FolderKept' /\ AtRest'
  BY <1>1 DEF Traced, Noted, Caught, FolderKept, AtRest
<1> QED
  BY <1>3, <1>6, <1>7 DEF Inv

-----------------------------------------------------------------------------
(* From the planner to the plan, and from the plan to the request.          *)

\* A time is recorded only once it was seen to be ahead.
LEMMA TimeIsAsked ==
  ASSUME TypeOK, "time" \in Reviewed
  PROVE  /\ request.op = "schedule" /\ ~ request.online
         /\ \E i \in 1 .. Len(Planners[request.op]) : Planners[request.op][i] = Check("time")
<1>1. request.op = "schedule" /\ ~ request.online
  <2>1. RolesOf(request.op) \subseteq Roles /\ "time" \notin Roles
    BY RequestTypes, ItemTypes DEF Roles
  <2>2. "time" \in Recorded(request.op)
    BY <2>1 DEF Reviewed
  <2> QED
    BY <2>2 DEF Recorded
<1>2. Planners[request.op] = plan_schedule_message
  BY <1>1 DEF Planners
<1>3. Len(plan_schedule_message) >= 3 /\ plan_schedule_message[3] = Check("time")
  BY DEF plan_schedule_message, Named
<1>4. Len(plan_schedule_message) \in Nat
  BY DEF plan_schedule_message, Named
<1> QED
  BY <1>1, <1>2, <1>3, <1>4

\* A plan records what was seen, each thing of its sort and the time still ahead.
LEMMA CreateKeepsInv ==
  ASSUME Inv, _create
  PROVE  Inv'
<1>1. /\ UNCHANGED <<request, config, loaded, seen, held, stays, holder, member, world, changes>>
      /\ phase = "planning" /\ at = Len(Program) + 1 /\ phase' = "pending" /\ at' = 1
      /\ plan' = [x \in Roles \cup Facets |-> IF x \in Reviewed THEN seen[x] ELSE None]
      /\ TypeOK
  BY DEF _create, nature, AtTheEnd, Inv
<1>0. PICK b : b = Behind
  OBVIOUS
<1>2. /\ Behind' = b /\ b = Planners[request.op] /\ Passed = Len(b) /\ Passed' = Passed
      /\ Reviewed' = Reviewed /\ Len(b) \in Nat /\ DOMAIN b = 1 .. Len(b)
  <2>1. Passed = Len(b) /\ b = Planners[request.op]
    BY <1>0, <1>1, StepsAreCounted DEF Behind
  <2>2. Behind' = b
    BY <1>1, <2>1 DEF Behind
  <2>3. Len(b) \in Nat /\ DOMAIN b = 1 .. Len(b)
    BY <1>0, <1>1, StepsAreCounted DEF ReadsInOrder
  <2> QED
    BY <1>1, <2>1, <2>2, <2>3, SameRequest DEF Passed
<1>3. \A i \in 1 .. Passed : Holds(b[i])
  BY <1>0, <1>1 DEF Inv, Traced
<1>4. ASSUME NEW x \in Reviewed
      PROVE  x \in Items /\ seen[x] \in Sort(x) /\ plan'[x] = seen[x]
  <2>1. x \in Items
    BY <1>1, RequestTypes, ItemTypes DEF Reviewed, Items
  <2>2. Reads(b, Reviewed)
    BY <1>0, <1>1, <1>2, BehindIsSound DEF Plans
  <2>3. PICK i \in 1 .. Passed : Teaches(b[i], x)
    BY <1>2, <2>2 DEF Reads
  <2>4. seen[x] \in Sort(x)
    BY <1>3, <2>1, <2>3 DEF Holds
  <2> QED
    BY <1>1, <2>1, <2>4 DEF Items
<1>5. "time" \in Reviewed => seen["time"] = "ahead"
  <2> SUFFICES ASSUME "time" \in Reviewed PROVE seen["time"] = "ahead"
    OBVIOUS
  <2>1. PICK i \in 1 .. Passed : b[i] = Check("time")
    BY <1>1, <1>2, TimeIsAsked
  <2>2. require_a_reachable_time
    BY <1>3, <2>1 DEF Holds
  <2> QED
    BY <1>1, <2>2, TimeIsAsked DEF require_a_reachable_time
<1>6. TypeOK'
  <2>1. at' \in 1 .. Len(Program') + 1
    <3>1. Program' = Executors(request.op)
      BY <1>1 DEF Program, Executors
    <3>2. Len(Program') \in Nat
      BY <1>1, <3>1, RequestTypes, ExecutorSteps
    <3> QED
      BY <1>1, <3>2
  <2>2. \A x \in Roles \cup Facets : plan'[x] = seen[x] \/ plan'[x] = None
    BY <1>1
  <2>3. DOMAIN plan' = Roles \cup Facets
    BY <1>1
  <2>4. /\ \A r \in Roles : plan'[r] = None \/ plan'[r] \in Peer
        /\ \A f \in Facets : plan'[f] = None \/ plan'[f] \in Values[f]
    BY <1>1, <2>2 DEF TypeOK
  <2>5. plan'["text"] # NoMessage /\ plan'["file"] # Gone
    <3>1. None # NoMessage /\ None # Gone
      BY RequestAssumption DEF Facets, Values, Texts
    <3>2. "text" \in Facets /\ "file" \in Facets
      BY DEF Facets
    <3> QED
      BY <1>1, <2>2, <3>1, <3>2 DEF TypeOK
  <2> QED
    BY <1>1, <1>2, <2>1, <2>3, <2>4, <2>5 DEF TypeOK
<1>7. Traced'
  <2>1. \A i \in 1 .. Passed : Holds(b[i])'
    <3> SUFFICES ASSUME NEW i \in 1 .. Passed PROVE Holds(b[i])'
      OBVIOUS
    <3>2. Holds(b[i])
      BY <1>3
    <3> QED
      BY <1>1, <3>2 DEF Holds, Sort, require_a_reachable_time
  <2>2. \A x \in Items : seen[x] # None => \E i \in 1 .. Passed : Teaches(b[i], x)
    BY <1>0, <1>1 DEF Inv, Traced
  <2> QED
    BY <1>1, <1>2, <2>1, <2>2 DEF Traced
<1>8. Noted'
  BY <1>1, <1>2, <1>4, <1>5 DEF Noted, Sort
<1>9. Caught' /\ FolderKept' /\ AtRest'
  BY <1>1 DEF Caught, FolderKept, AtRest
<1> QED
  BY <1>1, <1>6, <1>7, <1>8, <1>9 DEF Inv

\* A process of its own has seen nothing yet.
LEMMA ApplyKeepsInv ==
  ASSUME Inv, apply_plan
  PROVE  Inv'
<1>1. /\ UNCHANGED <<request, config, at, plan, stays, holder, member, world, changes>>
      /\ phase = "pending" /\ phase' = "verifying" /\ loaded' = config /\ seen' = Nothing
      /\ held' = {x \in Reviewed : AsRecorded(x)} /\ at = 1 /\ TypeOK
  BY DEF apply_plan, nature, Inv, AtRest
<1>2. Reviewed' = Reviewed
  BY <1>1, SameRequest
<1>3. Passed' = 0
  BY <1>1 DEF Passed
<1>4. DOMAIN seen' = Items /\ \A x \in Items : seen'[x] = None
  BY <1>1 DEF Nothing, Items
<1>5. TypeOK'
  <2>1. at' \in 1 .. Len(Program') + 1
    <3>1. Program' = Verifiers[request.op]
      BY <1>1 DEF Program
    <3>2. Len(Verifiers[request.op]) \in Nat
      BY <1>1, RequestTypes, VerifiersVerify DEF Verifies, Plans, ReadsInOrder
    <3> QED
      BY <1>1, <3>1, <3>2
  <2>2. None # NoMessage /\ None # Gone
    BY RequestAssumption DEF Facets, Values, Texts
  <2>3. /\ \A r \in Roles : seen'[r] = None
        /\ \A f \in Facets : seen'[f] = None
        /\ seen'["text"] # NoMessage /\ seen'["file"] # Gone
    BY <1>4, <2>2 DEF Items, Facets
  <2>4. held' \subseteq Reviewed /\ loaded' \in Configs
    BY <1>1 DEF TypeOK
  <2> QED
    BY <1>1, <1>2, <1>4, <2>1, <2>3, <2>4 DEF TypeOK, Items
<1>6. Traced'
  BY <1>3, <1>4 DEF Traced
<1>7. Noted'
  BY <1>1, <1>2 DEF Inv, Noted, Sort
<1>8. Caught'
  <2>1. \A x \in Reviewed : AsRecorded(x)' <=> AsRecorded(x)
    BY <1>1, StillAsRecorded
  <2> QED
    BY <1>1, <1>2, <1>3, <2>1 DEF Caught
<1>9. FolderKept' /\ AtRest'
  BY <1>1 DEF FolderKept, AtRest
<1> QED
  BY <1>1, <1>5, <1>6, <1>7, <1>8, <1>9 DEF Inv

\* Between the two, and when the request leaves, what was verified stays verified.
LEMMA VerifiedStays ==
  ASSUME Inv, phase \in {"verifying", "executing"}, phase' \in {"executing", "sent"},
         UNCHANGED <<request, loaded, seen, plan>>,
         phase = "verifying" => at = Len(Program) + 1
  PROVE  /\ Traced' /\ Noted'
         /\ Passed' = Passed /\ Passed = Len(Behind) /\ Behind' = Behind
<1>0. PICK b : b = Behind
  OBVIOUS
<1>1. Behind' = b /\ Reviewed' = Reviewed
  BY <1>0, SameRequest DEF Behind
<1>2. Passed = Len(b) /\ Passed' = Len(b)
  BY <1>0, <1>1, StepsAreCounted DEF Inv, Passed
<1>3. \A i \in 1 .. Passed : Holds(b[i])'
  <2> SUFFICES ASSUME NEW i \in 1 .. Passed PROVE Holds(b[i])'
    OBVIOUS
  <2>1. Holds(b[i])
    BY <1>0 DEF Inv, Traced
  <2> QED
    BY <2>1 DEF Holds, Sort, require_a_reachable_time, IsSame, _check_peer, _check_messages
<1>4. \A x \in Items : seen[x] # None => \E i \in 1 .. Passed : Teaches(b[i], x)
  BY <1>0 DEF Inv, Traced
<1>5. Traced'
  BY <1>1, <1>2, <1>3, <1>4 DEF Traced
<1>6. Noted'
  BY <1>1 DEF Inv, Noted, Sort
<1> QED
  BY <1>0, <1>1, <1>2, <1>5, <1>6

\* An execution begins with all that was verified.
LEMMA VerifyKeepsInv ==
  ASSUME Inv, _verify
  PROVE  Inv'
<1>1. /\ UNCHANGED <<request, config, loaded, seen, plan, held, holder, member, world, changes>>
      /\ phase = "verifying" /\ phase' = "executing" /\ at = Len(Program) + 1 /\ at' = 1
      /\ stays' = world["folder"].members /\ TypeOK
  BY DEF _verify, nature, AtTheEnd, Inv
<1>2. Reviewed' = Reviewed
  BY <1>1, SameRequest
<1>3. Traced' /\ Noted' /\ Passed' = Passed /\ Behind' = Behind
  BY <1>1, VerifiedStays
<1>4. TypeOK'
  <2>1. at' \in 1 .. Len(Program') + 1
    <3>1. Program' = Executors(request.op)
      BY <1>1 DEF Program, Executors
    <3>2. Len(Program') \in Nat
      BY <1>1, <3>1, RequestTypes, ExecutorSteps
    <3> QED
      BY <1>1, <3>2
  <2>2. stays' \subseteq {"this", "a", "b"}
    BY <1>1 DEF TypeOK, Facets, Values, Folders
  <2> QED
    BY <1>1, <1>2, <2>1, <2>2 DEF TypeOK
<1>5. Caught'
  <2>1. \A x \in Reviewed : /\ AsRecorded(x)' <=> AsRecorded(x)
                            /\ SeenAsRecorded(x)' <=> SeenAsRecorded(x)
    BY <1>1, StillAsRecorded DEF SeenAsRecorded
  <2> QED
    BY <1>1, <1>2, <1>3, <2>1 DEF Inv, Caught
<1>6. FolderKept' /\ AtRest'
  BY <1>1 DEF FolderKept, AtRest
<1> QED
  BY <1>1, <1>3, <1>4, <1>5, <1>6 DEF Inv

\* The request that leaves keeps the invariant; no chat of the folder is lost.
LEMMA ExecuteKeepsInv ==
  ASSUME Inv, _execute
  PROVE  Inv'
<1>1. /\ UNCHANGED <<request, config, loaded, holder, member, seen, plan, held, stays, changes>>
      /\ phase = "executing" /\ phase' = "sent" /\ at = Len(Program) + 1 /\ at' = 1 /\ TypeOK
      /\ world' = IF request.op = "folder_add"
                  THEN [world EXCEPT !["folder"] = add_peer_to_filter(@)] ELSE world
  BY DEF _execute, AtTheEnd, Inv
<1>2. Reviewed' = Reviewed
  BY <1>1, SameRequest
<1>3. Traced' /\ Noted' /\ Passed' = Passed /\ Behind' = Behind
  BY <1>1, VerifiedStays
<1>4. ASSUME request.op = "folder_add"
      PROVE  /\ world' = [world EXCEPT !["folder"] =
                         [@ EXCEPT !.members = seen["folder"].members \cup {"this"}]]
             /\ seen["folder"] \in Folders /\ world["folder"] \in Folders
             /\ stays \subseteq seen["folder"].members
  <2>1. /\ "folder" \in Items /\ "folder" \in Facets /\ "folder" \in Reviewed
        /\ Sort("folder") = Folders
    BY <1>4 DEF Items, Facets, Sort, Values, Roles, Reviewed, Recorded
  <2>2. seen["folder"] \in Folders
    <3>1. Reads(Behind, Reviewed) /\ Passed = Len(Behind) /\ DOMAIN Behind = 1 .. Len(Behind)
      BY <1>1, BehindIsSound DEF Passed, Behind, Verifies, Plans, ReadsInOrder
    <3>2. PICK i \in 1 .. Passed : Teaches(Behind[i], "folder")
      BY <2>1, <3>1 DEF Reads
    <3>3. Holds(Behind[i])
      BY <1>1, <3>2 DEF Inv, Traced
    <3> QED
      BY <2>1, <3>2, <3>3 DEF Holds
  <2>3. world["folder"] \in Folders
    BY <1>1, <2>1 DEF TypeOK, Values
  <2>4. at > 1
    <3>1. Len(Program) = 2
      BY <1>1, <1>4, RunningProgram, RequestTypes, ExecutorSteps
    <3> QED
      BY <1>1, <3>1
  <2>5. stays \subseteq seen["folder"].members
    BY <1>1, <1>4, <2>4 DEF Inv, FolderKept
  <2> QED
    BY <1>1, <1>4, <2>2, <2>3, <2>5 DEF add_peer_to_filter
<1>5. /\ DOMAIN world' = Facets /\ \A f \in Facets : world'[f] \in Values[f]
      /\ request.op = "folder_add" => stays \subseteq world'["folder"].members
  <2>1. DOMAIN world = Facets /\ (\A f \in Facets : world[f] \in Values[f]) /\ "folder" \in Facets
    BY <1>1 DEF TypeOK, Facets
  <2>2. CASE request.op = "folder_add"
    <3> DEFINE new == [world["folder"] EXCEPT !.members = seen["folder"].members \cup {"this"}]
    <3>1. new \in Folders /\ stays \subseteq new.members
      BY <1>4, <2>2 DEF Folders
    <3>2. Values["folder"] = Folders
      BY DEF Values
    <3>3. world' = [world EXCEPT !["folder"] = new]
      BY <1>4, <2>2
    <3> HIDE DEF new
    <3> QED
      BY <2>1, <3>1, <3>2, <3>3
  <2>3. CASE request.op # "folder_add"
    BY <1>1, <2>1, <2>3
  <2> QED
    BY <2>2, <2>3
<1>6. TypeOK'
  <2>1. at' \in 1 .. Len(Program') + 1
    <3>1. Program' = Executors(request.op)
      BY <1>1 DEF Program, Executors
    <3>2. Len(Program') \in Nat
      BY <1>1, <3>1, RequestTypes, ExecutorSteps
    <3> QED
      BY <1>1, <3>2
  <2> QED
    BY <1>1, <1>2, <1>5, <2>1 DEF TypeOK
<1>7. Caught'
  BY <1>1, <1>2, <1>3 DEF Inv, Caught, SeenAsRecorded
<1>8. FolderKept' /\ AtRest'
  BY <1>1, <1>5 DEF FolderKept, AtRest
<1> QED
  BY <1>1, <1>3, <1>6, <1>7, <1>8 DEF Inv

\* The first states.
LEMMA InitIsInv == Init => Inv
<1> SUFFICES ASSUME Init PROVE Inv
  OBVIOUS
<1>1. DOMAIN seen = Items /\ plan = seen /\ \A x \in Items : seen[x] = None
  BY DEF Init, Nothing, Items
<1>2. TypeOK
  <2>1. request.op \in DOMAIN Planners
    BY RequestAssumption DEF Init
  <2>2. at \in 1 .. Len(Program) + 1
    <3>1. Program = Planners[request.op] /\ at = 1
      BY DEF Init, Program
    <3>2. Len(Program) \in Nat
      BY <2>1, <3>1, PlannersPlan DEF Plans, ReadsInOrder
    <3> QED
      BY <3>1, <3>2
  <2>3. None # NoMessage /\ None # Gone
    BY RequestAssumption DEF Facets, Values, Texts
  <2>4. /\ \A r \in Roles : seen[r] = None
        /\ \A f \in Facets : seen[f] = None
        /\ seen["text"] # NoMessage /\ seen["file"] # Gone
    BY <1>1, <2>3 DEF Items, Facets
  <2>5. DOMAIN world = Facets /\ \A f \in Facets : world[f] \in Values[f]
    <3>1. /\ DOMAIN Plain = Facets /\ \A f \in Facets : Plain[f] \in Values[f]
          /\ [Plain["text"] EXCEPT !.own = FALSE] \in Texts
      <4>1. DOMAIN Plain = Facets
        BY DEF Plain, Facets
      <4>2. Plain["text"] \in Texts /\ [Plain["text"] EXCEPT !.own = FALSE] \in Texts
        BY DEF Plain, Texts
      <4>3. Plain["folder"] \in Folders
        BY DEF Plain, Folders
      <4>4. \A f \in Facets \ {"text", "folder"} : Plain[f] \in Values[f]
        <5>1. /\ Plain["mine"] = {} /\ Plain["pinned"] = FALSE /\ Plain["title"] = "old"
              /\ Plain["about"] = "old" /\ Plain["photo"] = "old" /\ Plain["file"] = "old"
              /\ Plain["time"] = "ahead"
          BY DEF Plain
        <5>2. /\ Values["mine"] = SUBSET Reactions /\ Values["pinned"] = BOOLEAN
              /\ "old" \in Values["title"] /\ "old" \in Values["about"]
              /\ "old" \in Values["photo"] /\ "old" \in Values["file"]
              /\ "ahead" \in Values["time"]
          BY DEF Values
        <5> QED
          BY <5>1, <5>2 DEF Facets
      <4>5. Values["text"] = Texts /\ Values["folder"] = Folders
        BY DEF Values
      <4> QED
        BY <4>1, <4>2, <4>3, <4>4, <4>5
    <3>2. /\ Values["text"] = Texts /\ Values["mine"] = SUBSET Reactions
          /\ Values["pinned"] = BOOLEAN
          /\ "text" \in Facets /\ "mine" \in Facets /\ "pinned" \in Facets
      BY DEF Values, Facets
    <3>3. {{}, {"up"}, {"up", "paid"}} \subseteq SUBSET Reactions
      BY DEF Reactions
    <3>4. \/ world = Plain
          \/ world = [Plain EXCEPT !["text"] = [@ EXCEPT !.own = FALSE]]
          \/ \E m \in SUBSET Reactions : world = [Plain EXCEPT !["mine"] = m]
          \/ \E b \in BOOLEAN : world = [Plain EXCEPT !["pinned"] = b]
      <4>1. world \in Worlds(request.op)
        BY DEF Init
      <4> HIDE DEF Plain
      <4> QED
        BY <3>3, <4>1 DEF Worlds
    <3> HIDE DEF Plain, Values, Facets
    <3> QED
      BY <3>1, <3>2, <3>4
  <2>6. changes \in 0 .. MaxChanges
    BY ReviewAssumption DEF Init
  <2>7. \A k \in {seen, plan} :
          /\ DOMAIN k = Roles \cup Facets
          /\ \A r \in Roles : k[r] = None \/ k[r] \in Peer
          /\ \A f \in Facets : k[f] = None \/ k[f] \in Values[f]
          /\ k.text # NoMessage /\ k.file # Gone
    BY <1>1, <2>4 DEF Items
  <2>8. /\ request \in Requests /\ {config, loaded} \subseteq Configs
        /\ holder \in [Names -> Ids \cup {None}] /\ member \in BOOLEAN
        /\ phase \in {"planning", "pending", "verifying", "executing", "sent", "refused"}
        /\ held \subseteq Reviewed /\ stays \subseteq {"this", "a", "b"}
    BY ReviewAssumption DEF Init
  <2> QED
    BY <2>2, <2>5, <2>6, <2>7, <2>8 DEF TypeOK
<1>3. Traced
  <2>1. Passed = 0
    BY DEF Init, Passed
  <2> QED
    BY <1>1, <2>1 DEF Traced
<1>4. Noted /\ Caught /\ FolderKept /\ AtRest
  BY DEF Init, Noted, Caught, FolderKept, AtRest
<1> QED
  BY <1>2, <1>3, <1>4 DEF Init, Inv

\* Every step keeps the invariant.
LEMMA InvIsInductive == Inv /\ [Next]_vars => Inv'
<1> SUFFICES ASSUME Inv, [Next]_vars PROVE Inv'
  OBVIOUS
<1>1. CASE \/ \E n \in Names, id \in Ids \cup {None} : NameMoves(n, id)
           \/ Joins
           \/ \E f \in Facets : \E v \in Values[f] : WorldChanges(f, v)
           \/ \E c \in Configs : Reconfigure(c)
  BY <1>1, EnvironmentKeepsInv
<1>2. CASE Read
  BY <1>2, ReadKeepsInv
<1>3. CASE Pass
  BY <1>3, PassKeepsInv
<1>4. CASE Refuse
  BY <1>4, RefuseKeepsInv
<1>5. CASE _create
  BY <1>5, CreateKeepsInv
<1>6. CASE apply_plan
  BY <1>6, ApplyKeepsInv
<1>7. CASE _verify
  BY <1>7, VerifyKeepsInv
<1>8. CASE _execute
  BY <1>8, ExecuteKeepsInv
<1>9. CASE UNCHANGED vars
  <2>1. UNCHANGED <<request, config, loaded, holder, member, world, phase, at, seen, plan,
                    held, stays, changes>>
    BY <1>9 DEF vars
  <2>2. Reviewed' = Reviewed /\ Program' = Program /\ Behind' = Behind /\ Passed' = Passed
    BY <2>1, SameRequest
  <2>3. TypeOK'
    BY <2>1, <2>2 DEF Inv, TypeOK
  <2>4. Traced'
    BY <2>1, <2>2, StillHolds DEF Inv, Traced
  <2>5. Noted' /\ FolderKept' /\ AtRest'
    BY <2>1, <2>2 DEF Inv, Noted, Sort, FolderKept, AtRest
  <2>6. Caught'
    BY <2>1, <2>2, StillAsRecorded DEF Inv, Caught, SeenAsRecorded
  <2>7. phase' = "refused" => PolicyKept'
    <3> SUFFICES ASSUME phase = "refused" PROVE PolicyKept'
      BY <2>1
    <3>1. PolicyKept
      BY DEF Inv
    <3> QED
      BY <2>1, <3>1, PolicyStays
  <2> QED
    BY <2>3, <2>4, <2>5, <2>6, <2>7 DEF Inv
<1> QED
  BY <1>1, <1>2, <1>3, <1>4, <1>5, <1>6, <1>7, <1>8, <1>9 DEF Next

-----------------------------------------------------------------------------
(* The properties.                                                          *)

\* A request that left has everything that was reviewed seen as recorded.
LEMMA SentAsRecorded ==
  ASSUME Inv, phase = "sent"
  PROVE  /\ Reviewed \subseteq held
         /\ \A r \in RolesOf(request.op) : seen[r].id = plan[r].id
         /\ \A x \in Reviewed \ {"time"} : SeenAsRecorded(x)
<1>0. PICK b : b = Behind
  OBVIOUS
<1>1. /\ \A i \in 1 .. Len(b) : Holds(b[i])
      /\ Passed = Len(b) /\ DOMAIN b = 1 .. Len(b) /\ Reads(b, Reviewed) /\ Compares(b, Reviewed)
      /\ TypeOK /\ Noted /\ Caught
  BY <1>0, BehindIsSound DEF Inv, Traced, Behind, Passed, Verifies, Plans, ReadsInOrder
<1>2. Reviewed \subseteq Items /\ RolesOf(request.op) \subseteq Roles
  BY <1>1, RequestTypes, ItemTypes DEF Reviewed, Items
<1>3. ASSUME NEW x \in Reviewed
      PROVE  /\ seen[x] \in Sort(x) /\ plan[x] \in Sort(x)
             /\ \E i \in 1 .. Len(b) : Teaches(b[i], x)
             /\ x = "time" => plan[x] = "ahead"
  <2>1. PICK i \in 1 .. Len(b) : Teaches(b[i], x)
    BY <1>1 DEF Reads
  <2>2. seen[x] \in Sort(x)
    BY <1>1, <1>2, <2>1 DEF Holds
  <2> QED
    BY <1>1, <2>1, <2>2 DEF Noted
<1>4. ASSUME NEW x \in Reviewed \ {"time"} PROVE IsSame(x) /\ SeenAsRecorded(x)
  <2>1. PICK i \in 1 .. Len(b) : b[i] = Same(x)
    BY <1>1 DEF Compares
  <2>2. IsSame(x)
    BY <1>1, <1>2, <2>1 DEF Holds
  <2> QED
    BY <1>2, <1>3, <2>2, SameMeansAsRecorded
<1>5. ASSUME "time" \in Reviewed PROVE SeenAsRecorded("time")
  <2>1. PICK i \in 1 .. Len(b) : b[i] = Check("time")
    BY <1>1, <1>5 DEF Compares
  <2>2. require_a_reachable_time
    BY <1>1, <2>1 DEF Holds
  <2>3. seen["time"] = "ahead"
    BY <1>1, <1>5, <2>2, TimeIsAsked DEF require_a_reachable_time
  <2> QED
    BY <1>3, <1>5, <2>3 DEF SeenAsRecorded
<1>6. Reviewed \subseteq held
  BY <1>0, <1>1, <1>3, <1>4, <1>5 DEF Caught
<1>7. \A r \in RolesOf(request.op) : seen[r].id = plan[r].id
  <2> SUFFICES ASSUME NEW r \in RolesOf(request.op) PROVE seen[r].id = plan[r].id
    OBVIOUS
  <2>1. r \in Reviewed \ {"time"} /\ r \in Roles
    BY <1>2 DEF Reviewed, Roles
  <2> QED
    BY <1>4, <2>1 DEF IsSame, _check_peer, Roles
<1> QED
  BY <1>4, <1>6, <1>7

\* The invariant says that a request does what was reviewed.
LEMMA InvActsOnWhatWasReviewed == Inv => ActsOnWhatWasReviewed
<1> SUFFICES ASSUME Inv, phase = "sent" PROVE ActsOnWhatWasReviewed
  BY DEF ActsOnWhatWasReviewed
<1>1. /\ Reviewed \subseteq held
      /\ \A r \in RolesOf(request.op) : seen[r].id = plan[r].id
      /\ \A x \in Reviewed \ {"time"} : SeenAsRecorded(x)
  BY SentAsRecorded
<1>2. request.op \in {"react", "unreact"} => seen["mine"] = plan["mine"]
  <2>1. request.op \in {"react", "unreact"} => "mine" \in Reviewed
    BY DEF Reviewed, Recorded
  <2> QED
    BY <1>1, <2>1 DEF SeenAsRecorded
<1>3. /\ request.op = "react" => final_reactions(seen["mine"]) = final_reactions(plan["mine"])
      /\ request.op = "unreact" =>
           remaining_reactions(seen["mine"]) = remaining_reactions(plan["mine"])
  BY <1>2
<1>4. request.op = "folder_add" => stays \subseteq world["folder"].members
  BY DEF Inv, FolderKept
<1> QED
  BY <1>1, <1>3, <1>4 DEF ActsOnWhatWasReviewed

\* And that the policy comes first.
LEMMA InvPolicyComesFirst == Inv => PolicyComesFirst
<1> SUFFICES ASSUME Inv PROVE PolicyComesFirst
  OBVIOUS
<1>1. PolicyKept /\ (phase \in {"pending", "executing", "sent"} => Judged)
  BY PolicyIsKept DEF Inv
<1>2. ASSUME phase \in {"pending", "sent"}, request.op = "profile" PROVE MayChangeProfile(loaded)
  <2>0. PICK b : b = Behind
    OBVIOUS
  <2>1. \A i \in 1 .. Len(b) : Holds(b[i])
    BY <1>2, <2>0 DEF Inv, Traced, Passed
  <2>2. b \in {plan_set_profile, verify_profile}
    BY <1>2, <2>0 DEF Behind, Planners, Verifiers
  <2>3. Len(b) = 2 /\ b[2] = Check("profile")
    BY <2>2 DEF plan_set_profile, verify_profile
  <2> QED
    BY <2>1, <2>3 DEF Holds
<1> QED
  BY <1>1, <1>2 DEF PolicyKept, PolicyComesFirst

\* The invariant: everything the process saw was read by a step behind it, the steps
\* behind still hold of it, and what was seen as recorded has been caught in that state.
THEOREM InvHolds == Spec => []Inv
<1>1. Init => Inv
  BY InitIsInv
<1>2. Inv /\ [Next]_vars => Inv'
  BY InvIsInductive
<1> QED
  BY <1>1, <1>2, PTL DEF Spec

\* Types: programs stay within their steps, a plan holds peers and values of the right
\* sorts, and neither a message nor a file that is gone is ever recorded.
THEOREM TypeCorrect == Spec => []TypeOK
<1>1. Inv => TypeOK
  BY DEF Inv
<1> QED
  BY <1>1, InvHolds, PTL

\* No name is looked up, no content fetched, no plan recorded and no request sent unless
\* the policy of the loaded configuration permits every peer it touches
\* (require_planning_profile, require_peer, SafetyKernel.check).
THEOREM PolicyComesFirstHolds == Spec => []PolicyComesFirst
  BY InvPolicyComesFirst, InvHolds, PTL

\* A request leaves only for the peers of its plan, with everything the person was shown
\* found as recorded since the apply began, whoever changes names, messages, files,
\* folders and the configuration in between (_check_peer, _check_messages, _check_file,
\* _verify_mark; the folder read again by _execute).
THEOREM ActsOnWhatWasReviewedHolds == Spec => []ActsOnWhatWasReviewed
  BY InvActsOnWhatWasReviewed, InvHolds, PTL

-----------------------------------------------------------------------------
(* Sorting and cutting.  A rank orders the places it is of, by its numbers *)
(* and then as they were listed; nothing more is needed of it.             *)

Places == Nat \X Nat

\* Every place has a rank of k numbers.
Ranks(rank, places, k) ==
  \A p \in places : DOMAIN rank[p] = 1 .. k /\ \A j \in 1 .. k : rank[p][j] \in Int

Orders(rank, places) ==
  /\ \A a \in places : ~ Ahead(rank, a, a)
  /\ \A a, b, c \in places : Ahead(rank, a, b) /\ Ahead(rank, b, c) => Ahead(rank, a, c)

LEMMA MoreIsTransitive ==
  ASSUME NEW k \in Nat, NEW a, NEW b, NEW c,
         \A s \in {a, b, c} : DOMAIN s = 1 .. k /\ \A j \in 1 .. k : s[j] \in Int,
         More(a, b), More(b, c)
  PROVE  More(a, c)
<1>1. PICK i \in 1 .. k : a[i] > b[i] /\ \A j \in 1 .. i - 1 : a[j] = b[j]
  BY DEF More
<1>2. PICK l \in 1 .. k : b[l] > c[l] /\ \A j \in 1 .. l - 1 : b[j] = c[j]
  BY DEF More
<1>3. \A j \in 1 .. k : a[j] \in Int /\ b[j] \in Int /\ c[j] \in Int
  OBVIOUS
<1>4. CASE i <= l
  <2>1. a[i] > c[i]
    <3>1. i = l \/ i \in 1 .. l - 1
      BY <1>4
    <3>2. b[i] = c[i] \/ b[i] > c[i]
      BY <3>1, <1>2
    <3> QED
      BY <3>2, <1>1, <1>3
  <2>2. \A j \in 1 .. i - 1 : a[j] = c[j]
    BY <1>1, <1>2, <1>4
  <2> QED
    BY <2>1, <2>2 DEF More
<1>5. CASE l < i
  <2>1. a[l] > c[l]
    <3>1. a[l] = b[l]
      BY <1>1, <1>5
    <3> QED
      BY <3>1, <1>2
  <2>2. \A j \in 1 .. l - 1 : a[j] = c[j]
    BY <1>1, <1>2, <1>5
  <2> QED
    BY <2>1, <2>2 DEF More
<1> QED
  BY <1>4, <1>5

LEMMA RanksOrder ==
  ASSUME NEW places, places \subseteq Places, NEW k \in Nat, NEW rank, Ranks(rank, places, k)
  PROVE  Orders(rank, places)
<1>1. \A a, b, c \in places : Earlier(a, b) /\ Earlier(b, c) => Earlier(a, c)
  BY DEF Places, Earlier
<1>2. \A a \in places : ~ Earlier(a, a)
  BY DEF Places, Earlier
<1>3. ASSUME NEW a \in places PROVE ~ Ahead(rank, a, a)
  <2>1. ~ More(rank[a], rank[a])
    BY DEF Ranks, More
  <2> QED
    BY <2>1, <1>2 DEF Ahead
<1>4. ASSUME NEW a \in places, NEW b \in places, NEW c \in places,
             Ahead(rank, a, b), Ahead(rank, b, c)
      PROVE  Ahead(rank, a, c)
  <2>1. More(rank[a], rank[b]) /\ More(rank[b], rank[c]) => More(rank[a], rank[c])
    <3>1. \A s \in {rank[a], rank[b], rank[c]} :
            DOMAIN s = 1 .. k /\ \A j \in 1 .. k : s[j] \in Int
      BY DEF Ranks
    <3> QED
      BY <3>1, MoreIsTransitive
  <2> QED
    BY <2>1, <1>1, <1>4 DEF Ahead
<1> QED
  BY <1>3, <1>4 DEF Orders

\* A set of natural numbers that is not empty has a least one.
LEMMA HasLeast ==
  ASSUME NEW S, S \subseteq Nat, S # {}
  PROVE  \E x \in S : \A y \in S : x <= y
<1> DEFINE R == OpToRel(<, Nat)
<1>1. PICK x \in S : \A y \in S : ~ (<<y, x>> \in R)
  <2>1. IsWellFoundedOn(R, Nat)
    BY NatLessThanWellFounded
  <2> HIDE DEF R
  <2> QED
    BY <2>1, WFMin
<1>2. \A y \in S : ~ (y < x)
  BY <1>1 DEF OpToRel
<1> QED
  BY <1>2

\* What is beyond the n-th hit has n of them ahead of it that are not beyond it.
LEMMA EnoughAhead ==
  ASSUME NEW places, NEW hits, hits \subseteq places, IsFiniteSet(hits), NEW n \in Nat,
         NEW rank, Orders(rank, places), NEW p \in places, p \notin UpTo(places, hits, n, rank)
  PROVE  \E B \in SUBSET (hits \cap UpTo(places, hits, n, rank)) :
           /\ IsFiniteSet(B) /\ Cardinality(B) >= n
           /\ \A b \in B : Ahead(rank, b, p)
<1> DEFINE H(x) == {h \in hits : Ahead(rank, h, x)}
           N(x) == Cardinality(H(x))
           in   == UpTo(places, hits, n, rank)
           X    == {x \in places \ in : x = p \/ Ahead(rank, x, p)}
           S    == {N(x) : x \in X}
<1>1. \A x : H(x) \subseteq hits /\ IsFiniteSet(H(x)) /\ N(x) \in Nat
  <2> TAKE x
  <2>1. H(x) \in SUBSET hits
    OBVIOUS
  <2> HIDE DEF H
  <2>2. IsFiniteSet(H(x))
    BY <2>1, FS_Subset
  <2> QED
    BY <2>1, <2>2, FS_CardinalityType
<1>2. \A x \in places : x \in in <=> N(x) < n
  BY DEF UpTo
<1>3. PICK x \in X : \A y \in X : N(x) <= N(y)
  <2>1. p \in X
    OBVIOUS
  <2> HIDE DEF X
  <2>2. S \subseteq Nat /\ S # {}
    BY <1>1, <2>1
  <2>3. PICK m \in S : \A k \in S : m <= k
    <3> HIDE DEF S
    <3> QED
      BY <2>2, HasLeast
  <2> QED
    BY <2>3
<1>4. N(x) >= n
  <2>1. ~ (N(x) < n)
    BY <1>2, <1>3
  <2>2. N(x) \in Nat
    BY <1>1
  <2> HIDE DEF N
  <2> QED
    BY <2>1, <2>2
<1>5. \A h \in H(x) : Ahead(rank, h, p)
  BY <1>3 DEF Orders
<1>6. ASSUME NEW h \in H(x), h \notin in PROVE FALSE
  <2>1. h \in X
    BY <1>5, <1>6
  <2>2. H(h) \subseteq H(x)
    BY <1>3 DEF Orders
  <2>3. h \in H(x) /\ h \notin H(h)
    BY DEF Orders
  <2>4. N(x) <= N(h)
    BY <1>3, <2>1
  <2>5. H(h) \in SUBSET H(x) /\ IsFiniteSet(H(x))
    BY <2>2, <1>1
  <2>6. N(h) <= N(x) /\ (N(x) = N(h) => H(x) = H(h))
    <3> HIDE DEF H
    <3> QED
      BY <2>5, FS_Subset
  <2>7. N(h) \in Nat /\ N(x) \in Nat
    BY <1>1
  <2>8. N(x) = N(h)
    <3> HIDE DEF N
    <3> QED
      BY <2>4, <2>6, <2>7
  <2> QED
    BY <2>3, <2>6, <2>8
<1>7. H(x) \in SUBSET (hits \cap in)
  BY <1>6
<1> QED
  BY <1>1, <1>4, <1>5, <1>7

\* So a walk that ends early has found all it was to find, and a cut list is full.
LEMMA FoundEnough ==
  ASSUME NEW places, IsFiniteSet(places), NEW hits, hits \subseteq places, NEW n \in Nat,
         NEW rank, Orders(rank, places), UpTo(places, hits, n, rank) # places
  PROVE  Cardinality(hits \cap UpTo(places, hits, n, rank)) >= n
<1> DEFINE in == UpTo(places, hits, n, rank)
<1>1. PICK p \in places : p \notin in
  BY DEF UpTo
<1>2. IsFiniteSet(hits)
  BY FS_Subset
<1>3. PICK B \in SUBSET (hits \cap in) : IsFiniteSet(B) /\ Cardinality(B) >= n
  BY <1>1, <1>2, EnoughAhead
<1> HIDE DEF in
<1>4. IsFiniteSet(hits \cap in)
  BY <1>2, FS_Intersection
<1>5. Cardinality(B) <= Cardinality(hits \cap in) /\ Cardinality(B) \in Nat
      /\ Cardinality(hits \cap in) \in Nat
  BY <1>3, <1>4, FS_Subset, FS_CardinalityType
<1>6. Cardinality(hits \cap in) >= n
  BY <1>3, <1>5
<1> QED
  BY <1>6 DEF in

\* Nothing that was left out should have come before what was taken.
LEMMA LeftOutIsBehind ==
  ASSUME NEW places, NEW hits, hits \subseteq places, IsFiniteSet(hits), NEW n \in Nat,
         NEW rank, Orders(rank, places),
         NEW p \in places, p \notin UpTo(places, hits, n, rank),
         NEW r \in UpTo(places, hits, n, rank)
  PROVE  ~ Ahead(rank, p, r)
<1> SUFFICES ASSUME Ahead(rank, p, r) PROVE FALSE
  OBVIOUS
<1> DEFINE H(x) == {h \in hits : Ahead(rank, h, x)}
<1>1. r \in places /\ Cardinality(H(r)) < n /\ ~ (Cardinality(H(p)) < n)
  BY DEF UpTo
<1>2. H(p) \subseteq H(r)
  BY <1>1 DEF Orders
<1>3. H(r) \subseteq hits
  OBVIOUS
<1> HIDE DEF H
<1>4. IsFiniteSet(H(r))
  BY <1>3, FS_Subset
<1>5. Cardinality(H(p)) <= Cardinality(H(r)) /\ IsFiniteSet(H(p))
  BY <1>2, <1>4, FS_Subset
<1>6. Cardinality(H(p)) \in Nat /\ Cardinality(H(r)) \in Nat
  BY <1>4, <1>5, FS_CardinalityType
<1> QED
  BY <1>1, <1>5, <1>6

\* A list that was cut is shorter.
LEMMA CutIsShorter ==
  ASSUME NEW whole, IsFiniteSet(whole), NEW part, part \subseteq whole, NEW p \in whole \ part
  PROVE  Cardinality(part) < Cardinality(whole)
<1>1. IsFiniteSet(part) /\ Cardinality(part) <= Cardinality(whole)
      /\ (Cardinality(whole) = Cardinality(part) => whole = part)
  BY FS_Subset
<1>2. Cardinality(part) \in Nat /\ Cardinality(whole) \in Nat
  BY <1>1, FS_CardinalityType
<1> QED
  BY <1>1, <1>2

\* There are no more of what is made of some things than there are things.
LEMMA NoMoreThan ==
  ASSUME NEW S, IsFiniteSet(S), NEW T, NEW f, \A t \in T : \E s \in S : t = f[s]
  PROVE  IsFiniteSet(T) /\ Cardinality(T) <= Cardinality(S)
         /\ Cardinality(T) \in Nat /\ Cardinality(S) \in Nat
<1> DEFINE D == {s \in S : f[s] \in T}
           g == [s \in D |-> f[s]]
<1>1. D \in SUBSET S
  OBVIOUS
<1>2. g \in [D -> T] /\ \A t \in T : \E s \in D : g[s] = t
  OBVIOUS
<1> HIDE DEF D, g
<1>3. g \in Surjection(D, T)
  BY <1>2 DEF Surjection
<1>4. IsFiniteSet(D) /\ Cardinality(D) <= Cardinality(S)
  BY <1>1, FS_Subset
<1>5. IsFiniteSet(T) /\ Cardinality(T) <= Cardinality(D)
  BY <1>3, <1>4, FS_Surjection
<1>6. Cardinality(T) \in Nat /\ Cardinality(D) \in Nat /\ Cardinality(S) \in Nat
  BY <1>4, <1>5, FS_CardinalityType
<1> QED
  BY <1>4, <1>5, <1>6

-----------------------------------------------------------------------------
(* What is walked, and what every answer has to show for.                   *)

IsQuestion(q) ==
  /\ q.op \in Handlers /\ q.limit \in Nat /\ IsList(q.accounts)
  /\ Len(q.accounts) = 1 \/ (q.op \in {"inbox", "mentions"} /\ ~ q.named)
  /\ \A a \in DOMAIN q.accounts :
       /\ IsList(q.accounts[a].items)
       /\ \A i \in DOMAIN q.accounts[a].items : IsItem(q.accounts[a].items[i])

LEMMA WalkIsFinite ==
  ASSUME NEW q, IsQuestion(q)
  PROVE  /\ Everything(q) \subseteq Places /\ IsFiniteSet(Everything(q))
         /\ \A n \in Nat : /\ Walk(q, n) \subseteq Everything(q) /\ IsFiniteSet(Walk(q, n))
                           /\ \A p \in Everything(q) : p[2] <= n => p \in Walk(q, n)
         /\ \A p \in Everything(q) :
              /\ p[1] \in Answering(q) /\ p = <<p[1], p[2]>>
              /\ p[2] \in 1 .. Len(q.accounts[p[1]].items)
              /\ IsItem(ItemAt(q, p))
         /\ \A a \in Answering(q) : \A i \in 1 .. Len(q.accounts[a].items) :
              <<a, i>> \in Everything(q)
<1> DEFINE A == Answering(q)
           f == [a \in A |-> {a} \X DOMAIN q.accounts[a].items]
           Parts == {{a} \X DOMAIN q.accounts[a].items : a \in A}
<1>1. A \subseteq 1 .. Len(q.accounts) /\ Len(q.accounts) \in Nat
  BY DEF Answering, IsQuestion, IsList
<1>2. \A a \in A : /\ DOMAIN q.accounts[a].items = 1 .. Len(q.accounts[a].items)
                   /\ Len(q.accounts[a].items) \in Nat
                   /\ \A i \in DOMAIN q.accounts[a].items : IsItem(q.accounts[a].items[i])
  BY DEF Answering, IsQuestion, IsList
<1>3. IsFiniteSet(A)
  <2>1. IsFiniteSet(1 .. Len(q.accounts))
    BY <1>1, FS_Interval
  <2> HIDE DEF A
  <2> QED
    BY <1>1, <2>1, FS_Subset
<1>4. ASSUME NEW P \in Parts PROVE IsFiniteSet(P)
  <2>1. PICK a \in A : P = {a} \X DOMAIN q.accounts[a].items
    OBVIOUS
  <2> DEFINE D == DOMAIN q.accounts[a].items
  <2>2. IsFiniteSet(D)
    <3>1. D = 1 .. Len(q.accounts[a].items) /\ Len(q.accounts[a].items) \in Int
      BY <1>2
    <3> HIDE DEF D
    <3> QED
      BY <3>1, FS_Interval
  <2>3. IsFiniteSet({a})
    BY FS_Singleton
  <2>4. P = {a} \X D
    BY <2>1
  <2> HIDE DEF D
  <2> QED
    BY <2>2, <2>3, <2>4, FS_Product
<1>5. IsFiniteSet(Parts)
  <2>1. \A P \in Parts : \E a \in A : P = f[a]
    OBVIOUS
  <2> HIDE DEF Parts, f, A
  <2> QED
    BY <1>3, <2>1, NoMoreThan
<1>6. IsFiniteSet(Everything(q))
  <2>1. Everything(q) = UNION Parts
    BY DEF Everything
  <2> HIDE DEF Parts
  <2> QED
    BY <1>4, <1>5, <2>1, FS_UNION
<1>7. \A p \in Everything(q) :
        \E a \in A : \E i \in 1 .. Len(q.accounts[a].items) : p = <<a, i>>
  BY <1>2 DEF Everything
<1>8. ASSUME NEW p \in Everything(q)
      PROVE  /\ p[1] \in A /\ p = <<p[1], p[2]>> /\ p \in Places
             /\ p[2] \in 1 .. Len(q.accounts[p[1]].items)
             /\ IsItem(ItemAt(q, p))
  <2>1. PICK a \in A : \E i \in 1 .. Len(q.accounts[a].items) : p = <<a, i>>
    BY <1>7
  <2>2. PICK i \in 1 .. Len(q.accounts[a].items) : p = <<a, i>>
    BY <2>1
  <2> QED
    BY <1>1, <1>2, <2>2 DEF Places, ItemAt
<1>9. ASSUME NEW n \in Nat
      PROVE  /\ Walk(q, n) \subseteq Everything(q) /\ IsFiniteSet(Walk(q, n))
             /\ \A p \in Everything(q) : p[2] <= n => p \in Walk(q, n)
  <2>1. Walk(q, n) \subseteq Everything(q)
    BY DEF Walk, Everything
  <2>2. ASSUME NEW p \in Everything(q), p[2] <= n PROVE p \in Walk(q, n)
    <3>1. p[1] \in A /\ p = <<p[1], p[2]>> /\ p[2] \in DOMAIN q.accounts[p[1]].items
      BY <1>2, <1>8
    <3> QED
      BY <2>2, <3>1 DEF Walk
  <2> QED
    BY <1>6, <2>1, <2>2, FS_Subset
<1>10. \A a \in Answering(q) : \A i \in 1 .. Len(q.accounts[a].items) :
         <<a, i>> \in Everything(q)
  BY <1>2 DEF Everything
<1> QED
  BY <1>6, <1>8, <1>9, <1>10

\* A place stands for the chat it is of, and nothing is counted twice.
LEMMA CountedByPlace ==
  ASSUME NEW S, IsFiniteSet(S),
         \A p \in Looked(question) :
           /\ Relevant(question, p) /\ ~ Tellable(question, p)
           /\ ItemAt(question, p).known => ~ Closed(ItemAt(question, p))
           => p \in S
  PROVE  /\ Cardinality(Unreported) <= Cardinality(S)
         /\ Cardinality(Unreported) \in Nat /\ Cardinality(S) \in Nat
<1> DEFINE f == [p \in S |-> <<p[1], ItemAt(question, p).peer>>]
<1>1. \A t \in Unreported : \E p \in S : t = f[p]
  BY DEF Unreported, WasCut, Missing
<1> HIDE DEF f
<1> QED
  BY <1>1, NoMoreThan

LEMMA CountedTogether ==
  ASSUME NEW S, IsFiniteSet(S), NEW T, IsFiniteSet(T)
  PROVE  /\ IsFiniteSet(S \cup T) /\ Cardinality(S \cup T) <= Cardinality(S) + Cardinality(T)
         /\ Cardinality(S \cup T) \in Nat /\ Cardinality(S) \in Nat /\ Cardinality(T) \in Nat
<1>1. /\ IsFiniteSet(S \cup T)
      /\ Cardinality(S \cup T) = Cardinality(S) + Cardinality(T) - Cardinality(S \cap T)
  BY FS_Union
<1>2. Cardinality(S \cap T) \in Nat
  BY FS_Intersection, FS_CardinalityType
<1> QED
  BY <1>1, <1>2, FS_CardinalityType

\* What can be told of is shown or cut.
CanTell(q) == {p \in Looked(q) : Relevant(q, p) /\ Tellable(q, p)}

LEMMA WhatAnAnswerOwes ==
  ASSUME NEW rows, rows \subseteq CanTell(question),
         {row.place : row \in answer.rows} = rows,
         \A row \in answer.rows :
           row.text => MayRead(question, ItemAt(question, row.place).peer),
         CanTell(question) \ rows # {} => answer.truncated,
         ~ answer.truncated => Cardinality(Unreported) <= answer.hidden + answer.withheld,
         \A m \in CanTell(question) \ rows, r \in rows :
           Len(question.accounts[m[1]].items) < ScanLimit => ~ Outranks(question, m, r)
  PROVE  ToldOrCounted
<1>1. \A p : Told(p) <=> p \in rows
  BY DEF Told
<1>2. WasCut = CanTell(question) \ rows
  BY <1>1 DEF WasCut, Missing, CanTell
<1>3. \A row \in answer.rows : row.place \in rows
  OBVIOUS
<1> QED
  BY <1>2, <1>3 DEF ToldOrCounted, CanTell

LEMMA WhoIsInARow ==
  ASSUME NEW q, NEW places
  PROVE  /\ {row.place : row \in Rows(q, places)} = places
         /\ \A row \in Rows(q, places) : row.text => Opens(q, row.place)
<1>1. \A p, t : [place |-> p, text |-> t].place = p
  OBVIOUS
<1>2. {row.place : row \in Rows(q, places)} = places
  BY <1>1 DEF Rows
<1>3. ASSUME NEW row \in Rows(q, places), row.text PROVE Opens(q, row.place)
  BY <1>3 DEF Rows
<1> QED
  BY <1>2, <1>3

LEMMA WhoIsNamed ==
  ASSUME NEW places
  PROVE  /\ {row.place : row \in Titles(places)} = places
         /\ {row.place : row \in Stored(places)} = places
         /\ \A row \in Titles(places) : ~ row.text
<1>1. \A p, t : [place |-> p, text |-> t].place = p
  OBVIOUS
<1>2. {row.place : row \in Titles(places)} = places
  BY <1>1 DEF Titles
<1>3. {row.place : row \in Stored(places)} = places
  BY <1>1 DEF Stored
<1>4. \A row \in Titles(places) : ~ row.text
  BY DEF Titles
<1> QED
  BY <1>2, <1>3, <1>4

LEMMA RepliesAre ==
  ASSUME NEW rows, NEW total, NEW hidden, NEW withheld, NEW failed, NEW truncated, NEW r,
         r = Reply(rows, total, hidden, withheld, failed, truncated)
  PROVE  /\ r.rows = rows /\ r.hidden = hidden /\ r.withheld = withheld
         /\ r.truncated = truncated /\ ~ r.refused
BY DEF Reply

-----------------------------------------------------------------------------
(* Whom the kernel opens.                                                   *)

LEMMA OpensWhatMayBeRead ==
  ASSUME NEW q, NEW p, IsItem(ItemAt(q, p))
  PROVE  /\ q.op \notin Offline => (Opens(q, p) <=> MayRead(q, ItemAt(q, p).peer))
         /\ q.op \in Offline =>
              (readable(q, p) <=> ItemAt(q, p).known /\ MayRead(q, ItemAt(q, p).peer))
<1> DEFINE peer == ItemAt(q, p).peer
<1>1. peer.kind \in Kinds /\ peer.id # None /\ "READ_CHAT" \in PeerCapabilities
  BY DEF IsItem, PeerCapabilities, ReadCapabilities
<1>2. CASE q.op \notin Offline
  <2>1. Opens(q, p) <=> Promised(q.config, "READ_CHAT", peer)
    BY <1>1, KernelKeepsItsPromise DEF Opens
  <2> QED
    BY <1>2, <2>1 DEF MayRead, Promised, JudgedAs, IsPrivate
<1>3. CASE q.op \in Offline
  <2> DEFINE stored == [id |-> peer.id, kind |-> peer.kind, name |-> None]
  <2>1. StoredPeer(peer) = stored /\ stored.id = peer.id /\ stored.kind = peer.kind
    BY DEF StoredPeer
  <2>2. Allowed(q.config, "READ_CHAT", stored) <=> Promised(q.config, "READ_CHAT", stored)
    <3> HIDE DEF stored
    <3> QED
      BY <1>1, <2>1, KernelKeepsItsPromise
  <2> QED
    BY <1>3, <2>1, <2>2 DEF MayRead, readable
<1> QED
  BY <1>2, <1>3

\* A chat on disk is judged by its id alone, which opens nothing that a live read would
\* not, as long as no deny entry names it by its username (archive.py, ArchivedChat.peer).
THEOREM ArchiveFailsClosedUnlessDeniedByName ==
  ASSUME NEW q, NEW p, IsItem(ItemAt(q, p)), readable(q, p),
         ItemAt(q, p).peer.name
           \notin RuleFor(q.config, JudgedAs("READ_CHAT", ItemAt(q, p).peer)).deny \ {None}
  PROVE  Opens(q, p)
<1> DEFINE peer   == ItemAt(q, p).peer
           stored == [id |-> peer.id, kind |-> peer.kind, name |-> None]
           rule   == RuleFor(q.config, JudgedAs("READ_CHAT", peer))
<1>1. peer.kind \in Kinds /\ peer.id # None /\ "READ_CHAT" \in PeerCapabilities
  BY DEF IsItem, PeerCapabilities, ReadCapabilities
<1>2. /\ StoredPeer(peer) = stored
      /\ stored.id = peer.id /\ stored.kind = peer.kind /\ stored.name = None
  BY DEF StoredPeer
<1>3. Promised(q.config, "READ_CHAT", stored)
  <2>1. Allowed(q.config, "READ_CHAT", stored)
    BY <1>2 DEF readable
  <2> HIDE DEF stored
  <2> QED
    BY <1>1, <1>2, <2>1, KernelKeepsItsPromise
<1>4. JudgedAs("READ_CHAT", stored) = JudgedAs("READ_CHAT", peer)
  BY <1>2 DEF JudgedAs, IsPrivate
<1> HIDE DEF stored, rule
<1>5. peer.name \notin rule.deny \ {None}
  BY DEF rule
<1>6. Promised(q.config, "READ_CHAT", peer)
  BY <1>2, <1>3, <1>4, <1>5 DEF Promised, rule
<1> QED
  BY <1>1, <1>6, KernelKeepsItsPromise DEF Opens

LEMMA ClosedIsNotOpened ==
  ASSUME NEW q, NEW p, NEW cap
  PROVE  /\ Closed(ItemAt(q, p)) <=> HardDeny(ItemAt(q, p).peer)
         /\ Allowed(q.config, cap, ItemAt(q, p).peer) => ~ Closed(ItemAt(q, p))
BY DEF Closed, HardDeny, Allowed, Verdict

\* A chat that may be listed is not closed, and not private unless asked for and allowed.
LEMMA ListedIsTellable ==
  ASSUME NEW q, NEW p, IsItem(ItemAt(q, p)), Enumerable(q, q.private), ~ Closed(ItemAt(q, p))
  PROVE  ~ Hides(q, p) <=> (ItemAt(q, p).peer.kind = "user" => q.private /\ q.config.enumerateDms)
BY DEF IsItem, Kinds, Enumerable, MayEnumerate, Closed, Hides, IsPrivate

\* A chat on disk that today's policy lets be read is told of.
LEMMA ArchiveIsTellable ==
  ASSUME NEW q, q.op \in Offline, NEW p \in Everything(q), IsItem(ItemAt(q, p))
  PROVE  /\ p \in _visible(q) <=> ItemAt(q, p).known /\ MayRead(q, ItemAt(q, p).peer)
         /\ p \in _visible(q) <=> Tellable(q, p)
<1>1. p \in _visible(q) <=> ItemAt(q, p).known /\ MayRead(q, ItemAt(q, p).peer)
  BY OpensWhatMayBeRead DEF _visible
<1>2. MayRead(q, ItemAt(q, p).peer) => ~ Closed(ItemAt(q, p))
  BY DEF MayRead, Promised, Closed
<1> QED
  BY <1>1, <1>2 DEF Tellable, Offline

-----------------------------------------------------------------------------
(* Each sweep.                                                              *)

\* The chats that are silent by default are asked for whenever it matters.
LEMMA SilenceIsAskedFor ==
  ASSUME NEW q, NEW account, NEW item
  PROVE  /\ InFolder(q, account, item, load_notify_defaults(q, account))
              <=> InFolder(q, account, item, account.silent)
         /\ q.op = "inbox" =>
              (q.muted \/ ~ dialog_is_muted(item, load_notify_defaults(q, account))
                 <=> q.muted \/ ~ dialog_is_muted(item, account.silent))
<1>1. CASE load_notify_defaults(q, account) = account.silent
  BY <1>1
<1>2. CASE load_notify_defaults(q, account) # account.silent
  <2>1. /\ q.folder # None => ~ FolderOf(q, account).muted
        /\ q.op = "inbox" => q.muted
    BY <1>2 DEF load_notify_defaults
  <2> QED
    BY <2>1 DEF InFolder, contains
<1> QED
  BY <1>1, <1>2

LEMMA InboxTells ==
  ASSUME IsQuestion(question), question.op = "inbox",
         answer = handle_inbox(question), ~ answer.refused
  PROVE  ToldOrCounted
<1> DEFINE q      == question
           walk   == Walk(q, ScanLimit)
           listed == Listed(q, walk)
           shown  == Shown(q, listed)
           all    == {p \in shown : Waits(q, p)}
           rank   == [p \in all |-> _rank(ItemAt(q, p))]
           rows   == First(all, q.limit, rank)
           closed == {p \in all : ~ Opens(q, p)}
<1>1. /\ Enumerable(q, q.private)
      /\ answer = Reply(Rows(q, rows), Cardinality(all), Cardinality(listed \ shown),
                        Cardinality(closed), Failed(q), Cardinality(rows) < Cardinality(all))
  BY DEF handle_inbox, Refusal
<1>2. /\ walk \subseteq Everything(q) /\ walk \subseteq Places /\ IsFiniteSet(walk)
      /\ \A p \in walk : IsItem(ItemAt(q, p))
  BY WalkIsFinite, ListingAssumption
<1>3. Looked(q) = walk
  BY DEF Looked
<1>4. \A p \in walk : p \in shown <=> ItemAt(q, p).known /\ ~ Closed(ItemAt(q, p)) /\ ~ Hides(q, p)
  BY ClosedIsNotOpened DEF Listed, Shown
<1>5. \A p \in walk : ItemAt(q, p).known => (Waits(q, p) <=> Relevant(q, p))
  BY SilenceIsAskedFor DEF Waits, Relevant, ItemAt
<1>6. \A p \in walk : p \in shown <=> Tellable(q, p)
  BY <1>1, <1>2, <1>4, ListedIsTellable DEF Tellable
<1>7. all = CanTell(q)
  <2>1. shown \subseteq walk /\ \A p \in shown : ItemAt(q, p).known
    BY DEF Shown, Listed
  <2> HIDE DEF walk, shown
  <2>2. \A p : p \in all <=> p \in walk /\ Relevant(q, p) /\ Tellable(q, p)
    BY <1>5, <1>6, <2>1
  <2> HIDE DEF all
  <2> QED
    BY <1>3, <2>2 DEF CanTell
<1>8. IsFiniteSet(all) /\ all \subseteq walk /\ rows \subseteq all
  <2>1. all \subseteq walk
    BY DEF Shown, Listed
  <2> QED
    BY <1>2, <2>1, FS_Subset DEF First, UpTo
<1> HIDE DEF walk
<1>9. Orders(rank, all)
  <2>1. Ranks(rank, all, 4)
    BY <1>2, <1>8 DEF Ranks, _rank, IsItem, Counters
  <2> HIDE DEF rank, all
  <2> QED
    BY <1>2, <1>8, <2>1, RanksOrder
<1>10. \A m \in all \ rows, r \in rows : ~ Outranks(q, m, r)
  <2> SUFFICES ASSUME NEW m \in all \ rows, NEW r \in rows, Outranks(q, m, r) PROVE FALSE
    OBVIOUS
  <2>1. Ahead(rank, m, r)
    BY <1>8 DEF Outranks, Ahead
  <2> HIDE DEF all, rank
  <2> QED
    BY <1>8, <1>9, <2>1, LeftOutIsBehind, q.limit \in Nat DEF First, IsQuestion
<1>11. all \ rows # {} => answer.truncated
  <2> HIDE DEF all, rows, listed, shown, closed
  <2>1. answer.truncated = (Cardinality(rows) < Cardinality(all))
    BY <1>1, RepliesAre
  <2> QED
    BY <1>8, <2>1, CutIsShorter
<1>12. Cardinality(Unreported) <= answer.hidden + answer.withheld
  <2>1. IsFiniteSet(listed \ shown) /\ IsFiniteSet(closed)
    <3>1. listed \subseteq walk
      BY DEF Listed
    <3> QED
      BY <1>2, <1>8, <3>1, FS_Subset
  <2>2. \A p \in Looked(q) :
          Relevant(q, p) /\ ~ Tellable(q, p) /\ (ItemAt(q, p).known => ~ Closed(ItemAt(q, p)))
          => p \in listed \ shown
    <3>1. \A p : Relevant(q, p) => ItemAt(q, p).known
      BY DEF Relevant, ItemAt
    <3>2. \A p \in walk : p \in listed <=> ItemAt(q, p).known /\ ~ Closed(ItemAt(q, p))
      BY ClosedIsNotOpened DEF Listed
    <3> QED
      BY <1>3, <1>6, <3>1, <3>2
  <2> HIDE DEF listed, shown, closed
  <2>3. /\ Cardinality(Unreported) <= Cardinality(listed \ shown)
        /\ Cardinality(Unreported) \in Nat /\ Cardinality(listed \ shown) \in Nat
    BY <2>1, <2>2, CountedByPlace
  <2>4. Cardinality(closed) \in Nat
    BY <2>1, FS_CardinalityType
  <2>5. answer.hidden = Cardinality(listed \ shown) /\ answer.withheld = Cardinality(closed)
    BY <1>1, RepliesAre
  <2> QED
    BY <2>3, <2>4, <2>5
<1>13. answer.rows = Rows(q, rows)
  BY <1>1, RepliesAre
<1>14. \A row \in answer.rows : row.text => MayRead(q, ItemAt(q, row.place).peer)
  <2>1. \A row \in answer.rows : row.place \in rows /\ (row.text => Opens(q, row.place))
    <3> HIDE DEF rows
    <3> QED
      BY <1>13, WhoIsInARow
  <2> QED
    BY <1>2, <1>8, <2>1, OpensWhatMayBeRead DEF Offline
<1> HIDE DEF rows, all, rank, listed, shown, closed
<1>15. {row.place : row \in answer.rows} = rows
  BY <1>13, WhoIsInARow
<1>16. rows \subseteq CanTell(q)
  BY <1>7, <1>8
<1> QED
  BY <1>7, <1>10, <1>11, <1>12, <1>14, <1>15, <1>16, WhatAnAnswerOwes

LEMMA DraftsAreJudged ==
  ASSUME NEW q, NEW p, NEW v, v = draft_visibility(q, ItemAt(q, p).peer)
  PROVE  /\ v = "show" <=> ~ Closed(ItemAt(q, p)) /\ ~ Hides(q, p) /\ Opens(q, p)
         /\ ~ Closed(ItemAt(q, p)) /\ Hides(q, p) => v = "private"
         /\ ~ Closed(ItemAt(q, p)) /\ ~ Hides(q, p) /\ ~ Opens(q, p) => v = "withheld"
<1> DEFINE peer == ItemAt(q, p).peer
<1>1. Closed(ItemAt(q, p)) <=> HardDeny(peer)
  BY ClosedIsNotOpened
<1>2. CASE HardDeny(peer)
  BY <1>1, <1>2 DEF draft_visibility
<1>3. CASE ~ HardDeny(peer) /\ IsPrivate(peer) /\ ~ q.private
  BY <1>1, <1>3 DEF draft_visibility, Hides
<1>4. CASE ~ HardDeny(peer) /\ ~ (IsPrivate(peer) /\ ~ q.private)
  BY <1>1, <1>4 DEF draft_visibility, Hides, Opens
<1> QED
  BY <1>2, <1>3, <1>4

LEMMA DraftsTell ==
  ASSUME IsQuestion(question), question.op = "drafts",
         answer = handle_drafts(question), ~ answer.refused
  PROVE  ToldOrCounted
<1> DEFINE q         == question
           all       == Everything(q)
           judged(v) == {p \in all : /\ ItemAt(q, p).known
                                     /\ draft_visibility(q, ItemAt(q, p).peer) = v}
           written   == {p \in judged("show") : ItemAt(q, p).hit}
           rank      == [p \in written |-> <<ItemAt(q, p).at>>]
           rows      == First(written, q.limit, rank)
           private   == judged("private")
           closed    == judged("withheld")
<1>1. /\ Enumerable(q, q.private)
      /\ answer = Reply(Rows(q, rows), Cardinality(written), Cardinality(private),
                        Cardinality(closed), 0, Cardinality(rows) < Cardinality(written))
  BY DEF handle_drafts, Refusal
<1>2. /\ all \subseteq Places /\ IsFiniteSet(all) /\ \A p \in all : IsItem(ItemAt(q, p))
  BY WalkIsFinite
<1>3. Looked(q) = all
  BY DEF Looked
<1>4. \A p : Relevant(q, p) <=> ItemAt(q, p).known /\ ItemAt(q, p).hit
  BY DEF Relevant, ItemAt
<1>5. \A p \in all : ItemAt(q, p).known =>
        (Tellable(q, p) <=> ~ Closed(ItemAt(q, p)) /\ ~ Hides(q, p) /\ Opens(q, p))
  BY <1>1, <1>2, ListedIsTellable, OpensWhatMayBeRead DEF Tellable, Offline
<1>6. \A p \in all : /\ p \in written <=> Relevant(q, p) /\ Tellable(q, p)
                     /\ /\ Relevant(q, p) /\ ~ Tellable(q, p)
                        /\ ItemAt(q, p).known => ~ Closed(ItemAt(q, p))
                        => p \in private \cup closed
  BY <1>4, <1>5, DraftsAreJudged
<1>7. written \subseteq all /\ private \subseteq all /\ closed \subseteq all
  OBVIOUS
<1>8. rows \subseteq written
  BY DEF First, UpTo
<1>9. Ranks(rank, written, 1)
  BY <1>2 DEF Ranks, IsItem, Counters
<1>10. \A m \in written, r \in written : Outranks(q, m, r) => Ahead(rank, m, r)
  <2> TAKE m \in written, r \in written
  <2> HAVE Outranks(q, m, r)
  <2>1. ItemAt(q, m).at > ItemAt(q, r).at
    BY DEF Outranks
  <2>2. More(<<ItemAt(q, m).at>>, <<ItemAt(q, r).at>>)
    BY <2>1 DEF More
  <2> QED
    BY <2>2 DEF Ahead
<1> HIDE DEF all, judged, written, rank, private, closed
<1>11. Orders(rank, written)
  BY <1>2, <1>7, <1>9, RanksOrder
<1>12. IsFiniteSet(written) /\ IsFiniteSet(private) /\ IsFiniteSet(closed)
  BY <1>2, <1>7, FS_Subset
<1>13. \A m \in written \ rows, r \in rows : ~ Outranks(q, m, r)
  BY <1>8, <1>10, <1>11, <1>12, LeftOutIsBehind, q.limit \in Nat DEF First, IsQuestion
<1> HIDE DEF rows
<1>14. written = CanTell(q)
  BY <1>3, <1>6, <1>7 DEF CanTell
<1>15. written \ rows # {} => answer.truncated
  <2>1. answer.truncated = (Cardinality(rows) < Cardinality(written))
    BY <1>1, RepliesAre
  <2> QED
    BY <1>8, <1>12, <2>1, CutIsShorter
<1>16. Cardinality(Unreported) <= answer.hidden + answer.withheld
  <2>1. /\ IsFiniteSet(private \cup closed)
        /\ Cardinality(private \cup closed) <= Cardinality(private) + Cardinality(closed)
        /\ Cardinality(private \cup closed) \in Nat
        /\ Cardinality(private) \in Nat /\ Cardinality(closed) \in Nat
    BY <1>12, CountedTogether
  <2>2. /\ Cardinality(Unreported) <= Cardinality(private \cup closed)
        /\ Cardinality(Unreported) \in Nat
    BY <1>3, <1>6, <2>1, CountedByPlace
  <2>3. answer.hidden = Cardinality(private) /\ answer.withheld = Cardinality(closed)
    BY <1>1, RepliesAre
  <2> QED
    BY <2>1, <2>2, <2>3
<1>17. answer.rows = Rows(q, rows)
  BY <1>1, RepliesAre
<1>18. {row.place : row \in answer.rows} = rows
  BY <1>17, WhoIsInARow
<1>19. \A row \in answer.rows : row.text => MayRead(q, ItemAt(q, row.place).peer)
  <2>1. \A row \in answer.rows : row.place \in rows /\ (row.text => Opens(q, row.place))
    BY <1>17, <1>18, WhoIsInARow
  <2> QED
    BY <1>2, <1>7, <1>8, <2>1, OpensWhatMayBeRead DEF Offline
<1> QED
  BY <1>8, <1>13, <1>14, <1>15, <1>16, <1>18, <1>19, WhatAnAnswerOwes

\* The account that asks is known by its own id, which is asked for whenever somebody
\* private may be named; so its own chat is never taken for a person's.
LEMMA FolderNamesTheTellable ==
  ASSUME NEW q, q.op = "folders", Enumerable(q, q.private),
         NEW p \in Everything(q), IsItem(ItemAt(q, p))
  PROVE  Tellable(q, p)
           <=> ItemAt(q, p).known /\ _peer_visible(q, ItemAt(q, p).peer, needs_self_id(q))
<1> DEFINE peer == ItemAt(q, p).peer
           self == needs_self_id(q)
           as   == [id |-> peer.id, kind |-> KindById(peer, self), name |-> None]
<1>1. HardDeny(as) <=> peer.id \in HardDenied \/ (self /\ peer.kind = "self")
  <2>1. KindById(peer, self) \in {"self", "user", "group"}
        /\ (KindById(peer, self) = "self" <=> self /\ peer.kind = "self")
    BY DEF KindById
  <2>2. as.id = peer.id /\ as.kind = KindById(peer, self)
    OBVIOUS
  <2> QED
    BY <2>1, <2>2 DEF HardDeny
<1>2. q.private /\ ItemAt(q, p).known /\ peer.kind = "self" => self
  BY DEF needs_self_id, IsPrivate
<1>3. Closed(ItemAt(q, p)) <=> peer.id \in HardDenied \/ peer.kind = "self"
  BY DEF Closed, IsItem
<1>4. Hides(q, p) <=> IsPrivate(peer) /\ ~ q.private
  BY DEF Hides
<1>5. _peer_visible(q, peer, self) <=> ~ HardDeny(as) /\ (q.private \/ ~ IsPrivate(peer))
  BY DEF _peer_visible
<1>6. ItemAt(q, p).known =>
        (_peer_visible(q, peer, self) <=> ~ Closed(ItemAt(q, p)) /\ ~ Hides(q, p))
  <2> HIDE DEF peer, self, as
  <2> QED
    BY <1>1, <1>2, <1>3, <1>4, <1>5 DEF IsPrivate
<1> QED
  BY <1>6, ListedIsTellable DEF Tellable

LEMMA FoldersTell ==
  ASSUME IsQuestion(question), question.op = "folders",
         answer = handle_folders(question), ~ answer.refused
  PROVE  ToldOrCounted
<1> DEFINE q       == question
           all     == Everything(q)
           visible == {p \in all : /\ ItemAt(q, p).known
                                   /\ _peer_visible(q, ItemAt(q, p).peer, needs_self_id(q))}
<1>1. /\ Enumerable(q, q.private)
      /\ answer = Reply(Titles(visible), Cardinality(visible), Cardinality(all \ visible),
                        0, 0, FALSE)
  BY DEF handle_folders, Refusal
<1>2. /\ IsFiniteSet(all) /\ \A p \in all : IsItem(ItemAt(q, p))
  BY WalkIsFinite
<1>3. Looked(q) = all /\ \A p : Relevant(q, p)
  BY DEF Looked, Relevant
<1>4. \A p \in all : p \in visible <=> Tellable(q, p)
  BY <1>1, <1>2, FolderNamesTheTellable
<1>5. visible \subseteq all
  OBVIOUS
<1> HIDE DEF visible, all
<1>6. visible = CanTell(q)
  BY <1>3, <1>4, <1>5 DEF CanTell
<1>7. Cardinality(Unreported) <= answer.hidden + answer.withheld
  <2>1. IsFiniteSet(all \ visible)
    BY <1>2, FS_Difference
  <2>2. /\ Cardinality(Unreported) <= Cardinality(all \ visible)
        /\ Cardinality(Unreported) \in Nat /\ Cardinality(all \ visible) \in Nat
    BY <1>3, <1>4, <2>1, CountedByPlace
  <2>3. answer.hidden = Cardinality(all \ visible) /\ answer.withheld = 0
    BY <1>1 DEF Reply
  <2> QED
    BY <2>2, <2>3
<1>8. answer.rows = Titles(visible)
  BY <1>1 DEF Reply
<1>9. /\ {row.place : row \in answer.rows} = visible
      /\ \A row \in answer.rows : ~ row.text
  BY <1>8, WhoIsNamed
<1> QED
  BY <1>6, <1>7, <1>9, WhatAnAnswerOwes

LEMMA StatusTells ==
  ASSUME IsQuestion(question), question.op = "archive.status",
         answer = handle_archive_status(question), ~ answer.refused
  PROVE  ToldOrCounted
<1> DEFINE q       == question
           all     == Everything(q)
           visible == _visible(q)
<1>1. answer = Reply(Stored(visible), Cardinality(visible), 0, Cardinality(all \ visible), 0, FALSE)
  BY DEF handle_archive_status, Refusal
<1>2. /\ IsFiniteSet(all) /\ \A p \in all : IsItem(ItemAt(q, p))
  BY WalkIsFinite
<1>3. Looked(q) = all /\ \A p : Relevant(q, p)
  BY DEF Looked, Relevant
<1>4. \A p \in all : /\ p \in visible <=> ItemAt(q, p).known /\ MayRead(q, ItemAt(q, p).peer)
                     /\ p \in visible <=> Tellable(q, p)
  BY <1>2, ArchiveIsTellable, q.op \in Offline DEF Offline
<1>5. visible \subseteq all
  BY DEF _visible
<1> HIDE DEF visible, all
<1>6. visible = CanTell(q)
  BY <1>3, <1>4, <1>5 DEF CanTell
<1>7. Cardinality(Unreported) <= answer.hidden + answer.withheld
  <2>1. IsFiniteSet(all \ visible)
    BY <1>2, FS_Difference
  <2>2. /\ Cardinality(Unreported) <= Cardinality(all \ visible)
        /\ Cardinality(Unreported) \in Nat /\ Cardinality(all \ visible) \in Nat
    BY <1>3, <1>4, <2>1, CountedByPlace
  <2>3. answer.withheld = Cardinality(all \ visible) /\ answer.hidden = 0
    BY <1>1 DEF Reply
  <2> QED
    BY <2>2, <2>3
<1>8. answer.rows = Stored(visible)
  BY <1>1 DEF Reply
<1>9. {row.place : row \in answer.rows} = visible
  BY <1>8, WhoIsNamed
<1>10. \A row \in answer.rows : row.text => MayRead(q, ItemAt(q, row.place).peer)
  BY <1>4, <1>5, <1>9
<1> QED
  BY <1>6, <1>7, <1>9, <1>10, WhatAnAnswerOwes

LEMMA ListedOrders ==
  ASSUME NEW places, places \subseteq Places
  PROVE  Orders(AsListed(places), places)
<1>1. Ranks(AsListed(places), places, 1)
  BY DEF Ranks, AsListed
<1> QED
  BY <1>1, RanksOrder

LEMMA NewestOrders ==
  ASSUME NEW q, NEW places, places \subseteq Places, \A p \in places : IsItem(ItemAt(q, p))
  PROVE  /\ Orders(Newest(q, places), places)
         /\ \A a, b \in places :
              ItemAt(q, a).at > ItemAt(q, b).at => Ahead(Newest(q, places), a, b)
<1>1. Ranks(Newest(q, places), places, 1)
  BY DEF Ranks, Newest, IsItem, Counters
<1>2. ASSUME NEW a \in places, NEW b \in places, ItemAt(q, a).at > ItemAt(q, b).at
      PROVE  Ahead(Newest(q, places), a, b)
  <2>1. More(<<ItemAt(q, a).at>>, <<ItemAt(q, b).at>>)
    BY <1>2 DEF More
  <2> QED
    BY <2>1 DEF Ahead, Newest
<1> QED
  BY <1>1, <1>2, RanksOrder

LEMMA SearchTells ==
  ASSUME IsQuestion(question), question.op = "search",
         answer = _search_everywhere(question), ~ answer.refused
  PROVE  ToldOrCounted
<1> DEFINE q       == question
           walk    == Walk(q, Overscan * q.limit)
           hits    == {p \in walk : Reportable(q, p)}
           scanned == UpTo(walk, hits, q.limit, AsListed(walk))
           rows    == hits \cap scanned
           closed  == scanned \ rows
<1>1. answer = Reply(Rows(q, rows), Cardinality(rows), 0, Cardinality(closed), 0,
                     Cardinality(rows) >= q.limit)
  BY DEF _search_everywhere, Refusal
<1>2. q.limit \in Nat /\ Overscan * q.limit \in Nat
  BY ListingAssumption DEF IsQuestion
<1>3. /\ walk \subseteq Everything(q) /\ walk \subseteq Places /\ IsFiniteSet(walk)
      /\ \A p \in walk : IsItem(ItemAt(q, p))
  BY <1>2, WalkIsFinite
<1>4. Looked(q) = walk /\ \A p : Relevant(q, p)
  BY DEF Looked, Relevant
<1>5. \A p \in walk : p \in hits <=> Tellable(q, p)
  BY <1>3, OpensWhatMayBeRead, ClosedIsNotOpened DEF Tellable, Reportable, Opens, Offline
<1>6. hits \subseteq walk /\ scanned \subseteq walk
  BY DEF UpTo
<1>7. \A p \in hits : Opens(q, p)
  BY DEF Reportable
<1>8. \A m, r : ~ Outranks(q, m, r)
  BY DEF Outranks
<1> HIDE DEF walk, hits
<1>9. scanned # walk => Cardinality(rows) >= q.limit
  BY <1>2, <1>3, <1>6, ListedOrders, FoundEnough
<1> HIDE DEF scanned
<1>10. answer.rows = Rows(q, rows) /\ answer.hidden = 0 /\ answer.withheld = Cardinality(closed)
       /\ answer.truncated = (Cardinality(rows) >= q.limit)
  <2> HIDE DEF rows, closed
  <2> QED
    BY <1>1, RepliesAre
<1>11. hits = CanTell(q)
  BY <1>4, <1>5, <1>6 DEF CanTell
<1>12. hits \ rows # {} => answer.truncated
  BY <1>6, <1>9, <1>10
<1>13. ~ answer.truncated => Cardinality(Unreported) <= answer.hidden + answer.withheld
  <2> HAVE ~ answer.truncated
  <2>1. scanned = walk
    BY <1>9, <1>10
  <2>2. IsFiniteSet(closed) /\ Looked(q) \ hits = closed
    BY <1>3, <1>4, <2>1, FS_Difference
  <2> HIDE DEF closed
  <2>3. /\ Cardinality(Unreported) <= Cardinality(closed)
        /\ Cardinality(Unreported) \in Nat /\ Cardinality(closed) \in Nat
    BY <1>4, <1>5, <2>2, CountedByPlace
  <2> QED
    BY <1>10, <2>3
<1>14. /\ {row.place : row \in answer.rows} = rows
       /\ \A row \in answer.rows : row.text => Opens(q, row.place)
  <2> HIDE DEF rows
  <2> QED
    BY <1>10, WhoIsInARow
<1>15. \A row \in answer.rows : row.text => MayRead(q, ItemAt(q, row.place).peer)
  BY <1>3, <1>6, <1>14, OpensWhatMayBeRead DEF Offline
<1>16. rows \subseteq CanTell(q)
  BY <1>11
<1> HIDE DEF rows
<1> QED
  BY <1>8, <1>11, <1>12, <1>13, <1>14, <1>15, <1>16, WhatAnAnswerOwes

LEMMA ChatsTell ==
  ASSUME IsQuestion(question), question.op = "chats",
         answer = handle_chats(question), ~ answer.refused
  PROVE  ToldOrCounted
<1> DEFINE q       == question
           all     == Everything(q)
           match(walk) == {p \in Shown(q, Listed(q, walk)) : ListedChat(q, p)}
           walked  == {p \in all : \A m \in match(all) : m[2] >= ScanLimit => p[2] <= m[2]}
           found   == match(walked)
           rows    == First(found, q.limit, AsListed(found))
           private == Listed(q, walked) \ Shown(q, Listed(q, walked))
<1>1. /\ Enumerable(q, q.private)
      /\ answer = Reply(Titles(rows), Cardinality(found), Cardinality(private), 0, 0,
                        \/ Cardinality(found) > Cardinality(rows)
                        \/ Cardinality(walked) >= ScanLimit)
  BY DEF handle_chats, Refusal
<1>2. /\ all \subseteq Places /\ IsFiniteSet(all)
      /\ \A p \in all : /\ IsItem(ItemAt(q, p)) /\ p = <<p[1], p[2]>> /\ p[1] \in Answering(q)
                        /\ p[2] \in 1 .. Len(q.accounts[p[1]].items)
      /\ \A a \in Answering(q) : \A i \in 1 .. Len(q.accounts[a].items) : <<a, i>> \in all
  BY WalkIsFinite
<1>3. Looked(q) = all
  BY DEF Looked
<1>4. \A p \in all : ListedChat(q, p) /\ ItemAt(q, p).known <=> Relevant(q, p)
  BY SilenceIsAskedFor DEF ListedChat, Relevant, ItemAt
<1>5. \A p \in all : ItemAt(q, p).known =>
        (Tellable(q, p) <=> ~ Closed(ItemAt(q, p)) /\ ~ Hides(q, p))
  BY <1>1, <1>2, ListedIsTellable DEF Tellable
<1>6. \A walk \in SUBSET all : \A p \in all :
        /\ p \in Listed(q, walk) <=> p \in walk /\ ItemAt(q, p).known /\ ~ Closed(ItemAt(q, p))
        /\ p \in match(walk) <=> p \in walk /\ Relevant(q, p) /\ Tellable(q, p)
  <2>1. \A walk \in SUBSET all : \A p \in all :
          p \in Listed(q, walk) <=> p \in walk /\ ItemAt(q, p).known /\ ~ Closed(ItemAt(q, p))
    BY ClosedIsNotOpened DEF Listed
  <2>2. \A p : Relevant(q, p) => ItemAt(q, p).known
    BY DEF Relevant, ItemAt
  <2> QED
    BY <1>4, <1>5, <2>1, <2>2 DEF Shown
<1>7. walked \in SUBSET all /\ all \in SUBSET all
  OBVIOUS
<1>8. match(all) \subseteq all /\ found \subseteq walked
  BY DEF Shown, Listed
<1>9. \A p \in all : p \in walked <=> \A m \in match(all) : m[2] >= ScanLimit => p[2] <= m[2]
  OBVIOUS
<1>10. rows \subseteq found
  BY DEF First, UpTo
<1> HIDE DEF all, match, rows, walked
<1>11. IsFiniteSet(walked) /\ IsFiniteSet(found)
  BY <1>2, <1>7, <1>8, FS_Subset
<1>12. ASSUME NEW p \in all, p \notin walked PROVE Cardinality(walked) >= ScanLimit
  <2>1. PICK m \in match(all) : m[2] >= ScanLimit
    BY <1>9, <1>12
  <2>2. m \in all /\ m[1] \in Answering(q) /\ m[2] \in 1 .. Len(q.accounts[m[1]].items)
    BY <1>2, <1>7, <1>8, <2>1
  <2> DEFINE T == {m[1]} \X (1 .. ScanLimit)
  <2>3. ScanLimit \in Nat
    BY ListingAssumption
  <2>4. ASSUME NEW t \in T PROVE t \in walked
    <3>1. PICK i \in 1 .. ScanLimit : t = <<m[1], i>>
      OBVIOUS
    <3>2. Len(q.accounts[m[1]].items) \in Nat
      <4>1. m[1] \in DOMAIN q.accounts
        BY <2>2 DEF Answering
      <4>2. IsList(q.accounts[m[1]].items)
        BY <4>1 DEF IsQuestion
      <4> QED
        BY <4>2 DEF IsList
    <3>3. i \in 1 .. Len(q.accounts[m[1]].items) /\ t[2] = i
      BY <2>1, <2>2, <2>3, <3>1, <3>2
    <3>4. t \in all
      BY <1>2, <2>2, <3>1, <3>3
    <3>5. \A x \in match(all) : x[2] >= ScanLimit => t[2] <= x[2]
      <4> TAKE x \in match(all)
      <4>1. x[2] \in Int
        <5>1. x \in Nat \X Nat
          BY <1>2, <1>8 DEF Places
        <5> QED
          BY <5>1
      <4> QED
        BY <2>3, <3>3, <4>1
    <3> QED
      BY <1>9, <3>4, <3>5
  <2>5. IsFiniteSet(T) /\ Cardinality(T) = ScanLimit
    <3>1. IsFiniteSet({m[1]}) /\ Cardinality({m[1]}) = 1
      BY FS_Singleton
    <3>2. IsFiniteSet(1 .. ScanLimit) /\ Cardinality(1 .. ScanLimit) = ScanLimit
      BY <2>3, FS_Interval
    <3>3. IsFiniteSet(T) /\ Cardinality(T) = Cardinality({m[1]}) * Cardinality(1 .. ScanLimit)
      BY <3>1, <3>2, FS_Product
    <3> QED
      BY <2>3, <3>1, <3>2, <3>3
  <2> HIDE DEF T
  <2>6. Cardinality(T) <= Cardinality(walked)
    BY <1>11, <2>4, FS_Subset
  <2> QED
    BY <2>5, <2>6
<1>13. /\ answer.rows = Titles(rows) /\ answer.hidden = Cardinality(private)
       /\ answer.withheld = 0
       /\ answer.truncated <=> \/ Cardinality(found) > Cardinality(rows)
                               \/ Cardinality(walked) >= ScanLimit
  BY <1>1 DEF Reply
<1>14. \A p : p \in found <=> p \in walked /\ Relevant(q, p) /\ Tellable(q, p)
  BY <1>6, <1>7, <1>8
<1>15. rows \subseteq CanTell(q)
  BY <1>3, <1>7, <1>10, <1>14 DEF CanTell
<1>16. CanTell(q) \ rows # {} => answer.truncated
  <2> SUFFICES ASSUME NEW m \in CanTell(q) \ rows PROVE answer.truncated
    OBVIOUS
  <2>1. CASE m \in walked
    <3>1. m \in found \ rows
      BY <1>14, <2>1 DEF CanTell
    <3>2. Cardinality(rows) < Cardinality(found)
      BY <1>10, <1>11, <3>1, CutIsShorter
    <3>3. Cardinality(rows) \in Nat /\ Cardinality(found) \in Nat
      BY <1>10, <1>11, FS_Subset, FS_CardinalityType
    <3> QED
      BY <1>13, <3>2, <3>3
  <2>2. CASE m \notin walked
    BY <1>3, <1>12, <1>13, <2>2 DEF CanTell
  <2> QED
    BY <2>1, <2>2
<1>17. ~ answer.truncated => Cardinality(Unreported) <= answer.hidden + answer.withheld
  <2> HAVE ~ answer.truncated
  <2>1. walked = all
    BY <1>7, <1>12, <1>13
  <2>2. IsFiniteSet(private)
    <3>1. private \subseteq all
      BY <1>7 DEF Listed
    <3> QED
      BY <1>2, <3>1, FS_Subset
  <2>3. \A p \in Looked(q) :
          Relevant(q, p) /\ ~ Tellable(q, p) /\ (ItemAt(q, p).known => ~ Closed(ItemAt(q, p)))
          => p \in private
    <3>1. \A p : Relevant(q, p) => ItemAt(q, p).known
      BY DEF Relevant, ItemAt
    <3> QED
      BY <1>3, <1>5, <1>6, <1>7, <2>1, <3>1 DEF Shown
  <2> HIDE DEF private
  <2>4. /\ Cardinality(Unreported) <= Cardinality(private)
        /\ Cardinality(Unreported) \in Nat /\ Cardinality(private) \in Nat
    BY <2>2, <2>3, CountedByPlace
  <2> QED
    BY <1>13, <2>4
<1>18. /\ {row.place : row \in answer.rows} = rows
       /\ \A row \in answer.rows : ~ row.text
  BY <1>13, WhoIsNamed
<1>19. \A m, r : ~ Outranks(q, m, r)
  BY DEF Outranks
<1> QED
  BY <1>15, <1>16, <1>17, <1>18, <1>19, WhatAnAnswerOwes

\* Of the stored messages it may search, the newest that match, or it says it stopped.
LEMMA ArchiveFindsTheNewest ==
  ASSUME NEW q, IsQuestion(q), NEW places, places \subseteq Everything(q), NEW withheld,
         NEW hits, hits = {p \in places : ItemAt(q, p).hit},
         NEW found, found = SearchArchive(q, places, withheld)
  PROVE  \E rows \in SUBSET hits :
           /\ found.rows = Stored(rows) /\ found.hidden = 0 /\ found.withheld = withheld
           /\ hits \ rows # {} => found.truncated
           /\ \A m \in hits \ rows, r \in rows : ~ (ItemAt(q, m).at > ItemAt(q, r).at)
<1> DEFINE walk    == candidates(q, places)
           matches == {p \in walk : ItemAt(q, p).hit}
           scanned == UpTo(walk, matches, q.limit, Newest(q, walk))
           rows    == matches \cap scanned
           stops   == Cardinality(rows) >= q.limit \/ Cardinality(scanned) >= ScanLimit
<1>1. found = Reply(Stored(rows), Cardinality(rows), 0, withheld, 0, stops)
  BY DEF SearchArchive
<1>2. /\ found.rows = Stored(rows) /\ found.hidden = 0 /\ found.withheld = withheld
      /\ found.truncated = stops
  <2> HIDE DEF rows, stops
  <2> QED
    BY <1>1, RepliesAre
<1>3. q.limit \in Nat /\ ScanLimit \in Nat
  BY ListingAssumption DEF IsQuestion
<1>4. /\ places \subseteq Places /\ IsFiniteSet(places)
      /\ \A p \in places : IsItem(ItemAt(q, p))
  BY WalkIsFinite, FS_Subset
<1>5. walk \subseteq places /\ matches \subseteq walk /\ scanned \subseteq walk
  BY DEF candidates, First, UpTo
<1>6. walk = UpTo(places, places, ScanLimit, Newest(q, places))
  BY DEF candidates, First
<1>7. matches = hits \cap walk
  BY <1>5
<1> HIDE DEF walk, matches
<1>8. IsFiniteSet(walk) /\ IsFiniteSet(matches) /\ IsFiniteSet(scanned)
  BY <1>4, <1>5, FS_Subset
<1>9. /\ Orders(Newest(q, places), places)
      /\ \A a, b \in places : ItemAt(q, a).at > ItemAt(q, b).at => Ahead(Newest(q, places), a, b)
  BY <1>4, NewestOrders
<1>10. /\ Orders(Newest(q, walk), walk)
       /\ \A a, b \in walk : ItemAt(q, a).at > ItemAt(q, b).at => Ahead(Newest(q, walk), a, b)
  BY <1>4, <1>5, NewestOrders
<1>11. scanned # walk => Cardinality(rows) >= q.limit
  BY <1>3, <1>5, <1>8, <1>10, FoundEnough
<1>12. walk # places => Cardinality(walk) >= ScanLimit
  <2> HAVE walk # places
  <2>1. Cardinality(places \cap walk) >= ScanLimit
    BY <1>3, <1>4, <1>6, <1>9, FoundEnough
  <2>2. places \cap walk = walk
    BY <1>5
  <2> QED
    BY <2>1, <2>2
<1>13. hits \ rows # {} => stops
  <2> HAVE hits \ rows # {}
  <2>1. CASE scanned # walk
    BY <1>11, <2>1
  <2>2. CASE scanned = walk
    <3>1. walk # places
      BY <1>7, <2>2
    <3> QED
      BY <1>12, <2>2, <3>1
  <2> QED
    BY <2>1, <2>2
<1>14. ASSUME NEW m \in hits \ rows, NEW r \in rows, ItemAt(q, m).at > ItemAt(q, r).at
       PROVE  FALSE
  <2>1. r \in walk /\ r \in scanned /\ m \in places /\ r \in places
    BY <1>5
  <2>2. CASE m \in walk
    <3>1. m \in walk /\ m \notin scanned
      BY <1>7, <2>2
    <3> QED
      BY <1>3, <1>5, <1>8, <1>10, <1>14, <2>1, <3>1, LeftOutIsBehind
  <2>3. CASE m \notin walk
    <3>1. Ahead(Newest(q, places), m, r)
      BY <1>9, <1>14, <2>1
    <3>2. m \notin UpTo(places, places, ScanLimit, Newest(q, places))
          /\ r \in UpTo(places, places, ScanLimit, Newest(q, places))
      BY <1>6, <2>1, <2>3
    <3> QED
      BY <1>3, <1>4, <1>9, <2>1, <3>1, <3>2, LeftOutIsBehind
  <2> QED
    BY <2>2, <2>3
<1>15. rows \in SUBSET hits
  BY <1>7
<1> HIDE DEF rows, stops
<1> QED
  BY <1>2, <1>13, <1>14, <1>15

LEMMA ArchiveSearchTells ==
  ASSUME IsQuestion(question), question.op = "archive.search",
         answer = handle_archive_search(question), ~ answer.refused
  PROVE  ToldOrCounted
<1> DEFINE q       == question
           all     == Everything(q)
           visible == _visible(q)
           named   == _archived_chat_id(q)
           closed  == all \ visible
           peers   == {ItemAt(q, p).peer : p \in closed}
<1>1. /\ IsFiniteSet(all)
      /\ \A p \in all : IsItem(ItemAt(q, p)) /\ p[1] = 1
  <2>1. Len(q.accounts) = 1 /\ IsList(q.accounts)
    BY DEF IsQuestion
  <2>2. \A a \in Answering(q) : a = 1
    BY <2>1 DEF Answering, IsList
  <2> QED
    BY <2>2, WalkIsFinite
<1>2. Looked(q) = all
  BY DEF Looked
<1>3. \A p \in all : /\ p \in visible <=> ItemAt(q, p).known /\ MayRead(q, ItemAt(q, p).peer)
                     /\ p \in visible <=> Tellable(q, p)
  BY <1>1, ArchiveIsTellable, q.op \in Offline DEF Offline
<1>4. visible \subseteq all /\ named \subseteq all
  BY DEF _visible, _archived_chat_id
<1>5. \A p : Relevant(q, p) <=> ItemAt(q, p).hit /\ (q.chat # None => p \in named)
  BY DEF Relevant, ItemAt
<1>6. \A m, r : Outranks(q, m, r) <=> ItemAt(q, m).at > ItemAt(q, r).at
  BY DEF Outranks
<1>0. SUFFICES ASSUME NEW places, NEW withheld,
                    \/ /\ q.chat # None /\ places = named /\ withheld = 0
                       /\ named = {} \/ named \subseteq visible
                    \/ q.chat = None /\ places = visible /\ withheld = Cardinality(peers),
                    \/ answer = SearchArchive(q, places, withheld)
                    \/ places = {} /\ withheld = 0 /\ answer = Reply({}, 0, 0, 0, 0, FALSE)
             PROVE  ToldOrCounted
  BY DEF handle_archive_search, Refusal
<1> DEFINE hits == {p \in places : ItemAt(q, p).hit}
<1>7. places \subseteq visible
  BY <1>0
<1>8. hits = CanTell(q)
  BY <1>0, <1>2, <1>3, <1>4, <1>5, <1>7 DEF CanTell
<1>9. PICK rows \in SUBSET hits :
        /\ answer.rows = Stored(rows) /\ answer.hidden = 0 /\ answer.withheld = withheld
        /\ hits \ rows # {} => answer.truncated
        /\ \A m \in hits \ rows, r \in rows : ~ (ItemAt(q, m).at > ItemAt(q, r).at)
  <2>0. hits = {p \in places : ItemAt(q, p).hit} /\ places \subseteq all
    BY <1>4, <1>7
  <2>1. CASE answer = SearchArchive(q, places, withheld)
    <3> HIDE DEF hits
    <3> QED
      BY <2>0, <2>1, ArchiveFindsTheNewest
  <2>2. CASE places = {} /\ withheld = 0 /\ answer = Reply({}, 0, 0, 0, 0, FALSE)
    <3>1. hits = {} /\ Stored({}) = {}
      BY <2>2 DEF Stored
    <3>2. answer.rows = {} /\ answer.hidden = 0 /\ answer.withheld = 0
      BY <2>2 DEF Reply
    <3> HIDE DEF hits
    <3> QED
      BY <2>2, <3>1, <3>2
  <2> HIDE DEF hits
  <2> QED
    BY <1>0, <2>1, <2>2
<1> HIDE DEF hits, visible, all
<1>11. IsFiniteSet(peers) /\ Cardinality(peers) \in Nat
  <2> DEFINE f == [p \in closed |-> ItemAt(q, p).peer]
  <2>1. IsFiniteSet(closed)
    BY <1>1, FS_Difference
  <2>2. \A x \in peers : \E p \in closed : x = f[p]
    OBVIOUS
  <2> HIDE DEF f, peers, closed
  <2> QED
    BY <2>1, <2>2, NoMoreThan
<1>12. Cardinality(Unreported) <= withheld /\ Cardinality(Unreported) \in Nat /\ withheld \in Nat
  <2>1. CASE q.chat # None
    <3>1. Unreported = {}
      BY <1>0, <1>2, <1>3, <1>4, <1>5, <2>1 DEF Unreported, WasCut, Missing
    <3> QED
      BY <1>0, <2>1, <3>1, FS_EmptySet
  <2>2. CASE q.chat = None
    <3> DEFINE g == [x \in peers |-> <<1, x>>]
    <3>1. \A t \in Unreported : \E x \in peers : t = g[x]
      BY <1>1, <1>2, <1>3 DEF Unreported, WasCut, Missing
    <3> HIDE DEF g, peers
    <3>2. Cardinality(Unreported) <= Cardinality(peers) /\ Cardinality(Unreported) \in Nat
      BY <1>11, <3>1, NoMoreThan
    <3> QED
      BY <1>0, <1>11, <2>2, <3>2
  <2> QED
    BY <2>1, <2>2
<1>13. {row.place : row \in answer.rows} = rows
  BY <1>9, WhoIsNamed
<1>14. \A row \in answer.rows : row.text => MayRead(q, ItemAt(q, row.place).peer)
  <2>1. rows \subseteq visible
    BY <1>7 DEF hits
  <2> QED
    BY <1>3, <1>4, <1>13, <2>1
<1>15. ~ answer.truncated => Cardinality(Unreported) <= answer.hidden + answer.withheld
  BY <1>9, <1>12
<1> QED
  BY <1>6, <1>8, <1>9, <1>13, <1>14, <1>15, WhatAnAnswerOwes

LEMMA RankingOrders ==
  ASSUME NEW q, NEW places, places \subseteq Places, \A p \in places : IsItem(ItemAt(q, p))
  PROVE  /\ Orders(Ranking(q, places), places)
         /\ \A a, b \in places :
              More(Asked(q, ItemAt(q, a)), Asked(q, ItemAt(q, b)))
                => Ahead(Ranking(q, places), a, b)
         /\ \A part \in SUBSET places : \A a, b \in part :
              Ahead(Ranking(q, part), a, b) <=> Ahead(Ranking(q, places), a, b)
<1>1. \A p \in places : \A j \in 1 .. 2 : Asked(q, ItemAt(q, p))[j] \in Int
  BY DEF Asked, IsItem, Counters
<1>2. \A p \in places : DOMAIN Asked(q, ItemAt(q, p)) = 1 .. 2
  BY DEF Asked
<1>3. Ranks(Ranking(q, places), places, 2)
  BY <1>1, <1>2 DEF Ranks, Ranking
<1> QED
  BY <1>3, RanksOrder DEF Ahead, Ranking

\* Each account gives only its own first chats, and still none that was left out should
\* have come before one that is shown.
LEMMA MergedMentionsAreRanked ==
  ASSUME NEW q, q.limit \in Nat, NEW found, found \subseteq Places, IsFiniteSet(found),
         \A p \in found : IsItem(ItemAt(q, p)),
         NEW opened, opened = Opened(q, found),
         NEW rows, rows = First(opened, q.limit, Ranking(q, opened)),
         NEW m \in found, m \notin rows, NEW r \in rows
  PROVE  ~ Ahead(Ranking(q, found), m, r)
<1> SUFFICES ASSUME Ahead(Ranking(q, found), m, r) PROVE FALSE
  OBVIOUS
<1> DEFINE own == OfAccount(m[1], found)
           ahead == {h \in opened : Ahead(Ranking(q, opened), h, r)}
<1>1. opened \in SUBSET found /\ own \in SUBSET found /\ rows \subseteq opened
  BY DEF Opened, OfAccount, First, UpTo
<1>2. /\ Orders(Ranking(q, found), found)
      /\ \A part \in SUBSET found : \A a, b \in part :
           Ahead(Ranking(q, part), a, b) <=> Ahead(Ranking(q, found), a, b)
  BY RankingOrders
<1>3. Orders(Ranking(q, opened), opened) /\ Orders(Ranking(q, own), own)
  <2> HIDE DEF own
  <2>1. \A part \in SUBSET found : Orders(Ranking(q, part), part)
    BY RankingOrders
  <2> QED
    BY <1>1, <2>1
<1>4. IsFiniteSet(opened) /\ IsFiniteSet(own)
  <2> HIDE DEF own
  <2> QED
    BY <1>1, FS_Subset
<1>5. CASE m \in opened
  <2>1. Ahead(Ranking(q, opened), m, r)
    BY <1>1, <1>2, <1>5
  <2> QED
    BY <1>1, <1>3, <1>4, <1>5, <2>1, LeftOutIsBehind DEF First
<1>6. CASE m \notin opened
  <2>1. m \in own /\ m \notin UpTo(own, own, q.limit, Ranking(q, own))
    BY <1>6 DEF Opened, OfAccount, First
  <2>2. PICK B \in SUBSET (own \cap UpTo(own, own, q.limit, Ranking(q, own))) :
          /\ IsFiniteSet(B) /\ Cardinality(B) >= q.limit
          /\ \A b \in B : Ahead(Ranking(q, own), b, m)
    <3> HIDE DEF own
    <3> QED
      BY <1>3, <1>4, <2>1, EnoughAhead
  <2>3. ASSUME NEW b \in B PROVE b \in ahead
    <3>1. b \in own /\ b[1] = m[1] /\ b \in First(own, q.limit, Ranking(q, own))
      BY <2>2 DEF OfAccount, First
    <3>2. b \in opened
      BY <3>1 DEF Opened, OfAccount
    <3>3. Ahead(Ranking(q, found), b, m)
      <4> HIDE DEF own
      <4> QED
        BY <1>1, <1>2, <2>1, <2>2, <3>1
    <3>4. Ahead(Ranking(q, found), b, r)
      BY <1>1, <1>2, <3>2, <3>3 DEF Orders
    <3> QED
      BY <1>1, <1>2, <3>2, <3>4
  <2>4. Cardinality(ahead) < q.limit
    BY DEF First, UpTo
  <2>5. ahead \in SUBSET opened
    OBVIOUS
  <2> HIDE DEF ahead, own
  <2>6. IsFiniteSet(ahead) /\ Cardinality(ahead) \in Nat
    BY <1>4, <2>5, FS_Subset, FS_CardinalityType
  <2>7. Cardinality(B) <= Cardinality(ahead) /\ Cardinality(B) \in Nat
    BY <2>2, <2>3, <2>6, FS_Subset, FS_CardinalityType
  <2> QED
    BY <2>2, <2>4, <2>6, <2>7
<1> QED
  BY <1>5, <1>6

LEMMA MentionsTell ==
  ASSUME IsQuestion(question), question.op = "mentions",
         answer = handle_mentions(question), ~ answer.refused
  PROVE  ToldOrCounted
<1> DEFINE q       == question
           all     == Everything(q)
           walk    == Walk(q, ScanLimit)
           listed  == Listed(q, walk)
           shown   == Shown(q, listed)
           wanted  == _candidates_of(q, shown)
           found   == {p \in wanted : Opens(q, p)}
           opened  == Opened(q, found)
           rows    == First(opened, q.limit, Ranking(q, opened))
           private == listed \ shown
           closed  == wanted \ found
           stops   == \/ Cardinality(rows) < Cardinality(found)
                      \/ \E a \in Answering(q) : Len(q.accounts[a].items) >= ScanLimit
<1>1. /\ Enumerable(q, q.private)
      /\ answer = Reply(Rows(q, rows), Cardinality(found), Cardinality(private),
                        Cardinality(closed), Failed(q), stops)
  BY DEF handle_mentions, Refusal
<1>2. /\ answer.rows = Rows(q, rows) /\ answer.hidden = Cardinality(private)
      /\ answer.withheld = Cardinality(closed) /\ answer.truncated = stops
  <2> HIDE DEF rows, private, closed, stops
  <2> QED
    BY <1>1, RepliesAre
<1>3. q.limit \in Nat /\ ScanLimit \in Nat
  BY ListingAssumption DEF IsQuestion
<1>4. /\ all \subseteq Places /\ IsFiniteSet(all) /\ walk \subseteq all /\ IsFiniteSet(walk)
      /\ \A p \in all : /\ IsItem(ItemAt(q, p)) /\ p[1] \in Answering(q)
                        /\ p[2] \in 1 .. Len(q.accounts[p[1]].items)
                        /\ p[2] <= ScanLimit => p \in walk
  BY <1>3, WalkIsFinite
<1>5. Looked(q) = all
  BY DEF Looked
<1>6. \A p \in all : Len(q.accounts[p[1]].items) < ScanLimit => p \in walk
  <2> TAKE p \in all
  <2> HAVE Len(q.accounts[p[1]].items) < ScanLimit
  <2>1. Len(q.accounts[p[1]].items) \in Nat
    BY <1>4 DEF IsQuestion, IsList, Answering
  <2> QED
    BY <1>3, <1>4, <2>1
<1>7. \A p : Relevant(q, p) <=> ItemAt(q, p).known /\ Asked(q, ItemAt(q, p)) # <<0, 0>>
  BY DEF Relevant, ItemAt
<1>8. \A p \in all : ItemAt(q, p).known =>
        (Tellable(q, p) <=> ~ Closed(ItemAt(q, p)) /\ ~ Hides(q, p) /\ Opens(q, p))
  BY <1>1, <1>4, ListedIsTellable, OpensWhatMayBeRead DEF Tellable, Offline
<1>9. \A p \in walk : /\ p \in found <=> Relevant(q, p) /\ Tellable(q, p)
                      /\ /\ Relevant(q, p) /\ ~ Tellable(q, p)
                         /\ ItemAt(q, p).known => ~ Closed(ItemAt(q, p))
                         => p \in private \cup closed
  <2>1. \A p \in walk :
          /\ p \in listed <=> ItemAt(q, p).known /\ ~ Closed(ItemAt(q, p))
          /\ p \in shown <=> p \in listed /\ ~ Hides(q, p)
          /\ p \in wanted <=> p \in shown /\ Asked(q, ItemAt(q, p)) # <<0, 0>>
    BY ClosedIsNotOpened DEF Listed, Shown, _candidates_of
  <2>2. \A p : p \in found <=> p \in wanted /\ Opens(q, p)
    OBVIOUS
  <2> HIDE DEF walk, listed, shown, wanted, found
  <2> QED
    BY <1>4, <1>7, <1>8, <2>1, <2>2
<1>10. found \subseteq walk /\ private \subseteq walk /\ closed \subseteq walk
  BY DEF Listed, Shown, _candidates_of
<1>11. rows \subseteq found
  BY DEF First, UpTo, Opened
<1> HIDE DEF all, walk, listed, shown, wanted, found, private, closed
<1>12. IsFiniteSet(found) /\ IsFiniteSet(private) /\ IsFiniteSet(closed)
  BY <1>4, <1>10, FS_Subset
<1>13. \A m \in found \ rows, r \in rows : ~ Outranks(q, m, r)
  <2> SUFFICES ASSUME NEW m \in found \ rows, NEW r \in rows, Outranks(q, m, r) PROVE FALSE
    OBVIOUS
  <2>1. found \subseteq Places /\ \A p \in found : IsItem(ItemAt(q, p))
    BY <1>4, <1>10
  <2>2. More(Asked(q, ItemAt(q, m)), Asked(q, ItemAt(q, r)))
    BY DEF Outranks
  <2>3. Ahead(Ranking(q, found), m, r)
    BY <1>11, <2>1, <2>2, RankingOrders
  <2> HIDE DEF opened
  <2>4. rows = First(opened, q.limit, Ranking(q, opened)) /\ opened = Opened(q, found)
    BY DEF opened
  <2> HIDE DEF rows
  <2> QED
    BY <1>3, <1>12, <2>1, <2>3, <2>4, MergedMentionsAreRanked
<1> HIDE DEF rows
<1>14. rows \subseteq CanTell(q)
  BY <1>4, <1>5, <1>9, <1>10, <1>11 DEF CanTell
<1>15. ASSUME ~ stops PROVE /\ all = walk
                            /\ found = rows
  <2>1. \A p \in all : p \in walk
    <3> TAKE p \in all
    <3>1. ~ (Len(q.accounts[p[1]].items) >= ScanLimit) /\ Len(q.accounts[p[1]].items) \in Nat
      BY <1>4, <1>15 DEF IsQuestion, IsList, Answering
    <3> QED
      BY <1>3, <1>6, <3>1
  <2>2. ~ (Cardinality(rows) < Cardinality(found))
    BY <1>15
  <2> QED
    BY <1>4, <1>11, <1>12, <2>1, <2>2, CutIsShorter
<1>16. CanTell(q) \ rows # {} => answer.truncated
  <2> HIDE DEF stops
  <2> QED
    BY <1>2, <1>5, <1>9, <1>15 DEF CanTell
<1>17. ~ answer.truncated => Cardinality(Unreported) <= answer.hidden + answer.withheld
  <2> HAVE ~ answer.truncated
  <2>1. all = walk
    BY <1>2, <1>15
  <2>2. /\ IsFiniteSet(private \cup closed)
        /\ Cardinality(private \cup closed) <= Cardinality(private) + Cardinality(closed)
        /\ Cardinality(private \cup closed) \in Nat
        /\ Cardinality(private) \in Nat /\ Cardinality(closed) \in Nat
    BY <1>12, CountedTogether
  <2>3. /\ Cardinality(Unreported) <= Cardinality(private \cup closed)
        /\ Cardinality(Unreported) \in Nat
    BY <1>5, <1>9, <2>1, <2>2, CountedByPlace
  <2> QED
    BY <1>2, <2>2, <2>3
<1>18. /\ {row.place : row \in answer.rows} = rows
       /\ \A row \in answer.rows : row.text => Opens(q, row.place)
  BY <1>2, WhoIsInARow
<1>19. \A row \in answer.rows : row.text => MayRead(q, ItemAt(q, row.place).peer)
  BY <1>4, <1>10, <1>11, <1>18, OpensWhatMayBeRead DEF Offline
<1>20. \A m \in CanTell(q) \ rows, r \in rows :
         Len(q.accounts[m[1]].items) < ScanLimit => ~ Outranks(q, m, r)
  BY <1>5, <1>6, <1>9, <1>13 DEF CanTell
<1> QED
  BY <1>14, <1>16, <1>17, <1>18, <1>19, <1>20, WhatAnAnswerOwes

-----------------------------------------------------------------------------
(* Of the specification.                                                    *)

\* A question is one that may be asked; its answer is what the accounts asked give.
AnswersTheQuestion ==
  \E ask \in Asks :
    \/ answer = None /\ question = [ask EXCEPT !.accounts = <<>>]
    \/ \E fleet \in Fleets[ask.fleet] :
         question = [ask EXCEPT !.accounts = fleet] /\ answer = Answer(question)

LEMMA AskedOfAFleet ==
  ASSUME NEW ask \in Asks, NEW fleet \in Fleets[ask.fleet]
  PROVE  IsQuestion([ask EXCEPT !.accounts = fleet])
<1> DEFINE q == [ask EXCEPT !.accounts = fleet]
<1>1. /\ q.op = ask.op /\ q.named = ask.named /\ q.limit = ask.limit /\ q.accounts = fleet
  BY ListingAssumption
<1> HIDE DEF q
<1>2. IsQuestion(q)
  BY <1>1, ListingAssumption DEF IsQuestion
<1> QED
  BY <1>2 DEF q

LEMMA EverySweepTells ==
  ASSUME IsQuestion(question), answer = Answer(question), ~ answer.refused
  PROVE  ToldOrCounted
<1>1. question.op \in Handlers
  BY DEF IsQuestion
<1>2. CASE question.op = "inbox"
  BY <1>2, InboxTells DEF Answer
<1>3. CASE question.op = "mentions"
  BY <1>3, MentionsTell DEF Answer
<1>4. CASE question.op = "chats"
  BY <1>4, ChatsTell DEF Answer
<1>5. CASE question.op = "drafts"
  BY <1>5, DraftsTell DEF Answer
<1>6. CASE question.op = "search"
  BY <1>6, SearchTells DEF Answer
<1>7. CASE question.op = "archive.search"
  BY <1>7, ArchiveSearchTells DEF Answer
<1>8. CASE question.op = "archive.status"
  BY <1>8, StatusTells DEF Answer
<1>9. CASE question.op = "folders"
  BY <1>9, FoldersTell DEF Answer
<1> QED
  BY <1>1, <1>2, <1>3, <1>4, <1>5, <1>6, <1>7, <1>8, <1>9 DEF Handlers

LEMMA RepliesAnswerTheQuestion ==
  AnswersTheQuestion /\ [ListingNext]_listingVars => AnswersTheQuestion'
<1> SUFFICES ASSUME AnswersTheQuestion, [ListingNext]_listingVars PROVE AnswersTheQuestion'
  OBVIOUS
<1>1. CASE UNCHANGED listingVars
  <2>1. question' = question /\ answer' = answer
    BY <1>1 DEF listingVars
  <2> QED
    BY <2>1 DEF AnswersTheQuestion
<1>2. CASE Replies
  <2>1. PICK fleet \in Fleets[question.fleet] : question' = [question EXCEPT !.accounts = fleet]
    BY <1>2 DEF Replies
  <2>2. PICK ask \in Asks : \E accounts : question = [ask EXCEPT !.accounts = accounts]
    BY DEF AnswersTheQuestion
  <2>3. PICK accounts : question = [ask EXCEPT !.accounts = accounts]
    BY <2>2
  <2>4. question.fleet = ask.fleet
    BY <2>3, ListingAssumption
  <2>5. question' = [ask EXCEPT !.accounts = fleet]
    BY <2>1, <2>3
  <2>6. answer' = Answer(question')
    BY <1>2 DEF Replies
  <2> QED
    BY <2>1, <2>4, <2>5, <2>6 DEF AnswersTheQuestion
<1> QED
  BY <1>1, <1>2 DEF ListingNext

\* An answer given answers a question that was asked of one account, or of several.
LEMMA AnsweredQuestions ==
  ASSUME AnswersTheQuestion, answer # None
  PROVE  IsQuestion(question) /\ answer = Answer(question)
BY AskedOfAFleet DEF AnswersTheQuestion

LEMMA AnswersTell == AnswersTheQuestion => ToldOrCounted
<1> SUFFICES ASSUME AnswersTheQuestion, answer # None, ~ answer.refused PROVE ToldOrCounted
  BY DEF ToldOrCounted
<1> QED
  BY AnsweredQuestions, EverySweepTells

THEOREM AnswersHold == ListingSpec => []AnswersTheQuestion
<1>1. ListingInit => AnswersTheQuestion
  BY DEF ListingInit, AnswersTheQuestion
<1> QED
  BY <1>1, RepliesAnswerTheQuestion, PTL DEF ListingSpec

\* Whatever is swept, for any accounts, chats, configuration, limit and length of a walk:
\* what an answer tells of was asked for and may be told, what it does not tell of was cut
\* or is counted, and nothing cut should have come before what is shown.
THEOREM ToldOrCountedHolds == ListingSpec => []ToldOrCounted
BY AnswersHold, AnswersTell, PTL

\* Every account asked lists no more than one walk sees.
FitsOneWalk ==
  \A a \in DOMAIN question.accounts : Len(question.accounts[a].items) <= ScanLimit

\* So an inbox that does not say it was cut lacks nothing, unless an account has more
\* dialogs than one walk sees: that, and nothing else, goes unsaid.
LEMMA OnlyTheWalkGoesUnsaid ==
  AnswersTheQuestion /\ FitsOneWalk => InboxSaysWhenItIsCut
<1> SUFFICES ASSUME AnswersTheQuestion, FitsOneWalk, answer # None, ~ answer.refused,
                    question.op = "inbox", ~ answer.truncated,
                    NEW p \in Everything(question),
                    Relevant(question, p), Tellable(question, p)
             PROVE  Told(p)
  BY DEF InboxSaysWhenItIsCut
<1>1. p \in Walk(question, ScanLimit)
  <2>1. IsQuestion(question)
    BY AnsweredQuestions
  <2>2. /\ p[1] \in Answering(question)
        /\ p[2] \in 1 .. Len(question.accounts[p[1]].items)
        /\ p[2] <= ScanLimit => p \in Walk(question, ScanLimit)
    BY <2>1, WalkIsFinite, ListingAssumption
  <2>3. /\ Len(question.accounts[p[1]].items) \in Nat
        /\ Len(question.accounts[p[1]].items) <= ScanLimit
    BY <2>1, <2>2 DEF FitsOneWalk, Answering, IsQuestion, IsList
  <2> QED
    BY <2>2, <2>3, ListingAssumption
<1>2. WasCut = {}
  BY AnswersTell DEF ToldOrCounted
<1> QED
  BY <1>1, <1>2 DEF WasCut, Missing, Looked

THEOREM OnlyTheWalkGoesUnsaidHolds ==
  ListingSpec => [](FitsOneWalk => InboxSaysWhenItIsCut)
BY AnswersHold, OnlyTheWalkGoesUnsaid, PTL
=============================================================================
