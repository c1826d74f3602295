-------------------------------- MODULE Safety --------------------------------
(***************************************************************************)
(* The safety kernel (safety.py): may this configuration do that to this   *)
(* peer?  Pure operators; a peer is [id, kind, name], and None is no name. *)
(* A configuration is [profile, rules, sessions, enumerate, enumerateDms,  *)
(* profileEnabled], its rules [allow, deny] being sets of ids and names.   *)
(***************************************************************************)
CONSTANTS None, HardDenied \* HARD_DENIED_PEERS

Kinds == {"user", "group", "channel", "self", "service", "unknown"}

ReadCapabilities  == {"READ_CHAT", "READ_DM", "READ_MEMBERS", "READ_MEDIA"}
WriteCapabilities == {"SEND", "ADMIN", "JOIN"}
RemoteWrites      == WriteCapabilities \cup {"PROFILE"}
PeerCapabilities  == ReadCapabilities \cup WriteCapabilities

IsPrivate(peer) == peer.kind \in {"user", "self", "service"}

\* An entry names a peer by its id or by the name it has now.
Matches(entries, peer) == entries \cap ({peer.id, peer.name} \ {None}) # {}

HardDeny(peer) == peer.id \in HardDenied \/ peer.kind \in {"self", "service"}

ProfileAllows(config, cap) == cap \in RemoteWrites => config.profile = "plan"

\* (Variation: a private chat is judged by the rule of the tool that asks.)
AsAsked(cap, peer) == cap

\* A private chat is judged as a private chat, whichever read asks.
JudgedAs(cap, peer) ==
  IF IsPrivate(peer) /\ cap \in {"READ_CHAT", "READ_MEMBERS", "READ_MEDIA"} THEN "READ_DM" ELSE cap

EmptyAllowsAll == {"READ_CHAT", "READ_MEMBERS", "READ_MEDIA"}

NoRule == [allow |-> {}, deny |-> {}]

RuleFor(config, cap) == IF cap \in DOMAIN config.rules THEN config.rules[cap] ELSE NoRule

\* (Variation: an allow entry outweighs a deny entry.)
AllowFirst(rule, cap, peer) ==
  IF rule.allow = {} /\ Matches(rule.deny, peer) THEN "denied"
  ELSE IF rule.allow = {} THEN IF cap \in EmptyAllowsAll THEN "allowed" ELSE "empty"
  ELSE IF Matches(rule.allow, peer) THEN "allowed" ELSE "unlisted"

RuleVerdict(rule, cap, peer) ==
  IF Matches(rule.deny, peer) THEN "denied"
  ELSE IF rule.allow = {} THEN IF cap \in EmptyAllowsAll THEN "allowed" ELSE "empty"
  ELSE IF Matches(rule.allow, peer) THEN "allowed" ELSE "unlisted"

\* check: the first rule that decides, in the documented order.
Verdict(config, cap, peer) ==
  IF HardDeny(peer) THEN "closed"
  ELSE IF ~ ProfileAllows(config, cap) THEN "profile"
  ELSE LET judged == JudgedAs(cap, peer)
       IN RuleVerdict(RuleFor(config, judged), judged, peer)

Allowed(config, cap, peer) == Verdict(config, cap, peer) = "allowed"

\* Capabilities without a peer.
MayChangeProfile(config) == ProfileAllows(config, "PROFILE") /\ config.profileEnabled
MayCreateGroups(config)  == ProfileAllows(config, "ADMIN")
MayEnumerate(config, private) == config.enumerate /\ (private => config.enumerateDms)

-----------------------------------------------------------------------------
\* What the configuration promises, said without the order of the checks: nothing
\* opens a closed chat, a deny entry wins over an allow entry, a write needs the plan
\* profile and the peer named, and a private chat is read only where it is named.
Promised(config, cap, peer) ==
  LET judged == JudgedAs(cap, peer)
      rule   == RuleFor(config, judged)
  IN /\ peer.kind \notin {"self", "service"} /\ peer.id \notin HardDenied
     /\ {peer.id, peer.name} \cap rule.deny \subseteq {None}
     /\ cap \in WriteCapabilities => config.profile = "plan"
     /\ \/ peer.id \in rule.allow
        \/ peer.name # None /\ peer.name \in rule.allow
        \/ rule.allow = {} /\ cap \in ReadCapabilities \ {"READ_DM"}
           /\ peer.kind \in {"group", "channel", "unknown"}

=============================================================================
