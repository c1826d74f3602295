----------------------------- MODULE SafetyProofs -----------------------------
(***************************************************************************)
(* Proofs about the safety kernel: its verdict, whose rules are tried one  *)
(* after the other, is what the configuration promises, for every          *)
(* configuration, capability and peer.                                     *)
(***************************************************************************)
EXTENDS Safety, TLAPS

\* A private chat is judged as READ_DM by every read that names a peer.
LEMMA JudgedPrivately ==
  ASSUME NEW cap \in PeerCapabilities, NEW peer
  PROVE  /\ JudgedAs(cap, peer) \in PeerCapabilities
         /\ IsPrivate(peer) /\ cap \in ReadCapabilities => JudgedAs(cap, peer) = "READ_DM"
         /\ cap \notin ReadCapabilities => JudgedAs(cap, peer) = cap
         /\ ~ IsPrivate(peer) => JudgedAs(cap, peer) = cap
BY DEF JudgedAs, PeerCapabilities, ReadCapabilities, WriteCapabilities

\* An empty allow list opens a chat for a read of a group or a channel only.
LEMMA OpenByDefault ==
  ASSUME NEW cap \in PeerCapabilities, NEW peer, peer.kind \in Kinds, ~ HardDeny(peer)
  PROVE  JudgedAs(cap, peer) \in EmptyAllowsAll
           <=> /\ cap \in ReadCapabilities \ {"READ_DM"}
               /\ peer.kind \in {"group", "channel", "unknown"}
<1>1. IsPrivate(peer) \/ peer.kind \in {"group", "channel", "unknown"}
  BY DEF IsPrivate, Kinds
<1>2. CASE IsPrivate(peer)
  <2>1. peer.kind \notin {"group", "channel", "unknown"}
    BY <1>2 DEF IsPrivate
  <2>2. JudgedAs(cap, peer) \notin EmptyAllowsAll
    BY <1>2, JudgedPrivately
       DEF EmptyAllowsAll, PeerCapabilities, ReadCapabilities, WriteCapabilities
  <2> QED
    BY <2>1, <2>2
<1>3. CASE ~ IsPrivate(peer)
  <2>1. peer.kind \in {"group", "channel", "unknown"} /\ JudgedAs(cap, peer) = cap
    BY <1>1, <1>3, JudgedPrivately
  <2> QED
    BY <2>1 DEF EmptyAllowsAll, PeerCapabilities, ReadCapabilities, WriteCapabilities
<1> QED
  BY <1>2, <1>3

\* The rule decides for a peer exactly when no deny entry names it, and an allow entry
\* does or there is none and none is needed.
LEMMA RuleDecides ==
  ASSUME NEW rule, NEW cap, NEW peer, peer.id # None
  PROVE  RuleVerdict(rule, cap, peer) = "allowed"
           <=> /\ {peer.id, peer.name} \cap rule.deny \subseteq {None}
               /\ \/ peer.id \in rule.allow
                  \/ peer.name # None /\ peer.name \in rule.allow
                  \/ rule.allow = {} /\ cap \in EmptyAllowsAll
<1>1. Matches(rule.deny, peer) <=> ~ ({peer.id, peer.name} \cap rule.deny \subseteq {None})
  BY DEF Matches
<1>2. Matches(rule.allow, peer)
        <=> peer.id \in rule.allow \/ (peer.name # None /\ peer.name \in rule.allow)
  BY DEF Matches
<1>3. RuleVerdict(rule, cap, peer) = "allowed"
        <=> /\ ~ Matches(rule.deny, peer)
            /\ \/ rule.allow = {} /\ cap \in EmptyAllowsAll
               \/ rule.allow # {} /\ Matches(rule.allow, peer)
  BY DEF RuleVerdict
<1> QED
  BY <1>1, <1>2, <1>3

\* What check allows is what the configuration promises: no order of its rules lets a
\* closed chat, a denied peer or a write without the plan profile through, or keeps back
\* what is listed (safety.py, SafetyKernel.check).
THEOREM KernelKeepsItsPromise ==
  ASSUME NEW config, NEW cap \in PeerCapabilities, NEW peer,
         peer.kind \in Kinds, peer.id # None
  PROVE  Allowed(config, cap, peer) <=> Promised(config, cap, peer)
<1> DEFINE judged == JudgedAs(cap, peer)
           rule   == RuleFor(config, judged)
<1>1. Allowed(config, cap, peer)
        <=> /\ ~ HardDeny(peer) /\ ProfileAllows(config, cap)
            /\ RuleVerdict(rule, judged, peer) = "allowed"
  BY DEF Allowed, Verdict
<1>2. HardDeny(peer) <=> ~ (peer.kind \notin {"self", "service"} /\ peer.id \notin HardDenied)
  BY DEF HardDeny
<1>3. ProfileAllows(config, cap) <=> (cap \in WriteCapabilities => config.profile = "plan")
  BY DEF ProfileAllows, RemoteWrites, PeerCapabilities, ReadCapabilities, WriteCapabilities
<1>4. ~ HardDeny(peer) =>
        (judged \in EmptyAllowsAll
           <=> /\ cap \in ReadCapabilities \ {"READ_DM"}
               /\ peer.kind \in {"group", "channel", "unknown"})
  BY OpenByDefault
<1>5. RuleVerdict(rule, judged, peer) = "allowed"
        <=> /\ {peer.id, peer.name} \cap rule.deny \subseteq {None}
            /\ \/ peer.id \in rule.allow
               \/ peer.name # None /\ peer.name \in rule.allow
               \/ rule.allow = {} /\ judged \in EmptyAllowsAll
  BY RuleDecides
<1> HIDE DEF judged, rule
<1>6. Promised(config, cap, peer)
        <=> /\ peer.kind \notin {"self", "service"} /\ peer.id \notin HardDenied
            /\ {peer.id, peer.name} \cap rule.deny \subseteq {None}
            /\ cap \in WriteCapabilities => config.profile = "plan"
            /\ \/ peer.id \in rule.allow
               \/ peer.name # None /\ peer.name \in rule.allow
               \/ /\ rule.allow = {} /\ cap \in ReadCapabilities \ {"READ_DM"}
                  /\ peer.kind \in {"group", "channel", "unknown"}
  BY DEF Promised, judged, rule
<1> QED
  BY <1>1, <1>2, <1>3, <1>4, <1>5, <1>6

\* A configuration that denies more, with the same profile and allow lists, opens
\* nothing (safety.py, CapabilityRule).
THEOREM DenyingMoreOpensNothing ==
  ASSUME NEW config, NEW stricter, NEW cap \in PeerCapabilities, NEW peer,
         peer.kind \in Kinds, peer.id # None,
         stricter.profile = config.profile,
         \A c \in PeerCapabilities :
           /\ RuleFor(config, c).deny \subseteq RuleFor(stricter, c).deny
           /\ RuleFor(config, c).allow = RuleFor(stricter, c).allow,
         Allowed(stricter, cap, peer)
  PROVE  Allowed(config, cap, peer)
<1>1. JudgedAs(cap, peer) \in PeerCapabilities
  BY JudgedPrivately
<1>2. Promised(stricter, cap, peer)
  BY KernelKeepsItsPromise
<1>3. Promised(config, cap, peer)
  BY <1>1, <1>2 DEF Promised
<1> QED
  BY <1>3, KernelKeepsItsPromise
=============================================================================
