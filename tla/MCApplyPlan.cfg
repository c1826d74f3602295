SPECIFICATION Spec
CONSTANTS
  acc1 = acc1
  dig1 = dig1
  None = None
  Messages = {m1, m2}
  Invites = {}
  Kicks = {}
  Folders = {}
  Creates = {}
  Appliers = {a1, a2}
  Accounts = {acc1}
  Plans <- MCPlans
  AccountOf <- MCAccountOf
  DigestOf <- MCDigestOf
  AllowDup = {m2}
  Shape <- MCShape
  Ceiling = 2
  Window = 1
  MaxNow = 2
  Faults = {"policy", "noeffect", "ambiguous", "error", "cancel", "interrupt", "crash", "storage"}
SYMMETRY Symmetry
INVARIANTS
  TypeOK
  EffectIsOnRecord
  AuditTellsTruth
  SessionHeld
PROPERTIES
  KeepsContract
  NoAccidentalRepeat
CHECK_DEADLOCK FALSE
