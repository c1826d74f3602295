SPECIFICATION Spec
CONSTANTS
  acc1 = acc1
  dig1 = dig1
  None = None
  Messages = {}
  Invites = {}
  Kicks = {}
  Folders = {}
  Creates = {g1}
  Appliers = {a1}
  Accounts = {acc1}
  Plans <- MCPlans
  AccountOf <- MCAccountOf
  DigestOf <- MCDigestOf
  AllowDup = {}
  Shape <- MCShape
  Ceiling = 1
  Window = 1
  MaxNow = 0
  Faults = {"noeffect"}
INVARIANTS
  FailedMeansNoEffect
CHECK_DEADLOCK FALSE
