SPECIFICATION Spec
CONSTANTS
  acc1 = acc1
  dig1 = dig1
  None = None
  Messages = {m1}
  Invites = {}
  Kicks = {}
  Folders = {}
  Creates = {}
  Appliers = {a1}
  Accounts = {acc1}
  Plans <- MCPlans
  AccountOf <- MCAccountOf
  DigestOf <- MCDigestOf
  AllowDup = {}
  Shape <- MCShape
  Ceiling = 1
  Window = 1
  MaxNow = 0
  Faults = {"ambiguous"}
INVARIANTS
  UnknownMeansRequestLeft
CHECK_DEADLOCK FALSE
