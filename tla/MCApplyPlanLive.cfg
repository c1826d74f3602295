SPECIFICATION FairSpec
CONSTANTS
  acc1 = acc1
  dig1 = dig1
  None = None
  Messages = {}
  Invites = {i1}
  Kicks = {k1}
  Folders = {f1}
  Creates = {}
  Appliers = {a1, a2}
  Accounts = {acc1}
  Plans <- MCPlans
  AccountOf <- MCAccountOf
  DigestOf <- MCDigestOf
  AllowDup = {}
  Shape <- MCShape
  Ceiling = 1
  Window = 1
  MaxNow = 0
  Faults = {"policy", "noeffect", "ambiguous", "error", "cancel"}
INVARIANTS
  BudgetHolds
PROPERTIES
  ClaimedIsClosed
  SlotSettled
  SessionFreed
CHECK_DEADLOCK FALSE
