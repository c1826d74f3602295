SPECIFICATION Spec
CONSTANTS
  Loaders = {l1}
  Changers = {c1}
  Users = {u1, u2}
  None = None
  Imported = {u1, u2}
  Signers = {u1, u2}
  MaxKilled = 1
  MaxChanges = 3
  Faults = {"crash", "revoked"}
INVARIANTS
  TypeOK
  OneClientPerKey
  IdentityAgrees
PROPERTIES
  UnderAClient
  
  DisabledStays
SYMMETRY Symmetry
CHECK_DEADLOCK FALSE
