SPECIFICATION Spec
CONSTANTS
  Clients = {c1, c2}
  Plans = {p1, p2, p3}
  None = None
  Ttl = 1
  MaxPending = 2
  MaxNow = 1
SYMMETRY Symmetry
INVARIANTS
  TypeOK
  PendingWithinQuota
  OneClaimant
PROPERTIES
  LegalMoves
  ClaimedInTime
CHECK_DEADLOCK FALSE
