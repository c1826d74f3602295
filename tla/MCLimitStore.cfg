SPECIFICATION Spec
CONSTANTS
  Clients = {c1, c2}
  a1 = a1
  a2 = a2
  t1 = t1
  t2 = t2
  Accounts = {a1, a2}
  Targets = {t1, t2}
  Demands <- MCDemands
  None = None
  Window = 1
  PruneWindows = 1
  SendsPerAccount = 2
  SendsPerTarget = 1
  SendsPerFleet = 2
  JoinsPerAccount = 1
  AdminOpsPerAccount = 0
  MaxNow = 2
  MaxEvents = 3
SYMMETRY Symmetry
INVARIANTS
  TypeOK
  WindowCap
PROPERTIES
  UsedStaysUsed
CHECK_DEADLOCK FALSE
