SPECIFICATION FairSpec
CONSTANTS
  None = None
  Daemons = {d1, d2}
  Clients = {c1, c2}
  Strangers = {c2}
  Routed = {c1, c2}
  PolicyOf <- MCPolicyOf
  MaxConnections = 1
  Faults = {"crash", "open", "timeout"}
INVARIANTS
  TypeOK
  RunsConnected
  ServingIsReachable
PROPERTIES
  KeepsService
  StartsAndStopsEnd
  ServedConnectionEnds
CHECK_DEADLOCK FALSE
