SPECIFICATION PolicySpec
CONSTANTS
  None = None
  HardDenied = {"service"}
  Ids <- MCIds
  KindOf <- MCKindOf
  IsChannel <- MCIsChannel
  Names <- MCNames
  Invite = "invite"
  NoId = "0"
  Configs <- MCConfigs
  Requests <- MCRequests
  NamesAtFirst <- MCNamesAtFirst
  MaxChanges = 2
  ScanLimit = 3
  Overscan = 2
  Asks <- MCAsks
  Fleets <- MCFleets
  Parts = {"review", "listings"}
INVARIANTS
  TypeOK
  ActsOnWhatWasReviewed
  PolicyComesFirst
  ToldOrCounted
CHECK_DEADLOCK FALSE
