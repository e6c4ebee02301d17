SPECIFICATION FairSpec
CONSTANTS
  Shards = {0, 1}
  Slugs = {1, 2, 3}
  Valid = {1, 2}
  Sessions = {1, 2, 3}
  Capacity = 1
  Entries = 2
  NoShard = NoShard
  Loads <- MCLoads
  RequestsPerDispatch = 2
  MaxSessions = 3
  PageMarkets = 1
  LeaseTtl = FALSE
  Configured <- MCConfigured
  Wedgeable = {0, 1}
  MaxWedges = 1
INVARIANTS
  RoutingIsExact
  SessionsAreServed
PROPERTIES
  UnwantedLeaves
CHECK_DEADLOCK FALSE
