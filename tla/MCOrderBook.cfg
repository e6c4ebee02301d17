CONSTANTS
  Coordinates <- MCCoordinates
  Complementable <- MCComplementable
  Quantities <- MCQuantities
  Absent <- MCAbsent
  ContinuityReasons = {"Reconnect", "Overrun"}
  AuthorityReasons = {"Loss"}
  MaxLevels = 2
  U64Max = 3
  Capacity = 1
  MaxDeliveries = 3
  ObservedCandidates <- MCObserved
SPECIFICATION OSpec
INVARIANTS
  StreamContiguous
  ReplayMatchesBook
  DeliveryIsExact
  LossIsExact
PROPERTIES
  OvertakenIsTold
