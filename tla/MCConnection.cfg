CONSTANTS
  Capacity = 2
  MaxOrdinary = 4
  MaxEmits = 3
  MaxOthers = 1
  r1 = r1
  r2 = r2
  r3 = r3
  Rails = {r1, r2, r3}
  Endpoint <- MCEndpoint
  Floor <- MCFloor
  Overflow = "overflow"
  MaxPaced = 1
  Budget = 2
  Day = 3
  Window = 1
  Backoff = 1
  MaxLate = 2
  MaxClock = 4
  MaxGrants = 3
SPECIFICATION MCSpec
INVARIANTS
  SupervisorIsTold
  WireKeepsPace
PROPERTIES
  PendingIsDelivered
  BudgetIsExact
  QueueIsNotBlamed
CHECK_DEADLOCK FALSE
