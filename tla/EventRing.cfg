CONSTANTS
  EventCapacity = 2
  MaxBatch = 2
  MaxStores = 8
SPECIFICATION Spec
INVARIANTS
  ReplicaIsFaithful
  NobodyIsStranded
  LossIsHonest
CHECK_DEADLOCK FALSE
