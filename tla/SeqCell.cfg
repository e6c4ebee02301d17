CONSTANTS
  Words = {w1, w2}
  U64Max = 6
  MaxReadAttempts = 2
SPECIFICATION Spec
INVARIANTS
  VerdictIsHonest
PROPERTIES
  AtomicSpec
CHECK_DEADLOCK FALSE
