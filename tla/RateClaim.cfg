CONSTANTS Max = 2  Per = 3  Horizon = 8  MaxHits = 5
SPECIFICATION Spec
CHECK_DEADLOCK FALSE
INVARIANTS
  RefusedOnlyOverRate
