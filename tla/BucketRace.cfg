CONSTANTS
  Writers = {w1, w2}  Charges = {1, 3}  Max = 3  Rate = 1  Lifetime = 3
  Latency = 1  Start = 5  Horizon = 9  MaxFaults = 1
SYMMETRY MCSymmetry
SPECIFICATION Spec
CHECK_DEADLOCK FALSE
INVARIANTS
  TypeOK
  AtMostFull
  NeverOvercounts
  OneAtATime
