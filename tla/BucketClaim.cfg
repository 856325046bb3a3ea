CONSTANTS
  Writers = {w1, w2}  Charges = {1, 3}  Max = 3  Rate = 1  Lifetime = 3
  Latency = 0  Start = 5  Horizon = 8  MaxFaults = 0
SYMMETRY MCSymmetry
SPECIFICATION Spec
CHECK_DEADLOCK FALSE
INVARIANTS
  OneSum
