CONSTANTS
  a = a  b = b  Absent = Absent
  Values = {a, b}  Odd = {b}  Exps = {1, 2}  Edits <- MCEdits
  QueueDepth = 1  PackagesPerRead = 2
  MaxEpoch = 2  MaxSeq = 3  MaxFaults = 1
SPECIFICATION FairSpec
INVARIANTS
  TypeOK
  SeesKeeperList
  HashIsOfList
PROPERTIES
  Converges
