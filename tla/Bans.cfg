CONSTANTS
  i1 = i1
  Nonces = {n1, n2}  Texts = {}  Tokens = {w1}  Fps = {f1}  Prints = {f1}  Apis = {TRUE}  None = None
  Handlers = {h1, h2}  Hosts = {i1}  HostOf <- MCHostOf
  ChallengeTTL = 1  ClearanceTTL = 3  Window = 1  Per = 1
  VerifyMax = 0  IssueMax = 0  FarmAt = 1  OnError = "fallback"
  Latency = 1  MaxFaults = 1  Horizon = 3
SPECIFICATION FairSpec
INVARIANTS
  BanOutlivesClearance
PROPERTIES
  BanReachesEveryMirror
