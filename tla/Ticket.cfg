CONSTANTS
  i1 = i1
  Nonces = {n1}  Texts = {t1, t2}  Tokens = {w1}  Fps = {}  Prints = {None}  Apis = {FALSE, TRUE}  None = None
  Handlers = {h1, h2}  Hosts = {i1}  HostOf <- MCHostOf
  ChallengeTTL = 2  ClearanceTTL = 3  Window = 1  Per = 1
  VerifyMax = 1  IssueMax = 1  FarmAt = 0  OnError = "allow"
  Latency = 1  MaxFaults = 1  Horizon = 3
SYMMETRY MCSymmetry
SPECIFICATION Spec
INVARIANTS
  TypeOK
  ClearancesApart
  TicketStaysUsable
