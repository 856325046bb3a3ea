SPECIFICATION FairSpec
CONSTANTS
  None = None
  Requests = {1, 2, 3, 4}
  Scenes <- MCScenes
  Workers = 2
  Names = {"p", "o"}
  Keys = {"k", "j"}
  MaxItems = 2
  MaxPending = 3
  MaxTurns = 2
  MaxFaults = 1
INVARIANTS
  TypeOK
  NoPassWithoutCause
  ClearedPasses
  HotIsChallenged
  EventsAreWritten
  RecordsAccounted
  RecordsInOrder
  FlushedByClose
PROPERTY
  EveryReplied
CHECK_DEADLOCK FALSE
