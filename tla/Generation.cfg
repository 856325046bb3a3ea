CONSTANTS
  Names = {1, 2}  Default = 1  Shared = {"r", "s"}  Bad = Bad  None = None
  Generations <- MCGenerations  Shipped <- MCShipped  Edits <- MCEdits
  Skipped = Skipped
  Levels = {"info", "warn"}  LevelOfConfig = "info"
  Reloaders = {"ticker"}
  MaxPublished = 2  MaxMishaps = 1  MaxEdits = 1
SPECIFICATION FairSpec
CHECK_DEADLOCK FALSE
INVARIANTS
  TypeOK
  NoMixedTree
  StillReadIsWhole
  AcceptedOnDisk
PROPERTIES
  LastTakesEffect
  FollowsTree
