SPECIFICATION FairSpec
CONSTANTS
  Tasks = {t1, t2}
  Submitters = {s1}
  Workers = {w1, w2}
  Sweeper = sweeper
  NoTask = NoTask
  Depth = 1
  Full = "wait"
  MinBudget = 1
  Budgets <- MCBudgets
PROPERTIES
  EveryTaskAnswered
  CloseEnds
