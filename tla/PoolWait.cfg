SPECIFICATION Spec
CONSTANTS
  Tasks = {t1, t2, t3}
  Submitters = {s1, s2}
  Workers = {w1, w2}
  Sweeper = sweeper
  NoTask = NoTask
  Depth = 1
  Full = "wait"
  MinBudget = 1
  Budgets <- MCBudgets
SYMMETRY MCSymmetry
INVARIANTS
  TypeOK
  NoSleepOnRoom
  SomeWorkerAwake
  AnsweredOnce
  DrainedByClose
  CountersAgree
