SPECIFICATION Spec
CONSTANTS
  Tasks = {t1, t2, t3}
  Submitters = {s1}
  Workers = {w1, w2}
  Sweeper = sweeper
  NoTask = NoTask
  Depth = 2
  Full = "drop"
  MinBudget = 1
  Budgets <- MCBudgets
SYMMETRY MCSymmetry
INVARIANTS
  NoIdleWorker
PROPERTIES
  ImplementsDispatch
