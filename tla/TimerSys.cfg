SPECIFICATION Spec
CONSTANTS
  Timers = {t1, t2, t3}
  NULL = NULL
  Intervals = {1}
  Kinds <- NestedKinds
  Steps = {1}
  Accuracy = 1
SYMMETRY TimerSymmetry
INVARIANTS ListsOK EndOnce
