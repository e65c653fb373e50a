SPECIFICATION FairSpec
CONSTANTS
  Timers = {t1, t2}
  NULL = NULL
  Intervals = {1, 2}
  Kinds <- TimedKinds
  Steps = {2}
  Accuracy = 3
INVARIANT TimingOK
PROPERTY TimersEnd
