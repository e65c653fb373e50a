SPECIFICATION Spec
CONSTANTS
  Timers = {t1, t2}
  Infos = {i1, i2}
  Data = {d1}
  Plugins = {p1}
  DataOwner <- OneOwner
  NULL = NULL
  MaxMade = 3
INVARIANTS InfoHome KillReadsOwn TimerHandlesOK
CHECK_DEADLOCK FALSE
