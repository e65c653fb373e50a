SPECIFICATION FairSpec
CONSTANTS
  Ops = {o1, o2}
  Plugins = {p1}
  Exts = {e1}
  Drivers = {d1, d2}
  NULL = NULL
  Habits = {"QueryInAskPluginLoad", "QueryInDependenciesDropped"}
  MaxLoads = 1
  MaxOps = 2
INVARIANT DriversFixed
PROPERTY EveryOperationEnds
CHECK_DEADLOCK FALSE
