SPECIFICATION Spec
CONSTANTS
  Ops = {o1, o2}
  Plugins = {p1}
  Exts = {e1}
  Drivers = {d1}
  NULL = NULL
  Habits = {"QueryInAskPluginLoad", "QueryInDependenciesDropped", "IdentReuse"}
  MaxLoads = 3
  MaxOps = 2
SYMMETRY OpSymmetry
INVARIANTS OneHome OwnersSafe InOrder NeverLost
CHECK_DEADLOCK FALSE
