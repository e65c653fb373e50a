SPECIFICATION Spec
CONSTANTS
  Files = {f1, f2, f3}
  Providers = {f1, f3}
  Users = {f2}
  NULL = NULL
  Habits = {}
  MaxPlugins = 3
  MaxCalls = 3
  MaxDepth = 3
INVARIANT ErrorDeserved
CHECK_DEADLOCK FALSE
