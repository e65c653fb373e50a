SPECIFICATION FairSpec
CONSTANTS
  Files = {f1, f2}
  Providers = {f1}
  Users = {f2}
  NULL = NULL
  Habits = {}
  MaxPlugins = 4
  MaxCalls = 4
  MaxDepth = 6
INVARIANTS PointersLive StepsDeserved OnePerFile BindingsLive HeardOK
PROPERTY UnloadHappens
CHECK_DEADLOCK FALSE
