SPECIFICATION TypesFairSpec
CONSTANTS
  MaxHandles = 6
  MaxSerials = 6
  Root = Root
  Core = Core
  NULL = NULL
  Types <- MCTypes
  IdentType = 2
  Idents = {p1}
  TypeSec <- MCTypeSec
  HndlSec <- MCHndlSec
  AccessRules <- MCStrict
  Callers <- MCCallers
  MaxMade = 5
  MaxSubtypes = 1
  MaxTypes = 5
  Names = {n1}
  MaxTypesMade = 3
  MaxWork = 7
INVARIANTS RemovalOK TypeIndexOK
PROPERTY ReleasesEnd
CHECK_DEADLOCK FALSE
