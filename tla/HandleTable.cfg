SPECIFICATION Spec
CONSTANTS
  MaxHandles = 5
  MaxSerials = 4
  Root = Root
  Core = Core
  NULL = NULL
  Types = {tA}
  IdentType = tI
  Idents = {p1}
  TypeSec <- MCTypeSec
  HndlSec <- MCHndlSec
  AccessRules <- MCAccessRules
  Callers <- MCCallers
  MaxMade = 6
INVARIANTS SlotsOK ReferencesOK OwnersOK ObjectLifetime StaleHandleRejected
PROPERTY RefinesAbstract
CHECK_DEADLOCK FALSE
