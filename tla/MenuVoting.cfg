SPECIFICATION FairSpec
CONSTANTS
  MaxClients = 2
  Votes = {v1}
  Plain = Plain
  NULL = NULL
  NItems = 2
  Habits = {}
  MaxCalls = 3
  MaxDepth = 6
INVARIANTS DisplaysOK TallyOK MenuAlive IgnoreOK
PROPERTY VoteEnds
CHECK_DEADLOCK FALSE
