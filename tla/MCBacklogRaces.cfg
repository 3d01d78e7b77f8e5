SPECIFICATION Spec
CONSTANTS
  Issues = {1, 2}
  Filed = {2}
  Rankings <- OneRanking
  Pullers = {1, 2}
  Slots = 1
  Closable = {2}
  DragTo = {}
  MaxAsks = 1
  MaxFaults = 1
INVARIANT SlotsBalanced
 
CHECK_DEADLOCK FALSE
