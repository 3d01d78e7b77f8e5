SPECIFICATION FairSpec
CONSTANTS
  Issues = {1, 2}
  Filed = {2}
  Rankings <- OneRanking
  Pullers = {1}
  Slots = 1
  Closable = {2}
  DragTo = {"todo"}
  MaxAsks = 1
  MaxFaults = 0
PROPERTIES ClosedDepUnblocks ReadyGetsSlot
CHECK_DEADLOCK FALSE
