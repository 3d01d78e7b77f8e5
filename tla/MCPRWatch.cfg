SPECIFICATION FairSpec
CONSTANTS
  Polls = {1}
  Cap = 1
  MaxHeads = 2
  MaxChanges = 1
  MaxBus = 1
  MaxAsks = 1
 
PROPERTIES ChecksShown 
CHECK_DEADLOCK FALSE
