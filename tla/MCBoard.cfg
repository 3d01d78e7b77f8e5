SPECIFICATION BoardSpec
CONSTANTS
  Issues = {1}
  PRs = {p1}
  OwnerOf <- OneOwner
  Polls = {k1, k2}
  DragTo = {"todo", "review", "done"}
  MaxAsks = 1
  MaxFaults = 1
  Filed = {}
  Rankings = {}
  Pullers = {}
  Slots = 1
  Closable = {}
PROPERTIES  ClosedReachesDone PRsNoticed
CHECK_DEADLOCK FALSE
