CONSTANTS
  p1 = p1
  p2 = p2
  p3 = p3
  w1 = w1
  w2 = w2
  Callers = {c1, c2, c3}
  Survivors = {c3}
  Shared = Shared
  NoPool = NoPool
  Pools <- MCPools
  Workspaces <- MCWorkspaces
  Deletable = {p2}
  Rows <- MCRows
  Requests <- MCRequests
  Preferred <- MCPreferred
  FirstRows <- MCFirstRows
SPECIFICATION SelectionSpec
INVARIANTS
  TypeOK
  SlotConservation
PROPERTIES
  NoSpuriousRefusal
  PreferenceHonoured
  RegistryIsALedger
SYMMETRY AllSame
CHECK_DEADLOCK FALSE
