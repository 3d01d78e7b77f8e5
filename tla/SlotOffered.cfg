CONSTANTS
  w1 = w1  w2 = w2  p1 = p1  d1 = d1  d2 = d2  k1 = k1  k2 = k2
  Issues = {w1, w2, p1}
  RoleOf <- MCRoleOf
  Capacity <- NoPlanPool
  Drains = {d1, d2}
  Reconcilers = {k1}
  ListLimit = 3
  MaxAsks = 4
  MaxRestarts = 0
  MayReset = TRUE
SPECIFICATION FairSpec
PROPERTY SlotOfferedToAll
CHECK_DEADLOCK FALSE
