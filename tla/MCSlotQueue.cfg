CONSTANTS
  w1 = w1  w2 = w2  p1 = p1  d1 = d1  d2 = d2  k1 = k1  k2 = k2
  Issues = {w1, w2, p1}
  RoleOf <- MCRoleOf
  Capacity <- OneOfEach
  Drains = {d1, d2}
  Reconcilers = {k1}
  ListLimit = 3
  MaxAsks = 3
  MaxRestarts = 1
  MayReset = TRUE
SPECIFICATION Spec
INVARIANTS NoCardForgotten QueuedCardWaits
CHECK_DEADLOCK FALSE
