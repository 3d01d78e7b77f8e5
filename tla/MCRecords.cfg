SPECIFICATION RecordsSpec
CONSTANTS
  a1 = a1
  a2 = a2
  f1 = f1
  f2 = f2
  p1 = p1
  p2 = p2
  c1 = c1
  c2 = c2
  k1 = k1
  k2 = k2
  k3 = k3
  None = None
  Callers = {p1, p2}
  Collections = {c1, c2}
  Keys = {k1, k2, k3}
  MaxCalls = 3
  Careful = TRUE
  MaxRev = 2
  MaxRuns = 2
  MaxWorks = 1
  Rejects = TRUE
  Replays = TRUE
  Releases = {6, 9}
  Ages = {0, 7, 20}
  MaxFaults = 2
  MaxComments = 2
  MaxSlips = 1
  Asks = 1
  Proposals = {f1, f2}
  Analyses = {a1, a2}
  Slots = 2
  Requests = 4
SYMMETRY Symmetric
INVARIANTS SingleMembership ApprovedOnlyRuns AnswersTaken OpensWhatItKnows
  NoticedOnce FiledOnRecord
PROPERTIES CreateIsAtomic ColumnsKept
CHECK_DEADLOCK FALSE
