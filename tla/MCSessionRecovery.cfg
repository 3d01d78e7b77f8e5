CONSTANTS
  s1 = s1
  s2 = s2
  i1 = i1
  Sessions <- MCSessions
  Issues = {i1}
  IssueOf <- MCIssueOf
  EntryOf <- MCEntryOf
  Harness = {s2}
  Says <- MCSays
  MaxLines <- MCMaxLines
  MaxRestarts = 1
SPECIFICATION FairSpec
INVARIANTS
  FreedSlotIsOver
  PROpenedDelivered
  OutcomeFaithful
PROPERTIES
  EndedWorkerSettles
CHECK_DEADLOCK FALSE
