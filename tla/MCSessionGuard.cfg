CONSTANTS
  s1 = s1
  s2 = s2
  s3 = s3
  i1 = i1
  Sessions <- MCSessions
  Issues = {i1}
  IssueOf <- MCIssueOf
  EntryOf <- MCEntryOf
  Harness = {s3}
  Says <- MCSays
  MaxLines <- MCMaxLines
  MaxRestarts = 0
SPECIFICATION Spec
INVARIANTS
  OneWorkerPerKey
  AutoKillHitsSpeaker
CHECK_DEADLOCK FALSE
