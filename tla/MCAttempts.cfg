SPECIFICATION FairSpec
CONSTANTS
  MaxSessions = 2
  MaxAsks = 1
  MaxFaults = 1
  Cap = 1
INVARIANTS NeverBlank ResumedOnce
PROPERTIES AnsweredResumes BadgeGoes
CHECK_DEADLOCK FALSE
