SPECIFICATION OutputSpec
CONSTANTS
  MaxLines = 2
  MaxRetries = 3
  MaxFaults = 1
  Strategies = {"harness", "cli"}
  MaxTurns = 2
  MaxTokens = 1
  Tears = FALSE
  Leftovers = FALSE
INVARIANTS NothingPassedOver EndingTold
PROPERTIES EndsHere WatchdogEnds
CHECK_DEADLOCK FALSE
