SPECIFICATION FairSpec
CONSTANTS
  w1 = w1
  w2 = w2
  w3 = w3
  Workers <- MCWorkers
  Cap = 2
  Limit <- BeyondTwo
  MaxJobs = 12
INVARIANTS TypeOK Conservation StuckOnlyAtBound
PROPERTIES RespondsIfFits FinishedIfFits
CHECK_DEADLOCK FALSE
