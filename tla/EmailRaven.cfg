SPECIFICATION FairSpec
CONSTANTS
  Workers = {w1, w2}
  Nobody = Nobody
  Idempotent = TRUE
  MaxAttempts = 2
  MaxMessages = 1
  MaxEvents = 2
  MaxFaults = 2
INVARIANTS ReportsDecide DoneWasAnswered
PROPERTIES FinalIsKept EmailEnds
CHECK_DEADLOCK FALSE
