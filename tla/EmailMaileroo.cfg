SPECIFICATION Spec
CONSTANTS
  Workers = {w1, w2}
  Nobody = Nobody
  Idempotent = FALSE
  MaxAttempts = 2
  MaxMessages = 2
  MaxEvents = 0
  MaxFaults = 1
SYMMETRY Symmetry
INVARIANTS SentOnce
CHECK_DEADLOCK FALSE
