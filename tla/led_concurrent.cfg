CONSTANTS
  Callers = {c1}
  Timer = Timer
  Nobody = Nobody
  BlinkMax = 2
  BlinkList <- OneShotFirst
  MaxStep = 3
  Overlap = TRUE
SPECIFICATION DevSpec
INVARIANTS ActiveIsIncomplete AllOrNothing
CHECK_DEADLOCK FALSE
