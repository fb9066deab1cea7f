CONSTANTS
  Callers = {c1}
  Timer = Timer
  Nobody = Nobody
  BlinkMax = 2
  BlinkList <- OneShotFirst
  MaxStep = 4
  Overlap = TRUE
SPECIFICATION Spec
PROPERTY StopIsFinal
CHECK_DEADLOCK FALSE
