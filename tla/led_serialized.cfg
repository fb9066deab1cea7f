CONSTANTS
  Callers = {c1, c2}
  Timer = Timer
  Nobody = Nobody
  BlinkMax = 3
  BlinkList <- ThreeLists
  MaxStep = 4
  Overlap = FALSE
SPECIFICATION FairSpec
INVARIANTS InBounds ActiveIsFirst
PROPERTIES StopIsFinal BlinkGoesOn
