CONSTANTS
  SNTP_TRY_COUNT = 2
  Handler = h
  Capacity = 3
  None = None
SPECIFICATION AppSpec
INVARIANTS SuccessIsValid AnswerIsNoticed LossMeansBehind
PROPERTIES GoesOn
CHECK_DEADLOCK FALSE
