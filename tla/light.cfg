CONSTANTS
  Lights = {l1, l2}
  NULL = NULL
  channel_num = 1
  LIGHT_NUM_MAX = 1
  Timers = {t1, t2}
  Periods = {1, 2}
  FullDuty = 1
  MaxCommands = 1
SPECIFICATION FairSpec
INVARIANTS TimersAreOwned FadesWork
PROPERTIES BreathGoesOn DutyRests
