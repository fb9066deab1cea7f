CONSTANTS
  DEBOUNCE_TICKS = 8
  SHORT_TICKS = 9
  LONG_TICKS = 12
  TicksMod = 32
  RepeatMod = 16
  DebounceMod = 8
  MaxHold = 32
  MaxPresses = 15
SPECIFICATION FairSpec
PROPERTIES LevelAccepted
