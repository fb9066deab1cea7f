CONSTANTS
  DEBOUNCE_TICKS = 7
  SHORT_TICKS = 9
  LONG_TICKS = 12
  TicksMod = 32
  RepeatMod = 16
  DebounceMod = 8
  MaxHold = 32
  MaxPresses = 15
SPECIFICATION FairSpec
INVARIANTS CountInCallbacks
PROPERTIES GestureRefined DebounceHonest LevelAccepted GestureEnds HoldReported
