CONSTANTS
  Buttons = {b1, b2, b3}
  NULL = NULL
  Channels = {0, 1}
  Indexes = {0, 1}
  MAX_CHANNEL = 2
  CHANNEL_MAX = 8
SPECIFICATION DevFairSpec
INVARIANTS ListHoldsButtons TableMatchesButtons
PROPERTIES GroupedIsOwnSample EveryButtonScanned
