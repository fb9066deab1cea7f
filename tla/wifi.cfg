CONSTANTS
  Networks = {home, away}
  NoNetwork = NoNetwork
  Api = {"Init", "Deinit", "Switch", "Start", "Stop"}
  RETRIES = 5
  MAXIMUM_RETRY = 5
  MaxQueue = 3
SPECIFICATION FairSpec
INVARIANTS ReadyIsConnected RetriesBounded
PROPERTIES LossIsNoticed
