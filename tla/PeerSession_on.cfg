SPECIFICATION Safety
CONSTANTS
  SeqSpace = 16
  DampenSlots = 2
  DampenFloor = 1
  DampenMax = 2
  DampenPeers = 2
  RttSlots = 2
  RttMaxSample = 2
  RttPeers = 2
  Addrs = {1}
  DampenOn = TRUE
  LobbyAlways = FALSE
  Parts = 1
  Flight = 2
  MaxSeq = 3
  MaxSession = 2
  MaxTime = 3
VIEW McView
CHECK_DEADLOCK FALSE
INVARIANTS
  FirstTransmissionGoes
  SuppressedIsCovered
  ResetMeansRestart
  SampleIsTrue
  
