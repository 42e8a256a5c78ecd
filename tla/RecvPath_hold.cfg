SPECIFICATION Safety
CONSTANTS
  SeqSpace = 8
  Adapt = TRUE
  WinMin = 1
  WinMax = 2
  MaxHold = 2
  GrowPad = 1
  DecayAfter = 2
  PeerIdle = 3
  Depth = 2
  Peers = 1
  NoKey = 0
  Socks = {"p2p"}
  Froms = {1, 2}
  Numbers <- McNumbers
  DrainCap = 3
  WakeIdle = 1
  WakeCap = 2
  MaxArrivals = 3
  MaxCloses = 1
INVARIANTS
  EachInOnePlace
  NothingEvicted
PROPERTIES
  ReleasesInOrder
  EmptyOwesNothing

