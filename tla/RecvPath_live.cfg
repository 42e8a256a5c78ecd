SPECIFICATION Spec
CONSTANTS
  SeqSpace = 8
  Adapt = TRUE
  WinMin = 1
  WinMax = 2
  MaxHold = 2
  GrowPad = 1
  DecayAfter = 2
  PeerIdle = 2
  Depth = 2
  Peers = 1
  NoKey = 0
  Socks = {"p2p", "other"}
  Froms = {1, 2}
  Numbers <- McNumbers
  DrainCap = 2
  WakeIdle = 2
  WakeCap = 2
  MaxArrivals = 2
  MaxCloses = 1
PROPERTY
  EventuallySettled
