SPECIFICATION Spec
CONSTANTS
  Threads = {t1, t2}
  Handles = {1, 2}
  Peers = {11, 12}
  Invalid = 99
  Spec_ <- McSpec
  FilterCap = 1
  TrackCap = 1
  RingRecords = 2
  RttOn = TRUE
  Proxies = {"winmm", "dsound"}
  MaxSockets = 2
  MaxEvents = 3
  MaxSends = 1
  MaxOrphans = 1
SYMMETRY McSymmetry
INVARIANTS SidNamesOneSocket FileIsTail NothingUnreported
CHECK_DEADLOCK FALSE
