SPECIFICATION Spec
CONSTANTS
  SeqSpace = 8
  Threads = {t1, t2}
  MaxAborted = 1
  Froms = {1}
  Numbers <- McNumbers
  Timeouts = {9}
  Infinite = 9
  Window = 1
  WinMax = 1
  MaxHold = 1
  HoldCap = 1
  WatchdogX = 1
  MaxArrivals = 4
  MaxCloses = 1
INVARIANTS
  EachInOnePlace
  CursorIsFrontier
PROPERTIES
  OvertakesFew
  EventuallyHanded
