SPECIFICATION Safety
CONSTANTS
  Rate = 3
  Second = 2
  Burst = 3
  MaxDelay = 2
  Slots = 2
  SeqMinPay = 2
  MaxPktBytes = 4
  Handles = {1, 2}
  Lens <- McLensOversize
  Routes = {"plain", "direct"}
  SendDup = TRUE
  DupDelay = 1
  DupSlots = 1
  DupMaxPps = 1
  ConcurrentOpen = TRUE
  MaxSends = 2
  MaxGen = 2
  SendUntil = 1
  MaxTime = 3
INVARIANTS
  DupAfterOriginal
  ClosedSocketForgotten
