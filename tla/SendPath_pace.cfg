SPECIFICATION Spec
CONSTANTS
  Rate = 3
  Second = 2
  Burst = 3
  MaxDelay = 2
  Slots = 2
  SeqMinPay = 2
  MaxPktBytes = 4
  Handles = {1}
  Lens <- McLens
  Routes = {"plain"}
  SendDup = TRUE
  DupDelay = 0
  DupSlots = 1
  DupMaxPps = 0
  ConcurrentOpen = FALSE
  MaxSends = 4
  MaxGen = 2
  SendUntil = 2
  MaxTime = 4
INVARIANTS
  NothingDropped
  DueSorted
PROPERTIES
  InOrderOnce
  DrainLeavesNothingDue
  EventuallyOnWire
