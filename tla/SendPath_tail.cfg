SPECIFICATION Safety
CONSTANTS
  Rate = 3
  Second = 2
  Burst = 3
  MaxDelay = 2
  Slots = 2
  SeqMinPay = 2
  MaxPktBytes = 4
  Handles = {1}
  Lens <- McLens
  Routes = {"plain"}
  SendDup = FALSE
  DupDelay = 1
  DupSlots = 1
  DupMaxPps = 0
  ConcurrentOpen = FALSE
  MaxSends = 2
  MaxGen = 1
  SendUntil = 1
  MaxTime = 3
INVARIANTS
  TailLeavesOnItsSocket
