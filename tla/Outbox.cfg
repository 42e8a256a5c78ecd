SPECIFICATION Spec
CONSTANTS
  MaxParts = 2
  Refused = {}
  MaxSessions = 2
  MaxUnsaved = 1
  MaxLost = 1
  MaxKills = 2
INVARIANTS
  LogSurvives
  TwiceOnlyByFault
PROPERTIES
  EventuallySent
CHECK_DEADLOCK FALSE
