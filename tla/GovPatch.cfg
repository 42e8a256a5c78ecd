SPECIFICATION Spec
CONSTANTS
  Target = 8
  ColdStart = 1
  VerifyMs = 3
  TraceMs = 4
  ClampFloor = 4
  DownSlack = 1
  DescentBand = 2
  DescentMs = 4
  Ceiling = 8
  StepEvery = 2
INVARIANTS
  OneVerdictPerBump
PROPERTIES
  RescueIsNoStart
  BumpIsNoCollapse
  ClampIsOverwrite
  BumpGetsVerdict
  SentinelIsRaised
