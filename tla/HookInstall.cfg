SPECIFICATION Spec
CONSTANTS
  Functions = {"WSASocketW", "WSARecvFrom", "WSASendTo"}
  Modules = {"exe", "dll"}
  Exe = "exe"
  Imports <- McImports
  Upstream = {"WSASocketW", "WSASendTo"}
  MayFail = {"WSASendTo"}
  Groups <- McGroups
  SendHooks = {"WSASendTo"}
  Proxies = {"winmm", "dsound"}
  MaxTries = 3
INVARIANTS
  HookReaches
  UpstreamKept
  CoveredAfterPass
PROPERTIES
  InitBeforeTraffic
  PaceInitKeepsQueue
