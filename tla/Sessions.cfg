SPECIFICATION Spec
CONSTANTS
  StrLocal = {"l"}
  StrRemote = {"r"}
  StrBridged = {"r"}
  StrCap = 1
  StrMaxStreams = 2
  StrMaxRetired = 1
  StrMaxFrames = 3
  StrMaxPaths = 2
  StrBudget = 4
  TrChunks = 2
  TrMaxAttempts = 2
  TrBudget = 2
  TrRoutes = {"quic", "relay"}
  RtSignals <- Signals
  RtRemoteIds = {11, 12}
  RtOps = {"a"}
  RtMaxIce = 2
  RtMaxReplay = 3
  RtMaxDrivers = 2
  RtBudget = 4
INVARIANTS  TransferSound  
  
CHECK_DEADLOCK FALSE
