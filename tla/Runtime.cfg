SPECIFICATION RuntimeSpec
CONSTANTS
  p1 = p1
  p2 = p2
  c1 = c1
  c2 = c2
  s1 = s1
  Spawners = {p1, p2}
  Closers = {c1, c2}
  Sessions = {s1}
  MaxSupervised = 1
  MaxTasks = 3
  MaxGroups = 2
  MaxCalls = 3
  LaneProducers = {p1}
  LaneCapacity <- Capacities
  LaneByteLimit <- ByteLimits
  LaneBurst <- Bursts
  LaneMaxEventBytes = 2
  LaneMaxEvents = 4
  CmdIds = {1, 2, 3}
  CmdCallers = {c1}
  CmdStoppers = {1, 2}
  FfiMaxPending = 1
  FfiMaxTerminal = 2
  FfiControlItems = 1
  FfiDataItems = 1
  FfiMaxControlRun = 1
  FfiDrainBatch = 2
  CmdMailbox = 1
  CmdMaxCompleted = 3
  CmdResultLane = 1
  CmdBudget = 5
  StartStopOverlap = FALSE
INVARIANTS LiveIsReachable DrainedIsFinal ClosedSessionIsEmpty TasksConsistent LanesConsistent AnswersConsistent AnsweredAtMostOnce
PROPERTIES StopsEnd 
CHECK_DEADLOCK FALSE
