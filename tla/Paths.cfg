SPECIFICATION PathsSpec
CONSTANTS
  c1 = c1
  c2 = c2
  o1 = o1
  o2 = o2
  i1 = i1
  i2 = i2
  Outgoing = {o1, o2}
  Incoming = {i1, i2}
  CarrierKind <- Carriers
  Bindings = {"b1", "b2"}
  MaxLeases = 1
  MaxSessionIds = 2
  MaxEvents = 3
  PmMasks = {{"message"}, {"message", "stream"}}
  PmMaxLeases = 1
  PmMaxReady = 2
  PmMaxPaths = 3
  Commands = {c1, c2}
  Demands = {"ReliableMessage", "ReliableStream"}
  Policies = {TRUE, FALSE}
  AttemptErrors = {"NoRoute"}
  AttemptIds = {1, 2, 3, 4}
  InboundCaps <- MessagePath
  MailboxCapacity = 1
  MaxWaiters = 2
  MaxGeneration = 2
  SpawnRefused = TRUE
  InstallFirst = FALSE
INVARIANTS TypeOK ChildAccounting RetryFlagIsHonest PathsOwned  ManagerConsistent
PROPERTIES FailureSparesOthers 
CHECK_DEADLOCK FALSE
