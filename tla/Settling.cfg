SPECIFICATION SettlingSpec
CONSTANTS
  c1 = c1
  c2 = c2
  a = a
  Commands = {c1, c2}
  Demands = {"ReliableMessage", "ReliableStream"}
  Policies = {TRUE}
  AttemptErrors = {"NoRoute"}
  AttemptIds = {1, 2, 3, 4}
  InboundCaps = {}
  MailboxCapacity = 1
  MaxWaiters = 2
  MaxGeneration = 2
  SpawnRefused = TRUE
  InstallFirst = TRUE
  SendChannels = {a}
  PoliciesOf <- RetriedPolicies
  Sizes = {1, 2}
  MaxSequence = 0
  MaxPendingMessages = 1
  MaxPendingBytes = 2
  MaxAttempts = 3
  MaxRetryBytes = 2
  MaxTerminal = 1
  MayLapse = TRUE
  MayCancel = TRUE
  SendRefused = FALSE
INVARIANTS WaitersAreServed 
 
CHECK_DEADLOCK FALSE
