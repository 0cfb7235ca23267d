SPECIFICATION Spec
CONSTANTS
  a = a
  h1 = h1
  MaxTasks = 2
  MaxFrames = 2
  SendChannels = {a}
  Channels = {a}
  Traffic <- OrderedTraffic
  PoliciesOf <- OrderedOnly
  Sizes = {1}
  MaxSequence = 1
  MaxPendingMessages = 2
  MaxPendingBytes = 2
  MaxAttempts = 2
  MaxRetryBytes = 2
  MaxTerminal = 2
  MayLapse = FALSE
  MayCancel = FALSE
  SendRefused = FALSE
  Handlers = {h1}
  MaxActive = 2
  DedupMax = 1
  MaxReorderMessages = 1
  MaxReorderBytes = 1
  MaxSequenceGap = 1
  MayExpire = TRUE
  MayCancelHandlers = FALSE
  MayAbandon = FALSE
  MayClose = FALSE
PROPERTY ImplementsOrderedChannel
