SPECIFICATION StoresSpec
CONSTANTS
  a = a
  b = b
  h1 = h1
  h2 = h2
  SendChannels = {a}
  PoliciesOf <- MixedPolicies
  Sizes = {1, 3}
  MaxSequence = 1
  MaxPendingMessages = 2
  MaxPendingBytes = 2
  MaxAttempts = 1
  MaxRetryBytes = 2
  MaxTerminal = 1
  MayLapse = TRUE
  MayCancel = FALSE
  SendRefused = TRUE
  Channels = {a, b}
  Traffic <- MixedTraffic
  Handlers = {h1, h2}
  MaxActive = 2
  DedupMax = 1
  MaxReorderMessages = 1
  MaxReorderBytes = 1
  MaxSequenceGap = 1
  MayExpire = TRUE
  MayCancelHandlers = TRUE
  MayAbandon = TRUE
  MayClose = TRUE
INVARIANTS SendStoreConsistent GateConsistent
PROPERTY SettledIsFinal
