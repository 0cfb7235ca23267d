SPECIFICATION ReceiveFairSpec
CONSTANTS
  a = a
  b = b
  h1 = h1
  h2 = h2
  Channels = {a, b}
  Traffic <- MixedTraffic
  Handlers = {h1, h2}
  MaxActive = 4
  DedupMax = 1
  MaxReorderMessages = 1
  MaxReorderBytes = 1
  MaxSequenceGap = 1
  MayExpire = TRUE
  MayCancelHandlers = TRUE
  MayAbandon = TRUE
  MayClose = FALSE
INVARIANT StoreAnchored
PROPERTY CompletedOnce
