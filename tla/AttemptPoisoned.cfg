SPECIFICATION ConnectAttemptSpec
CONSTANTS
  plain = plain
  ssh = ssh
  probe = probe
  CcMaxRetired = 8
  CaConnects = {plain, ssh}
  CaProbes = {probe}
  CaNeed <- Need
  CaHistory <- Restarts
  CaMaxIds = 2
  CaBudget = 3
INVARIANT ReservationHasOwner
CHECK_DEADLOCK FALSE
