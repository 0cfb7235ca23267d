SPECIFICATION ConnectAttemptSpec
CONSTANTS
  plain = plain
  ssh = ssh
  probe = probe
  CcMaxRetired = 8
  CaConnects = {plain, ssh}
  CaProbes = {probe}
  CaNeed <- Need
  CaHistory <- Refreshes
  CaMaxIds = 2
  CaBudget = 3
INVARIANT ResolveRebuildsCache
CHECK_DEADLOCK FALSE
