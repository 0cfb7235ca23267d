SPECIFICATION Spec
CONSTANTS
  a = a
  b = b
  n1 = n1
  n2 = n2
  k1 = k1
  k2 = k2
  RcCallers = {a, b}
  RcPlan <- Plan
  RcAttemptIds = {"x"}
  RcPeerOf <- PeerOf
  RcOutCap = 1
  RcEventCap = 1
  RcMaxIds = 5
  RcBudget = 1
  RlClients = {n1, n2}
  RlLoops = {k1, k2}
  RlMaxCommands = 2
  RlOps = {"configure", "disconnect", "environment"}
  RlAttempts = 2
  RlBudget = 1
INVARIANTS CallsPaired 
PROPERTIES CallsEnd 
CHECK_DEADLOCK FALSE
