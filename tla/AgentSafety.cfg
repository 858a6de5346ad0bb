CONSTANTS
  Thread <- MCThread
  Node <- MCNode
  Key <- MCKey
  Lists <- MCLists
  Sentinel <- MCSentinel
  Null = Null
  ZeroKey = zero
  Garbage = garbage
  Tester = tester
  Server = server
  Handler = {x1, x2, x3}
  h0 = h0
  Heap = {n1, n2}
  Rounds = 2
  MaxConns = 1
  MaxFailures = 1
SPECIFICATION AgentSpec
INVARIANTS
  AgentTypeOK
  RegistryExact
  RegisteredOnce
  SentinelStays
  LostByOvertaking
PROPERTIES
  AgentImplementsCCL
SYMMETRY HandlerSymmetry
CHECK_DEADLOCK FALSE
