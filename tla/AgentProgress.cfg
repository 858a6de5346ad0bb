CONSTANTS
  Thread <- MCThread
  Node <- MCNode
  Key <- MCKey
  Lists <- MCLists
  Sentinel <- MCSentinel
  Null = Null
  ZeroKey = zero
  Garbage = garbage
  Tester = tester
  Server = server
  Handler = {x1, x2}
  h0 = h0
  Heap = {n1, n2}
  Rounds = 2
  MaxConns = 0
  MaxFailures = 1
SPECIFICATION AgentFairSpec
PROPERTIES
  TestThreadEnds
CHECK_DEADLOCK FALSE
