CONSTANTS
  Thread = {t1, t2}
  Node = {p0, n1, n2}
  Key = {zero, k1}
  ZeroKey = zero
  Null = Null
  Lists = {"port"}
  Sentinel <- MCSentinel
  c0 = c0
  h0 = h0
  p0 = p0
SPECIFICATION FairSpec
PROPERTIES
  LockComesBack
CHECK_DEADLOCK FALSE
