CONSTANTS
  Thread = {t1, t2}
  Node = {c0, h0, p0, n1, n2}
  Key = {zero, k1}
  ZeroKey = zero
  Null = Null
  Lists = {"conn", "thread", "port"}
  Sentinel <- MCSentinel
  c0 = c0
  h0 = h0
  p0 = p0
SPECIFICATION Spec
INVARIANTS
  CountersBalance
PROPERTIES
  KeepsPromise
SYMMETRY Symmetry
CHECK_DEADLOCK FALSE
