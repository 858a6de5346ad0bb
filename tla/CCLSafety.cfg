CONSTANTS
  Thread = {t1, t2, t3}
  Node = {c0, n1, n2}
  Key = {zero, k1, k2}
  ZeroKey = zero
  Null = Null
  Lists = {"conn"}
  Sentinel <- MCSentinel
  c0 = c0
  h0 = h0
  p0 = p0
SPECIFICATION ReadersSpec
INVARIANTS
  TypeOK
  OnlyHolderInside
  ListsWellLinked
  WritersTouchLiveNodes
  AddedIsLinked
  NodesAccountedFor
  QuietReaderSafe
PROPERTIES
  FrozenOnceLeaked
  FindMissHonest
SYMMETRY Symmetry
CHECK_DEADLOCK FALSE
