SPECIFICATION FairSpec
CONSTANTS
  p1 = p1
  p2 = p2
  m1 = m1
  m2 = m2
  a1 = a1
  k1 = k1
  v0 = v0
  v1 = v1
  Procs = {p1, p2}
  Maps = {m1, m2}
  Allocators = {a1}
  AllocOf <- Shared
  End = 5
  HeaderSize = 1
  NodeSize = 1
  Keys = {k1}
  Values = {v0, v1}
  Size <- MCSize
  NoValue = NoValue
  NoOp = NoOp
  Offered <- MCOffered
CHECK_DEADLOCK FALSE
INVARIANTS TypeOK SemaphoreMatches BlocksConsistent
PROPERTIES ImplementsAtomicMap HolderLetsGo
