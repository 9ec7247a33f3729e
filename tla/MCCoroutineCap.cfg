\* A thread that dereferenced an empty node handle has no next step.
CHECK_DEADLOCK FALSE
SPECIFICATION Spec
CONSTANTS
  Ids <- MCIds
  Nodes <- MCNodes
  NoNode = NoNode
  Functions <- MCFunctions
  NoFunc = NoFunc
  Exceptions <- MCExceptions
  NoExc = NoExc
  Sizes <- MCSizes
  f1 = f1
  k1 = k1
  t1 = t1
  n1 = n1
  n2 = n2
  n3 = n3
INVARIANT NeverCrashes
