SPECIFICATION Spec
CONSTANTS
  Objects = {o1, o2}
  Children = {c1, c2}
  None = None
  Message <- MCMessage
  Messages = 1
  PipeSize = 1
  Stubborn = {c2}
CHECK_DEADLOCK FALSE
INVARIANTS TypeOK OwnsItsChild EndMeansGone WholeIsExact
PROPERTIES CallsReturn
