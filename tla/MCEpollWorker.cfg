SPECIFICATION Spec
CONSTANTS
  Workers <- TwoWorkers
  Fds <- FdsWithZero
  Conns <- ThreeConns
  NoConn = NoConn
  Nodes <- ThreeNodes
  NoNode = 0
  Timeouts <- Limited
  CanFail <- Failures
  w1 = w1
  w2 = w2
  c1 = c1
  c2 = c2
  c3 = c3
\* An event_loop that has returned, or that an exception has left, takes no step.
CHECK_DEADLOCK FALSE
SYMMETRY Interchangeable
INVARIANTS TypeOK ClientsConsistent EventsAreCurrent OnlyForeignCrash
