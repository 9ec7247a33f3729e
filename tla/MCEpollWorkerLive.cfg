SPECIFICATION Spec
CONSTANTS
  Workers <- TwoWorkers
  Fds <- SmallFds
  Conns <- TwoConns
  NoConn = NoConn
  Nodes <- TwoNodes
  NoNode = 0
  Timeouts <- BothTimeouts
  CanFail <- NoFailures
  w1 = w1
  w2 = w2
  c1 = c1
  c2 = c2
  c3 = c3
\* An event_loop that has returned, or that an exception has left, takes no step.
CHECK_DEADLOCK FALSE
PROPERTIES ConnectionsServed StopEndsLoops
