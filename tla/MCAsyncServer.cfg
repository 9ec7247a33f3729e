SPECIFICATION FairServerSpec
CONSTANTS
  Fds = {4, 5}
  Conns = {c1, c2, c3}
  NoConn = NoConn
  Configs <- MCConfigs
  CanFail = TRUE
  MaxLoops = 2
\* A server whose event_loop has been left stops.
CHECK_DEADLOCK FALSE
INVARIANTS ServerTypeOK ClientsConsistent EventsAreCurrent
PROPERTIES LoopServes
