SPECIFICATION FairSpec
CONSTANTS
  Objects <- TwoObjects
  Async <- Clients
  Patient <- Clients
  Sockets <- ThreeSockets
  None = 0
  QueueCap = 1
  BacklogCap = 1
  MaxLen = 2
  MaxGiven = 2
  client = client
  other = other
\* Both threads may wait for each other without timeouts.
CHECK_DEADLOCK FALSE
INVARIANTS TypeOK OwnedOnce EofIsTrue StreamFaithful
PROPERTIES CallsEnd
