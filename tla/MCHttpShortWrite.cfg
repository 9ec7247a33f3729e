SPECIFICATION Spec
CONSTANTS
  CR = CR
  LF = LF
  Other = Other
  Requests <- MCRequests
  Responses <- MCResponses
  MaxRead = 3
  MaxWrite = 3
  SendCap = 2
INVARIANTS SentInOrder
CHECK_DEADLOCK FALSE
