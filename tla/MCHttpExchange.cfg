SPECIFICATION FairSpec
CONSTANTS
  CR = CR
  LF = LF
  Other = Other
  Requests <- MCRequests
  Responses <- MCResponses
  MaxRead = 3
  MaxWrite = 3
  SendCap = 2
INVARIANTS TypeOK RequestIntact DoneMeansSent
PROPERTIES Answered
CHECK_DEADLOCK FALSE
