SPECIFICATION Spec
CONSTANTS
  Crc <- McCrc
  Timeout = 2
  Parses <- McParses
  Requests <- McRequests
  OkText <- McOkText
  FailText <- McFailText
  AckTimeout = 2
  JoinTimes = {1, 3}
  MaxSends = 2
  MaxLost = 1
  MaxStrangers = 1
INVARIANTS OnlyRequestsServed WholeAnswerShown 
CHECK_DEADLOCK FALSE
