SPECIFICATION Spec
CONSTANTS
  Crc <- McCrc
  Timeout = 2
  Parses <- McParses
  Requests <- McRequests
  OkText <- McOkText
  FailText <- McFailText
  AckTimeout = 2
  JoinTimes = {1, 3}
  MaxSends = 2
  MaxLost = 0
  MaxStrangers = 0
INVARIANT ResultIsTrue
CHECK_DEADLOCK FALSE
