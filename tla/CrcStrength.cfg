SPECIFICATION Spec
CONSTANTS
  Bytes <- McBytes
  Slips <- McSlips
INVARIANTS OneByteDetected OnlyWholeMessages
PROPERTY IsRemainder
