SPECIFICATION ScanSpec
CONSTANTS
  Alphabet <- McAlphabet
  SsidMax = 2
  PassMax = 2
  OutSizes = {28, 31, 34, 256}
  Tags <- McTags
  CharOf <- McCharOf
INVARIANTS RoundTrip BuiltIffFits FromOneNetwork WholeTagAccepted
CHECK_DEADLOCK FALSE
