SPECIFICATION FairSpec
CONSTANTS
  SentTicks = 1
  ConnectedTicks = 2
  MaxPresses = 8
  MaxAnswers = 2
INVARIANTS TypeOK HalfDuplex NoStaleReport ConnectedHonest LeftClean DismissSafe SavedIfSent
PROPERTIES ScreenOrder AttemptEnds SentDismissed
