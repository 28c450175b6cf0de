\* Two messages of any kind in either framing, and one other line.
CONSTANTS
  MaxMessages = 2
  MaxStray = 1
  BatchClasses = {"call"}
SPECIFICATION FairSpec
INVARIANTS TypeOK CallsRunOnceInOrder LostAnswersAreOfOneMessage FramingMatches
PROPERTIES Promise EveryMessageServed
CHECK_DEADLOCK FALSE
