SPECIFICATION FairSpec
CONSTANTS
  N = 3
  Depth = 2
  MaxLoops = 4
  Wrap = 4
  Period = {2}
  MaxLate = 1
  MaxPause = 1
  None = None
INVARIANTS NoOverflow StreamInOrder AskedIsPending
PROPERTIES NoGap Played
