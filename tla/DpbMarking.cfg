SPECIFICATION Spec
CONSTANTS
  Size = 2
  NumRefFrames = 1
  MaxFrameNum = 3
  Pocs <- MCTwoPocs
  INT_MIN <- MCINT_MIN
  LongIdx <- MCLongIdx
  Gaps = {}
  GapsAllowed = FALSE
  Adaptive <- Either
  Commands = {1, 2, 3, 4, 5, 6}
  LongTerm <- Either
  NoOutput <- Never
CHECK_DEADLOCK FALSE
INVARIANTS TypeOK PoolSafe MarkingRight
PROPERTY KeepsReferences
