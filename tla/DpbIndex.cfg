SPECIFICATION Spec
CONSTANTS
  Size = 3
  NumRefFrames = 2
  MaxFrameNum = 2
  Pocs <- MCPocs
  INT_MIN <- MCINT_MIN
  LongIdx <- MCLongIdx
  Gaps = {}
  GapsAllowed = FALSE
  Adaptive <- Either
  Commands = {1}
  LongTerm <- Either
  NoOutput <- Never
CHECK_DEADLOCK FALSE
INVARIANT LongIndexUnique
