SPECIFICATION Spec
CONSTANTS
  Size = 2
  NumRefFrames = 1
  MaxFrameNum = 2
  Pocs <- MCPocs
  INT_MIN <- MCINT_MIN
  LongIdx <- MCLongIdx
  Gaps = {}
  GapsAllowed = FALSE
  Adaptive <- Never
  Commands = {}
  LongTerm <- Never
  NoOutput <- Either
CHECK_DEADLOCK FALSE
INVARIANT EmptyPictureLeft
