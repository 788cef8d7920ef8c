SPECIFICATION Spec
CONSTANTS
  Size = 2
  NumRefFrames = 2
  MaxFrameNum = 4
  Pocs <- MCPocs
  INT_MIN <- MCINT_MIN
  LongIdx <- MCLongIdx
  Gaps = {}
  GapsAllowed = FALSE
  Adaptive <- Never
  Commands = {}
  LongTerm <- Never
  NoOutput <- Never
CHECK_DEADLOCK FALSE
INVARIANT OutputMakesRoom
