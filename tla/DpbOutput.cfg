SPECIFICATION FairSpec
CONSTANTS
  Size = 2
  NumRefFrames = 1
  MaxFrameNum = 3
  Pocs <- MCPocs
  INT_MIN <- MCINT_MIN
  LongIdx <- MCLongIdx
  Gaps = {g1, g2, g3}
  GapsAllowed = TRUE
  Adaptive <- Either
  Commands = {5}
  LongTerm <- Never
  NoOutput <- Never
CHECK_DEADLOCK FALSE
INVARIANT OutputMakesRoom
PROPERTIES WindowSlides WritesInOrder PictureCompletes
