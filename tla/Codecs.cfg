SPECIFICATION CodecSpec
CONSTANTS
  OpBits = 4
  OpLongs <- MCLongs
  OpFactors <- MCFac
  LpcOrder = 2
  SubfrLen = 4
  Filters <- MCFilters
  Excitations <- MCEx
  LspOrder = 4
  GAP1 = 2
  GAP2 = 1
  GAP3 = 1
  L_LIMIT = 1
  M_LIMIT = 6
  LspEntries <- MCEntries
  WindowLen = 4
  Lags = 2
  WindowedSamples <- MCSamples
  FirstLags <- MCFirstLags
  SecondSteps <- MCSecondSteps
  Contents <- MCContents
  Silent = Silent
  FrameCodes = {c1, c2}
  Reset = Reset
  Own = Own
  MaxGood = 6
  FrameWidthInMbs = 3
  FrameHeightInMbs = 3
  ParameterSets <- MCParameterSets
  Cycles <- MCCycles
  MaxCuts = 1
  MaxLost = 1
  HalfChar = 3
  Streams <- MCStreams
  PocSps <- MCPocs
  MaxFrameNum = 4
  MaxPicOrderCntLsb = 8
  PocSteps <- MCSteps
  BottomDeltas <- MCBottoms
  Skips = {0, 1, 2}
  MaxPictures = 4
  MaxPicNum = 4
  MaxListSize = 6
  Slices <- MCSlices
  SpsSent <- MCSps
  PpsSent <- MCPps
  MaxSets = 4
  MaxSetPictures = 3
  SlicesPerPicture = 2
  SlicesWritten <- MCSlicesWritten
  Undefined = Undefined
  Blocks <- MCBlocks
  PSlices <- MCPSlices
  MacroblocksWritten <- MCMotion
  CodedSlices <- MCCodedSlices
  CodedMbs <- MCCoded
  IntraJobs <- MCIntraJobs
  ReferencePictures <- MCReferencePictures
  PADD_SIZE_LUMA = 12
  InterJobs <- MCInterJobs
  ResidualJobs <- MCResidualJobs
  DecodedPictures <- MCDecodedPictures
  SampledEdges <- MCSampledEdges
INVARIANTS
  FramesRight SpeechNumbersRight HistoriesAgree
  SlicesRight UnitsRight OrderRight ListsRight ParametersRight PicturesRight
CHECK_DEADLOCK FALSE
