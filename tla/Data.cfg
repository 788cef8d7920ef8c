SPECIFICATION MCSpec
CONSTANTS
  Width = 5
  RegBits = 4
  PowerUp <- MCPowerUp
  Switchable <- MCSwitchable
  SwitchAt <- MCSwitchAt
  MaxSwitched = 1
  ModM = 3
  DigitTime = 2
  Outputs <- MCOutputs
  MaxBits = 10
  MulBits = 4
  N = 3
  M = 7
  Samples = {0, 1}
  Small <- MCSmall
  Wide <- MCWide
  Factors <- MCFactors
  NUMTHRDS = 4
  VECLEN = 2
  Free = Free
  NotPrinted = NotPrinted
  u1 = u1
  u2 = u2
  hello = hello
  NoClient = NoClient
INVARIANTS
  CircuitsRight
  Convolves
  PartsAddUp
PROPERTIES
  EveryEdgeExecutes
  AllGoOn
  ChattersServed
CHECK_DEADLOCK FALSE
