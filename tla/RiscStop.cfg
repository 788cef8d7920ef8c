SPECIFICATION RiscSpec
CONSTANTS
  Width = 5
  RegBits = 4
  PowerUp <- MCPowerUp
  Switchable <- MCSwitchable
  SwitchAt = {}
  MaxSwitched = 0
PROPERTY RestartsByResetOnly
CHECK_DEADLOCK FALSE
