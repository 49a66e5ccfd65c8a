SPECIFICATION Spec
CONSTANTS
  Params <- MCParams
  PowerUp <- MCPowerUp
  MaxFaults = 2
INVARIANTS
  TypeOK
  HeaderWhole
  ChecksumVerifies
