\* The registers as fpga.h names them.
SPECIFICATION Spec
CONSTANTS
  Params <- MCParams
  PowerUp <- MCPowerUp
  MaxFaults = 0
INVARIANTS
  RegistersAsNamed
