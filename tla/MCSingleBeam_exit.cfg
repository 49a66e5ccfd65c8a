\* receive while the sweep thread of generate runs.
CONSTANTS
  Sweepers = {s1}
  Calls <- GenerateAndReceive
  Overlap = TRUE
  MaxFaults = 0
SPECIFICATION Spec
INVARIANTS
  NoUnforcedExit
