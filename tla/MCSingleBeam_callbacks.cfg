\* transmit after a receive with a fixed gain.
CONSTANTS
  Sweepers = {s1}
  Calls <- ReceiveAndTransmit
  Overlap = FALSE
  MaxFaults = 0
SPECIFICATION Spec
INVARIANTS
  OwnCallbacks
