\* A transmit of which one operation failed.
CONSTANTS
  Sweepers = {s1}
  Calls <- Transmits
  Overlap = FALSE
  MaxFaults = 1
SPECIFICATION FairSpec
PROPERTIES
  ThreadsFinish
