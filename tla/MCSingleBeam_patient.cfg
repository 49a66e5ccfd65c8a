\* Every call, none while a sweep thread runs; one operation may fail.
CONSTANTS
  Sweepers = {s1}
  Calls <- EveryCall
  Overlap = FALSE
  MaxFaults = 1
SPECIFICATION FairSpec
INVARIANTS
  TypeOK
  ReadyBeforeSweep
  OwnSweep
  ReturnReleases
  CrashIsOvercome
  BackgroundSweepIsPlain
  DeliveredAfterAcquisition
  NoUnforcedExit
PROPERTIES
  ThreadsFinishUnlessFault
