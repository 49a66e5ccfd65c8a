\* Every program after every other; three transfers may fail or programs be killed.
CONSTANTS
  Configs <- Sweeps
  MaxFaults = 3
SPECIFICATION FairSpec
INVARIANTS
  TypeOK
  SweepIsAsked
  OwnSweepDone
PROPERTIES
  EndIsSeen
