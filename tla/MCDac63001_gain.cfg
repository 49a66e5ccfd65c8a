\* Every call after every other, one transfer may fail.
CONSTANTS
  Calls <- EveryCall
  MaxFaults = 1
SPECIFICATION Spec
INVARIANTS
  TypeOK
  GainAsAsked
  RampNearAsked
  OneRampPerPulse
  QuietReturn
PROPERTIES
  OutputSteady
