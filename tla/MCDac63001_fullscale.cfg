\* Fixed voltages up to the reference.
CONSTANTS
  Calls <- FixedVoltages
  MaxFaults = 0
SPECIFICATION Spec
INVARIANTS
  VoltageAsAsked
