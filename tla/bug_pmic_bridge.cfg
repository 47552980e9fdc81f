CONSTANTS
  MaxFaults = 2
  Setpoints = {1, 2}
SPECIFICATION Spec
INVARIANTS
  BridgedAtOneSetpoint
CHECK_DEADLOCK FALSE
