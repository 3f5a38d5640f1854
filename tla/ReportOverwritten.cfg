SPECIFICATION Spec
CONSTANTS
  r1 = r1
  r2 = r2
  q1 = q1
  q2 = q2
  Writers <- Qualifiers
  Runs <- NoRuns
  Overwriting = {}
  WorkloadOf <- MCWorkloadOf
  Ceiling = 1
  MaxPowerLosses = 0
PROPERTIES
  NoOverwrite
CHECK_DEADLOCK FALSE
