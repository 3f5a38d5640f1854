SPECIFICATION Spec
CONSTANTS
  r1 = r1
  r2 = r2
  q1 = q1
  q2 = q2
  Writers <- MCWriters
  Runs <- MCRuns
  Overwriting = {q1}
  WorkloadOf <- MCWorkloadOf
  Ceiling = 1
  MaxPowerLosses = 1
SYMMETRY Interchangeable
INVARIANTS
  OncePerCase
  ReceiptsExplainLedger
  ReportHonest
  ReportWhole
CHECK_DEADLOCK FALSE
