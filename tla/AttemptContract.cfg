SPECIFICATION Spec
CONSTANTS
  a1 = a1
  a2 = a2
  a3 = a3
  s1 = s1
  s2 = s2
  Attempts <- MCAttempts
  Samples <- MCSamples
  SampleOf <- MCSampleOf
SYMMETRY Interchangeable
INVARIANTS
  OneCallPerSample
  VerdictMatchesLedger
CHECK_DEADLOCK FALSE
