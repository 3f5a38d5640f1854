SPECIFICATION FairSpec
CONSTANTS
  o1 = o1
  o2 = o2
  o3 = o3
  a1 = a1
  a2 = a2
  s1 = s1
  Nobody = Nobody
  Observers <- MCObservers
  Attempts <- MCAttempts
  Samples <- MCSamples
  SampleOf <- MCSampleOf
  Target <- MCTarget
INVARIANTS
  DispatchFenced
  OneDispatchPerSample
  TerminalHonest
  ObservationDurable
  IndInv
PROPERTIES
  KeepsContract
  EveryObserverEnds
CHECK_DEADLOCK FALSE
