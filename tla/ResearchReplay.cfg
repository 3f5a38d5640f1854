SPECIFICATION ReplaySpec
CONSTANTS
  o1 = o1
  o2 = o2
  r1 = r1
  r2 = r2
  a1 = a1
  a2 = a2
  s1 = s1
  Nobody = Nobody
  Observers <- MCObservers
  Replays <- MCReplays
  Attempts <- MCAttempts
  Samples <- MCSamples
  SampleOf <- MCSampleOf
  Target <- MCTarget
  ReplayTarget <- MCReplayTarget
INVARIANTS
  SampleBacked
CHECK_DEADLOCK FALSE
