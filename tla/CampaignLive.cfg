SPECIFICATION FairSpec
CONSTANTS
  s1 = s1
  s2 = s2
  Nobody = Nobody
  Schedulers <- MCSchedulers
  Causal = FALSE
  PairedAt = 1
  Deadline = 1
  Horizon = 1
  MaxAborts = 1
  MaxLate = 0
PROPERTIES
  EveryWindowCounted
CHECK_DEADLOCK FALSE
