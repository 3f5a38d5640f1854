SPECIFICATION Spec
CONSTANTS
  s1 = s1
  s2 = s2
  Nobody = Nobody
  Schedulers <- MCSchedulers
  Causal = TRUE
  PairedAt = 1
  Deadline = 2
  Horizon = 2
  MaxAborts = 1
  MaxLate = 2
SYMMETRY Interchangeable
INVARIANTS
  OutcomeHonest
  NeverResent
  CostFences
  SampleTimely
PROPERTIES
  KeepsContract
CHECK_DEADLOCK FALSE
