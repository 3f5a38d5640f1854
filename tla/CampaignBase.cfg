SPECIFICATION Spec
CONSTANTS
  s1 = s1
  s2 = s2
  Nobody = Nobody
  Schedulers <- MCSchedulers
  Causal = FALSE
  PairedAt = 1
  Deadline = 3
  Horizon = 3
  MaxAborts = 0
  MaxLate = 1
SYMMETRY Interchangeable
INVARIANTS
  OutcomeHonest
CHECK_DEADLOCK FALSE
