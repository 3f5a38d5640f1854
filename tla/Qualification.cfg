SPECIFICATION Spec
CONSTANTS
  Selected <- MCSelected
  ProviderOf <- MCProviderOf
  Ceiling <- MCCeiling
  Samples = 2
  PlanLimits = {5, 6}
  MaxTotal = 5
INVARIANTS
  SpendWithinPlan
  PassAccountsForAll
  FailuresFail
  QuotaIsCurrent
CHECK_DEADLOCK FALSE
