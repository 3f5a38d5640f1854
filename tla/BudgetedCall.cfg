SPECIFICATION Spec
CONSTANTS
  c1 = c1
  c2 = c2
  Calls <- MCCalls
  WithSink <- MCWithSink
  Cap = 3
  MaxReserve = 2
  MaxInvoice = 3
  MaxRetries = 1
INVARIANTS
  LedgerBalances
  NothingUnaccounted
  CapRespected
  RequestFenced
  CompletionEarned
PROPERTIES
  KeepsPromise
CHECK_DEADLOCK FALSE
