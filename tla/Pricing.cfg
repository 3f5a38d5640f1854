SPECIFICATION PricingSpec
CONSTANTS
  Rates <- MCRates
  MinInput = 2
  Overhead = 1
  OutputCap = 2
  MaxBytes = 2
  MaxTokens = 4
INVARIANTS
  InvoiceCovered
  HoldCoversInvoice
  CeilingsSuffice
CHECK_DEADLOCK FALSE
