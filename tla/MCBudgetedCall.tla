--------------------------- MODULE MCBudgetedCall ---------------------------
(***************************************************************************)
(* A call with a sink and a call without one compete for an allowance that *)
(* holds either largest reservation but not both.                          *)
(***************************************************************************)
EXTENDS BudgetedCall

CONSTANTS c1, c2

MCCalls    == {c1, c2}
MCWithSink == {c1}
=============================================================================
