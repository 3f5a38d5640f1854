------------------------------- MODULE MCPricing -------------------------------
(***************************************************************************)
(* Few tokens and a Scale above them: every charge meets the rounding.     *)
(***************************************************************************)
EXTENDS Pricing

MCRates == {0, 1, 3, 4}
=============================================================================
