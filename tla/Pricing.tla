-------------------------------- MODULE Pricing --------------------------------
(***************************************************************************)
(* What one call is held, validated and charged at: the token ceilings and *)
(* the rounding of kairos_llm/budget.py, the rates of                      *)
(* kairos_llm/pricing.py and the usage kairos_llm/gateway.py reads.        *)
(*                                                                         *)
(* A rate is an integer per Scale tokens, money is in the unit of a rate:  *)
(* the code's USD per million tokens are micro-USD per token, and a charge *)
(* is rounded up to whole micro-USD.  The arithmetic is exact where the    *)
(* code's is in floating point.                                            *)
(***************************************************************************)
EXTENDS Integers

CONSTANTS Rates,      \* rates of the price table
          MinInput,   \* MINIMUM_INPUT_TOKEN_RESERVATION
          Overhead,   \* INPUT_TOKEN_OVERHEAD
          OutputCap,  \* min(max_output_tokens of the settings, of the route)
          MaxBytes,   \* bound: bytes of the prompts and the schema
          MaxTokens   \* bound: tokens of one kind that a provider reports

ASSUME RatesType == Rates \subseteq Nat
ASSUME CountsType ==
  /\ MinInput \in Nat /\ Overhead \in Nat /\ OutputCap \in Nat
  /\ MaxBytes \in Nat /\ MaxTokens \in Nat

VARIABLES
  price,     \* the registered price of the route's model
  bytes,     \* bytes of the prompts and the schema
  phase,     \* how far the call is
  reserved,  \* its hold in the ledger
  billed,    \* the provider's own token counts, on its invoice
  read,      \* the usage the gateway read
  charged    \* what replaced the hold

pricingVars == <<price, bytes, phase, reserved, billed, read, charged>>

Scale == 10

\* A price without a rate for cache writes has them at the input rate.
WriteRate(p) == IF p.write = -1 THEN p.input ELSE p.write

\* DEFAULT_PRICES: a cached token is the cheapest, a cache write the dearest.
Prices ==
  {p \in [input : Rates, cached : Rates, output : Rates, write : Rates \cup {-1}] :
     p.cached <= p.input /\ p.input <= WriteRate(p)}

Usages ==
  [input : 0..MaxTokens, cached : 0..MaxTokens, write : 0..MaxTokens, output : 0..MaxTokens]
NoUsage == [input |-> 0, cached |-> 0, write |-> 0, output |-> 0]

\* _validate_usage
Consistent(u) == u.cached + u.write <= u.input

\* PriceTable.cost, per Scale tokens
Cost(p, u) ==
  (u.input - u.cached - u.write) * p.input + u.cached * p.cached
    + u.write * WriteRate(p) + u.output * p.output

\* _microusd
RoundUp(m) == (m + Scale - 1) \div Scale

PricingInit ==
  /\ price \in Prices
  /\ bytes \in 0..MaxBytes
  /\ phase = "new"
  /\ reserved = 0
  /\ billed = NoUsage
  /\ read = NoUsage
  /\ charged = 0

\* _input_token_ceiling: a token has at least one byte.
InputCeiling == IF bytes + Overhead > MinInput THEN bytes + Overhead ELSE MinInput

\* Plausible bug: cache writes are not thought of.
HoldAtInputRate == InputCeiling * price.input + OutputCap * price.output

\* PriceTable.reservation_cost of the ceilings: the highest input rate for all.
Hold ==
  InputCeiling * (IF WriteRate(price) > price.input THEN WriteRate(price) ELSE price.input)
    + OutputCap * price.output

ReserveHold ==
  /\ phase = "new"
  /\ phase' = "reserved"
  /\ reserved' = RoundUp(Hold)
  /\ UNCHANGED <<price, bytes, billed, read, charged>>

\* Plausible bug: what is not reported as written was not written.
ReadLiterally(u) ==
  {u, [u EXCEPT !.write = 0], [u EXCEPT !.cached = 0],
   [u EXCEPT !.cached = 0, !.write = 0], NoUsage}

\* _usage_from: "Assume every non-cached token was written so accounting cannot
\* understate cost" where the breakdown, or all of it, is omitted.
Readings(u) ==
  {u, [u EXCEPT !.write = u.input - u.cached], [u EXCEPT !.cached = 0],
   [u EXCEPT !.cached = 0, !.write = u.input], NoUsage}

\* The provider does the work and bills it.
Bill ==
  /\ phase = "reserved"
  /\ \E u \in Usages : Consistent(u) /\ billed' = u
  /\ phase' = "billed"
  /\ UNCHANGED <<price, bytes, reserved, read, charged>>

\* Its response is read; a response that is lost stays "billed".
Read ==
  /\ phase = "billed"
  /\ read' \in Readings(billed)
  /\ phase' = "read"
  /\ UNCHANGED <<price, bytes, reserved, billed, charged>>

WithinCeilings(u) == u.input <= InputCeiling /\ u.output <= OutputCap

\* The checks of a response, in their order, then the commit.
Settle ==
  /\ phase = "read"
  /\ \/ /\ ~WithinCeilings(read) \/ ~Consistent(read) \/ read.input = 0 \/ read.output = 0
        /\ phase' = "usage rejected" /\ UNCHANGED charged
     \/ /\ WithinCeilings(read) /\ Consistent(read) /\ read.input # 0 /\ read.output # 0
        /\ IF RoundUp(Cost(price, read)) > reserved
             THEN phase' = "cost rejected" /\ UNCHANGED charged
             ELSE phase' = "charged" /\ charged' = RoundUp(Cost(price, read))
  /\ UNCHANGED <<price, bytes, reserved, billed, read>>

PricingNext == ReserveHold \/ Bill \/ Read \/ Settle

PricingSpec == PricingInit /\ [][PricingNext]_pricingVars

-----------------------------------------------------------------------------
Invoice == Cost(price, billed)

\* "so accounting cannot understate cost": whatever the response leaves out, the
\* ledger is charged at least the provider's invoice.
InvoiceCovered == phase = "charged" => charged * Scale >= Invoice

\* A call that was billed within the ceilings is covered by its hold, so a lost
\* or rejected response never costs more than what stays reserved.
HoldCoversInvoice ==
  phase # "new" /\ WithinCeilings(billed) => reserved * Scale >= Invoice

\* The price of a response within the ceilings always fits: no paid answer is
\* thrown away by the last check, "accounted LLM cost exceeded the reservation".
CeilingsSuffice == phase # "cost rejected"

-----------------------------------------------------------------------------
(* The inductive invariant. *)

PricingInv ==
  /\ price \in Prices
  /\ bytes \in Nat
  /\ phase \in {"new", "reserved", "billed", "read", "usage rejected", "charged",
                "cost rejected"}
  /\ phase # "new" => reserved = RoundUp(Hold)
  /\ billed \in Usages /\ Consistent(billed)
  /\ phase \in {"new", "reserved"} => billed = NoUsage
  /\ phase = "read" => read \in Readings(billed)
  /\ InvoiceCovered
  /\ HoldCoversInvoice
  /\ CeilingsSuffice
=============================================================================
