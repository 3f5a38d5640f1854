------------------------------- MODULE Allowance -------------------------------
(***************************************************************************)
(* What BudgetedLLMGateway of kairos_llm/budget.py promises of a           *)
(* provider's monthly allowance: "Reserve a worst-case allowance, call     *)
(* once, then commit rounded-up actual cost. A failed, cancelled, or       *)
(* ambiguously completed call deliberately leaves its reservation          *)
(* outstanding."                                                           *)
(*                                                                         *)
(* There are no callers, requests to the ledger, evidence files or         *)
(* failures here, and above all no refund: BudgetedCall shows how the code *)
(* keeps the promise in their presence.                                    *)
(***************************************************************************)
EXTENDS Integers, FiniteSets, Functions

CONSTANTS Calls,  \* calls that are paid from the allowance
          Cap     \* the allowance

VARIABLES counted,  \* what each call counts against the allowance
          sent,     \* calls whose request left for the provider
          owed,     \* what the provider invoices for them
          settled   \* calls whose hold was replaced by their exact cost

vars == <<counted, sent, owed, settled>>

Init ==
  /\ counted = [c \in Calls |-> 0]
  /\ sent = {}
  /\ owed = [c \in Calls |-> 0]
  /\ settled = {}

\* A hold is admitted if it fits beside everything that is counted already.
Hold(c) ==
  /\ counted[c] = 0
  /\ c \notin sent
  /\ \E n \in 1..(Cap - SumFunction(counted)) : counted' = [counted EXCEPT ![c] = n]
  /\ UNCHANGED <<sent, owed, settled>>

\* One request under one hold; the provider invoices what it likes.
Send(c) ==
  /\ counted[c] > 0
  /\ c \notin sent
  /\ sent' = sent \cup {c}
  /\ owed' = [owed EXCEPT ![c] = owed'[c]]
  /\ UNCHANGED <<counted, settled>>

\* The hold shrinks to the exact cost, once, and never below the invoice.
Settle(c) ==
  /\ c \in sent \ settled
  /\ \E n \in 1..counted[c] : owed[c] <= n /\ counted' = [counted EXCEPT ![c] = n]
  /\ settled' = settled \cup {c}
  /\ UNCHANGED <<sent, owed>>

Next == \E c \in Calls : Hold(c) \/ Send(c) \/ Settle(c)

Spec == Init /\ [][Next]_vars
=============================================================================
