--------------------------- MODULE AttemptContract ---------------------------
(***************************************************************************)
(* What one research sample is promised by the admission order of          *)
(* docs/SIM-RESEARCH-COORDINATOR.md, and by kairos_llm/research.py that    *)
(* carries it out: money is held before an attempt is admitted, a sample   *)
(* admits one attempt, only an admitted attempt reaches a provider and it  *)
(* does so once, and its terminal status never contradicts the ledger.     *)
(*                                                                         *)
(* There are no observers, requests or failures here: ResearchAttempt      *)
(* shows how the code keeps the promise in their presence.                 *)
(***************************************************************************)
CONSTANTS Attempts,   \* attempt identities (one digest of the frozen inputs)
          Samples,    \* preregistered campaign/arm/sample slots
          SampleOf    \* the slot an attempt identity belongs to

ASSUME SampleOfType == SampleOf \in [Attempts -> Samples]

VARIABLES spend,      \* the attempt's line in the budget ledger
          admitted,   \* attempts with a durable START
          called,     \* attempts handed to the provider client
          verdict     \* the attempt's durable terminal status

vars == <<spend, admitted, called, verdict>>

Statuses == {"COMPLETED", "FAILED", "UNRESOLVED"}

Init ==
  /\ spend = [a \in Attempts |-> "none"]
  /\ admitted = {}
  /\ called = {}
  /\ verdict = [a \in Attempts |-> "open"]

Hold(a) ==
  /\ spend[a] = "none"
  /\ spend' = [spend EXCEPT ![a] = "held"]
  /\ UNCHANGED <<admitted, called, verdict>>

\* A plausible bug: only a second START of the same identity is refused.
AdmitByIdentity(a) ==
  /\ spend[a] # "none"
  /\ a \notin admitted
  /\ admitted' = admitted \cup {a}
  /\ UNCHANGED <<spend, called, verdict>>

Admit(a) ==
  /\ spend[a] # "none"
  /\ \A b \in admitted : SampleOf[b] # SampleOf[a]
  /\ admitted' = admitted \cup {a}
  /\ UNCHANGED <<spend, called, verdict>>

Call(a) ==
  /\ a \in admitted \ called
  /\ verdict[a] = "open"
  /\ called' = called \cup {a}
  /\ UNCHANGED <<spend, admitted, verdict>>

Settle(a) ==
  /\ a \in called
  /\ spend[a] = "held"
  /\ verdict[a] # "FAILED"
  /\ spend' = [spend EXCEPT ![a] = "settled"]
  /\ UNCHANGED <<admitted, called, verdict>>

\* A plausible bug: a refused admission is written down as a failed call.
FailureWithoutCall(a, status) ==
  /\ a \in admitted
  /\ verdict[a] = "open"
  /\ status = "COMPLETED" => spend[a] = "settled"
  /\ verdict' = [verdict EXCEPT ![a] = status]
  /\ UNCHANGED <<spend, admitted, called>>

\* A failure is a provider outcome: it needs a call and an unsettled hold.
Conclude(a, status) ==
  /\ a \in admitted
  /\ verdict[a] = "open"
  /\ status = "COMPLETED" => spend[a] = "settled"
  /\ status = "FAILED" => a \in called /\ spend[a] = "held"
  /\ verdict' = [verdict EXCEPT ![a] = status]
  /\ UNCHANGED <<spend, admitted, called>>

Next ==
  \E a \in Attempts :
    \/ Hold(a)
    \/ Admit(a)
    \/ Call(a)
    \/ Settle(a)
    \/ \E status \in Statuses : Conclude(a, status)

Spec == Init /\ [][Next]_vars

-----------------------------------------------------------------------------
TypeOK ==
  /\ spend \in [Attempts -> {"none", "held", "settled"}]
  /\ admitted \subseteq Attempts
  /\ called \subseteq Attempts
  /\ verdict \in [Attempts -> Statuses \cup {"open"}]

\* A sample never has two attempts handed to a provider, whatever source set
\* or prompt each of them was built from.
OneCallPerSample ==
  \A a, b \in called : SampleOf[a] = SampleOf[b] => a = b

\* Every provider call is paid for by an outstanding or settled reservation.
CallsArePaid == \A a \in called : spend[a] # "none"

\* The terminal status and the ledger tell the same story.
VerdictMatchesLedger ==
  \A a \in Attempts :
    /\ verdict[a] = "COMPLETED" => a \in called /\ spend[a] = "settled"
    /\ verdict[a] = "FAILED" => a \in called /\ spend[a] = "held"

\* Everything above, with what makes it inductive.
ContractInv ==
  /\ TypeOK
  /\ called \subseteq admitted
  /\ \A a \in admitted : spend[a] # "none"
  /\ \A a, b \in admitted : SampleOf[a] = SampleOf[b] => a = b
  /\ \A a \in Attempts : spend[a] = "settled" => a \in called
  /\ VerdictMatchesLedger
=============================================================================
