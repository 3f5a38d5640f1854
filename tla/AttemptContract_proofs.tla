------------------------ MODULE AttemptContract_proofs ------------------------
(***************************************************************************)
(* The contract of one research sample holds for every set of attempts and *)
(* samples.  ContractInv is inductive; the three promises follow from it.  *)
(***************************************************************************)
EXTENDS AttemptContract, TLAPS

\* Nothing has been held, admitted or called at the start.
LEMMA InitContract == Init => ContractInv
  BY SampleOfType DEF Init, ContractInv, TypeOK, VerdictMatchesLedger, Statuses

\* Every step of the contract keeps ContractInv.
LEMMA StepContract == ContractInv /\ [Next]_vars => ContractInv'
<1> SUFFICES ASSUME ContractInv, [Next]_vars PROVE ContractInv'
  OBVIOUS
<1> USE SampleOfType DEF ContractInv, TypeOK, VerdictMatchesLedger, Statuses
<1>1. ASSUME NEW a \in Attempts, Hold(a) PROVE ContractInv'
  BY <1>1 DEF Hold
<1>2. ASSUME NEW a \in Attempts, Admit(a) PROVE ContractInv'
  BY <1>2 DEF Admit
<1>3. ASSUME NEW a \in Attempts, Call(a) PROVE ContractInv'
  BY <1>3 DEF Call
<1>4. ASSUME NEW a \in Attempts, Settle(a) PROVE ContractInv'
  BY <1>4 DEF Settle
<1>5. ASSUME NEW a \in Attempts, NEW status \in Statuses, Conclude(a, status)
      PROVE ContractInv'
  BY <1>5 DEF Conclude
<1>6. CASE UNCHANGED vars
  BY <1>6 DEF vars
<1> QED
  BY <1>1, <1>2, <1>3, <1>4, <1>5, <1>6 DEF Next

\* The contract's invariant holds in every reachable state.
THEOREM ContractHolds == Spec => []ContractInv
  BY InitContract, StepContract, PTL DEF Spec

\* A sample never has two attempts handed to a provider (research.py:143).
THEOREM OneCall == Spec => []OneCallPerSample
<1>1. ContractInv => OneCallPerSample
  BY DEF ContractInv, OneCallPerSample
<1> QED BY <1>1, ContractHolds, PTL

\* Every provider call has a reservation behind it (research.py:136).
THEOREM Paid == Spec => []CallsArePaid
<1>1. ContractInv => CallsArePaid
  BY DEF ContractInv, CallsArePaid
<1> QED BY <1>1, ContractHolds, PTL

\* Terminal status and ledger never contradict each other (research.py:248-300).
THEOREM HonestVerdict == Spec => []VerdictMatchesLedger
<1>1. ContractInv => VerdictMatchesLedger
  BY DEF ContractInv
<1> QED BY <1>1, ContractHolds, PTL
=============================================================================
