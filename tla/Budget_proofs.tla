---------------------------- MODULE Budget_proofs ----------------------------
(***************************************************************************)
(* The money of one provider.  The first part, for every set of calls,     *)
(* every cap and every size of reservation and invoice: no request without *)
(* a durable hold, nothing invoiced that the ledger does not count, a      *)
(* counter that is the sum of its rows, and never more than the cap.       *)
(*                                                                         *)
(* The second, for every price table in which a cached token is the        *)
(* cheapest and a cache write the dearest, every prompt and every usage:   *)
(* what is reserved covers what can be billed within the ceilings, and     *)
(* what is charged covers what was billed.                                 *)
(***************************************************************************)
EXTENDS BudgetedCall, Pricing, Sums

USE DEF Ended, Places, Files, ledgerVars, evidenceVars, providerVars

Step(c) ==
  \/ Refuse(c) \/ Reserve(c) \/ LandReserve(c) \/ ReserveReturns(c)
  \/ RecordStarted(c) \/ RecordStartedFails(c)
  \/ Request(c) \/ RequestFails(c) \/ ResponseAccepted(c) \/ CallAbandoned(c)
  \/ LandCommit(c) \/ CommitReturns(c)
  \/ RecordCompleted(c) \/ RecordCompletedFails(c)
  \/ LedgerAwaitFails(c) \/ Crash(c)

-----------------------------------------------------------------------------
(* One step of one call, conjunct by conjunct of the invariant.             *)

\* Every variable keeps its type.
LEMMA TypeStep == ASSUME IndInv, NEW c \in Calls, Step(c) PROVE TypeOK'
<1> USE SinkType, BoundsType DEF IndInv, TypeOK, LedgerInv, PlaceInv, BillInv, GoTo
<1>1. CASE Refuse(c) \/ ReserveReturns(c) \/ CommitReturns(c)
  BY <1>1 DEF Refuse, ReserveReturns, CommitReturns
<1>2. CASE RequestFails(c) \/ CallAbandoned(c) \/ LedgerAwaitFails(c)
  BY <1>2 DEF RequestFails, CallAbandoned, LedgerAwaitFails
<1>3. CASE Crash(c)
  BY <1>3 DEF Crash
<1>4. CASE Reserve(c)
  BY <1>4 DEF Reserve, Issue, AcceptsGateway
<1>5. CASE RecordStarted(c) \/ RecordStartedFails(c)
  BY <1>5 DEF RecordStarted, RecordStartedFails
<1>6. CASE RecordCompleted(c) \/ RecordCompletedFails(c)
  BY <1>6 DEF RecordCompleted, RecordCompletedFails
<1>7. CASE Request(c)
  BY <1>7 DEF Request
<1>8. CASE ResponseAccepted(c)
  BY <1>8 DEF ResponseAccepted, Acceptable, Issue
<1>9. CASE LandReserve(c)
  BY <1>9 DEF LandReserve, Land
<1>10. CASE LandCommit(c)
  BY <1>10 DEF LandCommit, Land
<1> QED
  BY <1>1, <1>2, <1>3, <1>4, <1>5, <1>6, <1>7, <1>8, <1>9, <1>10 DEF Step

\* The ledger's rows and its total.
LEMMA LedgerStep == ASSUME IndInv, NEW c \in Calls, Step(c) PROVE LedgerInv'
<1> USE SinkType, BoundsType DEF IndInv, TypeOK, LedgerInv, CapRespected, PlaceInv, BillInv, GoTo
<1>1. CASE Refuse(c) \/ ReserveReturns(c) \/ CommitReturns(c)
  BY <1>1 DEF Refuse, ReserveReturns, CommitReturns
<1>2. CASE RequestFails(c) \/ CallAbandoned(c) \/ LedgerAwaitFails(c)
  BY <1>2 DEF RequestFails, CallAbandoned, LedgerAwaitFails
<1>3. CASE Crash(c)
  BY <1>3 DEF Crash
<1>4. CASE Reserve(c)
  BY <1>4 DEF Reserve, Issue, AcceptsGateway
<1>5. CASE RecordStarted(c) \/ RecordStartedFails(c)
  BY <1>5 DEF RecordStarted, RecordStartedFails
<1>6. CASE RecordCompleted(c) \/ RecordCompletedFails(c)
  BY <1>6 DEF RecordCompleted, RecordCompletedFails
<1>7. CASE Request(c)
  BY <1>7 DEF Request
<1>8. CASE ResponseAccepted(c)
  BY <1>8 DEF ResponseAccepted, Acceptable, Issue
<1>9. CASE LandReserve(c)
  BY <1>9 DEF LandReserve, Land
<1>10. CASE LandCommit(c)
  BY <1>10 DEF LandCommit, Land
<1> QED
  BY <1>1, <1>2, <1>3, <1>4, <1>5, <1>6, <1>7, <1>8, <1>9, <1>10 DEF Step

\* A call never stands further than the ledger allows.
LEMMA PlaceStep == ASSUME IndInv, NEW c \in Calls, Step(c) PROVE PlaceInv'
<1> USE SinkType, BoundsType DEF IndInv, TypeOK, LedgerInv, PlaceInv, BillInv, GoTo
<1>1. CASE Refuse(c) \/ ReserveReturns(c) \/ CommitReturns(c)
  BY <1>1 DEF Refuse, ReserveReturns, CommitReturns
<1>2. CASE RequestFails(c) \/ CallAbandoned(c) \/ LedgerAwaitFails(c)
  BY <1>2 DEF RequestFails, CallAbandoned, LedgerAwaitFails
<1>3. CASE Crash(c)
  BY <1>3 DEF Crash
<1>4. CASE Reserve(c)
  BY <1>4 DEF Reserve, Issue, AcceptsGateway
<1>5. CASE RecordStarted(c) \/ RecordStartedFails(c)
  BY <1>5 DEF RecordStarted, RecordStartedFails
<1>6. CASE RecordCompleted(c) \/ RecordCompletedFails(c)
  BY <1>6 DEF RecordCompleted, RecordCompletedFails
<1>7. CASE Request(c)
  BY <1>7 DEF Request
<1>8. CASE ResponseAccepted(c)
  BY <1>8 DEF ResponseAccepted, Acceptable, Issue
<1>9. CASE LandReserve(c)
  BY <1>9 DEF LandReserve, Land
<1>10. CASE LandCommit(c)
  BY <1>10 DEF LandCommit, Land
<1> QED
  BY <1>1, <1>2, <1>3, <1>4, <1>5, <1>6, <1>7, <1>8, <1>9, <1>10 DEF Step

\* One hold pays for one request.
LEMMA BillStep == ASSUME IndInv, NEW c \in Calls, Step(c) PROVE BillInv'
<1> USE SinkType, BoundsType DEF IndInv, TypeOK, LedgerInv, PlaceInv, BillInv, GoTo
<1>1. CASE Refuse(c) \/ ReserveReturns(c) \/ CommitReturns(c)
  BY <1>1 DEF Refuse, ReserveReturns, CommitReturns
<1>2. CASE RequestFails(c) \/ CallAbandoned(c) \/ LedgerAwaitFails(c)
  BY <1>2 DEF RequestFails, CallAbandoned, LedgerAwaitFails
<1>3. CASE Crash(c)
  BY <1>3 DEF Crash
<1>4. CASE Reserve(c)
  BY <1>4 DEF Reserve, Issue, AcceptsGateway
<1>5. CASE RecordStarted(c) \/ RecordStartedFails(c)
  BY <1>5 DEF RecordStarted, RecordStartedFails
<1>6. CASE RecordCompleted(c) \/ RecordCompletedFails(c)
  BY <1>6 DEF RecordCompleted, RecordCompletedFails
<1>7. CASE Request(c)
  BY <1>7 DEF Request
<1>8. CASE ResponseAccepted(c)
  BY <1>8 DEF ResponseAccepted, Acceptable, Issue
<1>9. CASE LandReserve(c)
  BY <1>9 DEF LandReserve, Land
<1>10. CASE LandCommit(c)
  BY <1>10 DEF LandCommit, Land
<1> QED
  BY <1>1, <1>2, <1>3, <1>4, <1>5, <1>6, <1>7, <1>8, <1>9, <1>10 DEF Step

\* Completed records stay where they were earned.
LEMMA EvidenceStep == ASSUME IndInv, NEW c \in Calls, Step(c) PROVE EvidenceInv'
<1> USE SinkType, BoundsType DEF IndInv, TypeOK, LedgerInv, PlaceInv, EvidenceInv, GoTo
<1>1. CASE Refuse(c) \/ ReserveReturns(c) \/ CommitReturns(c)
  BY <1>1 DEF Refuse, ReserveReturns, CommitReturns
<1>2. CASE RequestFails(c) \/ CallAbandoned(c) \/ LedgerAwaitFails(c)
  BY <1>2 DEF RequestFails, CallAbandoned, LedgerAwaitFails
<1>3. CASE Crash(c)
  BY <1>3 DEF Crash
<1>4. CASE Reserve(c)
  BY <1>4 DEF Reserve, Issue, AcceptsGateway
<1>5. CASE RecordStarted(c) \/ RecordStartedFails(c)
  BY <1>5 DEF RecordStarted, RecordStartedFails
<1>6. CASE RecordCompleted(c) \/ RecordCompletedFails(c)
  BY <1>6 DEF RecordCompleted, RecordCompletedFails
<1>7. CASE Request(c)
  BY <1>7 DEF Request
<1>8. CASE ResponseAccepted(c)
  BY <1>8 DEF ResponseAccepted, Acceptable, Issue
<1>9. CASE LandReserve(c)
  BY <1>9 DEF LandReserve, Land
<1>10. CASE LandCommit(c)
  BY <1>10 DEF LandCommit, Land
<1> QED
  BY <1>1, <1>2, <1>3, <1>4, <1>5, <1>6, <1>7, <1>8, <1>9, <1>10 DEF Step

\* No request overtakes its hold or its started record.
LEMMA FenceStep == ASSUME IndInv, NEW c \in Calls, Step(c) PROVE RequestFenced'
<1> USE SinkType, BoundsType DEF IndInv, TypeOK, LedgerInv, PlaceInv, BillInv, RequestFenced, GoTo
<1>1. CASE Refuse(c) \/ ReserveReturns(c) \/ CommitReturns(c)
  BY <1>1 DEF Refuse, ReserveReturns, CommitReturns
<1>2. CASE RequestFails(c) \/ CallAbandoned(c) \/ LedgerAwaitFails(c)
  BY <1>2 DEF RequestFails, CallAbandoned, LedgerAwaitFails
<1>3. CASE Crash(c)
  BY <1>3 DEF Crash
<1>4. CASE Reserve(c)
  BY <1>4 DEF Reserve, Issue, AcceptsGateway
<1>5. CASE RecordStarted(c) \/ RecordStartedFails(c)
  BY <1>5 DEF RecordStarted, RecordStartedFails
<1>6. CASE RecordCompleted(c) \/ RecordCompletedFails(c)
  BY <1>6 DEF RecordCompleted, RecordCompletedFails
<1>7. CASE Request(c)
  BY <1>7 DEF Request
<1>8. CASE ResponseAccepted(c)
  BY <1>8 DEF ResponseAccepted, Acceptable, Issue
<1>9. CASE LandReserve(c)
  BY <1>9 DEF LandReserve, Land
<1>10. CASE LandCommit(c)
  BY <1>10 DEF LandCommit, Land
<1> QED
  BY <1>1, <1>2, <1>3, <1>4, <1>5, <1>6, <1>7, <1>8, <1>9, <1>10 DEF Step

\* No completion overtakes its commit.
LEMMA CompletionStep == ASSUME IndInv, NEW c \in Calls, Step(c) PROVE CompletionEarned'
<1> USE SinkType, BoundsType DEF IndInv, TypeOK, LedgerInv, PlaceInv, EvidenceInv, CompletionEarned, GoTo
<1>1. CASE Refuse(c) \/ ReserveReturns(c) \/ CommitReturns(c)
  BY <1>1 DEF Refuse, ReserveReturns, CommitReturns
<1>2. CASE RequestFails(c) \/ CallAbandoned(c) \/ LedgerAwaitFails(c)
  BY <1>2 DEF RequestFails, CallAbandoned, LedgerAwaitFails
<1>3. CASE Crash(c)
  BY <1>3 DEF Crash
<1>4. CASE Reserve(c)
  BY <1>4 DEF Reserve, Issue, AcceptsGateway
<1>5. CASE RecordStarted(c) \/ RecordStartedFails(c)
  BY <1>5 DEF RecordStarted, RecordStartedFails
<1>6. CASE RecordCompleted(c) \/ RecordCompletedFails(c)
  BY <1>6 DEF RecordCompleted, RecordCompletedFails
<1>7. CASE Request(c)
  BY <1>7 DEF Request
<1>8. CASE ResponseAccepted(c)
  BY <1>8 DEF ResponseAccepted, Acceptable, Issue
<1>9. CASE LandReserve(c)
  BY <1>9 DEF LandReserve, Land
<1>10. CASE LandCommit(c)
  BY <1>10 DEF LandCommit, Land
<1> QED
  BY <1>1, <1>2, <1>3, <1>4, <1>5, <1>6, <1>7, <1>8, <1>9, <1>10 DEF Step

-----------------------------------------------------------------------------
\* The invariant the theorems below rest on.
THEOREM Inductive == Spec => []IndInv
<1>1. Init => IndInv
  BY BoundsType
  DEF Init, IndInv, TypeOK, LedgerInv, CapRespected, PlaceInv, BillInv,
      EvidenceInv, RequestFenced, CompletionEarned
<1>2. IndInv /\ [Next]_vars => IndInv'
  <2> SUFFICES ASSUME IndInv, [Next]_vars PROVE IndInv'
    OBVIOUS
  <2>1. ASSUME NEW c \in Calls, Step(c) PROVE IndInv'
    BY <2>1, TypeStep, LedgerStep, PlaceStep, BillStep, EvidenceStep, FenceStep,
       CompletionStep DEF IndInv
  <2>2. CASE UNCHANGED vars
    BY <2>2
    DEF vars, IndInv, TypeOK, LedgerInv, CapRespected, PlaceInv, BillInv,
        EvidenceInv, RequestFenced, CompletionEarned
  <2> QED
    BY <2>1, <2>2 DEF Next, Step
<1> QED
  BY <1>1, <1>2, PTL DEF Spec

\* Type correctness for every set of calls and every bound.
THEOREM TypeCorrect == Spec => []TypeOK
<1>1. IndInv => TypeOK
  BY DEF IndInv
<1> QED
  BY <1>1, Inductive, PTL

\* A step of a call moves the ledger's counter by as much as it moves a row: a
\* hold lands on an empty row, and a commit puts the cost in the place of the
\* row that it takes out.
LEMMA BalanceStep ==
  ASSUME IndInv, exposure = SumFunction(charge), NEW c \in Calls, Step(c)
  PROVE  exposure' = SumFunction(charge')
<1> USE CallsFinite, BoundsType DEF SumFunction
<1>1. charge \in [Calls -> Nat] /\ amount \in [Calls -> Nat] /\ actual \in [Calls -> Nat]
  BY DEF IndInv, TypeOK
<1>2. ASSUME NEW n \in Nat, charge' = [charge EXCEPT ![c] = n],
             exposure' = exposure - charge[c] + n
      PROVE  exposure' = SumFunction(charge')
  <2>1. PICK g : g = [charge EXCEPT ![c] = n]
    OBVIOUS
  <2>2. /\ DOMAIN charge = Calls /\ DOMAIN g = Calls
        /\ \A x \in Calls : charge[x] \in Int /\ g[x] \in Int
        /\ \A x \in Calls \ {c} : g[x] = charge[x]
        /\ g[c] = n
    BY <1>1, <2>1
  <2>3. SumFunctionOnSet(g, Calls) = SumFunctionOnSet(charge, Calls) - charge[c] + g[c]
    BY <2>2, SumReplace
  <2> QED
    BY <1>2, <2>1, <2>2, <2>3
<1>3. CASE LandReserve(c) /\ exposure + amount[c] <= Cap
  <2>1. "reserve" \in pending[c]
    BY <1>3 DEF LandReserve, Land
  <2>2. charge[c] = 0
    BY <2>1 DEF IndInv, LedgerInv
  <2>3. charge' = [charge EXCEPT ![c] = amount[c]] /\ exposure' = exposure + amount[c]
    BY <1>1, <1>3, <2>1 DEF LandReserve, IndInv, TypeOK
  <2>4. exposure' = exposure - charge[c] + amount[c]
    BY <1>1, <2>2, <2>3 DEF IndInv, TypeOK
  <2> QED
    BY <1>1, <1>2, <2>3, <2>4
<1>4. CASE LandCommit(c)
  BY <1>1, <1>2, <1>4 DEF LandCommit
<1>5. CASE UNCHANGED <<charge, exposure>>
  BY <1>5
<1> QED
  BY <1>3, <1>4, <1>5
  DEF Step, LandReserve, Refuse, Reserve, ReserveReturns, RecordStarted, RecordStartedFails,
      Request, RequestFails, ResponseAccepted, CallAbandoned, CommitReturns,
      RecordCompleted, RecordCompletedFails, LedgerAwaitFails, Crash

\* The counter of the ledger never drifts from its rows, whatever lands late or
\* is lost (budget.py:151-156 and 199-203).
THEOREM Balanced == Spec => []LedgerBalances
<1>1. Init => exposure = SumFunction(charge)
  <2> SUFFICES ASSUME Init PROVE exposure = SumFunction(charge)
    OBVIOUS
  <2>1. DOMAIN charge = Calls /\ exposure = 0 /\ \A c \in Calls : charge[c] = 0
    BY DEF Init
  <2> QED
    BY <2>1, CallsFinite, SumZero DEF SumFunction
<1>2. IndInv /\ exposure = SumFunction(charge) /\ [Next]_vars
        => (exposure = SumFunction(charge))'
  <2> SUFFICES ASSUME IndInv, exposure = SumFunction(charge), [Next]_vars
               PROVE  exposure' = SumFunction(charge')
    BY DEF SumFunction
  <2>1. ASSUME NEW c \in Calls, Step(c) PROVE exposure' = SumFunction(charge')
    BY <2>1, BalanceStep
  <2>2. CASE UNCHANGED vars
    BY <2>2 DEF vars
  <2> QED
    BY <2>1, <2>2 DEF Next, Step
<1>3. IndInv /\ exposure = SumFunction(charge) => LedgerBalances
  BY DEF IndInv, LedgerBalances
<1> QED
  BY <1>1, <1>2, <1>3, Inductive, PTL DEF Spec

\* The shared allowance is never exceeded (budget.py:143-156 and 197-203).
THEOREM CapHolds == Spec => []CapRespected
<1>1. IndInv => CapRespected
  BY DEF IndInv, LedgerInv
<1> QED
  BY <1>1, Inductive, PTL

\* Whatever fails, the ledger counts what the provider invoices: the class
\* comment of BudgetedLLMGateway (budget.py:69-75).
THEOREM Accounted == Spec => []NothingUnaccounted
<1>1. ASSUME IndInv PROVE NothingUnaccounted
  <2> SUFFICES ASSUME NEW c \in Calls, c \notin overrun
               PROVE  bill[c] <= charge[c]
    BY DEF NothingUnaccounted
  <2>1. CASE attempts[c] = 0
    BY <1>1, <2>1 DEF IndInv, TypeOK, BillInv
  <2>2. CASE attempts[c] = 1
    <3>1. charge[c] > 0
      BY <1>1, <2>2 DEF IndInv, RequestFenced
    <3>2. /\ bill[c] = invoice[c]
          /\ invoice[c] <= amount[c]
          /\ actual[c] > 0 => invoice[c] <= actual[c]
      BY <1>1 DEF IndInv, BillInv
    <3>3. charge[c] \in {amount[c], actual[c]}
      BY <1>1, <3>1 DEF IndInv, LedgerInv
    <3> QED
      BY <1>1, <3>1, <3>2, <3>3 DEF IndInv, TypeOK
  <2> QED
    BY <1>1, <2>1, <2>2 DEF IndInv, BillInv
<1> QED
  BY <1>1, Inductive, PTL

\* Hold, then started record, then request (budget.py:151-182).
THEOREM Fenced == Spec => []RequestFenced
<1>1. IndInv => RequestFenced
  BY DEF IndInv
<1> QED
  BY <1>1, Inductive, PTL

\* Commit, then completed record, then result (budget.py:199-226).
THEOREM Earned == Spec => []CompletionEarned
<1>1. IndInv => CompletionEarned
  BY DEF IndInv
<1> QED
  BY <1>1, Inductive, PTL

-----------------------------------------------------------------------------
(* Refinement: the code keeps the promise of Allowance. *)

\* Steps that touch no row, no request to the provider and no commit.
Invisible == UNCHANGED <<charge, attempts, bill, actual, pending>>

LEMMA InvisibleStep == ASSUME Invisible PROVE UNCHANGED Promise!vars
  BY DEF Invisible, Promise!vars, Sent, Settled

\* The two specifications add up in the same way.
LEMMA SameSum == ASSUME NEW f PROVE Promise!SumFunction(f) = SumFunction(f)
  BY DEF SumFunction, SumFunctionOnSet, FoldFunctionOnSet, MapThenFoldSet,
         Promise!SumFunction, Promise!SumFunctionOnSet, Promise!FoldFunctionOnSet,
         Promise!MapThenFoldSet

\* An admitted reservation is a hold within the allowance, whether its caller
\* still waits for it or not.
LEMMA LandReserveIsHold ==
  ASSUME IndInv, exposure = SumFunction(charge), NEW c \in Calls, LandReserve(c)
  PROVE  Promise!Hold(c) \/ UNCHANGED Promise!vars
<1>1. /\ "reserve" \in pending[c] /\ pending' = [pending EXCEPT ![c] = @ \ {"reserve"}]
      /\ UNCHANGED <<attempts, bill, actual>>
  BY DEF LandReserve, Land
<1>2. /\ charge \in [Calls -> Nat] /\ amount[c] \in Nat /\ exposure \in Int
      /\ pending \in [Calls -> SUBSET {"reserve", "commit"}] /\ attempts \in [Calls -> Nat]
      /\ charge[c] = 0 /\ attempts[c] = 0 /\ actual[c] = 0 /\ amount[c] > 0
  BY <1>1 DEF IndInv, TypeOK, LedgerInv
<1>3. UNCHANGED <<Sent, bill, Settled>>
  <2>1. \A d \in Calls : "commit" \in pending'[d] <=> "commit" \in pending[d]
    BY <1>1, <1>2
  <2> QED
    BY <1>1, <2>1 DEF Sent, Settled
<1>4. CASE exposure + amount[c] <= Cap
  <2>1. charge' = [charge EXCEPT ![c] = amount[c]]
    BY <1>2, <1>4, BoundsType DEF LandReserve
  <2>2. amount[c] \in 1..(Cap - SumFunction(charge))
    BY <1>2, <1>4, BoundsType
  <2>3. c \notin Sent
    BY <1>2 DEF Sent
  <2> QED
    BY <1>2, <1>3, <2>1, <2>2, <2>3, SameSum DEF Promise!Hold
<1>5. CASE UNCHANGED charge
  BY <1>3, <1>5 DEF Promise!vars
<1> QED
  BY <1>4, <1>5 DEF LandReserve

\* A request leaves once, under its hold.
LEMMA RequestIsSend ==
  ASSUME IndInv, NEW c \in Calls, Request(c)
  PROVE  Promise!Send(c)
<1>1. /\ pc[c] = "dispatch" /\ UNCHANGED <<charge, actual, pending>>
      /\ attempts' = [attempts EXCEPT ![c] = @ + 1]
      /\ \E b \in 0..MaxInvoice : bill' = [bill EXCEPT ![c] = @ + b]
  BY DEF Request
<1>2. /\ attempts \in [Calls -> Nat] /\ bill \in [Calls -> Nat]
      /\ charge[c] > 0 /\ attempts[c] = 0
  BY <1>1 DEF IndInv, TypeOK, PlaceInv
<1>3. c \notin Sent /\ Sent' = Sent \cup {c}
  BY <1>1, <1>2 DEF Sent
<1>4. bill' = [bill EXCEPT ![c] = bill'[c]]
  BY <1>1, <1>2
<1>5. Settled' = Settled
  BY <1>1 DEF Settled
<1> QED
  BY <1>1, <1>2, <1>3, <1>4, <1>5 DEF Promise!Send

\* A commit puts the exact cost in the place of the hold, once, and understates
\* no invoice.
LEMMA LandCommitIsSettle ==
  ASSUME IndInv, NEW c \in Calls, LandCommit(c)
  PROVE  Promise!Settle(c)
<1>1. /\ "commit" \in pending[c] /\ pending' = [pending EXCEPT ![c] = @ \ {"commit"}]
      /\ charge' = [charge EXCEPT ![c] = actual[c]]
      /\ UNCHANGED <<attempts, bill, actual>>
  BY DEF LandCommit, Land
<1>2. /\ actual[c] \in Nat /\ amount[c] \in Nat /\ bill[c] \in Nat
      /\ pending \in [Calls -> SUBSET {"reserve", "commit"}]
      /\ charge[c] = amount[c] /\ actual[c] > 0 /\ actual[c] <= amount[c]
      /\ bill[c] <= actual[c] /\ attempts[c] = 1
  BY <1>1, BoundsType DEF IndInv, TypeOK, LedgerInv, BillInv
<1>3. c \in Sent /\ c \notin Settled /\ Sent' = Sent
  BY <1>1, <1>2 DEF Sent, Settled
<1>4. Settled' = Settled \cup {c}
  <2>1. \A d \in Calls \ {c} : pending'[d] = pending[d]
    BY <1>1, <1>2
  <2>2. "commit" \notin pending'[c]
    BY <1>1, <1>2
  <2> QED
    BY <1>1, <1>2, <2>1, <2>2 DEF Settled
<1>5. actual[c] \in 1..charge[c]
  BY <1>2
<1> QED
  BY <1>1, <1>2, <1>3, <1>4, <1>5 DEF Promise!Settle

\* An accepted cost is not settled before it lands, and a request for a hold is
\* none that is counted.
LEMMA IssueIsInvisible ==
  ASSUME IndInv, NEW c \in Calls, Reserve(c) \/ ResponseAccepted(c)
  PROVE  UNCHANGED Promise!vars
<1>1. /\ pending \in [Calls -> SUBSET {"reserve", "commit"}]
      /\ actual \in [Calls -> Nat]
  BY BoundsType DEF IndInv, TypeOK
<1>2. UNCHANGED <<charge, attempts, bill>>
  BY DEF Reserve, ResponseAccepted, ledgerVars, providerVars
<1>3. Settled' = Settled
  <2>1. CASE Reserve(c)
    <3>1. /\ pending' = [pending EXCEPT ![c] = @ \cup {"reserve"}] /\ actual' = actual
      BY <2>1 DEF Reserve, Issue
    <3>2. \A d \in Calls : "commit" \in pending'[d] <=> "commit" \in pending[d]
      BY <1>1, <3>1
    <3> QED
      BY <3>1, <3>2 DEF Settled
  <2>2. CASE ResponseAccepted(c)
    <3>1. /\ pending' = [pending EXCEPT ![c] = @ \cup {"commit"}]
          /\ \E n : actual' = [actual EXCEPT ![c] = n]
          /\ pc[c] = "call"
      BY <2>2 DEF ResponseAccepted, Issue
    <3>2. actual[c] = 0
      BY <3>1 DEF IndInv, PlaceInv
    <3>3. \A d \in Calls \ {c} : actual'[d] = actual[d] /\ pending'[d] = pending[d]
      BY <1>1, <3>1
    <3>4. "commit" \in pending'[c]
      BY <1>1, <3>1
    <3> QED
      BY <3>2, <3>3, <3>4 DEF Settled
  <2> QED
    BY <2>1, <2>2
<1> QED
  BY <1>2, <1>3 DEF Promise!vars, Sent

\* The budgeted call, with its failures, cancellations, crashes and late
\* landings, is an allowance without refunds (budget.py:69-75).
THEOREM KeepsPromiseAlways == Spec => KeepsPromise
<1>1. Init => Promise!Init
  BY DEF Init, Promise!Init, Sent, Settled
<1>2. IndInv /\ LedgerBalances /\ [Next]_vars => [Promise!Next]_Promise!vars
  <2> SUFFICES ASSUME IndInv, LedgerBalances, [Next]_vars
               PROVE  Promise!Next \/ UNCHANGED Promise!vars
    OBVIOUS
  <2>1. ASSUME NEW c \in Calls, LandReserve(c) \/ Request(c) \/ LandCommit(c)
        PROVE  Promise!Next \/ UNCHANGED Promise!vars
    <3>1. Promise!Hold(c) \/ Promise!Send(c) \/ Promise!Settle(c) \/ UNCHANGED Promise!vars
      BY <2>1, LandReserveIsHold, RequestIsSend, LandCommitIsSettle DEF LedgerBalances
    <3> QED
      BY <3>1 DEF Promise!Next
  <2>2. ASSUME NEW c \in Calls, Reserve(c) \/ ResponseAccepted(c)
        PROVE  UNCHANGED Promise!vars
    BY <2>2, IssueIsInvisible
  <2>3. ASSUME NEW c \in Calls,
               \/ Refuse(c) \/ ReserveReturns(c) \/ RecordStarted(c) \/ RecordStartedFails(c)
               \/ RequestFails(c) \/ CallAbandoned(c) \/ CommitReturns(c)
               \/ RecordCompleted(c) \/ RecordCompletedFails(c)
               \/ LedgerAwaitFails(c) \/ Crash(c)
        PROVE  UNCHANGED Promise!vars
    <3>1. Invisible
      BY <2>3
      DEF Invisible, Refuse, ReserveReturns, RecordStarted, RecordStartedFails, RequestFails,
          CallAbandoned, CommitReturns, RecordCompleted, RecordCompletedFails,
          LedgerAwaitFails, Crash
    <3> QED
      BY <3>1, InvisibleStep
  <2>4. CASE UNCHANGED vars
    <3>1. Invisible
      BY <2>4 DEF Invisible, vars
    <3> QED
      BY <3>1, InvisibleStep
  <2> QED
    BY <2>1, <2>2, <2>3, <2>4 DEF Next
<1> QED
  BY <1>1, <1>2, Inductive, Balanced, PTL DEF Spec, KeepsPromise, Promise!Spec

-----------------------------------------------------------------------------
(* What termination rests on.                                               *)

\* Where a call goes from where it stands: with no retries, a failed request is
\* not sent again.
LEMMA StepForward ==
  ASSUME IndInv, NEW c \in Calls, Step(c), NEW d \in Calls, pc'[d] # pc[d]
  PROVE  Left(pc'[d]) < Left(pc[d])
<1>1. pc \in [Calls -> Places]
  BY DEF IndInv, TypeOK
<1>2. CASE LandReserve(c) \/ LandCommit(c)
  BY <1>2 DEF LandReserve, LandCommit, Land
<1>3. CASE ReserveReturns(c) \/ CommitReturns(c)
  <2>1. \/ pc[c] = "reserve" /\ pc' = [pc EXCEPT ![c] = "record"]
        \/ pc[c] = "reserve" /\ pc' = [pc EXCEPT ![c] = "dispatch"]
        \/ pc[c] = "commit" /\ pc' = [pc EXCEPT ![c] = "complete"]
        \/ pc[c] = "commit" /\ pc' = [pc EXCEPT ![c] = "returned"]
    BY <1>3 DEF ReserveReturns, CommitReturns, GoTo
  <2> QED
    BY <1>1, <2>1 DEF Left
<1>4. CASE RequestFails(c)
  <2>1. pc[c] = "call" /\ attempts[c] = 1 /\ retries = 0
    BY <1>4 DEF RequestFails, IndInv, PlaceInv
  <2>2. pc' = [pc EXCEPT ![c] = "raised"]
    BY <1>4, <2>1 DEF RequestFails, GoTo
  <2> QED
    BY <1>1, <2>1, <2>2 DEF Left
<1>5. CASE Reserve(c) \/ Request(c) \/ ResponseAccepted(c)
  <2>1. \/ pc[c] = "idle" /\ pc' = [pc EXCEPT ![c] = "reserve"]
        \/ pc[c] = "dispatch" /\ pc' = [pc EXCEPT ![c] = "call"]
        \/ pc[c] = "call" /\ pc' = [pc EXCEPT ![c] = "commit"]
    BY <1>5 DEF Reserve, Request, ResponseAccepted, Issue, GoTo
  <2> QED
    BY <1>1, <2>1 DEF Left
<1>6. CASE RecordStarted(c) \/ RecordCompleted(c)
  <2>1. \/ pc[c] = "record" /\ pc' = [pc EXCEPT ![c] = "dispatch"]
        \/ pc[c] = "complete" /\ pc' = [pc EXCEPT ![c] = "returned"]
    BY <1>6 DEF RecordStarted, RecordCompleted, GoTo
  <2> QED
    BY <1>1, <2>1 DEF Left
<1>7. CASE \/ Refuse(c) \/ RecordStartedFails(c) \/ CallAbandoned(c) \/ RecordCompletedFails(c)
           \/ LedgerAwaitFails(c) \/ Crash(c)
  <2>1. /\ pc[c] \in Places \ Ended
        /\ \E place \in Ended : pc' = [pc EXCEPT ![c] = place]
    BY <1>1, <1>7
    DEF Refuse, RecordStartedFails, CallAbandoned, RecordCompletedFails, LedgerAwaitFails,
        Crash, GoTo
  <2> QED
    BY <1>1, <2>1 DEF Left
<1> QED
  BY <1>2, <1>3, <1>4, <1>5, <1>6, <1>7 DEF Step

\* A call holds, sends and commits at most once each, although the request loop
\* it wraps knows retries (budget.py:86-87 and 124-226).
THEOREM GoesForward == Spec => ForwardOnly
<1>1. IndInv /\ [Next]_vars =>
        [\A c \in Calls : pc'[c] # pc[c] => Left(pc'[c]) < Left(pc[c])]_vars
  <2> SUFFICES ASSUME IndInv, [Next]_vars, NEW d \in Calls, pc'[d] # pc[d]
               PROVE  Left(pc'[d]) < Left(pc[d])
    OBVIOUS
  <2>1. ~ UNCHANGED vars
    BY DEF vars
  <2> QED
    BY <2>1, StepForward DEF Next, Step
<1> QED
  BY <1>1, Inductive, PTL DEF Spec, ForwardOnly

\* No call waits for a ledger request that was never made or that is over
\* (budget.py:151-156 and 199-203).
THEOREM NobodyWaitsInVain == Spec => []NobodyForgotten
<1>1. Init => NobodyForgotten
  BY DEF Init, NobodyForgotten
<1>2. IndInv /\ NobodyForgotten /\ [Next]_vars => NobodyForgotten'
  <2> SUFFICES ASSUME IndInv, NobodyForgotten, [Next]_vars PROVE NobodyForgotten'
    OBVIOUS
  <2>1. /\ pc \in [Calls -> Places] /\ reply \in [Calls -> {"none", "ok", "denied"}]
        /\ pending \in [Calls -> SUBSET {"reserve", "commit"}]
    BY DEF IndInv, TypeOK
  <2>2. ASSUME NEW c \in Calls, LandReserve(c) \/ LandCommit(c) PROVE NobodyForgotten'
    BY <2>1, <2>2 DEF LandReserve, LandCommit, Land, NobodyForgotten
  <2>3. ASSUME NEW c \in Calls, Reserve(c) \/ ResponseAccepted(c) PROVE NobodyForgotten'
    BY <2>1, <2>3 DEF Reserve, ResponseAccepted, Issue, GoTo, NobodyForgotten
  <2>4. ASSUME NEW c \in Calls, pending' = pending,
               \E place \in Places \ {"reserve", "commit"} : GoTo(c, place)
        PROVE  NobodyForgotten'
    BY <2>1, <2>4 DEF GoTo, NobodyForgotten
  <2>5. ASSUME NEW c \in Calls, Step(c), ~LandReserve(c), ~LandCommit(c), ~Reserve(c),
               ~ResponseAccepted(c)
        PROVE  /\ pending' = pending
               /\ \E place \in Places \ {"reserve", "commit"} : GoTo(c, place)
    <3>1. pending' = pending
      BY <2>5
      DEF Step, Refuse, ReserveReturns, RecordStarted, RecordStartedFails, Request,
          RequestFails, CallAbandoned, CommitReturns, RecordCompleted,
          RecordCompletedFails, LedgerAwaitFails, Crash
    <3>2. \/ GoTo(c, "raised") \/ GoTo(c, "record") \/ GoTo(c, "dispatch") \/ GoTo(c, "call")
          \/ GoTo(c, "complete") \/ GoTo(c, "returned") \/ GoTo(c, "crashed")
      BY <2>5
      DEF Step, Refuse, ReserveReturns, RecordStarted, RecordStartedFails, Request,
          RequestFails, CallAbandoned, CommitReturns, RecordCompleted,
          RecordCompletedFails, LedgerAwaitFails, Crash
    <3> QED
      BY <3>1, <3>2
  <2>6. CASE UNCHANGED vars
    BY <2>6 DEF vars, NobodyForgotten
  <2> QED
    BY <2>2, <2>3, <2>4, <2>5, <2>6 DEF Next, Step
<1> QED
  BY <1>1, <1>2, Inductive, PTL DEF Spec

-----------------------------------------------------------------------------
(* Prices: the arithmetic of one hold, one usage and one charge.             *)

\* More tokens at a rate cost no less.
LEMMA MoreTokens ==
  ASSUME NEW m \in Nat, NEW n \in Nat, NEW r \in Nat, m <= n
  PROVE  m * r <= n * r
<1>1. PICK d \in Nat : n = m + d
  <2>1. n - m \in Nat /\ n = m + (n - m)
    OBVIOUS
  <2> QED BY <2>1
<1>2. n * r = m * r + d * r
  BY <1>1
<1>3. d * r >= 0 /\ d * r \in Int /\ m * r \in Int
  OBVIOUS
<1> QED BY <1>2, <1>3

\* A dearer rate costs no less.
LEMMA DearerRate ==
  ASSUME NEW m \in Nat, NEW r \in Nat, NEW q \in Nat, r <= q
  PROVE  m * r <= m * q
<1>1. r * m <= q * m
  BY MoreTokens
<1> QED BY <1>1

\* Rounding up loses nothing and keeps the order.
LEMMA Rounding ==
  ASSUME NEW m \in Int, NEW n \in Int, m <= n
  PROVE  /\ RoundUp(m) \in Int
         /\ RoundUp(m) * Scale >= m
         /\ RoundUp(m) <= RoundUp(n)
  BY DEF RoundUp, Scale

\* Any split of input tokens costs at most all of them as cache writes.
LEMMA AtMostWrites ==
  ASSUME NEW i \in Nat, NEW c \in Nat, NEW w \in Nat, c + w <= i,
         NEW ri \in Nat, NEW rc \in Nat, NEW rw \in Nat, rc <= ri, ri <= rw
  PROVE  (i - c - w) * ri + c * rc + w * rw <= i * rw
<1>1. PICK d \in Nat : i = d + c + w
  <2>1. i - c - w \in Nat /\ i = (i - c - w) + c + w
    OBVIOUS
  <2> QED BY <2>1
<1>2. d * ri <= d * rw /\ c * rc <= c * rw
  BY DearerRate
<1>3. i * rw = d * rw + c * rw + w * rw
  BY <1>1
<1>4. i - c - w = d
  BY <1>1
<1>5. /\ d * ri \in Int /\ d * rw \in Int /\ c * rc \in Int /\ c * rw \in Int
      /\ w * rw \in Int
  OBVIOUS
<1> QED BY <1>2, <1>3, <1>4, <1>5

\* What is not reported as cached is charged more, and so is what is not
\* reported as read once, but taken for written.
LEMMA OmissionCostsMore ==
  ASSUME NEW i \in Nat, NEW c \in Nat, NEW w \in Nat, c + w <= i,
         NEW ri \in Nat, NEW rc \in Nat, NEW rw \in Nat, rc <= ri, ri <= rw
  PROVE  /\ (i - c - w) * ri + c * rc + w * rw <= (i - w) * ri + w * rw
         /\ (i - c - w) * ri + c * rc + w * rw <= c * rc + (i - c) * rw
<1>1. PICK d \in Nat : i = d + c + w
  <2>1. i - c - w \in Nat /\ i = (i - c - w) + c + w
    OBVIOUS
  <2> QED BY <2>1
<1>2. d * ri <= d * rw /\ c * rc <= c * ri
  BY DearerRate
<1>3. /\ i - c - w = d /\ i - w = d + c /\ i - c = d + w
  BY <1>1
<1>4. (d + c) * ri = d * ri + c * ri /\ (d + w) * rw = d * rw + w * rw
  OBVIOUS
<1>5. /\ d * ri \in Int /\ d * rw \in Int /\ c * rc \in Int /\ c * ri \in Int
      /\ w * rw \in Int
  OBVIOUS
<1> QED BY <1>2, <1>3, <1>4, <1>5

\* Reading a consistent usage, in whatever way it was reported, understates
\* nothing of it.
LEMMA ReadingsCostMore ==
  ASSUME NEW p \in Prices, NEW u \in Usages, Consistent(u),
         NEW r \in Readings(u), r.input # 0
  PROVE  /\ Cost(p, u) \in Nat /\ Cost(p, r) \in Nat
         /\ Cost(p, u) <= Cost(p, r)
<1> DEFINE i == u.input
           c == u.cached
           w == u.write
           o == u.output * p.output
           ri == p.input
           rc == p.cached
           rw == WriteRate(p)
<1>1. i \in Nat /\ c \in Nat /\ w \in Nat /\ u.output \in Nat /\ c + w <= i
  BY CountsType DEF Usages, Consistent
<1>2. /\ ri \in Nat /\ rc \in Nat /\ rw \in Nat /\ p.output \in Nat
      /\ rc <= ri /\ ri <= rw
  BY RatesType DEF Prices, WriteRate
<1>3. o \in Nat
  BY <1>1, <1>2
<1>4. /\ (i - c - w) * ri + c * rc + w * rw <= (i - w) * ri + w * rw
      /\ (i - c - w) * ri + c * rc + w * rw <= c * rc + (i - c) * rw
      /\ (i - c - w) * ri + c * rc + w * rw <= i * rw
  <2> HIDE DEF i, c, w, ri, rc, rw
  <2> QED BY <1>1, <1>2, OmissionCostsMore, AtMostWrites
<1>5. Cost(p, u) = (i - c - w) * ri + c * rc + w * rw + o
  BY DEF Cost
<1>6. (i - c - w) * ri + c * rc + w * rw \in Nat
  <2>1. i - c - w \in Nat
    BY <1>1
  <2>2. (i - c - w) * ri \in Nat /\ c * rc \in Nat /\ w * rw \in Nat
    <3> HIDE DEF i, c, w, ri, rc, rw
    <3> QED BY <1>1, <1>2, <2>1
  <2> HIDE DEF i, c, w, ri, rc, rw
  <2> QED BY <2>2
<1>7. CASE r = u
  BY <1>3, <1>5, <1>6, <1>7
<1>8. CASE r = [u EXCEPT !.write = u.input - u.cached]
  <2>1. /\ r.input = i /\ r.cached = c /\ r.write = i - c /\ r.output = u.output
    BY <1>8 DEF Usages
  <2>2. Cost(p, r) = (i - c - (i - c)) * ri + c * rc + (i - c) * rw + o
    BY <2>1 DEF Cost
  <2>3. (i - c - (i - c)) * ri = 0
    BY <1>1, <1>2
  <2>4. c * rc \in Int /\ (i - c) * rw \in Int
    BY <1>1, <1>2
  <2> HIDE DEF i, c, w, ri, rc, rw, o
  <2> QED BY <1>3, <1>4, <1>5, <1>6, <2>2, <2>3, <2>4
<1>9. CASE r = [u EXCEPT !.cached = 0]
  <2>1. /\ r.input = i /\ r.cached = 0 /\ r.write = w /\ r.output = u.output
    BY <1>9 DEF Usages
  <2>2. Cost(p, r) = (i - 0 - w) * ri + 0 * rc + w * rw + o
    BY <2>1 DEF Cost
  <2>3. 0 * rc = 0 /\ i - 0 - w = i - w
    BY <1>1, <1>2
  <2>4. w * rw \in Int /\ (i - w) * ri \in Int
    BY <1>1, <1>2
  <2> HIDE DEF i, c, w, ri, rc, rw, o
  <2> QED BY <1>3, <1>4, <1>5, <1>6, <2>2, <2>3, <2>4
<1>10. CASE r = [u EXCEPT !.cached = 0, !.write = u.input]
  <2>1. /\ r.input = i /\ r.cached = 0 /\ r.write = i /\ r.output = u.output
    BY <1>10 DEF Usages
  <2>2. Cost(p, r) = (i - 0 - i) * ri + 0 * rc + i * rw + o
    BY <2>1 DEF Cost
  <2>3. 0 * rc = 0 /\ (i - 0 - i) * ri = 0
    BY <1>1, <1>2
  <2>4. i * rw \in Int
    BY <1>1, <1>2
  <2> HIDE DEF i, c, w, ri, rc, rw, o
  <2> QED BY <1>3, <1>4, <1>5, <1>6, <2>2, <2>3, <2>4
<1> QED BY <1>7, <1>8, <1>9, <1>10 DEF Readings, NoUsage

\* The hold is the price of the dearest usage within the ceilings.
LEMMA HoldIsEnough ==
  ASSUME price \in Prices, bytes \in Nat,
         NEW u, u.input \in Nat, u.cached \in Nat, u.write \in Nat, u.output \in Nat,
         Consistent(u), WithinCeilings(u)
  PROVE  Cost(price, u) \in Nat /\ Hold \in Nat /\ Cost(price, u) <= Hold
<1> DEFINE i == u.input
           c == u.cached
           w == u.write
           ri == price.input
           rc == price.cached
           rw == WriteRate(price)
<1>1. i \in Nat /\ c \in Nat /\ w \in Nat /\ c + w <= i
  BY DEF Consistent
<1>2. /\ ri \in Nat /\ rc \in Nat /\ rw \in Nat /\ price.output \in Nat
      /\ rc <= ri /\ ri <= rw
  BY RatesType DEF Prices, WriteRate
<1>3. /\ InputCeiling \in Nat /\ OutputCap \in Nat
      /\ i <= InputCeiling /\ u.output <= OutputCap
  BY CountsType DEF InputCeiling, WithinCeilings
<1>4. Hold = InputCeiling * rw + OutputCap * price.output
  <2>1. rw > ri \/ rw = ri
    BY <1>2
  <2> QED BY <2>1 DEF Hold
<1>5. /\ (i - c - w) * ri + c * rc + w * rw <= i * rw
      /\ i * rw <= InputCeiling * rw
      /\ u.output * price.output <= OutputCap * price.output
  <2> HIDE DEF i, c, w, ri, rc, rw
  <2> QED BY <1>1, <1>2, <1>3, AtMostWrites, MoreTokens
<1>6. Cost(price, u) = (i - c - w) * ri + c * rc + w * rw + u.output * price.output
  BY DEF Cost
<1>7. /\ (i - c - w) * ri \in Nat /\ c * rc \in Nat /\ w * rw \in Nat
      /\ i * rw \in Nat /\ InputCeiling * rw \in Nat
      /\ u.output * price.output \in Nat /\ OutputCap * price.output \in Nat
  <2>1. i - c - w \in Nat
    BY <1>1
  <2> HIDE DEF i, c, w, ri, rc, rw
  <2> QED BY <1>1, <1>2, <1>3, <2>1
<1> HIDE DEF i, c, w, ri, rc, rw
<1> QED BY <1>4, <1>5, <1>6, <1>7

\* A usage that is read is one of four natural numbers, and is consistent.
LEMMA ReadingsType ==
  ASSUME NEW u \in Usages, Consistent(u), NEW r \in Readings(u)
  PROVE  /\ r.input \in Nat /\ r.cached \in Nat /\ r.write \in Nat /\ r.output \in Nat
         /\ Consistent(r)
<1>1. /\ u.input \in Nat /\ u.cached \in Nat /\ u.write \in Nat /\ u.output \in Nat
      /\ u.cached + u.write <= u.input
  BY CountsType DEF Usages, Consistent
<1>2. CASE r = u
  BY <1>1, <1>2 DEF Consistent
<1>3. CASE r = [u EXCEPT !.write = u.input - u.cached]
  <2>1. r.input = u.input /\ r.cached = u.cached /\ r.write = u.input - u.cached
        /\ r.output = u.output
    BY <1>3 DEF Usages
  <2> QED BY <1>1, <2>1 DEF Consistent
<1>4. CASE r = [u EXCEPT !.cached = 0]
  <2>1. r.input = u.input /\ r.cached = 0 /\ r.write = u.write /\ r.output = u.output
    BY <1>4 DEF Usages
  <2> QED BY <1>1, <2>1 DEF Consistent
<1>5. CASE r = [u EXCEPT !.cached = 0, !.write = u.input]
  <2>1. r.input = u.input /\ r.cached = 0 /\ r.write = u.input /\ r.output = u.output
    BY <1>5 DEF Usages
  <2> QED BY <1>1, <2>1 DEF Consistent
<1>6. CASE r = NoUsage
  BY <1>6 DEF Consistent, NoUsage
<1> QED BY <1>2, <1>3, <1>4, <1>5, <1>6 DEF Readings

\* A hold covers every usage within the ceilings, rounding included.
LEMMA HeldEnough ==
  ASSUME price \in Prices, bytes \in Nat, reserved = RoundUp(Hold),
         NEW u, u.input \in Nat, u.cached \in Nat, u.write \in Nat, u.output \in Nat,
         Consistent(u), WithinCeilings(u)
  PROVE  /\ reserved * Scale >= Cost(price, u)
         /\ RoundUp(Cost(price, u)) <= reserved
<1>1. Cost(price, u) \in Nat /\ Hold \in Nat /\ Cost(price, u) <= Hold
  BY HoldIsEnough
<1>2. /\ RoundUp(Hold) \in Int /\ RoundUp(Hold) * Scale >= Hold
      /\ RoundUp(Cost(price, u)) <= RoundUp(Hold)
  BY <1>1, Rounding
<1>3. RoundUp(Hold) * Scale \in Int
  BY <1>2 DEF Scale
<1> QED BY <1>1, <1>2, <1>3

\* Before anything is billed the invoice is empty.
LEMMA PricingStarts == PricingInit => PricingInv
<1> SUFFICES ASSUME PricingInit PROVE PricingInv
  OBVIOUS
<1>1. NoUsage \in Usages /\ Consistent(NoUsage)
  BY CountsType DEF NoUsage, Usages, Consistent
<1>2. bytes \in Nat
  BY CountsType DEF PricingInit
<1> QED BY <1>1, <1>2 DEF PricingInit, PricingInv, InvoiceCovered, HoldCoversInvoice, CeilingsSuffice

\* The inductive step.
LEMMA PricingSteps == PricingInv /\ [PricingNext]_pricingVars => PricingInv'
<1> SUFFICES ASSUME PricingInv, [PricingNext]_pricingVars PROVE PricingInv'
  OBVIOUS
<1>0. /\ price \in Prices /\ bytes \in Nat /\ billed \in Usages /\ Consistent(billed)
      /\ billed.input \in Nat /\ billed.cached \in Nat
      /\ billed.write \in Nat /\ billed.output \in Nat
  <2>1. price \in Prices /\ bytes \in Nat /\ billed \in Usages /\ Consistent(billed)
    BY DEF PricingInv
  <2> QED BY <2>1, CountsType DEF Usages
<1>1. CASE ReserveHold
  <2>1. /\ price' = price /\ bytes' = bytes /\ billed' = billed /\ billed = NoUsage
        /\ phase' = "reserved" /\ reserved' = RoundUp(Hold)
    BY <1>1 DEF ReserveHold, PricingInv
  <2>2. WithinCeilings(billed)' => (reserved * Scale >= Cost(price, billed))'
    <3>1. Hold' = Hold
      BY <2>1 DEF Hold, InputCeiling, WriteRate
    <3>2. ASSUME WithinCeilings(billed)'
          PROVE  reserved' * Scale >= Cost(price', billed')
      <4>1. WithinCeilings(billed)
        BY <2>1, <3>2 DEF WithinCeilings, InputCeiling
      <4>2. Cost(price, billed) \in Nat /\ Hold \in Nat /\ Cost(price, billed) <= Hold
        BY <1>0, <4>1, HoldIsEnough
      <4>3. RoundUp(Hold) \in Int /\ RoundUp(Hold) * Scale >= Hold
        BY <4>2, Rounding
      <4>4. RoundUp(Hold) * Scale \in Int
        BY <4>3 DEF Scale
      <4> QED BY <2>1, <4>2, <4>3, <4>4
    <3> QED BY <3>2 DEF Scale, Cost
  <2>3. Hold' = Hold
    BY <2>1 DEF Hold, InputCeiling, WriteRate
  <2>4. (reserved = RoundUp(Hold))'
    BY <2>1, <2>3 DEF RoundUp
  <2> QED
    BY <1>0, <2>1, <2>2, <2>4
       DEF PricingInv, InvoiceCovered, HoldCoversInvoice, CeilingsSuffice, Invoice, Consistent
<1>2. CASE Bill
  <2>1. /\ price' = price /\ bytes' = bytes /\ reserved' = reserved
        /\ phase = "reserved" /\ phase' = "billed" /\ reserved = RoundUp(Hold)
        /\ billed' \in Usages /\ Consistent(billed')
    BY <1>2 DEF Bill, PricingInv
  <2>2. billed'.input \in Nat /\ billed'.cached \in Nat /\ billed'.write \in Nat
        /\ billed'.output \in Nat
    BY <2>1, CountsType DEF Usages
  <2>3. Hold' = Hold
    BY <2>1 DEF Hold, InputCeiling, WriteRate
  <2>4. ASSUME WithinCeilings(billed') PROVE reserved * Scale >= Cost(price, billed')
    BY <1>0, <2>1, <2>2, <2>4, HeldEnough
  <2>5. HoldCoversInvoice'
    BY <2>1, <2>4 DEF HoldCoversInvoice, Invoice, WithinCeilings, InputCeiling, Cost, WriteRate,
          Scale
  <2>6. (reserved = RoundUp(Hold))'
    BY <2>1, <2>3 DEF RoundUp
  <2> QED
    BY <1>0, <2>1, <2>5, <2>6
       DEF PricingInv, InvoiceCovered, CeilingsSuffice, Consistent
<1>3. CASE Read
  <2>1. /\ price' = price /\ bytes' = bytes /\ reserved' = reserved /\ billed' = billed
        /\ phase = "billed" /\ phase' = "read" /\ read' \in Readings(billed)
    BY <1>3 DEF Read
  <2>2. Hold' = Hold /\ Invoice' = Invoice /\ Readings(billed)' = Readings(billed)
    BY <2>1 DEF Hold, InputCeiling, WriteRate, Invoice, Cost, Readings
  <2>3. HoldCoversInvoice'
    BY <2>1, <2>2 DEF PricingInv, HoldCoversInvoice, WithinCeilings, InputCeiling
  <2>4. (reserved = RoundUp(Hold))'
    BY <2>1, <2>2 DEF PricingInv, RoundUp
  <2> QED
    BY <1>0, <2>1, <2>2, <2>3, <2>4
       DEF PricingInv, InvoiceCovered, CeilingsSuffice, Consistent
<1>4. CASE Settle
  <2>1. /\ price' = price /\ bytes' = bytes /\ reserved' = reserved /\ billed' = billed
        /\ read' = read /\ phase = "read" /\ read \in Readings(billed)
        /\ reserved = RoundUp(Hold)
    BY <1>4 DEF Settle, PricingInv
  <2>2. Hold' = Hold /\ Invoice' = Invoice
    BY <2>1 DEF Hold, InputCeiling, WriteRate, Invoice, Cost
  <2>3. HoldCoversInvoice'
    BY <1>4, <2>1, <2>2 DEF Settle, PricingInv, HoldCoversInvoice, WithinCeilings, InputCeiling
  <2>4. (reserved = RoundUp(Hold))'
    BY <2>1, <2>2 DEF RoundUp
  <2>5. ASSUME WithinCeilings(read), read.input # 0
        PROVE  /\ RoundUp(Cost(price, read)) <= reserved
               /\ RoundUp(Cost(price, read)) * Scale >= Invoice
               /\ RoundUp(Cost(price, read)) \in Int /\ reserved \in Int
    <3>1. /\ read.input \in Nat /\ read.cached \in Nat /\ read.write \in Nat
          /\ read.output \in Nat /\ Consistent(read)
      BY <1>0, <2>1, ReadingsType
    <3>2. RoundUp(Cost(price, read)) <= reserved
      BY <1>0, <2>1, <2>5, <3>1, HeldEnough
    <3>3. /\ Invoice \in Nat /\ Cost(price, read) \in Nat /\ Invoice <= Cost(price, read)
      BY <1>0, <2>1, <2>5, ReadingsCostMore DEF Invoice
    <3>4. /\ RoundUp(Cost(price, read)) * Scale >= Cost(price, read)
          /\ RoundUp(Cost(price, read)) \in Int
      BY <3>3, Rounding
    <3>5. RoundUp(Cost(price, read)) * Scale \in Int
      BY <3>4 DEF Scale
    <3>6. Hold \in Nat
      BY <1>0, <2>5, <3>1, HoldIsEnough
    <3>7. reserved \in Int
      BY <2>1, <3>6, Rounding
    <3> QED BY <3>2, <3>3, <3>4, <3>5, <3>7
  <2>6. phase' \in {"usage rejected", "charged"}
        /\ (phase' = "charged" => charged' * Scale >= Invoice)
    <3>1. CASE phase' = "usage rejected"
      BY <3>1
    <3>2. CASE /\ WithinCeilings(read) /\ read.input # 0
               /\ IF RoundUp(Cost(price, read)) > reserved
                    THEN phase' = "cost rejected" /\ UNCHANGED charged
                    ELSE phase' = "charged" /\ charged' = RoundUp(Cost(price, read))
      <4>1. ~(RoundUp(Cost(price, read)) > reserved)
        <5>1. /\ RoundUp(Cost(price, read)) <= reserved
              /\ RoundUp(Cost(price, read)) \in Int /\ reserved \in Int
          BY <2>5, <3>2
        <5> QED BY <5>1
      <4> QED BY <2>5, <3>2, <4>1
    <3> QED BY <1>4, <3>1, <3>2 DEF Settle
  <2> QED
    BY <1>0, <2>1, <2>2, <2>3, <2>4, <2>6
       DEF PricingInv, InvoiceCovered, CeilingsSuffice, Consistent
<1>5. CASE UNCHANGED pricingVars
  <2>1. /\ price' = price /\ bytes' = bytes /\ reserved' = reserved /\ billed' = billed
        /\ read' = read /\ phase' = phase /\ charged' = charged
    BY <1>5 DEF pricingVars
  <2> QED
    BY <2>1 DEF PricingInv, InvoiceCovered, HoldCoversInvoice, CeilingsSuffice, Invoice, Cost,
                WriteRate, Hold, InputCeiling, WithinCeilings, Readings, Consistent, RoundUp
<1> QED BY <1>1, <1>2, <1>3, <1>4, <1>5 DEF PricingNext

\* The arithmetic holds in every reachable state.
THEOREM PricingInductive == PricingSpec => []PricingInv
  BY PricingStarts, PricingSteps, PTL DEF PricingSpec

\* No charge is below the invoice, whatever a response leaves out
\* (gateway.py:363-383, budget.py:194-203).
THEOREM NothingUnderstated == PricingSpec => []InvoiceCovered
<1>1. PricingInv => InvoiceCovered
  BY DEF PricingInv
<1> QED BY <1>1, PricingInductive, PTL

\* What stays reserved covers a call whose response is lost or rejected
\* (budget.py:141-156, pricing.py:115-122).
THEOREM HoldCovers == PricingSpec => []HoldCoversInvoice
<1>1. PricingInv => HoldCoversInvoice
  BY DEF PricingInv
<1> QED BY <1>1, PricingInductive, PTL

\* The last check of a response never fires on one within the token ceilings
\* (budget.py:184-198).
THEOREM NoPaidAnswerLost == PricingSpec => []CeilingsSuffice
<1>1. PricingInv => CeilingsSuffice
  BY DEF PricingInv
<1> QED BY <1>1, PricingInductive, PTL
=============================================================================
