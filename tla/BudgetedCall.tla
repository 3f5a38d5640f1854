---------------------------- MODULE BudgetedCall ----------------------------
(***************************************************************************)
(* kairos_llm/budget.py: BudgetedLLMGateway.complete, by many callers that *)
(* share one provider's monthly allowance, around the request loop of      *)
(* kairos_llm/gateway.py and with the optional evidence sink of            *)
(* kairos_llm/call_evidence.py.                                            *)
(*                                                                         *)
(* Amounts are whole microdollars.  The ledger is a database: a request    *)
(* lands some time after it was issued, possibly after its caller left.    *)
(* What a provider invoices is chosen when the request is sent; the caller *)
(* only ever sees the usage of a response.                                 *)
(***************************************************************************)
EXTENDS Integers, FiniteSets, Functions

CONSTANTS Calls,       \* calls of complete(); each draws a fresh reservation id
          WithSink,    \* those whose gateway has an evidence sink
          Cap,         \* monthly_budgets_microusd of the provider
          MaxReserve,  \* bound: largest reservation a call computes
          MaxInvoice,  \* bound: largest invoice for one request
          MaxRetries   \* bound: largest settings.max_retries

ASSUME CallsFinite == IsFiniteSet(Calls)
ASSUME SinkType == WithSink \subseteq Calls
ASSUME BoundsType ==
  Cap \in Nat /\ MaxReserve \in Nat /\ MaxInvoice \in Nat /\ MaxRetries \in Nat

VARIABLES
  retries,    \* settings.max_retries of the wrapped gateway
  pc,         \* where each call is; "reserve" and "commit" await the ledger
  amount,     \* reserved_microusd
  actual,     \* actual_microusd, once a response is accepted
  attempts,   \* requests sent to the provider
  invoice,    \* what the provider invoices for the latest request
  bill,       \* what it invoices for all requests of the call
  overrun,    \* calls whose provider went beyond the requested limits
  pending,    \* ledger requests that have not landed
  reply,      \* answer to the awaited ledger request
  charge,     \* ledger: what a reservation counts against the cap
  exposure,   \* ledger: everything counted against the cap
  begun,      \* the call's "started" evidence file
  completed   \* the call's "completed" evidence file

ledgerVars   == <<charge, exposure>>
evidenceVars == <<begun, completed>>
providerVars == <<attempts, invoice, bill, overrun>>
vars == <<retries, pc, amount, actual, pending, reply, ledgerVars,
          evidenceVars, providerVars>>

Ended  == {"returned", "raised", "crashed"}
Places == {"idle", "reserve", "record", "dispatch", "call", "commit", "complete"}
            \cup Ended
Files  == {"none", "partial", "whole"}

Init ==
  /\ retries \in 0..MaxRetries
  /\ pc = [c \in Calls |-> "idle"]
  /\ amount = [c \in Calls |-> 0]
  /\ actual = [c \in Calls |-> 0]
  /\ attempts = [c \in Calls |-> 0]
  /\ invoice = [c \in Calls |-> 0]
  /\ bill = [c \in Calls |-> 0]
  /\ overrun = {}
  /\ pending = [c \in Calls |-> {}]
  /\ reply = [c \in Calls |-> "none"]
  /\ charge = [c \in Calls |-> 0]
  /\ exposure = 0
  /\ begun = [c \in Calls |-> "none"]
  /\ completed = [c \in Calls |-> "none"]

GoTo(c, place) ==
  /\ pc' = [pc EXCEPT ![c] = place]
  /\ reply' = [reply EXCEPT ![c] = "none"]

Issue(c, request) ==
  /\ GoTo(c, request)
  /\ pending' = [pending EXCEPT ![c] = @ \cup {request}]

Land(c, request, answer) ==
  /\ request \in pending[c]
  /\ pending' = [pending EXCEPT ![c] = @ \ {request}]
  /\ reply' = IF pc[c] = request THEN [reply EXCEPT ![c] = answer] ELSE reply
  /\ UNCHANGED <<retries, pc, amount, actual, evidenceVars, providerVars>>

-----------------------------------------------------------------------------
(* Before the provider: a hold, then the started record. *)

\* A plausible bug: the constructor takes any gateway.
AnyGateway(r) == r >= 0

\* The constructor: "budgeted LLM gateway requires max_retries=0".
AcceptsGateway(r) == r = 0

\* No workload, no price, oversized evidence, or a gateway that was refused.
Refuse(c) ==
  /\ pc[c] = "idle"
  /\ GoTo(c, "raised")
  /\ UNCHANGED <<retries, amount, actual, pending, ledgerVars, evidenceVars, providerVars>>

\* The allowance is computed from the ceilings and requested once.
Reserve(c) ==
  /\ pc[c] = "idle"
  /\ AcceptsGateway(retries)
  /\ \E r \in 1..MaxReserve : amount' = [amount EXCEPT ![c] = r]
  /\ Issue(c, "reserve")
  /\ UNCHANGED <<retries, actual, ledgerVars, evidenceVars, providerVars>>

\* The ledger admits a reservation atomically, or denies it at the cap.
LandReserve(c) ==
  \/ /\ exposure + amount[c] <= Cap
     /\ Land(c, "reserve", "ok")
     /\ charge' = [charge EXCEPT ![c] = amount[c]]
     /\ exposure' = exposure + amount[c]
  \/ /\ exposure + amount[c] > Cap
     /\ Land(c, "reserve", "denied")
     /\ UNCHANGED ledgerVars

\* The await on the hold is over.
ReserveReturns(c) ==
  /\ pc[c] = "reserve" /\ reply[c] = "ok"
  /\ GoTo(c, IF c \in WithSink THEN "record" ELSE "dispatch")
  /\ UNCHANGED <<retries, amount, actual, pending, ledgerVars, evidenceVars, providerVars>>

\* The started record is written with no await before the request.
RecordStarted(c) ==
  /\ pc[c] = "record"
  /\ begun' = [begun EXCEPT ![c] = "whole"]
  /\ GoTo(c, "dispatch")
  /\ UNCHANGED <<retries, amount, actual, pending, ledgerVars, completed, providerVars>>

\* A plausible bug: the sink is best-effort, like health telemetry.
RecordStartedBestEffort(c) ==
  /\ pc[c] = "record"
  /\ \E f \in {"none", "partial"} : begun' = [begun EXCEPT ![c] = f]
  /\ GoTo(c, "dispatch")
  /\ UNCHANGED <<retries, amount, actual, pending, ledgerVars, completed, providerVars>>

\* A failed initial write prevents the call and retains the hold.
RecordStartedFails(c) ==
  /\ pc[c] = "record"
  /\ \E f \in {"none", "partial"} : begun' = [begun EXCEPT ![c] = f]
  /\ GoTo(c, "raised")
  /\ UNCHANGED <<retries, amount, actual, pending, ledgerVars, completed, providerVars>>

-----------------------------------------------------------------------------
(* The provider: LLMGateway.complete.  It honours the requested output limit *)
(* and its tokenizer needs no more tokens than bytes, or it overruns.        *)

Request(c) ==
  /\ pc[c] = "dispatch"
  /\ \E b \in 0..MaxInvoice :
       /\ invoice' = [invoice EXCEPT ![c] = b]
       /\ bill' = [bill EXCEPT ![c] = @ + b]
       /\ overrun' = IF b > amount[c] THEN overrun \cup {c} ELSE overrun
  /\ attempts' = [attempts EXCEPT ![c] = @ + 1]
  /\ GoTo(c, "call")
  /\ UNCHANGED <<retries, amount, actual, pending, ledgerVars, evidenceVars>>

\* A transient failure is retried only while max_retries allows it.
RequestFails(c) ==
  /\ pc[c] = "call"
  /\ GoTo(c, IF attempts[c] <= retries THEN "dispatch" ELSE "raised")
  /\ UNCHANGED <<retries, amount, actual, pending, ledgerVars, evidenceVars, providerVars>>

\* A plausible bug: usage over the envelope is committed.
EnvelopeUnchecked(c, cost, sound) == sound /\ cost > 0

\* Usage within the envelope and not empty, on the reserved route, and one
\* cost for gateway and ledger; "sound" stands for what costs do not show.
Acceptable(c, cost, sound) == sound /\ 0 < cost /\ cost <= amount[c]

\* Reported usage may be absent (no cost) or conservative, never understated.
ResponseAccepted(c) ==
  /\ pc[c] = "call"
  /\ \E cost \in {0} \cup invoice[c]..MaxInvoice, sound \in BOOLEAN :
       /\ Acceptable(c, cost, sound)
       /\ actual' = [actual EXCEPT ![c] = cost]
  /\ Issue(c, "commit")
  /\ UNCHANGED <<retries, amount, ledgerVars, evidenceVars, providerVars>>

\* A plausible bug: an abandoned call gives its hold back.
CallAbandonedRefunds(c) ==
  /\ pc[c] \in {"dispatch", "call"}
  /\ GoTo(c, "raised")
  /\ charge' = [charge EXCEPT ![c] = 0]
  /\ exposure' = exposure - charge[c]
  /\ UNCHANGED <<retries, amount, actual, pending, evidenceVars, providerVars>>

\* No client, a permanent failure, a cancellation or a rejected response.
CallAbandoned(c) ==
  /\ pc[c] \in {"dispatch", "call"}
  /\ GoTo(c, "raised")
  /\ UNCHANGED <<retries, amount, actual, pending, ledgerVars, evidenceVars, providerVars>>

-----------------------------------------------------------------------------
(* After the provider: the exact cost, then the completed record. *)

\* A plausible bug of the ledger: a commit gives the hold back.
CommitReleasesHold(c) ==
  /\ Land(c, "commit", "ok")
  /\ charge' = [charge EXCEPT ![c] = actual[c]]
  /\ exposure' = exposure - charge[c]

LandCommit(c) ==
  /\ Land(c, "commit", "ok")
  /\ charge' = [charge EXCEPT ![c] = actual[c]]
  /\ exposure' = exposure - charge[c] + actual[c]

\* A plausible bug: completion is recorded while the commit is in flight.
CommitNotAwaited(c) ==
  /\ pc[c] = "commit"
  /\ GoTo(c, IF c \in WithSink THEN "complete" ELSE "returned")
  /\ UNCHANGED <<retries, amount, actual, pending, ledgerVars, evidenceVars, providerVars>>

\* The await on the commit is over.
CommitReturns(c) ==
  /\ pc[c] = "commit" /\ reply[c] = "ok"
  /\ GoTo(c, IF c \in WithSink THEN "complete" ELSE "returned")
  /\ UNCHANGED <<retries, amount, actual, pending, ledgerVars, evidenceVars, providerVars>>

RecordCompleted(c) ==
  /\ pc[c] = "complete"
  /\ completed' = [completed EXCEPT ![c] = "whole"]
  /\ GoTo(c, "returned")
  /\ UNCHANGED <<retries, amount, actual, pending, ledgerVars, begun, providerVars>>

\* A sink error fails the caller but never refunds the committed spend.
RecordCompletedFails(c) ==
  /\ pc[c] = "complete"
  /\ \E f \in {"none", "partial"} : completed' = [completed EXCEPT ![c] = f]
  /\ GoTo(c, "raised")
  /\ UNCHANGED <<retries, amount, actual, pending, ledgerVars, begun, providerVars>>

\* The ledger denies or fails, its answer is lost, or the await is cancelled.
LedgerAwaitFails(c) ==
  /\ pc[c] \in {"reserve", "commit"}
  /\ GoTo(c, "raised")
  /\ UNCHANGED <<retries, amount, actual, pending, ledgerVars, evidenceVars, providerVars>>

\* The process dies, possibly in the middle of writing a record.
Crash(c) ==
  /\ pc[c] \notin Ended
  /\ \/ UNCHANGED evidenceVars
     \/ /\ pc[c] = "record"
        /\ begun' = [begun EXCEPT ![c] = "partial"]
        /\ UNCHANGED completed
     \/ /\ pc[c] = "complete"
        /\ completed' = [completed EXCEPT ![c] = "partial"]
        /\ UNCHANGED begun
  /\ GoTo(c, "crashed")
  /\ UNCHANGED <<retries, amount, actual, pending, ledgerVars, providerVars>>

Next ==
  \E c \in Calls :
    \/ Refuse(c) \/ Reserve(c) \/ LandReserve(c) \/ ReserveReturns(c)
    \/ RecordStarted(c) \/ RecordStartedFails(c)
    \/ Request(c) \/ RequestFails(c) \/ ResponseAccepted(c) \/ CallAbandoned(c)
    \/ LandCommit(c) \/ CommitReturns(c)
    \/ RecordCompleted(c) \/ RecordCompletedFails(c)
    \/ LedgerAwaitFails(c) \/ Crash(c)

Spec == Init /\ [][Next]_vars

-----------------------------------------------------------------------------
TypeOK ==
  /\ retries \in 0..MaxRetries
  /\ pc \in [Calls -> Places]
  /\ amount \in [Calls -> 0..MaxReserve]
  /\ actual \in [Calls -> 0..MaxInvoice]
  /\ attempts \in [Calls -> Nat]
  /\ invoice \in [Calls -> 0..MaxInvoice]
  /\ bill \in [Calls -> Nat]
  /\ overrun \subseteq Calls
  /\ pending \in [Calls -> SUBSET {"reserve", "commit"}]
  /\ reply \in [Calls -> {"none", "ok", "denied"}]
  /\ charge \in [Calls -> Nat]
  /\ exposure \in Int
  /\ begun \in [Calls -> Files]
  /\ completed \in [Calls -> Files]

\* The ledger's one counter, which every admission is decided on, is the sum of
\* its rows, whichever holds and commits landed, and every variable is typed.
LedgerBalances ==
  /\ TypeOK
  /\ exposure = SumFunction(charge)

\* "It cannot silently spend the same monthly dollars twice": whatever failed,
\* was cancelled or crashed, the ledger counts at least what the provider
\* invoices, unless the provider ignored the limits of the request.
NothingUnaccounted ==
  \A c \in Calls : c \notin overrun => bill[c] <= charge[c]

\* Callers racing for the last of the allowance never exceed it, and commits
\* that replace a hold by its cost do not either.
CapRespected == exposure <= Cap

\* No request leaves before its hold is durable and, where there is a sink,
\* before a whole started record is on disk.
RequestFenced ==
  \A c \in Calls : attempts[c] > 0 =>
    /\ charge[c] > 0
    /\ c \in WithSink => begun[c] = "whole"

\* A completed record exists only for a call whose whole started record exists
\* and whose exact cost the ledger holds; a caller that got a result knows it.
CompletionEarned ==
  \A c \in Calls :
    /\ completed[c] # "none" => begun[c] = "whole"
    /\ completed[c] # "none" \/ pc[c] = "returned" =>
         actual[c] > 0 /\ charge[c] = actual[c]

\* How the ledger and the calls show what the allowance is told.
Sent    == {c \in Calls : attempts[c] > 0}
Settled == {c \in Calls : actual[c] > 0 /\ "commit" \notin pending[c]}

Promise == INSTANCE Allowance WITH
  counted <- charge, sent <- Sent, owed <- bill, settled <- Settled

\* The promise of the class: a hold before its request, one request per hold,
\* one exact cost in the hold's place, and no refund of anything.  Row by row, the
\* ledger is the allowance of the abstract specification; what callers do, lose
\* or write beside it is invisible there.
KeepsPromise == Promise!Spec

\* The order of the awaits and the records of complete(), from the last to the
\* first.
Left(place) ==
  CASE place = "idle"     -> 7
    [] place = "reserve"  -> 6
    [] place = "record"   -> 5
    [] place = "dispatch" -> 4
    [] place = "call"     -> 3
    [] place = "commit"   -> 2
    [] place = "complete" -> 1
    [] OTHER              -> 0

\* "call once": complete() holds, sends and commits at most once each, also
\* around a request loop that could retry.
ForwardOnly ==
  [][\A c \in Calls : pc'[c] # pc[c] => Left(pc'[c]) < Left(pc[c])]_vars

\* Whoever awaits the ledger was answered or its request can still land.
NobodyForgotten ==
  \A c \in Calls :
    pc[c] \in {"reserve", "commit"} => reply[c] # "none" \/ pc[c] \in pending[c]

-----------------------------------------------------------------------------
(* What makes the four properties inductive. *)

\* A row of the ledger is the hold, or the accepted cost that replaced it.
LedgerInv ==
  /\ CapRespected
  /\ \A c \in Calls :
       /\ charge[c] \in {0, amount[c], actual[c]}
       /\ actual[c] <= amount[c]
       /\ "reserve" \in pending[c] =>
            charge[c] = 0 /\ attempts[c] = 0 /\ actual[c] = 0 /\ amount[c] > 0
       /\ "commit" \in pending[c] =>
            charge[c] = amount[c] /\ actual[c] > 0 /\ pc[c] # "call"

\* What a call may conclude from where it stands.
PlaceInv ==
  \A c \in Calls :
    /\ pc[c] = "idle" => pending[c] = {} /\ charge[c] = 0 /\ amount[c] = 0
    /\ pc[c] # "idle" /\ attempts[c] > 0 => retries = 0
    /\ pc[c] \in {"idle", "reserve", "record", "dispatch"} =>
         attempts[c] = 0 /\ actual[c] = 0
    /\ pc[c] \in {"record", "dispatch", "call"} =>
         pending[c] = {} /\ charge[c] = amount[c] /\ charge[c] > 0 /\ retries = 0
    /\ pc[c] = "reserve" => amount[c] > 0 /\ retries = 0 /\ "commit" \notin pending[c]
    /\ pc[c] = "reserve" /\ reply[c] = "ok" =>
         charge[c] = amount[c] /\ pending[c] = {}
    /\ pc[c] = "call" => actual[c] = 0 /\ attempts[c] = 1
    /\ pc[c] \in {"commit", "complete", "returned"} => actual[c] > 0
    /\ pc[c] = "commit" /\ reply[c] = "ok" => charge[c] = actual[c]
    /\ pc[c] = "commit" /\ reply[c] = "ok" => pending[c] = {}
    /\ pc[c] \in {"complete", "returned"} => charge[c] = actual[c] /\ pending[c] = {}
    /\ pc[c] = "complete" => c \in WithSink
    /\ pc[c] \in {"dispatch", "call", "commit", "complete"} /\ c \in WithSink =>
         begun[c] = "whole"

\* One request per hold: its invoice is the bill of the call, and an accepted
\* cost does not understate it.
BillInv ==
  \A c \in Calls :
    /\ attempts[c] \in {0, 1}
    /\ attempts[c] = 0 => bill[c] = 0 /\ invoice[c] = 0
    /\ bill[c] = invoice[c]
    /\ c \notin overrun => invoice[c] <= amount[c]
    /\ actual[c] > 0 => invoice[c] <= actual[c] /\ attempts[c] = 1

\* An evidence file exists only where its call has been.
EvidenceInv ==
  \A c \in Calls :
    /\ completed[c] # "none" =>
         pc[c] \in Ended /\ actual[c] > 0 /\ charge[c] = actual[c] /\ pending[c] = {}

IndInv ==
  /\ TypeOK
  /\ LedgerInv
  /\ PlaceInv
  /\ BillInv
  /\ EvidenceInv
  /\ RequestFenced
  /\ CompletionEarned
=============================================================================
