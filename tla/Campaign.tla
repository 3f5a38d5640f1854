------------------------------- MODULE Campaign -------------------------------
(***************************************************************************)
(* kairos_llm/campaign.py: one due window of AdaptiveCampaignScheduler, by *)
(* several schedulers on one repository, with the causal variant of        *)
(* kairos_llm/causal_campaign.py.                                          *)
(*                                                                         *)
(* The scheduler that claims the window evaluates it and calls the review  *)
(* and the proposal arm; the others, and itself after a restart, only      *)
(* account for it.  A write that fails may have taken effect, may do so    *)
(* later, or never.                                                        *)
(***************************************************************************)
EXTENDS Integers, FiniteSets

CONSTANTS Schedulers,  \* processes that run run_once() or reconcile()
          Causal,      \* CausalResearchScheduler: lateness by recording time
          PairedAt,    \* the window's paired_at_ts_ms, its decision cutoff
          Deadline,    \* its sample_deadline_ts_ms, the end of admission
          Horizon,     \* bound: the clock stops here
          MaxAborts,   \* bound: runs that crash or are cancelled
          MaxLate,     \* bound: given-up writes that may still land
          Nobody

ASSUME CausalType == Causal \in BOOLEAN
ASSUME TimesType ==
  /\ PairedAt \in Nat /\ Deadline \in Nat /\ Horizon \in Nat
  /\ MaxAborts \in Nat /\ MaxLate \in Nat
  /\ 0 < PairedAt /\ PairedAt <= Deadline /\ Deadline <= Horizon
ASSUME NobodyIsNoScheduler == Nobody \notin Schedulers

VARIABLES
  now,          \* the database clock
  claim,        \* the scheduler whose claim of the window is durable
  evaluation,   \* the evaluator receipt; durable once it has a recording time
  evaluations,  \* how often the evaluator ran
  costs,        \* cost receipts of _IndependentBudgetObserver, by arm
  ledger,       \* the shared provider budget, by arm
  started,      \* arms with a durable START
  reviewed,     \* arms with a review receipt
  terminal,     \* terminal receipts, by arm
  observedAt,   \* whether the decision of an arm was observed in time
  recordedAt,   \* whether it became durable in time
  sampled,      \* the causal sample of the proposal arm was recorded
  outcome,      \* the denominator
  calls,        \* how often an arm entered the provider client
  late,         \* <<arm, write>> that were given up but may still land
  pc,           \* where each scheduler is, or the write it awaits
  arm,          \* the arm the claiming scheduler works on
  responded,    \* arms whose _ObservedGateway saw a response
  wanted,       \* the terminal status the claiming scheduler writes
  verdict,      \* what _finalize concluded from its snapshot
  fallback,     \* the fallback status of _finalize
  aborts

facts    == <<evaluation, costs, ledger, started, reviewed, terminal, recordedAt, sampled>>
callVars == <<arm, responded, wanted, observedAt, calls>>
endVars  == <<verdict, fallback>>
vars == <<now, claim, evaluations, facts, outcome, late, pc,
          callVars, endVars, aborts>>

Review   == "strategy-review"
Proposal == "llm-proposal-research"
CallArms == {Review, Proposal}
Arms     == CallArms \cup {"strategy-only"}
Order    == <<"strategy-only", Review, Proposal>>

Stages == {"REQUESTED", "DENIED", "RESERVED", "COMMIT_REQUESTED", "COMMITTED"}
Writes == Stages \cup {"evaluation", "reserve", "start", "commit", "review",
                       "finish", "sample"}
Places == Writes \cup {"idle", "sources", "evaluate", "find", "cutoff", "admit",
                       "dispatch", "call", "snapshot", "outcomes", "record"}
Terminals == {"COMPLETED", "FAILED", "UNRESOLVED"}
Fallbacks == {"MISSED", "SOURCE_MISSING", "EVALUATOR_FAILED", "LATE", "BUDGET_BLOCKED"}
Statuses  == Fallbacks \cup {"BASELINE", "NO_INTENT", "REVIEWED", "PROPOSAL",
                             "CALL_FAILED", "UNKNOWN"}
Stamps == {"never", "timely", "late"}

NoEvaluation == [intent |-> "none", at |-> "timely", recorded |-> "never"]
NoVerdict == [a \in Arms |-> "none"]

Init ==
  /\ now = 0
  /\ claim = Nobody
  /\ evaluation = NoEvaluation
  /\ evaluations = 0
  /\ costs = [a \in CallArms |-> {}]
  /\ ledger = [a \in CallArms |-> "none"]
  /\ started = {}
  /\ reviewed = {}
  /\ terminal = [a \in CallArms |-> "open"]
  /\ observedAt = [a \in CallArms |-> "timely"]
  /\ recordedAt = [a \in CallArms |-> "never"]
  /\ sampled = FALSE
  /\ outcome = NoVerdict
  /\ calls = [a \in CallArms |-> 0]
  /\ late = {}
  /\ pc = [s \in Schedulers |-> "idle"]
  /\ arm = Review
  /\ responded = {}
  /\ wanted = [a \in CallArms |-> "open"]
  /\ verdict = [s \in Schedulers |-> NoVerdict]
  /\ fallback = [s \in Schedulers |-> "none"]
  /\ aborts = 0

\* What a receipt's time shows: it is compared with the cutoff, inclusively.
Stamp == IF now <= PairedAt THEN "timely" ELSE "late"

GoTo(s, place) == pc' = [pc EXCEPT ![s] = place]

\* _finalize(claim, fallback=status) begins.
Finalize(s, status) ==
  /\ GoTo(s, "snapshot")
  /\ fallback' = [fallback EXCEPT ![s] = status]
  /\ UNCHANGED verdict

Tick ==
  /\ now < Horizon
  /\ now' = now + 1
  /\ UNCHANGED <<claim, evaluations, facts, outcome, late, pc,
                 callVars, endVars, aborts>>

-----------------------------------------------------------------------------
(* run_once: claim, resolve the sources, evaluate. *)

\* A plausible bug: a claim is a lease that the next run takes over.
ClaimAgain(s) ==
  /\ pc[s] = "idle"
  /\ \A t \in Schedulers : claim = t => pc[t] = "idle"
  /\ \E a \in Arms : outcome[a] = "none"
  /\ claim' = s
  /\ IF now >= PairedAt
       THEN Finalize(s, "MISSED")
       ELSE GoTo(s, "sources") /\ UNCHANGED endVars
  /\ UNCHANGED <<now, evaluations, facts, outcome, late, callVars, aborts>>

\* claim_next is durable once; a window claimed too late is only accounted for.
ClaimNext(s) ==
  /\ pc[s] = "idle"
  /\ claim = Nobody
  /\ claim' = s
  /\ IF now >= PairedAt
       THEN Finalize(s, "MISSED")
       ELSE GoTo(s, "sources") /\ UNCHANGED endVars
  /\ UNCHANGED <<now, evaluations, facts, outcome, late, callVars, aborts>>

\* A plausible bug: a claim counts as settled once one arm has an outcome.
ReconcileUntouched(s) ==
  /\ pc[s] = "idle"
  /\ claim # Nobody /\ now >= PairedAt
  /\ \A a \in Arms : outcome[a] = "none"
  /\ Finalize(s, "MISSED")
  /\ UNCHANGED <<now, claim, evaluations, facts, outcome, late, callVars, aborts>>

\* reconcile(): an expired pending claim is accounted for, by any scheduler.
Reconcile(s) ==
  /\ pc[s] = "idle"
  /\ claim # Nobody /\ now >= PairedAt
  /\ \E a \in Arms : outcome[a] = "none"
  /\ Finalize(s, "MISSED")
  /\ UNCHANGED <<now, claim, evaluations, facts, outcome, late, callVars, aborts>>

Sources(s) ==
  /\ pc[s] = "sources"
  /\ \/ GoTo(s, "evaluate") /\ UNCHANGED endVars
     \/ Finalize(s, "SOURCE_MISSING")
  /\ UNCHANGED <<now, claim, evaluations, facts, outcome, late, callVars, aborts>>

\* The evaluator answers within the timeout, and its receipt is recorded next.
Evaluate(s) ==
  /\ pc[s] = "evaluate"
  /\ evaluations' = evaluations + 1
  /\ \/ /\ \E intent \in {"intent", "no intent"} :
             evaluation' = [intent |-> intent, at |-> Stamp, recorded |-> "never"]
        /\ GoTo(s, "evaluation") /\ UNCHANGED endVars
     \/ Finalize(s, "EVALUATOR_FAILED") /\ UNCHANGED evaluation
  /\ UNCHANGED <<now, claim, costs, ledger, started, reviewed, terminal, recordedAt,
                 sampled, outcome, late, callVars, aborts>>

-----------------------------------------------------------------------------
(* The writes of the claiming scheduler. *)

Evaluated == evaluation.recorded # "never"

\* _evaluation_is_late; the causal one also asks when it was recorded.
LateEvaluation ==
  \/ evaluation.at = "late"
  \/ Causal /\ evaluation.recorded = "late"

\* decision_recorded_at: when the first receipt of a decision became durable.
Decided(a) == a \in reviewed \/ terminal[a] # "open"

Apply(a, w) ==
  /\ evaluation' = IF w = "evaluation" THEN [evaluation EXCEPT !.recorded = Stamp]
                                       ELSE evaluation
  /\ costs' = IF w \in Stages THEN [costs EXCEPT ![a] = @ \cup {w}] ELSE costs
  /\ ledger' = CASE w = "reserve" -> [ledger EXCEPT ![a] = "held"]
                 [] w = "commit" -> [ledger EXCEPT ![a] = "settled"]
                 [] OTHER -> ledger
  /\ started' = IF w = "start" THEN started \cup {a} ELSE started
  /\ reviewed' = IF w = "review" THEN reviewed \cup {a} ELSE reviewed
  /\ terminal' = IF w = "finish" THEN [terminal EXCEPT ![a] = wanted[a]] ELSE terminal
  /\ recordedAt' = IF w \in {"review", "finish"} /\ ~Decided(a)
                     THEN [recordedAt EXCEPT ![a] = Stamp] ELSE recordedAt
  /\ sampled' = (sampled \/ w = "sample")

\* What was given up may still land, up to the bound; the rest never does.
GiveUp(writes) ==
  late' = IF Cardinality(late \cup writes) <= MaxLate THEN late \cup writes ELSE late

\* A write that was given up lands after all.
LandLate ==
  \E w \in late :
    /\ Apply(w[1], w[2])
    /\ late' = late \ {w}
    /\ UNCHANGED <<now, claim, evaluations, outcome, pc, callVars, endVars, aborts>>

\* A plausible bug: the completion is noted while the commit is under way.
CommitUnfenced ==
  [REQUESTED |-> "reserve", reserve |-> "RESERVED", RESERVED |-> "start", start |-> "dispatch",
   COMMIT_REQUESTED |-> "COMMITTED", commit |-> "COMMITTED"]

\* What follows a write of _AttemptBudget and _IndependentBudgetObserver.
NextWrite ==
  [REQUESTED |-> "reserve", reserve |-> "RESERVED", RESERVED |-> "start", start |-> "dispatch",
   COMMIT_REQUESTED |-> "commit", commit |-> "COMMITTED"]

Write(s) == pc[s] \in Writes /\ Apply(arm, pc[s])

\* Each fence of the budget operations is durable before the next step.
Fence(s) ==
  /\ pc[s] \in DOMAIN NextWrite
  /\ Write(s)
  /\ GoTo(s, NextWrite[pc[s]])
  /\ UNCHANGED <<now, claim, evaluations, outcome, late, callVars, endVars, aborts>>

\* run_once after the call of an arm: the cutoff, or the end of the window.
EndOfArm(s) ==
  IF arm = Review
    THEN GoTo(s, "cutoff") /\ UNCHANGED endVars
    ELSE Finalize(s, "BUDGET_BLOCKED")

\* The evaluation is durable: late, reviewed, or without an intent to review.
EvaluationRecorded(s) ==
  /\ pc[s] = "evaluation"
  /\ Write(s)
  /\ IF LateEvaluation'
       THEN Finalize(s, "LATE")
       ELSE /\ GoTo(s, IF evaluation.intent = "intent" THEN "find" ELSE "cutoff")
            /\ UNCHANGED endVars
  /\ UNCHANGED <<now, claim, evaluations, outcome, late, callVars, aborts>>

\* The causal window of START is checked before anything is reserved.
Admit(s) ==
  /\ pc[s] \in {"find", "admit"}
  /\ IF now < Deadline
       THEN GoTo(s, "REQUESTED") /\ UNCHANGED endVars
       ELSE EndOfArm(s)
  /\ UNCHANGED <<now, claim, evaluations, facts, outcome, late, callVars, aborts>>

\* The shared cap denies the reservation, which is a receipt of its own.
ReserveDenied(s) ==
  /\ pc[s] = "reserve"
  /\ GoTo(s, "DENIED")
  /\ UNCHANGED <<now, claim, evaluations, facts, outcome, late, callVars, endVars, aborts>>

DenialRecorded(s) ==
  /\ pc[s] = "DENIED"
  /\ Write(s)
  /\ EndOfArm(s)
  /\ UNCHANGED <<now, claim, evaluations, outcome, late, callVars, aborts>>

\* _failure_terminal, or the terminal of a complete proposal, goes to _finish.
Conclude(s, status) ==
  /\ GoTo(s, "finish")
  /\ wanted' = [wanted EXCEPT ![arm] = status]

Dispatch(s) ==
  /\ pc[s] = "dispatch"
  /\ GoTo(s, "call")
  /\ calls' = [calls EXCEPT ![arm] = @ + 1]
  /\ UNCHANGED <<now, claim, evaluations, facts, outcome, late, arm, responded,
                 wanted, observedAt, endVars, aborts>>

Respond(s) ==
  /\ pc[s] = "call"
  /\ responded' = responded \cup {arm}
  /\ observedAt' = [observedAt EXCEPT ![arm] = Stamp]
  /\ \/ GoTo(s, "COMMIT_REQUESTED") /\ UNCHANGED wanted
     \/ Conclude(s, "UNRESOLVED")
  /\ UNCHANGED <<now, claim, evaluations, facts, outcome, late, arm, calls, endVars, aborts>>

\* A plausible bug: the exception is classified although a response was seen.
ClassifiedByErrorAlone(a, classified) == IF classified THEN "FAILED" ELSE "UNRESOLVED"

\* _failure_terminal: only an error without a response is a provider failure.
FailureStatus(a, classified) ==
  IF a \notin responded /\ classified THEN "FAILED" ELSE "UNRESOLVED"

\* An error or the timeout of the call, or no client before it.
CallFails(s) ==
  /\ pc[s] \in {"dispatch", "call"}
  /\ observedAt' = [observedAt EXCEPT ![arm] = Stamp]
  /\ \E classified \in (IF pc[s] = "call" THEN BOOLEAN ELSE {FALSE}) :
       Conclude(s, FailureStatus(arm, classified))
  /\ UNCHANGED <<now, claim, evaluations, facts, outcome, late, arm, responded,
                 calls, endVars, aborts>>

\* The exact cost is durable; the output is valid evidence or it is not.
Committed(s) ==
  /\ pc[s] = "COMMITTED"
  /\ Write(s)
  /\ \/ arm = Review /\ GoTo(s, "review") /\ UNCHANGED wanted
     \/ arm = Proposal /\ Conclude(s, "COMPLETED")
     \/ Conclude(s, "UNRESOLVED")
  /\ UNCHANGED <<now, claim, evaluations, outcome, late, arm, responded, observedAt,
                 calls, endVars, aborts>>

ReviewRecorded(s) ==
  /\ pc[s] = "review"
  /\ Write(s)
  /\ GoTo(s, "cutoff")
  /\ UNCHANGED <<now, claim, evaluations, outcome, late, callVars, endVars, aborts>>

\* Plausible bug: only the time the worker observed the decision is asked.
LateByObservation(a) == observedAt[a] = "late"

\* A decision counts from when it was observed and from when it was recorded.
LateDecision(a) == observedAt[a] = "late" \/ recordedAt[a] = "late"

\* A terminal is durable; a timely one of the proposal arm is replayed as a
\* causal sample, except for a timeout, which leaves as an exception.
Finished(s) ==
  /\ pc[s] = "finish"
  /\ Write(s)
  /\ UNCHANGED <<now, claim, evaluations, outcome, late, callVars, aborts>>
  /\ LET timely == arm = Proposal /\ wanted[arm] # "UNRESOLVED" /\ ~LateDecision(arm)'
     IN  \/ timely /\ GoTo(s, "sample") /\ UNCHANGED endVars
         \/ (timely => wanted[arm] = "FAILED") /\ EndOfArm(s)

SampleRecorded(s) ==
  /\ pc[s] = "sample"
  /\ Write(s)
  /\ EndOfArm(s)
  /\ UNCHANGED <<now, claim, evaluations, outcome, late, callVars, aborts>>

\* A write is given up.  Before START was seen to succeed there is no call and
\* no terminal; after a response the attempt is unresolved.
WriteFails(s) ==
  /\ pc[s] \in Writes
  /\ GiveUp({<<arm, pc[s]>>})
  /\ \/ /\ pc[s] = "evaluation"
        /\ Finalize(s, "EVALUATOR_FAILED") /\ UNCHANGED wanted
     \/ /\ pc[s] \in {"REQUESTED", "reserve", "DENIED", "RESERVED", "start",
                      "finish", "sample"}
        /\ EndOfArm(s) /\ UNCHANGED wanted
     \/ /\ pc[s] \in {"COMMIT_REQUESTED", "commit", "COMMITTED", "review"}
        /\ Conclude(s, "UNRESOLVED") /\ UNCHANGED endVars
  /\ UNCHANGED <<now, claim, evaluations, facts, outcome, arm, responded, observedAt,
                 calls, aborts>>

\* No proposal is started at or after the cutoff.
Cutoff(s) ==
  /\ pc[s] = "cutoff"
  /\ IF now >= PairedAt
       THEN Finalize(s, "MISSED") /\ UNCHANGED arm
       ELSE GoTo(s, "admit") /\ arm' = Proposal /\ UNCHANGED endVars
  /\ UNCHANGED <<now, claim, evaluations, facts, outcome, late, responded, wanted,
                 observedAt, calls, aborts>>

-----------------------------------------------------------------------------
(* _finalize: statuses reconstructed from a snapshot of the durable facts. *)

CallVerdict(a) ==
  IF ~Decided(a) \/ terminal[a] = "UNRESOLVED" THEN "UNKNOWN"
  ELSE IF LateDecision(a) THEN "LATE"
  ELSE IF a \in reviewed THEN "REVIEWED"
  ELSE IF terminal[a] = "FAILED" THEN "CALL_FAILED"
  ELSE "PROPOSAL"

Known(a, default) ==
  IF Evaluated /\ LateEvaluation THEN "LATE"
  ELSE IF a = "strategy-only" /\ Evaluated
    THEN IF evaluation.intent = "intent" THEN "BASELINE" ELSE "NO_INTENT"
  ELSE IF a = Review /\ Evaluated /\ evaluation.intent = "no intent" /\ a \notin started
    THEN "NO_INTENT"
  ELSE IF a \in started THEN CallVerdict(a)
  ELSE IF default = "BUDGET_BLOCKED" /\ now >= PairedAt THEN "MISSED"
  ELSE default

\* A plausible bug: only a durable START makes an arm uncertain.
StartMakesUnknown(a) == FALSE

\* A reservation was asked for, not known to be denied, and led to no START.
SpendUnknown(a) ==
  /\ a \in CallArms \ started
  /\ "REQUESTED" \in costs[a] /\ "DENIED" \notin costs[a]

Snapshot(s) ==
  /\ pc[s] = "snapshot"
  /\ verdict' = [verdict EXCEPT ![s] =
       [a \in Arms |-> IF SpendUnknown(a) THEN "UNKNOWN" ELSE Known(a, fallback[s])]]
  /\ GoTo(s, "outcomes")
  /\ fallback' = [fallback EXCEPT ![s] = "none"]
  /\ UNCHANGED <<now, claim, evaluations, facts, outcome, late, callVars, aborts>>

\* Arms that already have an outcome keep it.
Outcomes(s) ==
  /\ pc[s] = "outcomes"
  /\ verdict' = [verdict EXCEPT ![s] =
       [a \in Arms |-> IF outcome[a] = "none" THEN verdict[s][a] ELSE "none"]]
  /\ GoTo(s, "record")
  /\ UNCHANGED <<now, claim, evaluations, facts, outcome, late, callVars, fallback, aborts>>

Run(s) ==
  /\ GoTo(s, "idle")
  /\ verdict' = [verdict EXCEPT ![s] = NoVerdict]
  /\ fallback' = [fallback EXCEPT ![s] = "none"]

\* Outcomes are recorded one arm after the other, in their order.
Turn(s, a) ==
  \E i \in 1..3 :
    /\ a = Order[i] /\ verdict[s][a] # "none"
    /\ \A j \in 1..(i - 1) : verdict[s][Order[j]] = "none"

\* The clock is read once more, before the insert.
RecordOutcome(s) ==
  /\ pc[s] = "record"
  /\ \E a \in Arms :
       /\ Turn(s, a) /\ outcome[a] = "none"
       /\ \E status \in {verdict[s][a]} \cup
            (IF verdict[s][a] = "BUDGET_BLOCKED" /\ now >= PairedAt THEN {"MISSED"} ELSE {}) :
            outcome' = [outcome EXCEPT ![a] = status]
       /\ verdict' = [verdict EXCEPT ![s][a] = "none"]
  /\ UNCHANGED <<now, claim, evaluations, facts, late, callVars, pc, fallback, aborts>>

\* An outcome another scheduler recorded meanwhile is a conflict, and one that
\* the attempt has overtaken since the snapshot may be: the run ends.
OutcomeRefused(s) ==
  /\ pc[s] = "record"
  /\ \E a \in Arms :
       /\ Turn(s, a)
       /\ outcome[a] # "none" \/ (a \in started /\ verdict[s][a] # CallVerdict(a))
  /\ Run(s)
  /\ UNCHANGED <<now, claim, evaluations, facts, outcome, late, callVars, aborts>>

Finalized(s) ==
  /\ pc[s] = "record" /\ verdict[s] = NoVerdict
  /\ Run(s)
  /\ UNCHANGED <<now, claim, evaluations, facts, outcome, late, callVars, aborts>>

\* The process dies, or an error or a cancellation ends run_once; the write it
\* awaited may still land, and a cancelled call still writes its terminal.
Abort(s) ==
  /\ pc[s] # "idle" /\ aborts < MaxAborts
  /\ aborts' = aborts + 1
  /\ LET awaited == IF pc[s] \in Writes THEN {<<arm, pc[s]>>} ELSE {} IN
     \/ /\ GiveUp(awaited)
        /\ UNCHANGED <<wanted, observedAt>>
     \/ /\ pc[s] \in {"call", "COMMIT_REQUESTED", "commit", "COMMITTED", "review"}
        /\ GiveUp(awaited \cup {<<arm, "finish">>})
        /\ wanted' = [wanted EXCEPT ![arm] = FailureStatus(arm, TRUE)]
        /\ observedAt' = [observedAt EXCEPT ![arm] = IF pc[s] = "call" THEN Stamp ELSE @]
  /\ Run(s)
  /\ UNCHANGED <<now, claim, evaluations, facts, outcome, arm, responded, calls>>

-----------------------------------------------------------------------------
Step(s) ==
  \/ ClaimNext(s) \/ Reconcile(s) \/ Sources(s) \/ Evaluate(s) \/ EvaluationRecorded(s)
  \/ Admit(s) \/ Fence(s) \/ ReserveDenied(s) \/ DenialRecorded(s) \/ Dispatch(s)
  \/ Respond(s) \/ CallFails(s) \/ Committed(s) \/ ReviewRecorded(s) \/ Finished(s)
  \/ SampleRecorded(s) \/ WriteFails(s) \/ Cutoff(s)
  \/ Snapshot(s) \/ Outcomes(s) \/ RecordOutcome(s) \/ OutcomeRefused(s)
  \/ Finalized(s)

Next ==
  \/ Tick
  \/ LandLate
  \/ \E s \in Schedulers : Step(s) \/ Abort(s)

Spec == Init /\ [][Next]_vars

\* Time passes, and whoever runs run_once() or reconcile() runs it again: every
\* await of a run ends, at the latest by its timeout.
FairSpec == Spec /\ WF_vars(Tick) /\ \A s \in Schedulers : WF_vars(Step(s))

-----------------------------------------------------------------------------
TypeOK ==
  /\ now \in 0..Horizon
  /\ claim \in Schedulers \cup {Nobody}
  /\ evaluation \in [intent : {"none", "intent", "no intent"}, at : {"timely", "late"},
                     recorded : Stamps]
  /\ evaluations \in Nat
  /\ costs \in [CallArms -> SUBSET Stages]
  /\ ledger \in [CallArms -> {"none", "held", "settled"}]
  /\ started \subseteq CallArms
  /\ reviewed \subseteq {Review}
  /\ terminal \in [CallArms -> Terminals \cup {"open"}]
  /\ observedAt \in [CallArms -> {"timely", "late"}]
  /\ recordedAt \in [CallArms -> Stamps]
  /\ sampled \in BOOLEAN
  /\ outcome \in [Arms -> Statuses \cup {"none"}]
  /\ calls \in [CallArms -> Nat]
  /\ late \subseteq CallArms \X Writes
  /\ pc \in [Schedulers -> Places]
  /\ arm \in CallArms
  /\ responded \subseteq CallArms
  /\ wanted \in [CallArms -> Terminals \cup {"open"}]
  /\ verdict \in [Schedulers -> [Arms -> Statuses \cup {"none"}]]
  /\ fallback \in [Schedulers -> Fallbacks \cup {"none"}]
  /\ aborts \in 0..MaxAborts

Timely(a) == observedAt[a] = "timely" /\ recordedAt[a] = "timely"

NeverCalled(a) == a \in CallArms => calls[a] = 0

\* The denominator tells the truth, now and later: a status is never
\* contradicted by a fact that lands after it was recorded.
OutcomeHonest ==
  \A a \in Arms :
    /\ outcome[a] = "BASELINE" => Evaluated /\ evaluation.intent = "intent" /\ ~LateEvaluation
    /\ outcome[a] = "NO_INTENT" =>
         Evaluated /\ evaluation.intent = "no intent" /\ NeverCalled(a)
    /\ outcome[a] = "REVIEWED" => a \in reviewed /\ Timely(a)
    /\ outcome[a] = "PROPOSAL" => terminal[a] = "COMPLETED" /\ Timely(a)
    /\ outcome[a] = "CALL_FAILED" => terminal[a] = "FAILED" /\ Timely(a)
    /\ outcome[a] = "LATE" =>
         \/ Evaluated /\ LateEvaluation
         \/ a \in CallArms /\ Decided(a) /\ ~Timely(a)
    /\ outcome[a] = "BUDGET_BLOCKED" => NeverCalled(a) /\ ledger[a] = "none"
    /\ outcome[a] \in {"SOURCE_MISSING", "EVALUATOR_FAILED"} => NeverCalled(a)
    /\ outcome[a] = "UNKNOWN" => a \in started \/ "REQUESTED" \in costs[a]
    /\ outcome[a] = "MISSED" => now >= PairedAt

\* "A committed window claim is never re-evaluated or resent after restart."
NeverResent == evaluations <= 1 /\ \A a \in CallArms : calls[a] <= 1

\* "Budget-operation fences distinguish known denial from uncertain
\* reservation/commit": the receipts bracket what the ledger holds.
CostFences ==
  \A a \in CallArms :
    /\ ledger[a] # "none" => "REQUESTED" \in costs[a] /\ "DENIED" \notin costs[a]
    /\ "RESERVED" \in costs[a] => ledger[a] # "none"
    /\ ledger[a] = "settled" => "COMMIT_REQUESTED" \in costs[a]
    /\ "COMMITTED" \in costs[a] => ledger[a] = "settled"
    /\ calls[a] > 0 => "RESERVED" \in costs[a] /\ a \in started

\* A causal sample pairs an evaluation with a decision, both known and durable
\* in time, whatever the denominator says.
SampleTimely ==
  sampled =>
    /\ Evaluated /\ ~LateEvaluation
    /\ terminal[Proposal] \in {"COMPLETED", "FAILED"}
    /\ Timely(Proposal)

\* Both arms go through the admission order of a research attempt.
Contract == INSTANCE AttemptContract WITH
  Attempts <- CallArms,
  Samples <- CallArms,
  SampleOf <- [a \in CallArms |-> a],
  spend <- ledger,
  admitted <- started,
  called <- {a \in CallArms : calls[a] > 0},
  verdict <- terminal

KeepsContract == Contract!Spec

\* "Every due window receives all three denominator outcomes."
EveryWindowCounted == <>(\A a \in Arms : outcome[a] # "none")
-----------------------------------------------------------------------------
(* The inductive invariant of the claiming scheduler and of the writes it   *)
(* gave up.                                                                 *)

\* Where only the scheduler that claimed the window can be.
Working  == Writes \cup {"sources", "evaluate", "find", "cutoff", "admit", "dispatch", "call"}
Deciding == Working \ {"sources", "evaluate", "evaluation"}
Calling  == {"REQUESTED", "reserve", "DENIED", "RESERVED", "start", "dispatch", "call",
             "COMMIT_REQUESTED", "commit", "COMMITTED", "review"}

Idle == \A s \in Schedulers : pc[s] \notin Working

\* No write of an arm was given up.
Fresh(a) == \A w \in Writes \ {"evaluation"} : <<a, w>> \notin late

Untouched(a) ==
  /\ costs[a] = {} /\ ledger[a] = "none" /\ calls[a] = 0
  /\ terminal[a] = "open" /\ a \notin reviewed /\ Fresh(a)

\* An arm is begun once, and the evaluator and the review go first.
OrderInv ==
  /\ claim = Nobody =>
       /\ evaluations = 0 /\ arm = Review /\ ~sampled /\ late = {}
       /\ Untouched(Review) /\ Untouched(Proposal)
  /\ \A s \in Schedulers : pc[s] \in Working =>
       /\ claim = s
       /\ pc[s] \in {"sources", "evaluate"} => evaluations = 0
       /\ pc[s] \in {"sources", "evaluate", "evaluation", "find"} =>
            arm = Review /\ Untouched(Review)
       /\ pc[s] = "cutoff" => arm = Review
       /\ pc[s] \in {"admit", "sample"} => arm = Proposal
       /\ pc[s] \in {"admit", "REQUESTED"} => Untouched(arm)
       /\ arm = Review => Untouched(Proposal)

\* What the receipts and the ledger hold at each place of a call.
CallInv ==
  \A s \in Schedulers :
    /\ pc[s] \in Calling => Fresh(arm) /\ terminal[arm] = "open" /\ arm \notin reviewed
    /\ pc[s] \in {"reserve", "DENIED"} => costs[arm] = {"REQUESTED"} /\ ledger[arm] = "none"
    /\ pc[s] = "RESERVED" => costs[arm] = {"REQUESTED"} /\ ledger[arm] = "held"
    /\ pc[s] \in {"start", "dispatch", "call", "COMMIT_REQUESTED"} =>
         costs[arm] = {"REQUESTED", "RESERVED"} /\ ledger[arm] = "held"
    /\ pc[s] \in {"commit", "COMMITTED"} =>
         costs[arm] = {"REQUESTED", "RESERVED", "COMMIT_REQUESTED"}
    /\ pc[s] = "commit" => ledger[arm] = "held"
    /\ pc[s] = "COMMITTED" => ledger[arm] = "settled"
    /\ pc[s] \in {"reserve", "DENIED", "RESERVED", "start", "dispatch"} => calls[arm] = 0
    /\ pc[s] = "dispatch" => arm \in started
    /\ pc[s] = "review" => arm = Review
    /\ pc[s] = "finish" => terminal[arm] = "open" /\ wanted[arm] # "open"
    /\ pc[s] = "finish" => <<arm, "finish">> \notin late /\ <<arm, "sample">> \notin late

\* A write that may still land finds what it was based on.
LateInv ==
  /\ \A a \in CallArms :
       /\ <<a, "reserve">> \in late => costs[a] = {"REQUESTED"} /\ ledger[a] = "none"
       /\ <<a, "reserve">> \in late => <<a, "DENIED">> \notin late
       /\ <<a, "DENIED">> \in late => ledger[a] = "none"
       /\ \A w \in {"RESERVED", "COMMIT_REQUESTED"} : <<a, w>> \in late => ledger[a] # "none"
       /\ <<a, "commit">> \in late => ledger[a] # "none" /\ "COMMIT_REQUESTED" \in costs[a]
       /\ <<a, "COMMITTED">> \in late => ledger[a] = "settled"
       /\ <<a, "evaluation">> \in late => Idle
       /\ Decided(a) => recordedAt[a] # "never"
  /\ <<Proposal, "review">> \notin late

\* A causal sample has its evaluation and its decision, and they stay.
PairInv ==
  /\ \A s \in Schedulers : pc[s] \in Deciding => Evaluated /\ ~LateEvaluation
  /\ sampled \/ (\E a \in CallArms : <<a, "sample">> \in late) => Idle
  /\ sampled \/ (\E a \in CallArms : <<a, "sample">> \in late)
             \/ (\E s \in Schedulers : pc[s] = "sample") =>
       /\ Evaluated /\ ~LateEvaluation
       /\ terminal[Proposal] \in {"COMPLETED", "FAILED"} /\ Timely(Proposal)
       /\ <<Proposal, "finish">> \notin late
       /\ \A a \in CallArms : <<a, "evaluation">> \notin late

IndInv ==
  TypeOK /\ OrderInv /\ CallInv /\ LateInv /\ PairInv /\ NeverResent /\ CostFences

\* What a terminal that is about to be written, or may land later, is based on.
Concludes(a) ==
  /\ terminal[a] = "open" /\ a \in started /\ wanted[a] \in Terminals
  /\ wanted[a] = "COMPLETED" => ledger[a] = "settled"
  /\ wanted[a] = "FAILED" => calls[a] > 0 /\ ledger[a] = "held" /\ <<a, "commit">> \notin late

\* With which each arm keeps the contract of an attempt.
AdmissionInv ==
  /\ \A a \in CallArms :
       /\ a \in started => ledger[a] # "none"
       /\ calls[a] > 0 => a \in started
       /\ ledger[a] = "settled" => calls[a] > 0
       /\ <<a, "start">> \in late => a \notin started /\ ledger[a] # "none"
       /\ <<a, "commit">> \in late => calls[a] > 0 /\ terminal[a] # "FAILED"
       /\ <<a, "finish">> \in late => Concludes(a)
  /\ \A s \in Schedulers :
       /\ pc[s] \in {"REQUESTED", "reserve", "DENIED", "RESERVED", "start"} => arm \notin started
       /\ pc[s] \in {"call", "COMMIT_REQUESTED", "commit", "COMMITTED", "review"} => calls[arm] > 0
       /\ pc[s] \in {"COMMIT_REQUESTED", "commit", "COMMITTED", "review"} => arm \in responded
       /\ pc[s] = "finish" => Concludes(arm)
\* The claiming scheduler has left the window to _finalize, and nobody comes back.
Over == claim # Nobody /\ Idle

\* What a status rests on, such that nothing that lands afterwards takes it away.
Rests(a, status) ==
  /\ status = "BASELINE" => Evaluated /\ evaluation.intent = "intent" /\ ~LateEvaluation
  /\ status = "NO_INTENT" =>
       Evaluated /\ evaluation.intent = "no intent" /\ a # Proposal /\ NeverCalled(a)
  /\ status = "REVIEWED" => a \in reviewed /\ Timely(a)
  /\ status = "PROPOSAL" => a \in CallArms /\ terminal[a] = "COMPLETED" /\ Timely(a)
  /\ status = "CALL_FAILED" => a \in CallArms /\ terminal[a] = "FAILED" /\ Timely(a)
  /\ status = "LATE" =>
       \/ Evaluated /\ LateEvaluation
       \/ a \in CallArms /\ Decided(a) /\ ~Timely(a)
  /\ status \in {"SOURCE_MISSING", "EVALUATOR_FAILED", "BUDGET_BLOCKED"} =>
       Over /\ NeverCalled(a)
  /\ status = "BUDGET_BLOCKED" =>
       a \in CallArms /\ ledger[a] = "none" /\ <<a, "reserve">> \notin late
  /\ status = "UNKNOWN" => a \in started \/ (a \in CallArms /\ "REQUESTED" \in costs[a])
  /\ status = "MISSED" => now >= PairedAt

\* The evaluation is recorded once, and the review is called for an intent only.
EvaluationInv ==
  /\ Evaluated => evaluation.intent # "none"
  /\ claim = Nobody => ~Evaluated
  /\ \A s \in Schedulers :
       /\ pc[s] \in {"sources", "evaluate", "evaluation"} => ~Evaluated
       /\ pc[s] = "evaluation" => evaluation.intent # "none"
       /\ pc[s] \in Calling \cup {"find"} /\ arm = Review => evaluation.intent = "intent"
  /\ <<Proposal, "evaluation">> \notin late
  /\ <<Review, "evaluation">> \in late => ~Evaluated /\ evaluation.intent # "none"

\* What a scheduler knows when it begins _finalize with this fallback.
Falls(status) ==
  /\ status = "MISSED" => now >= PairedAt
  /\ status = "LATE" => Evaluated /\ LateEvaluation
  /\ status \in {"SOURCE_MISSING", "EVALUATOR_FAILED", "BUDGET_BLOCKED"} => Over
  /\ status = "BUDGET_BLOCKED" => Evaluated

\* With which an outcome is honest: so is what a scheduler is about to record.
OutcomeInv ==
  /\ EvaluationInv
  /\ \A s \in Schedulers :
       Falls(fallback[s]) /\ \A a \in Arms : Rests(a, verdict[s][a])
  /\ \A a \in Arms : Rests(a, outcome[a])
-----------------------------------------------------------------------------
(* What the counting of a window rests on.                                  *)

\* How far a place is from the end of the arm, or of _finalize.
Ahead ==
  [place \in Places |->
     CASE place = "sources"          -> 22
       [] place = "evaluate"         -> 21
       [] place = "evaluation"       -> 20
       [] place \in {"find", "admit"} -> 19
       [] place = "REQUESTED"        -> 18
       [] place = "reserve"          -> 17
       [] place \in {"DENIED", "RESERVED"} -> 16
       [] place = "start"            -> 15
       [] place = "dispatch"         -> 14
       [] place = "call"             -> 13
       [] place = "COMMIT_REQUESTED" -> 12
       [] place = "commit"           -> 11
       [] place = "COMMITTED"        -> 10
       [] place = "review"           -> 9
       [] place = "finish"           -> 8
       [] place = "sample"           -> 7
       [] place = "cutoff"           -> 6
       [] place = "snapshot"         -> 3
       [] place = "outcomes"         -> 2
       [] place = "record"           -> 1
       [] OTHER                      -> 0]

\* While the review is under way the proposal is still to come.
Route(s) == Ahead[pc[s]] + (IF pc[s] \in Working /\ arm = Review THEN 30 ELSE 0)

\* A run never returns to what it has left: not to the evaluator after an error, not
\* to an arm after its cutoff, not to a decision after _finalize has begun.
RunsForward ==
  [][\A s \in Schedulers :
       pc[s] # "idle" /\ pc'[s] # pc[s] => Route(s)' < Route(s)]_vars

\* "Every due window receives all three denominator outcomes": a _finalize that ends
\* neither by an interruption nor by a conflict has passed over no arm, and what is
\* recorded stays.
FinalizeCounts ==
  [][/\ \A s \in Schedulers : Finalized(s) => \A a \in Arms : outcome'[a] # "none"
     /\ \A a \in Arms : outcome[a] # "none" => outcome'[a] = outcome[a]]_vars

\* A snapshot comes to a conclusion on all arms, and only what is recorded is left
\* out of it.
SnapshotInv ==
  \A s \in Schedulers :
    /\ pc[s] = "snapshot" => fallback[s] \in Fallbacks
    /\ pc[s] = "outcomes" => \A a \in Arms : verdict[s][a] # "none"
    /\ pc[s] = "record" => \A a \in Arms : outcome[a] # "none" \/ verdict[s][a] # "none"
=============================================================================
