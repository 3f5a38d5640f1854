----------------------------- MODULE Qualification -----------------------------
(***************************************************************************)
(* kairos_llm/qualification.py: one paid qualification run.  The cost is   *)
(* planned, each provider's quota is probed, every selected route is       *)
(* called Samples times, and one report sums it up.                        *)
(*                                                                         *)
(* A sample that fails was charged or was not: its exception does not say. *)
(* Money is counted in units of the smallest charge.                       *)
(***************************************************************************)
EXTENDS Integers, Sequences, Functions

CONSTANTS Selected,    \* the workloads to qualify, in order
          ProviderOf,  \* the provider of a workload's route
          Ceiling,     \* reservation of one sample of a workload
          Samples,     \* samples_per_workload
          PlanLimits,  \* maximum_planned_cost_usd, as the caller may set it
          MaxTotal     \* policy: maximum_total_estimated_cost_usd

ASSUME SamplesPositive == Samples \in Nat \ {0}
ASSUME SelectedType == Selected \in Seq(STRING) \ {<<>>}

OpenAI == "openai"
Workloads == {Selected[i] : i \in 1..Len(Selected)}
Providers == {ProviderOf[w] : w \in Workloads}
Statuses  == {"PASS", "BLOCKED", "FAIL"}
Models    == {"backend A", "backend B"}

ASSUME MoneyType ==
  Ceiling \in [Workloads -> Nat] /\ PlanLimits \subseteq Nat /\ MaxTotal \in Nat

VARIABLES
  keys,       \* providers whose key file was supplied
  planLimit,
  phase,      \* "plan", "run", "refused", "interrupted" or "reported"
  quotas,     \* quota observations of the preflight
  headers,    \* inference_quota_headers of OpenAI
  calls,      \* model call observations, in order
  charged,    \* what the samples cost in the durable budget
  report

vars == <<keys, planLimit, phase, quotas, headers, calls, charged, report>>

\* Rate-limit headers: what is left of requests and tokens, and a retry hint.
Headers ==
  (UNION {[names -> {"positive", "zero"}] :
            names \in SUBSET {"remaining-requests", "remaining-tokens"}})
  \cup {[n \in {"retry-after"} |-> "zero"]}

NoHeaders == [n \in {} |-> "zero"]
NoReport  == [status |-> "none"]

Init ==
  /\ keys \in SUBSET Providers
  /\ planLimit \in PlanLimits
  /\ phase = "plan"
  /\ quotas = [p \in Providers |-> "unasked"]
  /\ headers = NoHeaders
  /\ calls = <<>>
  /\ charged = 0
  /\ report = NoReport

\* Plausible bug: the plan is that of one sample of each workload.
PlannedOnce == SumFunction([i \in DOMAIN Selected |-> Ceiling[Selected[i]]])

\* planned_cost_ceiling_usd
Planned == Samples * SumFunction([i \in DOMAIN Selected |-> Ceiling[Selected[i]]])

\* A plan above the limit is refused before any key is used.
Plan ==
  /\ phase = "plan"
  /\ phase' = IF Planned > planLimit THEN "refused" ELSE "run"
  /\ UNCHANGED <<keys, planLimit, quotas, headers, calls, charged, report>>

\* quota_probe, or its exception; without a key nothing is requested.
Preflight(p) ==
  /\ phase = "run" /\ quotas[p] = "unasked"
  /\ \E status \in IF p \in keys THEN Statuses ELSE {"BLOCKED"} :
       quotas' = [quotas EXCEPT ![p] = status]
  /\ UNCHANGED <<keys, planLimit, phase, headers, calls, charged, report>>

-----------------------------------------------------------------------------
(* The samples, one after the other. *)

Sampling ==
  /\ phase = "run"
  /\ \A p \in Providers : quotas[p] # "unasked"
  /\ Len(calls) < Len(Selected) * Samples

Current == Selected[(Len(calls) \div Samples) + 1]

Observe(status, cost, model, seen) ==
  calls' = Append(calls, [workload |-> Current, status |-> status, cost |-> cost,
                          model |-> model, seen |-> seen])

\* "no billable request was made"
Skip ==
  /\ Sampling
  /\ ProviderOf[Current] \notin keys
  /\ Observe("BLOCKED", 0, "none", NoHeaders)
  /\ UNCHANGED <<keys, planLimit, phase, quotas, headers, charged, report>>

\* Plausible bug: the first value of a header is kept.
MergeKeepingFirst(old, new) ==
  [n \in DOMAIN old \cup DOMAIN new |-> IF n \in DOMAIN old THEN old[n] ELSE new[n]]

\* dict.update: a later value replaces an earlier one, no name is forgotten.
Merge(old, new) ==
  [n \in DOMAIN old \cup DOMAIN new |-> IF n \in DOMAIN new THEN new[n] ELSE old[n]]

\* The result is the exact structured contract at its accounted cost.
Valid ==
  /\ Sampling
  /\ ProviderOf[Current] \in keys
  /\ \E cost \in 1..Ceiling[Current], model \in Models :
       \E seen \in IF ProviderOf[Current] = OpenAI THEN Headers ELSE {NoHeaders} :
         /\ Observe("PASS", cost, model, seen)
         /\ headers' = Merge(headers, seen)
         /\ charged' = charged + cost
  /\ UNCHANGED <<keys, planLimit, phase, quotas, report>>

\* _validate_result or the gateway raised: no cost is reported, whatever it was.
Failed ==
  /\ Sampling
  /\ ProviderOf[Current] \in keys
  /\ Observe("FAIL", 0, "none", NoHeaders)
  /\ \E cost \in 0..Ceiling[Current] : charged' = charged + cost
  /\ UNCHANGED <<keys, planLimit, phase, quotas, headers, report>>

-----------------------------------------------------------------------------
(* The report. *)

CallsOf(w) == {i \in DOMAIN calls : calls[i].workload = w}
PassesOf(w) == {i \in CallsOf(w) : calls[i].status = "PASS"}
Successful == {ProviderOf[calls[i].workload] :
                 i \in {j \in DOMAIN calls : calls[j].status = "PASS"}}

\* _positive_openai_rate_limit
Positive(h) ==
  /\ "retry-after" \notin DOMAIN h
  /\ "remaining-requests" \in DOMAIN h
  /\ \A n \in DOMAIN h : h[n] = "positive"

\* Inference headers decide for OpenAI; a preflight that failed while inference
\* worked leaves the quota unverified.
Quota(p) ==
  IF p = OpenAI /\ headers # NoHeaders
    THEN IF Positive(headers) THEN "PASS" ELSE "BLOCKED"
  ELSE IF quotas[p] = "FAIL" /\ p \in Successful THEN "BLOCKED"
  ELSE quotas[p]

KeyMissing == {"provider_key_missing", "availability_below_threshold",
               "latency_above_threshold"}

\* A plausible bug: the rates are taken over the calls that were validated.
ReasonsOfValidated(w, slow) ==
  {reason \in {"provider_key_missing"} : ProviderOf[w] \notin keys}
  \cup {reason \in {"latency_above_threshold"} : PassesOf(w) = {} \/ w \in slow}
  \cup {reason \in {"resolved_model_changed_within_probe"} :
          \E i, j \in PassesOf(w) : calls[i].model # calls[j].model}

\* Availability and quality are the same rate, and the policy asks for all.
Reasons(w, slow) ==
  {reason \in {"provider_key_missing"} : ProviderOf[w] \notin keys}
  \cup {reason \in {"availability_below_threshold"} : PassesOf(w) # CallsOf(w)}
  \cup {reason \in {"latency_above_threshold"} : PassesOf(w) = {} \/ w \in slow}
  \cup {reason \in {"resolved_model_changed_within_probe"} :
          \E i, j \in PassesOf(w) : calls[i].model # calls[j].model}

Summary(w, slow) ==
  IF Reasons(w, slow) = {} THEN "PASS"
  ELSE IF Reasons(w, slow) = KeyMissing THEN "BLOCKED"
  ELSE "FAIL"

Reported == SumFunction([i \in DOMAIN calls |-> calls[i].cost])

Overall(statuses) ==
  IF "FAIL" \in statuses THEN "FAIL"
  ELSE IF "BLOCKED" \in statuses THEN "BLOCKED"
  ELSE "PASS"

\* Which workloads are slow at the 95th percentile is the providers' doing.
Report ==
  /\ phase = "run"
  /\ \A p \in Providers : quotas[p] # "unasked"
  /\ Len(calls) = Len(Selected) * Samples
  /\ phase' = "reported"
  /\ \E slow \in SUBSET Workloads :
       LET summaries == [w \in Workloads |->
             IF Reported > MaxTotal THEN "FAIL" ELSE Summary(w, slow)]
           final == [p \in Providers |-> Quota(p)]
       IN  report' = [status |-> Overall({summaries[w] : w \in Workloads}
                                         \cup {final[p] : p \in Providers}),
                      quotas |-> final, cost |-> Reported]
  /\ UNCHANGED <<keys, planLimit, quotas, headers, calls, charged>>

\* A cancellation, no subclass of Exception, ends the run in a preflight or a
\* sample; a sample may be charged all the same, and there is no report.
Interrupt ==
  /\ phase = "run"
  /\ phase' = "interrupted"
  /\ \E cost \in IF Sampling /\ ProviderOf[Current] \in keys THEN 0..Ceiling[Current] ELSE {0} :
       charged' = charged + cost
  /\ UNCHANGED <<keys, planLimit, quotas, headers, calls, report>>

Next ==
  \/ Plan \/ Skip \/ Valid \/ Failed \/ Report \/ Interrupt
  \/ \E p \in Providers : Preflight(p)

Spec == Init /\ [][Next]_vars

-----------------------------------------------------------------------------
\* "planned qualification cost ceiling ... exceeds the configured limit": with
\* failed, repeated, invalid and interrupted samples included, a run is never
\* charged more than its caller allowed.
SpendWithinPlan == charged <= planLimit

\* Failed calls are reported at zero cost; a PASS nevertheless accounts for all
\* that was charged (up to the rounding of a charge to a whole microdollar, which
\* is below the unit of this module), and it is within the policy.
PassAccountsForAll ==
  report.status = "PASS" => report.cost = charged /\ charged <= MaxTotal

\* A run that lost a paid sample is a failure: never PASS, and never BLOCKED,
\* which says that nothing billable was tried.
FailuresFail ==
  phase = "reported" /\ (\E i \in DOMAIN calls : calls[i].status = "FAIL") =>
    report.status = "FAIL"

\* What OpenAI said last of its remaining capacity, over all valid samples.
LastSaid(name) ==
  LET told == {i \in DOMAIN calls : name \in DOMAIN calls[i].seen}
  IN  IF told = {} THEN "nothing"
      ELSE calls[CHOOSE i \in told : \A j \in told : j <= i].seen[name]

\* "A retry hint or limit definition is not remaining request capacity": once
\* OpenAI answered samples with rate-limit headers, its quota passes only if
\* the latest word on every limit is that capacity is left.
QuotaIsCurrent ==
  phase = "reported" /\ OpenAI \in Providers /\ headers # NoHeaders
    /\ report.quotas[OpenAI] = "PASS" =>
       /\ LastSaid("remaining-requests") = "positive"
       /\ LastSaid("remaining-tokens") # "zero"
       /\ LastSaid("retry-after") = "nothing"

-----------------------------------------------------------------------------
(* The inductive invariant. *)

HeaderNames == {"remaining-requests", "remaining-tokens", "retry-after"}

MergedHeaders == UNION {[names -> {"positive", "zero"}] : names \in SUBSET HeaderNames}

Observation ==
  [workload : Workloads, status : Statuses, cost : Nat, model : Models \cup {"none"},
   seen : Headers]

TypeOK ==
  /\ keys \subseteq Providers
  /\ planLimit \in Nat
  /\ phase \in {"plan", "run", "refused", "interrupted", "reported"}
  /\ quotas \in [Providers -> Statuses \cup {"unasked"}]
  /\ headers \in MergedHeaders
  /\ calls \in Seq(Observation)
  /\ charged \in Nat

\* What each sample of the run, in its order, may be charged.
Holds ==
  [i \in 1..(Samples * Len(Selected)) |-> Ceiling[Selected[((i - 1) \div Samples) + 1]]]

\* The samples made so far were charged no more than their reservations.
SpentInv ==
  /\ Len(calls) <= Samples * Len(Selected)
  /\ phase \in {"plan", "refused"} => charged = 0 /\ calls = <<>>
  /\ phase \notin {"plan", "refused"} => Planned <= planLimit /\ charged <= Planned
  /\ phase = "run" => charged <= SumFunctionOnSet(Holds, 1..Len(calls))

\* While nothing failed, what was charged is what the samples reported.
CallsInv ==
  /\ \A i \in DOMAIN calls :
       calls[i].status = "FAIL" => ProviderOf[calls[i].workload] \in keys
  /\ phase = "run" /\ (\A i \in DOMAIN calls : calls[i].status # "FAIL") =>
       charged = Reported

\* The merged headers are the latest word on every name.
HeadersInv ==
  \A name \in HeaderNames :
    LastSaid(name) = IF name \in DOMAIN headers THEN headers[name] ELSE "nothing"

NoReportInv == phase # "reported" => report = NoReport

IndInv ==
  /\ TypeOK
  /\ SpentInv
  /\ CallsInv
  /\ HeadersInv
  /\ NoReportInv
  /\ PassAccountsForAll
  /\ FailuresFail
  /\ QuotaIsCurrent
=============================================================================
