# A verification development for kairos-llm

TLA+ modules, TLC configurations and TLAPS proofs about `kairos_llm`: the
library that routes Kairos' model calls, holds money for each of them before it
is sent, keeps evidence of what happened, and runs preregistered research
campaigns on top. Source references are to `kairos_llm/*.py` of this repository.
`kairos_persistence`, `kairos_core`, `kairos_router` and `kairos_strategy` are
other repositories; what the code relies on from them is modelled from how it is
used here and from the doubles in `tests/`, and is marked *external*.

- [The system](#the-system)
- [The modules](#the-modules)
- [The runs, their bounds and what they show](#the-runs-their-bounds-and-what-they-show)
- [What is proved](#what-is-proved)
- [What is only model-checked](#what-is-only-model-checked)
- [What is not modelled](#what-is-not-modelled)
- [Plan](#plan)

## The system

A call passes through four layers, each of which awaits the one below it:

    campaign.py   AdaptiveCampaignScheduler      one claim per due window, three arms
    research.py   ResearchProposalCoordinator    one admitted attempt per sample
    budget.py     BudgetedLLMGateway             hold, call once, commit the exact cost
    gateway.py    LLMGateway                     request loop, classification, usage

Below and beside them are three stores that many processes share: the provider
budget ledger (`reserve`, `commit`), the research journal (START and terminal
rows, evaluations, samples) and the campaign repository (claims, receipts,
outcomes). Every one of them is reached over a connection that can fail after
the request took effect. The two qualification commands are run by hand, pay for
their calls and leave a report file, and one of them a folder of receipts as well:
what they promise depends on the file system after a crash or a power failure.

| component | state it keeps | operations | what makes it correct |
| --- | --- | --- | --- |
| Research attempt (`research.py` 103-300, 514-584) | START, terminal, hold of an attempt; the observed response | `observe` | only a new START permits a call; one call per sample; a terminal never contradicts call or ledger |
| Sample replay (`research.py` 302-377) | the recorded decision sample | `replay_sample` | a sample that tells of a call is backed by the journal |
| Budgeted call (`budget.py`) | hold, charge, evidence files | `complete` | the ledger never counts less than the invoice; the cap holds; evidence fences |
| Arithmetic (`budget.py` 231-267, `pricing.py`, `gateway.py` 362-383) | price, ceilings, usage | `reservation_cost`, `cost`, `_usage_from`, `_microusd` | the charge covers the invoice, the hold covers the charge |
| Request loop (`gateway.py` 90-208, 349-400) | attempt counter, accountant, client cache | `complete`, `close` | retries are transient and bounded; an accounted answer is final; no open client is out of the cache |
| Campaign (`campaign.py`, `causal_campaign.py` 234-319) | claim, evaluation, cost receipts, outcomes | `run_once`, `reconcile`, `_review`, `_finalize` | never re-evaluated, never resent; every window counted, each outcome true |
| Route qualification (`qualification.py`) | quota and call observations, report | `qualify_live_llms`, `qualify_llms` | spending stays within the plan; PASS hides no paid failure |
| Semantic qualification (`semantic_qualification.py`) | the receipts folder with its plan, a receipt per case, observations, report | `qualify_live_semantic_llms`, `qualify_semantic_llms` | no case is paid twice, also after a crash; the receipts say what was paid; the report claims no more than happened |
| Report file (`qualification.py` 635-656) | the file at the output path | `_write_report` | what is there is one process's whole report |
| Evidence files (`call_evidence.py` 247-441) | one file per call and phase | `create_only` | never overwritten; replay of equal bytes is a no-op |
| Proposals (`proposals.py`) | none | builders, publish once | only admissible records; no repeated publication |

The hard parts are not in any one of these but between them: an await that is
cancelled while its request is on the way, a process that dies between two
stores, two processes that both read "nothing there yet", a clock that passes
the cutoff between a check and its use, a provider that bills what it did not
answer. `PROJECT.json` lists these hazards with the line where each bites and
the properties that would show it going wrong.

## The modules

| module | models | abstracts |
| --- | --- | --- |
| `AttemptContract` | the promise of the admission order: hold, admit, call, settle, conclude | observers, requests, failures |
| `ResearchAttempt` | `observe()` by concurrent observers; implements `AttemptContract` | prompts, digests and receipts; the checks of `_prepare` are one failure |
| `ResearchReplay` | `replay_sample()` beside the observers (extends `ResearchAttempt`) | the comparison of frozen digests is one refusal |
| `Allowance` | the promise of `BudgetedLLMGateway`: hold, send once, settle once, no refund | callers, the ledger's answers, evidence, failures |
| `BudgetedCall` | `BudgetedLLMGateway.complete` by callers that share an allowance; implements `Allowance` | prices are a chosen amount; the request loop is a counter |
| `RetryGateway` | `LLMGateway.complete` | request and response bodies |
| `GatewayClients` | the client cache under `complete()`, and `close()` (extends `RetryGateway`) | the SDK clients are a provider and a number |
| `Pricing` | ceilings, formulas, usage and rounding of one call | floating point: the arithmetic is exact |
| `Campaign` | one window, several schedulers, both variants; each arm implements `AttemptContract` | the loop over several windows, preregistration digests |
| `Qualification` | plan, preflight, samples, report | latencies are a chosen set of slow workloads; money is in units |
| `ReportFile` | `_write_report` by several processes, and what a power failure leaves | temporary files have no names |
| `SemanticQualification` | the paid synthetic command, several runs on one path, crashes and power failures (extends `ReportFile`) | cases are their workload; a result is a status, a cost and a backend |

`MC*` modules give the constants finite values. `*_proofs` modules hold the
theorems: `Research_proofs` those of the attempt and the replay, `Budget_proofs`
those of the budgeted call and the arithmetic. `Sums` holds the laws of finite sums.

### How the modules meet

`AttemptContract` and `Allowance` are the abstract specifications. `ResearchAttempt` implements it
by mapping the ledger row to `spend`, the START rows to `admitted`, the observers
inside the provider client to `called` and the terminal rows to `verdict`.
`Campaign` implements it as well, with its two arms as attempts: the same budget
wrappers run under other receipts there. `BudgetedCall` implements `Allowance`: a
call counts what its ledger row holds, was sent when it has attempts, is owed its
bill and is settled when its commit landed. `BudgetedCall` details the layer that
`ResearchAttempt` shows as reserve, call and commit, and `RetryGateway` and
`Pricing` detail the request and the amounts that `BudgetedCall` chooses:
`BudgetedCall` takes from them that a gateway with `max_retries = 0` sends one
request (`SpendBounded`), that an accepted cost does not understate the invoice
(`InvoiceCovered`) and that the invoice of a request within its limits fits the
hold (`HoldCoversInvoice`).

### State and actions

*Awaits.* A coroutine has a place (`pc`) per await. In `ResearchAttempt` and
`BudgetedCall` a write to a store is issued by one action (the request becomes
`pending`), takes effect in another (`LandReserve`, `LandStart`, `LandCommit`,
`LandFinish`, external), and a third one resumes the caller, if it still waits.
A cancelled, failed or crashed caller leaves its request pending: it may still
land, at any time, or never. In `Campaign` a write takes effect when its caller
resumes, or is given up by `WriteFails` or `Abort` and then may land later
(`LandLate`). No action between two awaits of the code is split, and no action
spans an await whose failure matters.

*`ResearchAttempt`.* `Find` is `journal.find_attempt`; `Reserve` is the causal
window check of `make_start` and the reservation; `Start` and `StartAdmitted` or
`StartDuplicate` are `start_attempt` and its answer; `Dispatch` enters the
provider client. `FailureStatus` is `_failure_terminal`: an error is classified
only if no response was seen. `CallCancelled` records a terminal and raises the
cancellation again. `Conclude` is `_finish`.

*`BudgetedCall`.* The constructor's refusal of retries is `AcceptsGateway`. The
provider's invoice is fixed when a request is sent and hidden from the caller; a
provider that bills more than the hold has ignored the limits of the request and
is in `overrun`. The evidence file of a phase is absent, partial or whole.

*`GatewayClients`.* `Connect` is `_client_for`: it has no await, so that a client
is taken or added in one step. `close()` iterates over the live dictionary with an
await per client: `Close` and `CloseNext` close one client each, `CloseRaises` is
the "dictionary changed size during iteration" of an addition in between (the size
is all that CPython checks), `Clear` ends the iteration. A request on a client that
was closed fails as a connection error before it reaches the provider (external).
After a `close()` that ended, or raised, another one may begin.

*`RetryGateway`.* `failure` is the exception of the latest request, by kind;
`Classify` is `_classify_failure` with `_classify_http_failure`. `max_retries`
starts anywhere from -1, because the settings do not exclude a negative value. A
loop that has no attempt left raises, as the code's last line does; the clamp keeps a
call from getting there.

*`Campaign`.* `claim_next` gives a window to one scheduler for ever. `Fence`
walks the receipts and effects of `_IndependentBudgetObserver` and
`_AttemptBudget` in their order: REQUESTED, reserve, RESERVED, START, call,
COMMIT_REQUESTED, commit, COMMITTED. `Snapshot` and `Outcomes` are the two reads
of `_finalize`, `RecordOutcome` its inserts, one arm after the other; what other
schedulers and late writes do in between is visible. A receipt's time is kept as
what it shows against the cutoff: "timely" or "late".

*`Qualification`.* One action per sample; `charged` is what the samples cost in
the ledger, which the exception of a failed sample does not tell.

*`SemanticQualification`.* `Check` and `MakeFolder` are apart, as in the code, where
the database is verified between them; `WritePlan`, `ReadKey`, and for every case
`Probe`, one of `Raised`, `Invalid` and `Answered`, and `WriteReceipt`. `Fails` is
an exception, `Die` a kill or a cancellation at any point; either may leave the
file it was writing absent, cut or unflushed. `PowerLoss` takes all processes and
whatever was not flushed.

*`ReportFile`.* The look at the path, the temporary file and the rename are three
steps. The file system is external: flushed text survives, and with it its name,
for a file that was created and flushed in place; written text may be lost or cut;
a rename may be undone, since the directory is not flushed.

*`Pricing`.* `Readings` are the usages `_usage_from` may return for one invoice,
depending on what the provider leaves out of its response.

## The runs, their bounds and what they show

| run | instance | distinct states | shows |
| --- | --- | --- | --- |
| `contract` | 3 identities, 2 samples | 190 | a sample's calls and verdicts under the contract alone |
| `attempt` | 3 observers, 2 identities of 1 sample | 106,674 | admission race, competing identity, refinement of the contract; no observer waits for ever |
| `replay` | 2 observers, 2 replays, 2 identities | 134,540 | replay against a moving journal |
| `budget` | 2 calls, one with a sink; cap 3, holds up to 2 | 8,814 | cap race, lost answers, partial records |
| `requests` | 1 call and `close()`, 2 providers, `max_retries` -1..2 | 507,602 | retries, health sink, when a call raises, termination, the cache |
| `pricing` | rates 0, 1, 3, 4 per 10 tokens; up to 4 tokens of a kind | 531,000 | every rounding and omission |
| `campaign` | causal, 2 schedulers, 1 abort, 2 late writes | 2.76 million | the whole window |
| `campaign_base` | base variant, 1 late write, cutoff long before the deadline | 1.55 million | the same outcomes without recording times |
| `campaign_counts` | base, 1 abort | 420 thousand | every window is counted |
| `qualification` | 2 workloads, 2 samples, both providers | 702,780 | plan, failures, interruptions, quota headers |
| `semantic` | 2 runs and 1 route qualifier on one path, 2 workloads with 2 cases, 1 power failure | 1.38 million | one paying run, its receipts, its report |
| `report_overwritten` | 2 route qualifiers without `--overwrite` | expects a violation | the second report replaces the first |

*Why the bounds are enough.* Two observers of one identity are the smallest
admission race, the third brings the competing identity of the same sample;
nothing in the code distinguishes a fourth. A cap that admits either reservation
but not both is the only interesting relation of cap and holds. `MaxRetries = 2`
has a first, a middle and a last retry. `Scale = 10` with rates below it makes
every charge meet the rounding. In `Campaign`, one abort with two late writes
reaches a run that dies with the answer of its commit and of its terminal
outstanding while the other scheduler finalises; the clock takes the values
before, at and after the cutoff. `MaxAborts`, `MaxLate` and `Horizon` bound runs,
not behaviour: a run that is past them continues without further trouble. Two
samples of a workload are the smallest number for which headers, resolved models
and failures of different samples mix. Callers of `RetryGateway` share totals,
updated between two awaits, and the client cache; the clients that other calls may
have left there are in the initial states, and one caller beside a `close()` that may
be called again adds to the cache at every point of the iteration. Two runs of the paid command are the
smallest race for the folder; a run that comes after a crash or a power failure is
the second one. `Ceiling = 1` lets a case cost nothing or something, which is all
that the sums tell apart, and two cases of one workload are the fewest for which a
backend can change. After one power failure nothing of what was lost comes back, so
that a second one would find a subset of what the first one may leave.

`CHECK_DEADLOCK FALSE` is in every configuration: an observer, a call, a window or
a report ends, and then nothing more happens.

*Symmetry* is used where interchangeable identities appear in no temporal
property with fairness: `contract`, `campaign`, `campaign_base`, `semantic`.

*Fairness.* `attempt`: weak fairness of each observer's steps and landings.
The event loop resumes a coroutine whose await is over; a database answers or its
driver raises, and the provider call is bounded by `request_timeout_s`. Crashes
and cancellations are never forced. `requests`: weak fairness of the call's steps,
with the assumption that a health sink ends, which the code does not enforce;
nothing is assumed of `close()`.
`campaign_counts`: time passes and each scheduler takes its enabled steps. That
someone runs `run_once` or `reconcile` again is an assumption about the
deployment.

### Properties

- `DispatchFenced`, `OneDispatchPerSample`: "Only a successful new insert permits
  dispatch" (`docs/SIM-RESEARCH-COORDINATOR.md`).
- `TerminalHonest`: FAILED means called, unanswered, and still held; COMPLETED
  means answered and settled. A cancelled commit is where this is at stake.
- `ObservationDurable`: what `observe` returned is what the journal says.
- `SampleBacked`: what a replay read early and records late, as a proposal or a failed
  call, is what the journal says. Of NOT_CALLED it says nothing, see below.
- `NothingUnaccounted`, `CapRespected`: the class comment of
  `BudgetedLLMGateway`, "it cannot silently spend the same monthly dollars twice".
- `KeepsPromise`: the same comment, "call once, then commit" and "deliberately leaves
  its reservation outstanding": row by row the ledger holds before the request, has
  one request and one exact cost per hold, and is never refunded. `LedgerBalances`:
  the counter that the cap is compared with is the sum of the rows.
- `RequestFenced`, `CompletionEarned`: the two evidence files bracket call and commit.
- `AnswerIsFinal`, `SpendBounded`, `EveryCallEnds`: the paragraph on retries and
  health in `README.md`. `RaisedWhenSpent`: the other side of it. A call that raises had
  no client, or has asked the provider, also under a negative `max_retries`; and a
  failure that may pass ends it only when all its retries are used up.
- `InvoiceCovered`, `HoldCoversInvoice`, `CeilingsSuffice`: no omission in a
  provider's usage and no rounding understates an invoice, and no answer within
  the ceilings is thrown away for its price.
- `OutcomeHonest`: an outcome stays true, also against what lands after it was
  recorded. `NeverResent`, `CostFences`, `SampleTimely`, `EveryWindowCounted`:
  the campaign paragraphs of `README.md` and of the scheduler's comments.
- `NoClientLost`: an open client is in the cache, where a later `close()` finds it,
  also when a call adds one while `close()` awaits.
- `OncePerCase`, `ReceiptsExplainLedger`, `ReportHonest`: "exactly once", "never
  automatic rerun/resume" and "written atomically" of
  `docs/SYNTHETIC-SHADOW-POLICY.md`, over crashes and power failures: the flushed
  plan keeps every later run out, and the flushed receipts account for all cases
  but the one in progress. `ReportWhole`: no report is cut.
- `NoOverwrite` is violated (`report_overwritten`): `_write_report` looks at the
  path once and renames over it later, so that two processes that both find it
  free both succeed, and one report is lost. The paid command is not affected
  between its own runs, since only one of them makes the folder.
- `SpendWithinPlan`, `PassAccountsForAll`, `FailuresFail`, `QuotaIsCurrent`: a
  qualification report is an account of what was paid.

- `IndInv` of `ResearchAttempt` and of `RetryGateway` contain the type invariants of
  these modules, `LedgerBalances` that of `BudgetedCall`. The type invariant of
  `Campaign` is proved and in no run.

Every property has a mutant in `PROJECT.json`: an operator beside the definition
it replaces, introduced by "a plausible bug", under which TLC finds the property
violated.

Of the repositories the properties use that a claim, a START, a terminal and an
outcome are unique; two of their other checks they do not rest on. `_finalize` writes an
outcome from a snapshot; that the repository may refuse one which the attempt has
overtaken is an action of the model (`OutcomeRefused`, external), and so is that it
accepts it (`RecordOutcome`): `OutcomeHonest` holds of both. Its clause for MISSED
asks no more than the code ensures, that the cutoff was reached. At the very instant
of the cutoff a scheduler may still start an attempt, whose decision is then timely,
while another one records MISSED (`campaign.py` 232). That a stored START never
becomes NOT_CALLED is what `record_verified_sample` ensures (external): `replay_sample`
reads the journal once and does not look again before it hands over the sample, so
no property claims it of this code.

## What is proved

All theorems hold for every value of the constants: any number of observers,
attempts, samples, calls, retries, schedulers, processes and cases, any rates and
token counts, any clock, and any number of crashes, of writes that land late and of
power failures.

- `AttemptContract_proofs`: `ContractInv` is inductive; the three promises follow.
  Nothing is assumed but the type of `SampleOf`.
- `Research_proofs`, the attempt: `IndInv` is inductive. The properties are not: that
  the owner of START is the only one to dispatch needs what each observer may
  conclude from where it stands (`AdmissionInv`), what the rows say of each other
  (`RowsInv`), and that what an observer wants to record is already honest
  (`OutcomeInv`), with the requests still under way included. One lemma per part
  (`TypeStep`, `RowsStep`, `AdmissionStep`, `OutcomeStep`, `ObservationStep`), one
  step per action. `Fenced`, `SentOnce`, `Honest` and `Durable` follow.
  `Implements` shows that every step is a step of the contract or invisible to it:
  `LandReserve` is Hold, `LandStart` is Admit, `Dispatch` is Call, `LandCommit` is
  Settle, `LandFinish` is Conclude.
- `Research_proofs`, the replay: the invariant of the attempt goes on holding beside
  the replays, and what a replay has read of a call that ended stays true
  (`ReplayInductive`). `Backed` follows.
- `Budget_proofs`, the budgeted call: an inductive invariant of five parts: the
  ledger row is the hold or the accepted cost (`LedgerInv`), what a place implies
  (`PlaceInv`), one request per hold (`BillInv`), where a completed record may exist
  (`EvidenceInv`), with `RequestFenced` and `CompletionEarned`. `CapHolds`,
  `Accounted`, `Fenced` and `Earned` follow. `Balanced` adds the sum: a step changes
  one row and the counter by the difference (`SumReplace`), which needs that the
  calls are finitely many (`CallsFinite`). `KeepsPromiseAlways` is the refinement of
  `Allowance`: `LandReserve` is Hold, `Request` is Send, `LandCommit` is Settle, and
  everything else, the abandoned call above all, is invisible. There the cap says that
  the new row fits beside the sum of the others, so that it rests on `Balanced`.
- `Budget_proofs`, the arithmetic. Lemmas: more tokens or a dearer rate cost
  more, rounding up never loses, each omission costs at least the invoice.
  Assumed: rates and counts are naturals; a registered price has cached <= input
  <= write, which `DEFAULT_PRICES` satisfies.
- What termination rests on, as safety. `GoesForward` of `Campaign_proofs`: a run
  passes each place once (`Route`, which counts the proposal as still to come while the
  review is under way). `WindowCounted`: a snapshot has a status for every arm and
  only recorded arms are dropped from it (`SnapshotInv`), so that a `_finalize` that is
  neither interrupted nor refused has counted all three. `GoesForward` and
  `NobodyWaitsInVain`, of the attempt and of the budgeted call: whatever fails, a
  coroutine only moves to a later await (`Left` counts what is left), and an await it
  stands in was answered or can still be. `RunsDown`, of the request loop: `Fuel` counts the awaits that a call may
  still pass, four for each request that `max_retries` leaves it; every failure, sleep,
  notice and cancellation lowers it, and `close()` does not touch it.
- `RetryGateway_proofs`: of the loop beside `close()` (`GatewaySpec`). `LoopInv`
  relates requests, bills and accounts to the place in the loop; `TransientOnly`,
  `FinalAnswer` and `BoundedSpend` follow. `ClientsKept` needs that only clients the
  iteration has not come to are open (`CloserInv`). `Spent` needs what a call on its
  way to raising has asked (`SpentOK`).
- `Campaign_proofs`: `IndInv` ties the claim to the one scheduler that works on the
  window (`OrderInv`), the receipts and the ledger to the place of its call
  (`CallInv`), and what may still land to what it was based on (`LateInv`): a given
  up write never meets a state in which it would do harm, because its arm is never
  begun again. With `PairInv`, which says the same of the evaluation and the
  decision that a sample pairs, `ResentNever`, `CostsFenced` and `SamplesTimely`
  follow. One lemma per action (`FenceSafe`, `FinishedSafe`, ...), two for the
  writes that are given up (`LeftBehind`) and land later (`LandLateSafe`), and one
  for steps that leave the facts alone (`Rest`). `Implements` adds `AdmissionInv`,
  what a terminal that is still to be written is based on (`Concludes`), and shows
  that each arm keeps `AttemptContract`. `OutcomesHonest` needs more than what a
  status says when it is written: `Rests` is what it rests on, chosen such that no
  step takes it away (`RestsStay`), and `Forward` is what every step leaves of the
  facts (`StepForward`). A fallback that blames the run itself (`Falls`) is only used
  once the claiming scheduler has left the window (`Over`); after that nothing can
  reserve or call. `OutcomeInv` says this of what is recorded and of what a scheduler
  still holds in hand, so a second scheduler that finalizes from an old snapshot is
  covered. Assumed: the times are naturals, the cutoff is not after the deadline,
  `Nobody` is no scheduler.
- `Qualification_proofs`: `IndInv` says that what was spent is at most the holds of
  the samples so far, which fit into the plan that the limit was compared with
  (`SpentInv`), that while no sample has failed the ledger holds what will be
  reported, and a failed one had a key (`CallsInv`), and that the merged headers are
  what was said last (`HeadersInv`). `PlanKept` compares two sums that the code adds up
  in different orders: route by route with `Samples` as a factor before the run
  (`planned_cost_ceiling_usd`, `SumRepeat`), sample by sample while it runs (`HoldsAddUp`).
  `PassAccounts`, `LostSamplesFail` and `QuotaCurrent` follow. Assumed: at least one
  sample and one workload, ceilings and limits are naturals.
- `SemanticQualification_proofs`: the folder with its flushed plan belongs to one
  run and outlives it (`FolderInv`), and receipts follow the order of the cases
  (`ReceiptInv`). `OneRunPays`, `LedgerExplained` and `Reports` follow.
  `ReportIsHonest` needs a second invariant on top (`HonestInv`): what a run has
  observed adds up to what the ledger was charged for the cases it observed
  (`SeenInv`), a report in a writer's hands says no more than that (`TextInv`), and so
  does a report at the path, and the one a power failure would bring back, long after
  its writer is gone (`FilesInv`): it stays true because nothing is sent any more once
  a run is at its report (`Closed`). Assumed: the runs are writers, `NoText` is by none
  of them, and there is at least one case.
- `Sums`: `SumFunctionOnSet` of the community modules takes the elements of a set in
  an order that `CHOOSE` picks. That this recursion defines a function, that the order
  does not matter, and the laws of the sum (`SumSplit`, `SumSubset`, `SumReplace`,
  `SumNext`, `SumRepeat`) are proved for all finite sets. There is no induction rule
  to cite for it: each proof assumes that a law fails, takes a smallest subset of which
  it fails, and removes an element.

`IndInv` of `Qualification`, `HonestInv`, `NobodyForgotten`, `ForwardOnly`,
`CallsRunDown`, `RunsForward`, `FinalizeCounts` and `SnapshotInv` held on the instances of the runs before they were proved; they are in
no configuration, since they say in more detail what the runs' properties say.

## What is only model-checked

The liveness properties (`EveryObserverEnds`, `EveryCallEnds`,
`EveryWindowCounted`), since the prover cannot reason about fairness. Their safety
parts are proved (`GoesForward`, `NobodyWaitsInVain`, `RunsDown`, `WindowCounted`);
that an await ends and that someone runs the scheduler again is fairness. All other properties of the
passing runs are theorems; that `NoOverwrite` is violated is what its run shows.

## What is not modelled

Floating point: `budget.py` computes with floats and rounds up at the end; a sum
that should be a whole microdollar can be held one microdollar higher. Calendar
months of the allowance. Two `close()` calls that overlap: nothing in the repository
closes a gateway twice at a time. They would not be safe beside new calls, since an
iteration checks the size of the cache only, which the other `close()` may have
emptied and calls may have filled again in between. Windows security descriptors, file permissions and
symbolic link checks of `call_evidence.py` (pure I/O). `models.py` (a table),
`config.py`, `errors.py`, the command lines, the continuous-integration script.
`proposals.py` and the causal projector are pure functions over receipts; whether
they accept is a choice in `ResearchAttempt` and `Campaign`; the publish-once helper
is one await without a retry. The replay of an evidence record that exists already:
no caller emits a call and a phase twice, and a session directory has one process.
Several windows in one `run_once`: windows share nothing but the ledger, and the
claims of a tick are worked off one after the other.

## Plan

Built, in this order: the contract and the attempt; the replay; the budgeted call;
the campaign; the request loop; qualification; the arithmetic; the client cache and
`close()`; the report file and the paid synthetic command; the allowance; the proofs
of all of them.

Left:

1. Several windows of one tick in `Campaign`, sharing the ledger.
2. `create_only` against a second writer of the same record, should a caller ever
   emit one twice.
