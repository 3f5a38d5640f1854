--------------------------- MODULE ResearchAttempt ---------------------------
(***************************************************************************)
(* kairos_llm/research.py: ResearchProposalCoordinator.observe, with the   *)
(* _AttemptBudget and _ObservedGateway it puts around the single-call      *)
(* BudgetedLLMGateway.complete of kairos_llm/budget.py.                    *)
(*                                                                         *)
(* An observer is one run of observe(): a concurrent coordinator, or the   *)
(* same one after a restart.  Every observer of an attempt identity shares *)
(* one reservation and one START row with the others.  A write to the      *)
(* ledger or the journal is a request that lands later than it is issued,  *)
(* and may land after its caller was cancelled, gave up or crashed.        *)
(***************************************************************************)
EXTENDS Naturals

CONSTANTS Observers,  \* runs of observe()
          Attempts,   \* attempt identities
          Samples,    \* campaign/arm/sample slots
          SampleOf,   \* the slot of an attempt identity
          Target,     \* the attempt identity an observer computes in _prepare
          Nobody      \* no observer: the START row is absent

ASSUME TargetType == Target \in [Observers -> Attempts]
ASSUME SampleOfType == SampleOf \in [Attempts -> Samples]
ASSUME NobodyIsNoObserver == Nobody \notin Observers

VARIABLES
  ledger,      \* budget rows: attempt -> "none", "held" or "settled"
  started,     \* journal START rows: attempt -> the observer that wrote it
  terminal,    \* journal terminal rows: attempt -> status or "open"
  expired,     \* samples whose deadline has passed
  dispatched,  \* observers that entered the provider client
  pc,          \* where each observer is; the name of the request it awaits
  pending,     \* the requests of an observer that have not landed
  reply,       \* what the awaited request answered
  response,    \* _ObservedGateway.response and how validation found it
  outcome,     \* the terminal status an observer wants to record
  cancelled,   \* observers whose CancelledError must be raised again
  seen         \* the terminal an observer returned to its caller

stores == <<ledger, started, terminal>>
vars == <<ledger, started, terminal, expired, dispatched, pc, pending, reply,
          response, outcome, cancelled, seen>>

Statuses == {"COMPLETED", "FAILED", "UNRESOLVED"}
Requests == {"reserve", "start", "commit", "finish"}
Ended    == {"observed", "raised", "crashed"}
Places   == {"find", "admit", "reread", "dispatch", "call"} \cup Requests \cup Ended
Replies  == {"none", "ok", "denied", "duplicate", "conflict"}

Init ==
  /\ ledger = [a \in Attempts |-> "none"]
  /\ started = [a \in Attempts |-> Nobody]
  /\ terminal = [a \in Attempts |-> "open"]
  /\ expired = {}
  /\ dispatched = {}
  /\ pc = [o \in Observers |-> "find"]
  /\ pending = [o \in Observers |-> {}]
  /\ reply = [o \in Observers |-> "none"]
  /\ response = [o \in Observers |-> "none"]
  /\ outcome = [o \in Observers |-> "open"]
  /\ cancelled = {}
  /\ seen = [o \in Observers |-> "unseen"]

-----------------------------------------------------------------------------
(* How an observer moves between its awaits. *)

GoTo(o, place) ==
  /\ pc' = [pc EXCEPT ![o] = place]
  /\ reply' = [reply EXCEPT ![o] = "none"]

Issue(o, request) ==
  /\ GoTo(o, request)
  /\ pending' = [pending EXCEPT ![o] = @ \cup {request}]

\* _finish(terminal): the status is fixed, only its persistence may fail.
Conclude(o, status) ==
  /\ Issue(o, "finish")
  /\ outcome' = [outcome EXCEPT ![o] = status]

\* A request takes effect; its caller hears of it only if it still waits.
Land(o, request, answer) ==
  /\ request \in pending[o]
  /\ pending' = [pending EXCEPT ![o] = @ \ {request}]
  /\ reply' = IF pc[o] = request THEN [reply EXCEPT ![o] = answer] ELSE reply
  /\ UNCHANGED <<expired, dispatched, pc, response, outcome, cancelled, seen>>

Observe(o) ==
  /\ GoTo(o, "observed")
  /\ seen' = [seen EXCEPT ![o] = terminal[Target[o]]]

-----------------------------------------------------------------------------
(* observe(): saved facts are replayed, otherwise the attempt is admitted.  *)

Find(o) ==
  /\ pc[o] = "find"
  /\ IF started[Target[o]] # Nobody
       THEN Observe(o)
       ELSE GoTo(o, "admit") /\ UNCHANGED seen
  /\ UNCHANGED <<stores, expired, dispatched, pending, response, outcome, cancelled>>

\* The causal window is checked before any budget is consumed.
Reserve(o) ==
  /\ pc[o] = "admit"
  /\ SampleOf[Target[o]] \notin expired
  /\ Issue(o, "reserve")
  /\ UNCHANGED <<stores, expired, dispatched, response, outcome, cancelled, seen>>

\* Reservations are idempotent by identity; a new one may exceed the cap.
LandReserve(o) ==
  LET a == Target[o] IN
  \/ /\ Land(o, "reserve", "ok")
     /\ ledger' = [ledger EXCEPT ![a] = IF @ = "none" THEN "held" ELSE @]
     /\ UNCHANGED <<started, terminal>>
  \/ /\ ledger[a] = "none"
     /\ Land(o, "reserve", "denied")
     /\ UNCHANGED stores

Start(o) ==
  /\ pc[o] = "reserve" /\ reply[o] = "ok"
  /\ Issue(o, "start")
  /\ UNCHANGED <<stores, expired, dispatched, response, outcome, cancelled, seen>>

SampleTaken(a) ==
  \E b \in Attempts \ {a} : SampleOf[b] = SampleOf[a] /\ started[b] # Nobody

\* start_attempt is one transaction: a new row, the same row, or a conflict.
LandStart(o) ==
  LET a == Target[o] IN
  \/ /\ started[a] = Nobody /\ ~SampleTaken(a)
     /\ Land(o, "start", "ok")
     /\ started' = [started EXCEPT ![a] = o]
     /\ UNCHANGED <<ledger, terminal>>
  \/ /\ started[a] # Nobody
     /\ Land(o, "start", "duplicate")
     /\ UNCHANGED stores
  \/ /\ started[a] = Nobody /\ SampleTaken(a)
     /\ Land(o, "start", "conflict")
     /\ UNCHANGED stores

\* A plausible bug: the answer of start_attempt is not looked at.
StartAnswerIgnored(o) ==
  /\ pc[o] = "start" /\ reply[o] # "none"
  /\ GoTo(o, "dispatch")
  /\ UNCHANGED <<stores, expired, dispatched, pending, response, outcome, cancelled, seen>>

\* Only a successful new insert permits dispatch (budget.start is set here).
StartAdmitted(o) ==
  /\ pc[o] = "start" /\ reply[o] = "ok"
  /\ GoTo(o, "dispatch")
  /\ UNCHANGED <<stores, expired, dispatched, pending, response, outcome, cancelled, seen>>

\* A plausible bug: a lost admission race is retried.
RetryDuplicate(o) ==
  /\ pc[o] = "start" /\ reply[o] = "duplicate"
  /\ GoTo(o, "admit")
  /\ UNCHANGED <<stores, expired, dispatched, pending, response, outcome, cancelled, seen>>

\* _AttemptAlreadyStarted: read the winner's facts instead of calling again.
StartDuplicate(o) ==
  /\ pc[o] = "start" /\ reply[o] = "duplicate"
  /\ GoTo(o, "reread")
  /\ UNCHANGED <<stores, expired, dispatched, pending, response, outcome, cancelled, seen>>

Reread(o) ==
  /\ pc[o] = "reread"
  /\ IF started[Target[o]] # Nobody
       THEN Observe(o)
       ELSE GoTo(o, "raised") /\ UNCHANGED seen
  /\ UNCHANGED <<stores, expired, dispatched, pending, response, outcome, cancelled>>

\* Nothing was admitted: ResearchEvidenceError, "no provider dispatch".
AdmissionRefused(o) ==
  /\ \/ pc[o] = "admit" /\ SampleOf[Target[o]] \in expired
     \/ pc[o] \in {"reserve", "start"} /\ reply[o] \in {"denied", "conflict"}
  /\ GoTo(o, "raised")
  /\ UNCHANGED <<stores, expired, dispatched, pending, response, outcome, cancelled, seen>>

-----------------------------------------------------------------------------
(* The provider call and what it leads to. *)

Dispatch(o) ==
  /\ pc[o] = "dispatch"
  /\ GoTo(o, "call")
  /\ dispatched' = dispatched \cup {o}
  /\ UNCHANGED <<stores, expired, pending, response, outcome, cancelled, seen>>

\* No provider client can be built: not a provider failure, so UNRESOLVED.
DispatchImpossible(o) ==
  /\ pc[o] = "dispatch"
  /\ Conclude(o, "UNRESOLVED")
  /\ UNCHANGED <<stores, expired, dispatched, response, cancelled, seen>>

\* A response within the reserved envelope is committed at its actual cost.
ResponseUsable(o) ==
  /\ pc[o] = "call"
  /\ response' = [response EXCEPT ![o] = "usable"]
  /\ Issue(o, "commit")
  /\ UNCHANGED <<stores, expired, dispatched, outcome, cancelled, seen>>

\* A plausible bug: the error is classified although a response was seen.
ClassifiedByErrorAlone(o, classified) ==
  IF classified THEN "FAILED" ELSE "UNRESOLVED"

\* The exception a failed complete() raised: _failure_class of an error with
\* no response names a provider failure, anything else stays UNRESOLVED.
FailureStatus(o, classified) ==
  IF response[o] = "none" /\ classified THEN "FAILED" ELSE "UNRESOLVED"

\* Usage, route or cost validation raises LLMServerError after a response.
ResponseRejected(o) ==
  /\ pc[o] = "call"
  /\ response' = [response EXCEPT ![o] = "rejected"]
  /\ Conclude(o, "UNRESOLVED")
  /\ UNCHANGED <<stores, expired, dispatched, cancelled, seen>>

\* Timeout, transport, HTTP and server errors are classified; a malformed
\* output or an unknown exception is not.
ProviderFails(o) ==
  /\ pc[o] = "call"
  /\ \E classified \in BOOLEAN : Conclude(o, FailureStatus(o, classified))
  /\ UNCHANGED <<stores, expired, dispatched, response, cancelled, seen>>

LandCommit(o) ==
  /\ Land(o, "commit", "ok")
  /\ ledger' = [ledger EXCEPT ![Target[o]] = "settled"]
  /\ UNCHANGED <<started, terminal>>

\* The proposal and its receipt are built, or no honest completion exists.
CommitReturns(o) ==
  /\ pc[o] = "commit" /\ reply[o] = "ok"
  /\ \E status \in {"COMPLETED", "UNRESOLVED"} : Conclude(o, status)
  /\ UNCHANGED <<stores, expired, dispatched, response, cancelled, seen>>

\* commit raised: its effect is unknown, and so is the attempt.  A database
\* timeout would be classified if the response were not already known.
CommitFails(o) ==
  /\ pc[o] = "commit"
  /\ \E classified \in BOOLEAN : Conclude(o, FailureStatus(o, classified))
  /\ UNCHANGED <<stores, expired, dispatched, response, cancelled, seen>>

\* A terminal is created once; the owner of START is the only one to ask for it.
LandFinish(o) ==
  LET a == Target[o] IN
  /\ terminal[a] = "open"
  /\ Land(o, "finish", "ok")
  /\ terminal' = [terminal EXCEPT ![a] = outcome[o]]
  /\ UNCHANGED <<ledger, started>>

\* A plausible bug: the observation is returned before its terminal is durable.
FinishNotAwaited(o) ==
  /\ pc[o] = "finish"
  /\ GoTo(o, "observed") /\ seen' = [seen EXCEPT ![o] = outcome[o]]
  /\ UNCHANGED <<stores, expired, dispatched, pending, response, outcome, cancelled>>

\* The caller gets the observation, or its own cancellation back.
FinishReturns(o) ==
  /\ pc[o] = "finish" /\ reply[o] = "ok"
  /\ IF o \in cancelled
       THEN GoTo(o, "raised") /\ UNCHANGED seen
       ELSE GoTo(o, "observed") /\ seen' = [seen EXCEPT ![o] = outcome[o]]
  /\ UNCHANGED <<stores, expired, dispatched, pending, response, outcome, cancelled>>

-----------------------------------------------------------------------------
(* Cancellation, failing awaits, crashes and time. *)

\* A check or an await before START was seen to succeed raises, is cancelled or
\* loses its connection: nothing is dispatched, what was sent may still land.
AdmissionInterrupted(o) ==
  /\ pc[o] \in {"find", "admit", "reserve", "start", "reread"}
  /\ GoTo(o, "raised")
  /\ UNCHANGED <<stores, expired, dispatched, pending, response, outcome, cancelled, seen>>

\* CancelledError during the provider call or the commit: a terminal is still
\* recorded, then the cancellation is raised again.
CallCancelled(o) ==
  /\ pc[o] \in {"call", "commit"}
  /\ Conclude(o, FailureStatus(o, TRUE))
  /\ cancelled' = cancelled \cup {o}
  /\ UNCHANGED <<stores, expired, dispatched, response, seen>>

\* finish_attempt raised or was cancelled: reconcile, no retry.
FinishFails(o) ==
  /\ pc[o] = "finish"
  /\ GoTo(o, "raised")
  /\ UNCHANGED <<stores, expired, dispatched, pending, response, outcome, cancelled, seen>>

Crash(o) ==
  /\ pc[o] \notin Ended
  /\ GoTo(o, "crashed")
  /\ UNCHANGED <<stores, expired, dispatched, pending, response, outcome, cancelled, seen>>

Expire(s) ==
  /\ s \notin expired
  /\ expired' = expired \cup {s}
  /\ UNCHANGED <<stores, dispatched, pc, pending, reply, response, outcome, cancelled, seen>>

-----------------------------------------------------------------------------
Landing(o) == LandReserve(o) \/ LandStart(o) \/ LandCommit(o) \/ LandFinish(o)

Progress(o) ==
  \/ Find(o) \/ Reserve(o) \/ Start(o) \/ StartAdmitted(o) \/ StartDuplicate(o)
  \/ Reread(o) \/ AdmissionRefused(o)
  \/ Dispatch(o) \/ DispatchImpossible(o)
  \/ ResponseUsable(o) \/ ResponseRejected(o) \/ ProviderFails(o)
  \/ CommitReturns(o) \/ CommitFails(o) \/ FinishReturns(o) \/ FinishFails(o)

Trouble(o) == AdmissionInterrupted(o) \/ CallCancelled(o) \/ Crash(o)

Next ==
  \/ \E s \in Samples : Expire(s)
  \/ \E o \in Observers : Landing(o) \/ Progress(o) \/ Trouble(o)

Spec == Init /\ [][Next]_vars

\* The event loop resumes a coroutine whose await is over, and every await is
\* over at some time: the databases answer or their driver raises, and the
\* provider call is bounded by request_timeout_s.
FairSpec == Spec /\ \A o \in Observers : WF_vars(Landing(o) \/ Progress(o))

-----------------------------------------------------------------------------
TypeOK ==
  /\ ledger \in [Attempts -> {"none", "held", "settled"}]
  /\ started \in [Attempts -> Observers \cup {Nobody}]
  /\ terminal \in [Attempts -> Statuses \cup {"open"}]
  /\ expired \subseteq Samples
  /\ dispatched \subseteq Observers
  /\ pc \in [Observers -> Places]
  /\ pending \in [Observers -> SUBSET Requests]
  /\ reply \in [Observers -> Replies]
  /\ response \in [Observers -> {"none", "usable", "rejected"}]
  /\ outcome \in [Observers -> Statuses \cup {"open"}]
  /\ cancelled \subseteq Observers
  /\ seen \in [Observers -> Statuses \cup {"open", "unseen"}]

\* "Only a successful new insert permits dispatch": whoever entered the
\* provider client owns the durable START row and money is held for it.
DispatchFenced ==
  \A o \in dispatched :
    /\ started[Target[o]] = o
    /\ ledger[Target[o]] # "none"

\* Concurrent observers, restarts and changed source sets never call a
\* provider twice for one campaign/arm/sample.
OneDispatchPerSample ==
  \A o1, o2 \in dispatched :
    SampleOf[Target[o1]] = SampleOf[Target[o2]] => o1 = o2

\* A terminal is what really happened to the call: FAILED only if the owner of
\* START called and saw no response, and its hold is never settled; COMPLETED
\* only for a usable response whose cost is settled.
TerminalHonest ==
  \A a \in Attempts :
    /\ terminal[a] = "FAILED" =>
         /\ started[a] \in dispatched
         /\ response[started[a]] = "none"
         /\ ledger[a] = "held"
    /\ terminal[a] = "COMPLETED" =>
         /\ started[a] \in dispatched
         /\ response[started[a]] = "usable"
         /\ ledger[a] = "settled"

\* What observe() returned stays true: a terminal given to a caller is the
\* durable one, and a caller that dispatched never returns without one.
ObservationDurable ==
  \A o \in Observers : pc[o] = "observed" =>
    /\ started[Target[o]] # Nobody
    /\ seen[o] \in Statuses => terminal[Target[o]] = seen[o]
    /\ o \in dispatched => seen[o] \in Statuses

\* The order of the awaits of observe(), from the last to the first.
Left(place) ==
  CASE place = "find"     -> 8
    [] place = "admit"    -> 7
    [] place = "reserve"  -> 6
    [] place = "start"    -> 5
    [] place = "dispatch" -> 4
    [] place = "call"     -> 3
    [] place = "commit"   -> 2
    [] place \in {"finish", "reread"} -> 1
    [] OTHER              -> 0

\* "it never automatically reissues a provider request": an observer only goes forward, through
\* every await at most once, whatever it is told or not told; a lost race, a
\* failure and a cancellation are no reason to come back.
ForwardOnly ==
  [][\A o \in Observers : pc'[o] # pc[o] => Left(pc'[o]) < Left(pc[o])]_vars

\* Whoever awaits a store was answered, or its request can still land: nobody
\* waits for something that was never asked or is over.
NobodyForgotten ==
  \A o \in Observers :
    /\ pc[o] \in Requests => reply[o] # "none" \/ pc[o] \in pending[o]
    /\ "finish" \in pending[o] => terminal[Target[o]] = "open"

-----------------------------------------------------------------------------
(* The inductive invariant, in the order in which an attempt advances.      *)

\* Rows: a START is written by an observer of that identity, under a hold, and
\* is the only one of its sample; a terminal is the outcome of START's owner.
RowsInv ==
  \A a \in Attempts :
    /\ started[a] # Nobody => Target[started[a]] = a /\ ledger[a] # "none"
    /\ \A b \in Attempts :
         started[a] # Nobody /\ started[b] # Nobody /\ SampleOf[a] = SampleOf[b]
           => a = b
    /\ terminal[a] # "open" =>
         started[a] # Nobody /\ outcome[started[a]] = terminal[a]
    /\ ledger[a] = "settled" =>
         started[a] # Nobody /\ response[started[a]] = "usable"

\* Admission: what an observer may conclude from where it stands.
AdmissionInv ==
  \A o \in Observers :
    LET a == Target[o] IN
    /\ pc[o] = "reserve" /\ reply[o] = "ok" => ledger[a] # "none"
    /\ pc[o] = "start" \/ "start" \in pending[o] => ledger[a] # "none"
    /\ pc[o] = "start" /\ reply[o] = "ok" => started[a] = o
    /\ pc[o] = "start" /\ reply[o] = "duplicate" => started[a] # Nobody
    /\ pc[o] \in {"dispatch", "call", "commit", "finish"} => started[a] = o
    /\ pc[o] \in {"find", "admit", "reserve", "start", "reread", "dispatch"} =>
         o \notin dispatched /\ outcome[o] = "open"
    /\ pc[o] \in {"call", "commit"} => o \in dispatched /\ outcome[o] = "open"
    /\ pc[o] = "call" => response[o] = "none"
    /\ pc[o] = "commit" => response[o] = "usable"
    /\ pc[o] = "finish" => outcome[o] # "open"
    /\ o \in dispatched => started[a] = o

\* Completion: the outcome an observer wants to record is already honest.
OutcomeInv ==
  \A o \in Observers :
    LET a == Target[o] IN
    /\ response[o] # "none" => o \in dispatched
    /\ "commit" \in pending[o] => response[o] = "usable"
    /\ pc[o] = "commit" /\ reply[o] = "ok" => ledger[a] = "settled"
    /\ "finish" \in pending[o] => outcome[o] # "open"
    /\ outcome[o] # "open" => started[a] = o
    /\ outcome[o] = "FAILED" => o \in dispatched /\ response[o] = "none"
    /\ outcome[o] = "COMPLETED" =>
         o \in dispatched /\ response[o] = "usable" /\ ledger[a] = "settled"
    /\ pc[o] = "finish" /\ reply[o] = "ok" => terminal[a] = outcome[o]

IndInv ==
  /\ TypeOK
  /\ RowsInv
  /\ AdmissionInv
  /\ OutcomeInv
  /\ ObservationDurable

\* The admission order of the coordinator is the abstract contract.
Contract == INSTANCE AttemptContract WITH
  spend <- ledger,
  admitted <- {a \in Attempts : started[a] # Nobody},
  called <- {Target[o] : o \in dispatched},
  verdict <- terminal

KeepsContract == Contract!Spec

\* No interleaving of duplicates, denials and lost replies leaves an observer
\* waiting for something that will not come.
EveryObserverEnds == \A o \in Observers : <>(pc[o] \in Ended)
=============================================================================
