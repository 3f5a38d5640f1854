----------------------------- MODULE RetryGateway -----------------------------
(***************************************************************************)
(* kairos_llm/gateway.py: LLMGateway.complete by concurrent callers of one *)
(* gateway: the request loop, the classification of failures, the cost     *)
(* accountant and the best-effort health notice.                           *)
(*                                                                         *)
(* Whether a request that failed was billed is the provider's secret.      *)
(***************************************************************************)
EXTENDS Integers

CONSTANTS Callers,     \* calls of complete()
          MaxRetries   \* bound: largest settings.max_retries

ASSUME MaxRetriesType == MaxRetries \in Nat

VARIABLES
  maxRetries,  \* settings.max_retries, which nothing keeps from being negative
  pc,          \* where each caller is
  requests,    \* requests sent
  failure,     \* what went wrong with the latest request
  retried,     \* the kinds of failure that were answered by another request
  billed,      \* requests the provider bills
  recorded,    \* replies the accountant recorded
  notice       \* the health notice that was sent: "ok" or the kind of failure

vars == <<maxRetries, pc, requests, failure, retried, billed, recorded, notice>>

Kinds == {"timeout", "connection", "bad output", "http 408", "http 409", "http 429",
          "http 5xx", "http 4xx", "http other", "other"}
Ended  == {"returned", "raised", "cancelled"}
Places == {"request", "reply", "failed", "sleep", "notify ok", "notify failed"} \cup Ended

\* Plausible bugs: a negative setting is not clamped; one attempt too many.
UnclampedRetries == maxRetries
OneRetryTooMany == IF maxRetries > 0 THEN maxRetries + 1 ELSE 1

\* for attempt in range(max(0, max_retries) + 1)
Retries == IF maxRetries > 0 THEN maxRetries ELSE 0

Init ==
  /\ maxRetries \in -1..MaxRetries
  /\ pc = [c \in Callers |-> "request"]
  /\ requests = [c \in Callers |-> 0]
  /\ failure = [c \in Callers |-> "none"]
  /\ retried = [c \in Callers |-> {}]
  /\ billed = [c \in Callers |-> 0]
  /\ recorded = [c \in Callers |-> 0]
  /\ notice = [c \in Callers |-> "none"]

GoTo(c, place) == pc' = [pc EXCEPT ![c] = place]

\* A plausible bug: output that does not parse is asked for again.
RetryBadOutput(kind) ==
  [health |-> kind,
   retryable |-> kind \in {"timeout", "connection", "bad output", "http 408",
                           "http 409", "http 429", "http 5xx"}]

\* _classify_failure and _classify_http_failure: the kind that health telemetry
\* sees, and the explicit transient allow-list.
Classify(kind) ==
  [health |-> IF kind = "http 408" THEN "timeout" ELSE kind,
   retryable |-> kind \in {"timeout", "connection", "http 408", "http 409",
                           "http 429", "http 5xx"}]

\* The next attempt is one HTTP request, bounded by request_timeout_s; the SDK does
\* not retry. A loop without an attempt left raises.
Request(c) ==
  /\ pc[c] = "request"
  /\ IF requests[c] <= Retries
       THEN /\ GoTo(c, "reply")
            /\ requests' = [requests EXCEPT ![c] = @ + 1]
       ELSE /\ GoTo(c, "raised")
            /\ UNCHANGED requests
  /\ UNCHANGED <<maxRetries, failure, retried, billed, recorded, notice>>

\* A reply that parses is a billed one; its cost is recorded at once.
ReplyAccepted(c) ==
  /\ pc[c] = "reply"
  /\ GoTo(c, "notify ok")
  /\ billed' = [billed EXCEPT ![c] = @ + 1]
  /\ recorded' = [recorded EXCEPT ![c] = @ + 1]
  /\ UNCHANGED <<maxRetries, requests, failure, retried, notice>>

PerhapsBilled(c) == \E b \in {0, 1} : billed' = [billed EXCEPT ![c] = @ + b]

\* A plausible bug: an attempt that found no connection is not counted.
ConnectionsUncounted(c) ==
  /\ pc[c] = "reply"
  /\ \/ /\ failure' = [failure EXCEPT ![c] = "connection"]
        /\ requests' = [requests EXCEPT ![c] = @ - 1]
        /\ UNCHANGED billed
     \/ /\ \E kind \in Kinds \ {"connection"} : failure' = [failure EXCEPT ![c] = kind]
        /\ PerhapsBilled(c)
        /\ UNCHANGED requests
  /\ GoTo(c, "failed")
  /\ UNCHANGED <<maxRetries, retried, recorded, notice>>

\* An exception of the SDK, of the timeout, of parsing or of the accountant.
RequestFails(c) ==
  /\ pc[c] = "reply"
  /\ \E kind \in Kinds : failure' = [failure EXCEPT ![c] = kind]
  /\ PerhapsBilled(c)
  /\ GoTo(c, "failed")
  /\ UNCHANGED <<maxRetries, requests, retried, recorded, notice>>

\* "Only the explicit transient allow-list may cause another potentially
\* billable request"; the last attempt is never followed by one.
Retry(c) ==
  /\ pc[c] = "failed"
  /\ Classify(failure[c]).retryable /\ requests[c] <= Retries
  /\ GoTo(c, "sleep")
  /\ retried' = [retried EXCEPT ![c] = @ \cup {failure[c]}]
  /\ UNCHANGED <<maxRetries, requests, failure, billed, recorded, notice>>

Wake(c) ==
  /\ pc[c] = "sleep"
  /\ GoTo(c, "request")
  /\ UNCHANGED <<maxRetries, requests, failure, retried, billed, recorded, notice>>

GiveUp(c) ==
  /\ pc[c] = "failed"
  /\ ~(Classify(failure[c]).retryable /\ requests[c] <= Retries)
  /\ GoTo(c, "notify failed")
  /\ UNCHANGED <<maxRetries, requests, failure, retried, billed, recorded, notice>>

\* A plausible bug: an exception of the health sink is one of the request.
SinkFailureCounts(c) ==
  /\ pc[c] = "notify ok"
  /\ GoTo(c, "failed")
  /\ \E kind \in Kinds : failure' = [failure EXCEPT ![c] = kind]
  /\ UNCHANGED <<maxRetries, requests, retried, billed, recorded, notice>>

\* _emit_health_safely swallows what the sink raises.
SinkFails(c) ==
  /\ pc[c] \in {"notify ok", "notify failed"}
  /\ GoTo(c, IF pc[c] = "notify ok" THEN "returned" ELSE "raised")
  /\ UNCHANGED <<maxRetries, requests, failure, retried, billed, recorded, notice>>

Notify(c) ==
  /\ pc[c] \in {"notify ok", "notify failed"}
  /\ GoTo(c, IF pc[c] = "notify ok" THEN "returned" ELSE "raised")
  /\ notice' = [notice EXCEPT ![c] =
       IF pc[c] = "notify ok" THEN "ok" ELSE Classify(failure[c]).health]
  /\ UNCHANGED <<maxRetries, requests, failure, retried, billed, recorded>>

\* CancelledError is no Exception: it passes through every await of the loop.
Cancel(c) ==
  /\ \/ pc[c] = "reply" /\ PerhapsBilled(c)
     \/ pc[c] \in {"sleep", "notify ok", "notify failed"} /\ UNCHANGED billed
  /\ GoTo(c, "cancelled")
  /\ UNCHANGED <<maxRetries, requests, failure, retried, recorded, notice>>

Step(c) ==
  \/ Request(c) \/ ReplyAccepted(c) \/ RequestFails(c) \/ Retry(c) \/ Wake(c)
  \/ GiveUp(c) \/ SinkFails(c) \/ Notify(c)

Next == \E c \in Callers : Step(c) \/ Cancel(c)

Spec == Init /\ [][Next]_vars

-----------------------------------------------------------------------------
TypeOK ==
  /\ maxRetries \in -1..MaxRetries
  /\ pc \in [Callers -> Places]
  /\ requests \in [Callers -> Nat]
  /\ failure \in [Callers -> Kinds \cup {"none"}]
  /\ retried \in [Callers -> SUBSET Kinds]
  /\ billed \in [Callers -> Nat]
  /\ recorded \in [Callers -> Nat]
  /\ notice \in [Callers -> Kinds \cup {"ok", "none"}]

Transient == {"connection", "timeout", "http 408", "http 409", "http 429", "http 5xx"}

\* "The gateway retries only connection failures, timeouts and explicitly
\* transient HTTP responses (408, 409, 429, and 5xx)."
RetriesAreTransient == \A c \in Callers : retried[c] \subseteq Transient

\* "Health telemetry ... cannot repeat an otherwise successful, potentially
\* billable provider call": an accounted answer is the last word, whatever the
\* sink does, and only an accounted answer is returned.
AnswerIsFinal ==
  \A c \in Callers :
    /\ recorded[c] \in {0, 1}
    /\ recorded[c] = 1 => pc[c] \in {"notify ok", "returned", "cancelled"}
    /\ pc[c] = "returned" => recorded[c] = 1

\* The allowance of one call: a once-only gateway is billed once at most, and
\* no reply is accounted that was not billed.
SpendBounded ==
  \A c \in Callers :
    /\ recorded[c] <= billed[c]
    /\ maxRetries <= 0 => billed[c] <= 1
    /\ maxRetries > 0 => billed[c] <= maxRetries + 1

\* Whatever the setting and the failures, a call comes to an end.
EveryCallEnds == \A c \in Callers : <>(pc[c] \in Ended)

-----------------------------------------------------------------------------
(* The inductive invariant. *)

LoopOK(c) ==
  /\ requests[c] <= Retries + 1
  /\ pc[c] \in {"request", "sleep"} => requests[c] <= Retries
  /\ pc[c] = "reply" => billed[c] < requests[c]
  /\ billed[c] <= requests[c]
  /\ recorded[c] <= billed[c]
  /\ pc[c] \in {"request", "reply", "failed", "sleep", "notify failed", "raised"} =>
       recorded[c] = 0
  /\ pc[c] = "notify ok" => recorded[c] = 1

LoopInv == \A c \in Callers : LoopOK(c)

IndInv == TypeOK /\ LoopInv /\ RetriesAreTransient /\ AnswerIsFinal
=============================================================================
