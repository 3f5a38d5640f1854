---------------------------- MODULE GatewayClients ----------------------------
(***************************************************************************)
(* kairos_llm/gateway.py: the client cache of LLMGateway under the request *)
(* loop of RetryGateway: complete() takes a client from it or adds one,    *)
(* close() closes them one await after the other.                          *)
(*                                                                         *)
(* close() may be called again once it ended; two that overlap are left   *)
(* out. The SDK is external: a request on a closed client fails as a       *)
(* connection error before it reaches the provider.                        *)
(***************************************************************************)
EXTENDS RetryGateway, Sequences, SequencesExt, FiniteSets

CONSTANTS Providers  \* the routes' providers

ASSUME ProvidersFinite == IsFiniteSet(Providers)

VARIABLES
  cache,    \* _clients, in the order of insertion
  open,     \* the clients that were not closed
  created,  \* how many clients each provider had
  client,   \* the client of each caller
  usable,   \* whether its latest request left on an open client
  closer    \* the latest close(): where it is, its iteration, the size it began with

clientVars == <<cache, open, created, client, usable, closer>>
allVars    == <<vars, clientVars>>

NoClient == [provider |-> "none", number |-> 0]

\* Earlier calls may have left clients behind.
GatewayInit ==
  /\ Init
  /\ cache \in SetToAllKPermutations({[provider |-> p, number |-> 1] : p \in Providers})
  /\ created = [p \in Providers |->
       IF [provider |-> p, number |-> 1] \in ToSet(cache) THEN 1 ELSE 0]
  /\ open = ToSet(cache)
  /\ client = [c \in Callers |-> NoClient]
  /\ usable = [c \in Callers |-> FALSE]
  /\ closer = [at |-> "idle", index |-> 0, size |-> 0]

-----------------------------------------------------------------------------
(* complete() *)

Cached(p) == {k \in ToSet(cache) : k.provider = p}

\* _client_for, the first thing complete() does: no await.
Connect(c) ==
  /\ pc[c] = "request" /\ client[c] = NoClient
  /\ \E p \in Providers :
       IF Cached(p) # {}
         THEN /\ client' = [client EXCEPT ![c] = CHOOSE k \in Cached(p) : TRUE]
              /\ UNCHANGED <<cache, open, created>>
         ELSE LET new == [provider |-> p, number |-> created[p] + 1]
              IN  /\ client' = [client EXCEPT ![c] = new]
                  /\ cache' = Append(cache, new)
                  /\ open' = open \cup {new}
                  /\ created' = [created EXCEPT ![p] = @ + 1]
  /\ UNCHANGED <<vars, usable, closer>>

\* The client of a provider without a key cannot be made.
ConnectFails(c) ==
  /\ pc[c] = "request" /\ client[c] = NoClient
  /\ \E p \in Providers : Cached(p) = {}
  /\ GoTo(c, "raised")
  /\ UNCHANGED <<maxRetries, requests, failure, retried, billed, recorded, notice, clientVars>>

Send(c) ==
  /\ client[c] # NoClient
  /\ Request(c)
  /\ usable' = [usable EXCEPT ![c] = client[c] \in open]
  /\ UNCHANGED <<cache, open, created, client, closer>>

Refused(c) ==
  /\ pc[c] = "reply" /\ ~usable[c]
  /\ failure' = [failure EXCEPT ![c] = "connection"]
  /\ GoTo(c, "failed")
  /\ UNCHANGED <<maxRetries, requests, retried, billed, recorded, notice, clientVars>>

\* Everything after the client was taken; a caller keeps it over its retries.
CallStep(c) ==
  \/ Send(c)
  \/ Refused(c)
  \/ /\ usable[c]
     /\ ReplyAccepted(c) \/ RequestFails(c)
     /\ UNCHANGED clientVars
  \/ /\ Retry(c) \/ Wake(c) \/ GiveUp(c) \/ SinkFails(c) \/ Notify(c)
     /\ UNCHANGED clientVars

-----------------------------------------------------------------------------
(* close() *)

\* await client.close() of the client at index: closed at once, then awaited.
Closing(index, size) ==
  /\ closer' = [at |-> "closing", index |-> index, size |-> size]
  /\ open' = open \ {cache[index]}
  /\ UNCHANGED <<vars, cache, created, client, usable>>

CloserEnds(at) ==
  /\ closer' = [closer EXCEPT !.at = at]
  /\ UNCHANGED <<vars, open, created, client, usable>>

Close ==
  /\ closer.at # "closing" /\ cache # <<>>
  /\ Closing(1, Len(cache))

\* Plausible bug: close() iterates over a copy of the cache.
CopyIterated == FALSE

\* "dictionary changed size during iteration"
Resized == Len(cache) # closer.size

CloseNext ==
  /\ closer.at = "closing" /\ ~Resized /\ closer.index < closer.size
  /\ Closing(closer.index + 1, closer.size)

CloseRaises ==
  /\ closer.at = "closing" /\ Resized
  /\ CloserEnds("raised")
  /\ UNCHANGED cache

\* _clients.clear(), in the step that ends the iteration.
Clear ==
  /\ \/ closer.at # "closing" /\ cache = <<>>
     \/ closer.at = "closing" /\ ~Resized /\ closer.index = closer.size
  /\ CloserEnds("closed")
  /\ cache' = <<>>

\* A client's close() raised, or the closing task was cancelled.
CloseFails ==
  /\ closer.at = "closing"
  /\ CloserEnds("raised")
  /\ UNCHANGED cache

CloseStep == Close \/ CloseNext \/ CloseRaises \/ Clear

NextCalls ==
  \E c \in Callers :
    \/ Connect(c) \/ ConnectFails(c) \/ CallStep(c)
    \/ Cancel(c) /\ UNCHANGED clientVars

\* Requests and sleeps are bounded by timers; a health sink is assumed to end.
GatewaySpec ==
  /\ GatewayInit
  /\ [][NextCalls \/ CloseStep \/ CloseFails]_allVars
  /\ \A c \in Callers : WF_allVars(Connect(c) \/ CallStep(c))

-----------------------------------------------------------------------------
\* "Close provider clients created by this gateway": no open client is ever out of
\* the cache, where a close() finds it, whatever a call does while close() awaits;
\* and only clients that were asked to close refuse a request.
NoClientLost ==
  /\ open \subseteq ToSet(cache)
  /\ closer.at = "idle" => open = ToSet(cache)

\* However max_retries is set, a call that has a client does not raise before it
\* asked the provider; and what may pass is asked again until the setting is used up.
RaisedWhenSpent ==
  \A c \in Callers :
    pc[c] = "raised" /\ client[c] # NoClient =>
      /\ requests[c] > 0
      /\ failure[c] \in Transient => requests[c] > maxRetries

\* What is left of a call: four awaits for every request it may still send, and
\* those until the fate of the current one is told.
Rest ==
  [place \in Places |-> IF place = "reply" THEN 3
                        ELSE IF place = "failed" THEN 2
                        ELSE IF place = "request" THEN 0 ELSE 1]

Fuel(c) ==
  IF pc[c] \in Ended THEN 0 ELSE 4 * (Retries + 1 - requests[c]) + Rest[pc[c]]

\* No failure, cancellation, health sink or close() lets a call run longer than
\* its setting of max_retries allows: wherever it goes, less is left of it.
CallsRunDown ==
  [][\A c \in Callers : pc'[c] # pc[c] => Fuel(c)' \in 0..(Fuel(c) - 1)]_allVars

-----------------------------------------------------------------------------
(* The inductive invariant. *)

ClientTypeOK ==
  /\ cache \in Seq([provider : Providers, number : Nat])
  /\ created \in [Providers -> Nat]
  /\ closer \in [at : {"idle", "closing", "closed", "raised"}, index : Nat, size : Nat]

\* Only clients that the iteration has not come to are open.
CloserInv ==
  closer.at = "closing" =>
    /\ closer.index \in 1..closer.size /\ closer.size <= Len(cache)
    /\ open \subseteq {cache[i] : i \in closer.index + 1 .. Len(cache)}

\* The same of a call on its way to raising.
SpentOK(c) ==
  /\ pc[c] \in {"reply", "failed", "notify failed"} => requests[c] > 0
  /\ pc[c] = "raised" => client[c] = NoClient \/ requests[c] > 0
  /\ pc[c] \in {"notify failed", "raised"} =>
       \/ pc[c] = "raised" /\ client[c] = NoClient
       \/ failure[c] \in Transient => requests[c] > maxRetries

ClientFunction == client = [c \in Callers |-> client[c]]

SpentInv == ClientFunction /\ \A c \in Callers : SpentOK(c)

ClientsInv == ClientTypeOK /\ CloserInv /\ NoClientLost
=============================================================================
