------------------------- MODULE RetryGateway_proofs -------------------------
(***************************************************************************)
(* LLMGateway.complete and close() for every number of callers, every      *)
(* max_retries and every set of providers: IndInv, of the request loop,    *)
(* and ClientsInv, of the client cache, are inductive; the safety          *)
(* properties follow from them.                                            *)
(***************************************************************************)
EXTENDS GatewayClients, FiniteSetTheorems, SequenceTheorems, TLAPS

\* The allowance of requests is a natural number whatever the setting is.
LEMMA RetriesNat ==
  ASSUME maxRetries \in -1..MaxRetries
  PROVE  Retries \in Nat /\ (maxRetries <= 0 => Retries = 0)
                         /\ (maxRetries > 0 => Retries = maxRetries)
  BY MaxRetriesType DEF Retries

\* An attempt is left wherever the loop begins one: it always sends its request.
LEMMA Attempt ==
  ASSUME NEW c \in Callers, LoopOK(c), Request(c)
  PROVE  /\ pc[c] = "request" /\ requests[c] <= Retries /\ GoTo(c, "reply")
         /\ requests' = [requests EXCEPT ![c] = @ + 1]
  BY DEF LoopOK, Request

\* Before the first request there is nothing to be honest about.
LEMMA InitInd == Init => IndInv
  BY MaxRetriesType
     DEF Init, IndInv, TypeOK, LoopInv, LoopOK, RetriesAreTransient, Transient, AnswerIsFinal,
         Retries, Places, Ended, Kinds

\* A count of one caller grows by one or stays.
LEMMA Count ==
  ASSUME NEW f \in [Callers -> Nat], NEW c \in Callers, NEW b \in {0, 1}, NEW g,
         g = [f EXCEPT ![c] = @ + b]
  PROVE  /\ g \in [Callers -> Nat]
         /\ g[c] = f[c] + b
         /\ \A d \in Callers : d # c => g[d] = f[d]
<1>1. f[c] + b \in Nat
  OBVIOUS
<1> QED BY <1>1

\* A request that ends without an accepted reply may have been billed.
LEMMA Billed ==
  ASSUME TypeOK, NEW c \in Callers, PerhapsBilled(c)
  PROVE  /\ billed' \in [Callers -> Nat]
         /\ billed'[c] \in {billed[c], billed[c] + 1}
         /\ \A d \in Callers : d # c => billed'[d] = billed[d]
<1>1. PICK b \in {0, 1} : billed' = [billed EXCEPT ![c] = @ + b]
  BY DEF PerhapsBilled
<1>2. billed \in [Callers -> Nat]
  BY DEF TypeOK
<1> QED BY <1>1, <1>2, Count

\* Every step keeps the types.
LEMMA StepType == IndInv /\ [Next]_vars => TypeOK'
<1> SUFFICES ASSUME IndInv, [Next]_vars PROVE TypeOK'
  OBVIOUS
<1> USE MaxRetriesType DEF IndInv, TypeOK, GoTo, Places, Ended, Kinds
<1>1. ASSUME NEW c \in Callers, Request(c) PROVE TypeOK'
  <2>1. GoTo(c, "reply") /\ requests' = [requests EXCEPT ![c] = @ + 1]
    BY <1>1, Attempt DEF LoopInv
  <2>2. /\ requests' \in [Callers -> Nat]
        /\ requests'[c] = requests[c] + 1
        /\ \A d \in Callers : d # c => requests'[d] = requests[d]
    BY <2>1, Count
  <2> QED BY <1>1, <2>1, <2>2 DEF Request
<1>2. ASSUME NEW c \in Callers, ReplyAccepted(c) PROVE TypeOK'
  <2>1. /\ billed' = [billed EXCEPT ![c] = @ + 1]
        /\ recorded' = [recorded EXCEPT ![c] = @ + 1]
    BY <1>2 DEF ReplyAccepted
  <2>2. /\ billed' \in [Callers -> Nat] /\ billed'[c] = billed[c] + 1
        /\ \A d \in Callers : d # c => billed'[d] = billed[d]
    BY <2>1, Count
  <2>3. /\ recorded' \in [Callers -> Nat] /\ recorded'[c] = recorded[c] + 1
        /\ \A d \in Callers : d # c => recorded'[d] = recorded[d]
    BY <2>1, Count
  <2> QED BY <1>2, <2>2, <2>3 DEF ReplyAccepted
<1>3. ASSUME NEW c \in Callers, RequestFails(c) PROVE TypeOK'
  BY <1>3, Billed DEF RequestFails
<1>4. ASSUME NEW c \in Callers, Retry(c) PROVE TypeOK'
  BY <1>4 DEF Retry, Classify
<1>5. ASSUME NEW c \in Callers, Wake(c) PROVE TypeOK'
  BY <1>5 DEF Wake
<1>6. ASSUME NEW c \in Callers, GiveUp(c) PROVE TypeOK'
  BY <1>6 DEF GiveUp, Classify
<1>7. ASSUME NEW c \in Callers, SinkFails(c) PROVE TypeOK'
  BY <1>7 DEF SinkFails
<1>8. ASSUME NEW c \in Callers, Notify(c) PROVE TypeOK'
  BY <1>8 DEF Notify, Classify
<1>9. ASSUME NEW c \in Callers, Cancel(c) PROVE TypeOK'
  <2>1. CASE PerhapsBilled(c)
    BY <1>9, <2>1, Billed DEF Cancel
  <2>2. CASE UNCHANGED billed
    BY <1>9, <2>2 DEF Cancel
  <2> QED BY <1>9, <2>1, <2>2 DEF Cancel
<1>10. CASE UNCHANGED vars
  BY <1>10 DEF vars
<1> QED
  BY <1>1, <1>2, <1>3, <1>4, <1>5, <1>6, <1>7, <1>8, <1>9, <1>10 DEF Next, Step

\* Only a transient failure is followed by another request.
LEMMA StepTransient == IndInv /\ [Next]_vars => RetriesAreTransient'
<1> SUFFICES ASSUME IndInv, [Next]_vars PROVE RetriesAreTransient'
  OBVIOUS
<1> USE MaxRetriesType DEF IndInv, TypeOK, RetriesAreTransient, Transient, GoTo, Places, Ended, Kinds
<1>1. ASSUME NEW c \in Callers, Request(c) PROVE RetriesAreTransient'
  BY <1>1 DEF Request
<1>2. ASSUME NEW c \in Callers, ReplyAccepted(c) PROVE RetriesAreTransient'
  BY <1>2 DEF ReplyAccepted
<1>3. ASSUME NEW c \in Callers, RequestFails(c) PROVE RetriesAreTransient'
  BY <1>3 DEF RequestFails, PerhapsBilled
<1>4. ASSUME NEW c \in Callers, Retry(c) PROVE RetriesAreTransient'
  BY <1>4 DEF Retry, Classify
<1>5. ASSUME NEW c \in Callers, Wake(c) PROVE RetriesAreTransient'
  BY <1>5 DEF Wake
<1>6. ASSUME NEW c \in Callers, GiveUp(c) PROVE RetriesAreTransient'
  BY <1>6 DEF GiveUp, Classify
<1>7. ASSUME NEW c \in Callers, SinkFails(c) PROVE RetriesAreTransient'
  BY <1>7 DEF SinkFails
<1>8. ASSUME NEW c \in Callers, Notify(c) PROVE RetriesAreTransient'
  BY <1>8 DEF Notify, Classify
<1>9. ASSUME NEW c \in Callers, Cancel(c) PROVE RetriesAreTransient'
  BY <1>9 DEF Cancel, PerhapsBilled
<1>10. CASE UNCHANGED vars
  BY <1>10 DEF vars
<1> QED
  BY <1>1, <1>2, <1>3, <1>4, <1>5, <1>6, <1>7, <1>8, <1>9, <1>10 DEF Next, Step

\* An accounted answer leaves the loop.
LEMMA StepFinal == IndInv /\ [Next]_vars => AnswerIsFinal'
<1> SUFFICES ASSUME IndInv, [Next]_vars PROVE AnswerIsFinal'
  OBVIOUS
<1> USE MaxRetriesType DEF IndInv, TypeOK, LoopInv, LoopOK, AnswerIsFinal, GoTo, Places, Ended, Kinds
<1>1. ASSUME NEW c \in Callers, Request(c) PROVE AnswerIsFinal'
  BY <1>1 DEF Request
<1>2. ASSUME NEW c \in Callers, ReplyAccepted(c) PROVE AnswerIsFinal'
  <2>1. recorded' = [recorded EXCEPT ![c] = @ + 1] /\ recorded[c] = 0
    BY <1>2 DEF ReplyAccepted
  <2>2. /\ recorded'[c] = recorded[c] + 1
        /\ \A d \in Callers : d # c => recorded'[d] = recorded[d]
    BY <2>1, Count
  <2>3. recorded'[c] = 1
    <3> HIDE DEF IndInv, TypeOK, LoopInv, LoopOK, AnswerIsFinal
    <3> QED BY <2>1, <2>2
  <2> QED BY <1>2, <2>1, <2>2, <2>3 DEF ReplyAccepted
<1>3. ASSUME NEW c \in Callers, RequestFails(c) PROVE AnswerIsFinal'
  BY <1>3 DEF RequestFails, PerhapsBilled
<1>4. ASSUME NEW c \in Callers, Retry(c) PROVE AnswerIsFinal'
  BY <1>4 DEF Retry, Classify
<1>5. ASSUME NEW c \in Callers, Wake(c) PROVE AnswerIsFinal'
  BY <1>5 DEF Wake
<1>6. ASSUME NEW c \in Callers, GiveUp(c) PROVE AnswerIsFinal'
  BY <1>6 DEF GiveUp, Classify
<1>7. ASSUME NEW c \in Callers, SinkFails(c) PROVE AnswerIsFinal'
  BY <1>7 DEF SinkFails
<1>8. ASSUME NEW c \in Callers, Notify(c) PROVE AnswerIsFinal'
  BY <1>8 DEF Notify, Classify
<1>9. ASSUME NEW c \in Callers, Cancel(c) PROVE AnswerIsFinal'
  BY <1>9 DEF Cancel, PerhapsBilled
<1>10. CASE UNCHANGED vars
  BY <1>10 DEF vars
<1> QED
  BY <1>1, <1>2, <1>3, <1>4, <1>5, <1>6, <1>7, <1>8, <1>9, <1>10 DEF Next, Step

\* The loop counts its requests and the provider bills no more than those.
LEMMA StepLoop == IndInv /\ [Next]_vars => LoopInv'
<1> SUFFICES ASSUME IndInv, [Next]_vars PROVE LoopInv'
  OBVIOUS
<1>0. /\ TypeOK /\ Retries \in Nat /\ Retries' = Retries
      /\ pc \in [Callers -> Places] /\ requests \in [Callers -> Nat]
      /\ billed \in [Callers -> Nat] /\ recorded \in [Callers -> Nat]
      /\ \A e \in Callers : LoopOK(e)
  <2>1. maxRetries' = maxRetries
    BY DEF Next, Step, Request, ReplyAccepted, RequestFails, Retry, Wake, GiveUp, SinkFails,
           Notify, Cancel, vars
  <2>2. TypeOK /\ \A e \in Callers : LoopOK(e)
    BY DEF IndInv, LoopInv
  <2> QED BY <2>1, <2>2, RetriesNat DEF Retries, TypeOK
<1>1. ASSUME NEW c \in Callers, Request(c), NEW d \in Callers PROVE LoopOK(d)'
  <2>1. /\ requests' \in [Callers -> Nat] /\ requests'[c] = requests[c] + 1
        /\ \A e \in Callers : e # c => requests'[e] = requests[e]
    <3>1. requests' = [requests EXCEPT ![c] = @ + 1]
      BY <1>0, <1>1, Attempt
    <3> QED BY <1>0, <3>1, Count
  <2>a. /\ \A e \in Callers : e # c => pc'[e] = pc[e]
    BY <1>0, <1>1, Attempt DEF GoTo
  <2>b. CASE d # c
    BY <1>0, <1>1, <2>a, <2>b, <2>1 DEF Request, LoopOK
  <2>c. CASE d = c
    <3>1. LoopOK(c) /\ pc[c] = "request" /\ pc'[c] = "reply"
      BY <1>0, <1>1, Attempt DEF GoTo
    <3>2. billed' = billed /\ recorded' = recorded /\ requests[c] <= Retries
      BY <1>0, <1>1, Attempt DEF Request
    <3>3. /\ requests[c] \in Nat /\ billed[c] \in Nat /\ recorded[c] \in Nat
          /\ Retries \in Nat /\ Retries' = Retries
      BY <1>0
    <3>a. /\ requests'[c] <= Retries' + 1 /\ billed'[c] <= requests'[c]
          /\ pc'[c] = "reply" => billed'[c] < requests'[c]
      BY <2>1, <3>1, <3>2, <3>3 DEF LoopOK
    <3>b. recorded'[c] <= billed'[c]
      BY <2>1, <3>1, <3>2, <3>3 DEF LoopOK
    <3>d. /\ pc'[c] \in {"request", "reply", "failed", "sleep", "notify failed", "raised"} =>
               recorded'[c] = 0
          /\ pc'[c] = "notify ok" => recorded'[c] = 1
      BY <2>1, <3>1, <3>2, <3>3 DEF LoopOK
    <3>e. pc'[c] \notin {"request", "sleep"}
      BY <3>1
    <3> QED BY <2>c, <3>a, <3>b, <3>d, <3>e DEF LoopOK
  <2> QED BY <2>b, <2>c
<1>2. ASSUME NEW c \in Callers, ReplyAccepted(c), NEW d \in Callers PROVE LoopOK(d)'
  <2>1. /\ billed' \in [Callers -> Nat] /\ billed'[c] = billed[c] + 1
        /\ \A e \in Callers : e # c => billed'[e] = billed[e]
    <3>1. billed' = [billed EXCEPT ![c] = @ + 1]
      BY <1>2 DEF ReplyAccepted
    <3> QED BY <1>0, <3>1, Count
  <2>2. /\ recorded' \in [Callers -> Nat] /\ recorded'[c] = recorded[c] + 1
        /\ \A e \in Callers : e # c => recorded'[e] = recorded[e]
    <3>1. recorded' = [recorded EXCEPT ![c] = @ + 1]
      BY <1>2 DEF ReplyAccepted
    <3> QED BY <1>0, <3>1, Count
  <2>a. /\ \A e \in Callers : e # c => pc'[e] = pc[e]
    BY <1>0, <1>2 DEF ReplyAccepted, GoTo
  <2>b. CASE d # c
    BY <1>0, <1>2, <2>a, <2>b, <2>1, <2>2 DEF ReplyAccepted, LoopOK
  <2>c. CASE d = c
    <3>1. LoopOK(c) /\ pc[c] = "reply" /\ pc'[c] = "notify ok"
      BY <1>0, <1>2 DEF ReplyAccepted, GoTo
    <3>2. requests' = requests
      BY <1>2 DEF ReplyAccepted
    <3>3. /\ requests[c] \in Nat /\ billed[c] \in Nat /\ recorded[c] \in Nat
          /\ Retries \in Nat /\ Retries' = Retries
      BY <1>0
    <3>4. /\ requests[c] <= Retries + 1 /\ billed[c] < requests[c] /\ recorded[c] <= billed[c]
          /\ recorded[c] = 0
      BY <3>1 DEF LoopOK
    <3>5. /\ requests'[c] = requests[c] /\ billed'[c] = billed[c] + 1
          /\ recorded'[c] = recorded[c] + 1
      BY <2>1, <2>2, <3>2
    <3>a. /\ requests'[c] <= Retries' + 1 /\ billed'[c] <= requests'[c]
          /\ recorded'[c] <= billed'[c] /\ recorded'[c] = 1
      BY <3>3, <3>4, <3>5
    <3>b. /\ pc'[c] # "reply"
          /\ pc'[c] \notin {"request", "reply", "failed", "sleep", "notify failed", "raised"}
      BY <3>1
    <3>e. pc'[c] \notin {"request", "sleep"}
      BY <3>1
    <3> QED BY <2>c, <3>a, <3>b, <3>e DEF LoopOK
  <2> QED BY <2>b, <2>c
<1>3. ASSUME NEW c \in Callers, RequestFails(c), NEW d \in Callers PROVE LoopOK(d)'
  <2>1. /\ billed' \in [Callers -> Nat] /\ billed'[c] \in {billed[c], billed[c] + 1}
        /\ \A e \in Callers : e # c => billed'[e] = billed[e]
    BY <1>0, <1>3, Billed DEF RequestFails
  <2>a. /\ \A e \in Callers : e # c => pc'[e] = pc[e]
    BY <1>0, <1>3 DEF RequestFails, GoTo
  <2>b. CASE d # c
    BY <1>0, <1>3, <2>a, <2>b, <2>1 DEF RequestFails, LoopOK
  <2>c. CASE d = c
    <3>1. LoopOK(c) /\ pc[c] = "reply" /\ pc'[c] = "failed"
      BY <1>0, <1>3 DEF RequestFails, GoTo
    <3>2. requests' = requests /\ recorded' = recorded
      BY <1>3 DEF RequestFails
    <3>3. /\ requests[c] \in Nat /\ billed[c] \in Nat /\ recorded[c] \in Nat
          /\ Retries \in Nat /\ Retries' = Retries
      BY <1>0
    <3>a. /\ requests'[c] <= Retries' + 1 /\ billed'[c] <= requests'[c]
          /\ pc'[c] = "reply" => billed'[c] < requests'[c]
      BY <2>1, <3>1, <3>2, <3>3 DEF LoopOK
    <3>b. recorded'[c] <= billed'[c]
      BY <2>1, <3>1, <3>2, <3>3 DEF LoopOK
    <3>d. /\ pc'[c] \in {"request", "reply", "failed", "sleep", "notify failed", "raised"} =>
               recorded'[c] = 0
          /\ pc'[c] = "notify ok" => recorded'[c] = 1
      BY <2>1, <3>1, <3>2, <3>3 DEF LoopOK
    <3>e. pc'[c] \notin {"request", "sleep"}
      BY <3>1
    <3> QED BY <2>c, <3>a, <3>b, <3>d, <3>e DEF LoopOK
  <2> QED BY <2>b, <2>c
<1>4. ASSUME NEW c \in Callers, Retry(c), NEW d \in Callers PROVE LoopOK(d)'
  BY <1>0, <1>4 DEF Retry, GoTo, LoopOK, Places, Ended
<1>5. ASSUME NEW c \in Callers, Wake(c), NEW d \in Callers PROVE LoopOK(d)'
  BY <1>0, <1>5 DEF Wake, GoTo, LoopOK, Places, Ended
<1>6. ASSUME NEW c \in Callers, GiveUp(c), NEW d \in Callers PROVE LoopOK(d)'
  BY <1>0, <1>6 DEF GiveUp, GoTo, LoopOK, Places, Ended
<1>7. ASSUME NEW c \in Callers, SinkFails(c), NEW d \in Callers PROVE LoopOK(d)'
  BY <1>0, <1>7 DEF SinkFails, GoTo, LoopOK, Places, Ended
<1>8. ASSUME NEW c \in Callers, Notify(c), NEW d \in Callers PROVE LoopOK(d)'
  BY <1>0, <1>8 DEF Notify, GoTo, LoopOK, Places, Ended
<1>9. ASSUME NEW c \in Callers, Cancel(c), NEW d \in Callers PROVE LoopOK(d)'
  <2>1. /\ billed' \in [Callers -> Nat]
        /\ billed'[c] = billed[c] \/ (billed'[c] = billed[c] + 1 /\ pc[c] = "reply")
        /\ \A e \in Callers : e # c => billed'[e] = billed[e]
    <3>1. CASE PerhapsBilled(c) /\ pc[c] = "reply"
      BY <1>0, <3>1, Billed
    <3>2. CASE UNCHANGED billed
      BY <1>0, <3>2 DEF TypeOK
    <3> QED BY <1>9, <3>1, <3>2 DEF Cancel
  <2>a. /\ \A e \in Callers : e # c => pc'[e] = pc[e]
    BY <1>0, <1>9 DEF Cancel, GoTo
  <2>b. CASE d # c
    BY <1>0, <1>9, <2>a, <2>b, <2>1 DEF Cancel, LoopOK
  <2>c. CASE d = c
    <3>1. LoopOK(c) /\ pc'[c] = "cancelled"
      BY <1>0, <1>9 DEF Cancel, GoTo
    <3>2. requests' = requests /\ recorded' = recorded
      BY <1>9 DEF Cancel
    <3>3. /\ requests[c] \in Nat /\ billed[c] \in Nat /\ recorded[c] \in Nat
          /\ Retries \in Nat /\ Retries' = Retries
      BY <1>0
    <3>4. /\ requests[c] <= Retries + 1 /\ billed[c] <= requests[c] /\ recorded[c] <= billed[c]
          /\ pc[c] = "reply" => billed[c] < requests[c]
      BY <3>1 DEF LoopOK
    <3>5. /\ requests'[c] = requests[c] /\ recorded'[c] = recorded[c]
          /\ billed'[c] = billed[c] \/ (billed'[c] = billed[c] + 1 /\ pc[c] = "reply")
      BY <2>1, <3>2
    <3>a. /\ requests'[c] <= Retries' + 1 /\ billed'[c] <= requests'[c]
          /\ recorded'[c] <= billed'[c]
      <4>1. CASE billed'[c] = billed[c]
        BY <3>3, <3>4, <3>5, <4>1
      <4>2. CASE billed'[c] = billed[c] + 1 /\ billed[c] < requests[c]
        BY <3>3, <3>4, <3>5, <4>2
      <4> QED BY <3>4, <3>5, <4>1, <4>2
    <3>b. pc'[c] \notin {"request", "reply", "failed", "sleep", "notify failed", "raised", "notify ok"}
      BY <3>1
    <3>e. pc'[c] \notin {"request", "sleep"}
      BY <3>1
    <3> QED BY <2>c, <3>a, <3>b, <3>e DEF LoopOK
  <2> QED BY <2>b, <2>c
<1>10. ASSUME UNCHANGED vars, NEW d \in Callers PROVE LoopOK(d)'
  BY <1>0, <1>10 DEF vars, LoopOK
<1> QED
  BY <1>1, <1>2, <1>3, <1>4, <1>5, <1>6, <1>7, <1>8, <1>9, <1>10 DEF Next, Step, LoopInv

\* Together: the inductive step.
LEMMA StepInd == IndInv /\ [Next]_vars => IndInv'
  BY StepType, StepTransient, StepFinal, StepLoop DEF IndInv

-----------------------------------------------------------------------------
(* The loop over the client cache. *)

\* A call that gets no client ends before its first request.
LEMMA ConnectFailsInd == ASSUME IndInv, NEW c \in Callers, ConnectFails(c) PROVE IndInv'
<1> USE DEF IndInv, ConnectFails, GoTo
<1>1. TypeOK'
  BY DEF TypeOK, Places, Ended
<1>2. RetriesAreTransient'
  BY DEF RetriesAreTransient
<1>3. AnswerIsFinal'
  BY DEF TypeOK, AnswerIsFinal, LoopInv, LoopOK
<1>4. LoopInv'
  <2> SUFFICES ASSUME NEW d \in Callers PROVE LoopOK(d)'
    BY DEF LoopInv
  <2>1. pc'[d] = (IF d = c THEN "raised" ELSE pc[d]) /\ Retries' = Retries /\ LoopOK(d)
    BY DEF TypeOK, LoopInv, Retries
  <2>2. LoopOK(c) /\ pc[c] = "request" /\ UNCHANGED <<requests, billed, recorded>>
    BY DEF LoopInv
  <2>3. CASE d = c
    <3>1. pc'[d] = "raised" /\ pc[d] = "request" /\ LoopOK(d)
      BY <2>1, <2>2, <2>3
    <3> HIDE DEF IndInv, ConnectFails, GoTo
    <3> QED
      BY <2>1, <2>2, <3>1 DEF LoopOK
  <2>4. CASE d # c
    <3> HIDE DEF IndInv, ConnectFails, GoTo
    <3> QED
      BY <2>1, <2>2, <2>4 DEF LoopOK
  <2> QED
    BY <2>3, <2>4
<1> QED
  BY <1>1, <1>2, <1>3, <1>4

\* Every other step of a call is one of the loop: a closed client refuses a
\* request as a failed connection that is not billed.
LEMMA CallInd ==
  ASSUME IndInv, NEW c \in Callers,
         Connect(c) \/ CallStep(c) \/ (Cancel(c) /\ UNCHANGED clientVars)
  PROVE  IndInv'
<1>1. CASE Refused(c)
  <2>1. billed = [billed EXCEPT ![c] = @ + 0]
    BY DEF IndInv, TypeOK
  <2>2. PerhapsBilled(c)
    BY <1>1, <2>1 DEF Refused, PerhapsBilled
  <2>3. RequestFails(c)
    BY <1>1, <2>2 DEF Refused, RequestFails, Kinds
  <2> QED
    BY <2>3, StepInd DEF Next, Step
<1>2. CASE Connect(c)
  BY <1>2, StepInd DEF Connect
<1>3. CASE CallStep(c) /\ ~Refused(c)
  BY <1>3, StepInd DEF CallStep, Send, Next, Step
<1>4. CASE Cancel(c)
  BY <1>4, StepInd DEF Next
<1> QED
  BY <1>1, <1>2, <1>3, <1>4

\* close() does not touch the loop.
LEMMA CloseInd == ASSUME IndInv, CloseStep \/ CloseFails PROVE IndInv'
<1>1. UNCHANGED vars
  BY DEF CloseStep, Close, CloseNext, CloseRaises, Clear, CloseFails, Closing, CloserEnds
<1> QED
  BY <1>1, StepInd

\* The loop's invariant holds in every reachable state.
THEOREM Inductive == GatewaySpec => []IndInv
<1>1. GatewayInit => IndInv
  BY InitInd DEF GatewayInit
<1>2. IndInv /\ [NextCalls \/ CloseStep \/ CloseFails]_allVars => IndInv'
  <2> SUFFICES ASSUME IndInv, [NextCalls \/ CloseStep \/ CloseFails]_allVars PROVE IndInv'
    OBVIOUS
  <2>1. CASE NextCalls
    BY <2>1, ConnectFailsInd, CallInd DEF NextCalls
  <2>2. CASE UNCHANGED allVars
    BY <2>2, StepInd DEF allVars
  <2> QED
    BY <2>1, <2>2, CloseInd
<1> QED
  BY <1>1, <1>2, PTL DEF GatewaySpec

-----------------------------------------------------------------------------
(* The client cache. *)

Clients == [provider : Providers, number : Nat]

\* A client that is added is the one element the cache gains.
LEMMA AppendSet ==
  ASSUME NEW s \in Seq(Clients), NEW k \in Clients
  PROVE  /\ Append(s, k) \in Seq(Clients) /\ Len(Append(s, k)) = Len(s) + 1
         /\ ToSet(Append(s, k)) = ToSet(s) \cup {k}
         /\ \A i \in 1..Len(s) : Append(s, k)[i] = s[i]
         /\ Append(s, k)[Len(s) + 1] = k
<1>1. /\ Append(s, k) \in Seq(Clients) /\ Len(Append(s, k)) = Len(s) + 1
      /\ \A i \in 1..Len(s) : Append(s, k)[i] = s[i]
      /\ Append(s, k)[Len(s) + 1] = k
  BY AppendProperties
<1>2. DOMAIN s = 1..Len(s) /\ DOMAIN Append(s, k) = 1..Len(s) + 1 /\ Len(s) \in Nat
  BY <1>1
<1>3. 1..Len(s) + 1 = (1..Len(s)) \cup {Len(s) + 1}
  BY <1>2
<1> QED
  BY <1>1, <1>2, <1>3 DEF ToSet

\* Clients that earlier calls left are in the cache and open.
LEMMA InitClients == GatewayInit => ClientsInv
<1> SUFFICES ASSUME GatewayInit PROVE ClientsInv
  OBVIOUS
<1> DEFINE first == {[provider |-> p, number |-> 1] : p \in Providers}
<1>1. PICK s \in SUBSET first : cache \in [1..Cardinality(s) -> s]
  BY DEF GatewayInit, SetToAllKPermutations, SetToSeqs
<1>2. IsFiniteSet(first)
  <2> DEFINE f == [p \in Providers |-> [provider |-> p, number |-> 1]]
  <2>1. f \in Surjection(Providers, first)
    BY DEF Surjection
  <2> HIDE DEF f
  <2> QED
    BY <2>1, ProvidersFinite, FS_Surjection
<1>3. Cardinality(s) \in Nat /\ s \subseteq Clients
  BY <1>2, FS_Subset, FS_CardinalityType DEF Clients
<1>4. cache \in Seq(Clients)
  BY <1>1, <1>3
<1> QED
  BY <1>4 DEF GatewayInit, ClientsInv, ClientTypeOK, CloserInv, NoClientLost, Clients

\* A new client is open and where a close() finds it, unless one has gone past.
LEMMA ConnectClients == ASSUME ClientsInv, NEW c \in Callers, Connect(c) PROVE ClientsInv'
<1> USE DEF ClientsInv, ClientTypeOK, Clients
<1>1. PICK p \in Providers :
        \/ UNCHANGED <<cache, open, created>>
        \/ LET new == [provider |-> p, number |-> created[p] + 1] IN
             /\ cache' = Append(cache, new)
             /\ open' = open \cup {new}
             /\ created' = [created EXCEPT ![p] = @ + 1]
  BY DEF Connect
<1>2. UNCHANGED closer
  BY DEF Connect
<1>3. CASE UNCHANGED <<cache, open, created>>
  BY <1>2, <1>3 DEF CloserInv, NoClientLost
<1>4. ASSUME NEW new \in Clients, cache' = Append(cache, new), open' = open \cup {new},
             created' = [created EXCEPT ![p] = @ + 1]
      PROVE  ClientsInv'
  <2>1. /\ cache' \in Seq(Clients) /\ Len(cache') = Len(cache) + 1
        /\ ToSet(cache') = ToSet(cache) \cup {new}
        /\ \A i \in 1..Len(cache) : cache'[i] = cache[i]
        /\ cache'[Len(cache) + 1] = new
    BY <1>4, AppendSet
  <2>2. ClientTypeOK'
    BY <1>2, <1>4, <2>1
  <2>3. NoClientLost'
    BY <1>2, <1>4, <2>1 DEF NoClientLost
  <2>4. CloserInv'
    <3> SUFFICES ASSUME closer.at = "closing"
                 PROVE  /\ closer.index \in 1..closer.size /\ closer.size <= Len(cache')
                        /\ open' \subseteq {cache'[i] : i \in closer.index + 1 .. Len(cache')}
      BY <1>2 DEF CloserInv
    <3>1. /\ closer.index \in 1..closer.size /\ closer.size <= Len(cache)
          /\ open \subseteq {cache[i] : i \in closer.index + 1 .. Len(cache)}
          /\ Len(cache) \in Nat /\ closer.index \in Nat /\ closer.size \in Nat
      BY DEF CloserInv
    <3>2. closer.index \in 1..closer.size /\ closer.size <= Len(cache')
      BY <2>1, <3>1
    <3>3. ASSUME NEW k \in open
          PROVE  \E i \in closer.index + 1 .. Len(cache') : k = cache'[i]
      <4>1. PICK i \in closer.index + 1 .. Len(cache) : k = cache[i]
        BY <3>1, <3>3
      <4> QED
        BY <2>1, <3>1, <4>1
    <3>4. Len(cache) + 1 \in closer.index + 1 .. Len(cache')
      BY <2>1, <3>1
    <3>5. ASSUME NEW k \in open'
          PROVE  \E i \in closer.index + 1 .. Len(cache') : k = cache'[i]
      BY <1>4, <2>1, <3>3, <3>4, <3>5
    <3> QED
      BY <3>2, <3>5
  <2> QED
    BY <2>2, <2>3, <2>4
<1>5. [provider |-> p, number |-> created[p] + 1] \in Clients
  OBVIOUS
<1> QED
  BY <1>1, <1>3, <1>4, <1>5

\* close() closes the next client, or leaves.
LEMMA CloseClients == ASSUME ClientsInv, CloseStep \/ CloseFails PROVE ClientsInv'
<1> USE DEF ClientsInv, ClientTypeOK, CloserInv, NoClientLost
<1>0. Len(cache) \in Nat /\ DOMAIN cache = 1..Len(cache)
  OBVIOUS
<1>1. ASSUME NEW index \in Nat, NEW size \in Nat, Closing(index, size),
             index \in 1..size, size <= Len(cache),
             open \subseteq {cache[i] : i \in index .. Len(cache)}
      PROVE  ClientsInv'
  <2>1. ASSUME NEW k \in open'
        PROVE  k \in {cache[i] : i \in index + 1 .. Len(cache)}
    <3>1. open' = open \ {cache[index]}
      BY <1>1 DEF Closing
    <3>2. PICK i \in index .. Len(cache) : k = cache[i]
      BY <1>1, <2>1, <3>1
    <3>3. i # index
      BY <2>1, <3>1, <3>2
    <3>4. i \in index + 1 .. Len(cache)
      BY <1>0, <1>1, <3>2, <3>3
    <3> QED
      BY <3>2, <3>4
  <2>2. open' \subseteq ToSet(cache)
    BY <1>1 DEF Closing
  <2> QED
    BY <1>1, <2>1, <2>2 DEF Closing
<1>2. CASE Close
  <2>1. open \subseteq {cache[i] : i \in 1..Len(cache)}
    BY <1>0 DEF ToSet
  <2>2. Len(cache) >= 1 /\ Closing(1, Len(cache))
    BY <1>0, <1>2, EmptySeq DEF Close
  <2> QED
    BY <1>0, <1>1, <2>1, <2>2
<1>3. CASE CloseNext
  <2>1. /\ closer.index \in Nat /\ closer.size \in Nat /\ closer.index < closer.size
        /\ closer.index \in 1..closer.size /\ closer.size <= Len(cache)
        /\ open \subseteq {cache[i] : i \in closer.index + 1 .. Len(cache)}
    BY <1>3 DEF CloseNext
  <2>2. Closing(closer.index + 1, closer.size)
    BY <1>3 DEF CloseNext
  <2>3. closer.index + 1 \in Nat /\ closer.index + 1 \in 1..closer.size
    BY <2>1
  <2> QED
    BY <1>1, <2>1, <2>2, <2>3
<1>4. CASE CloseRaises \/ CloseFails
  BY <1>4 DEF CloseRaises, CloseFails, CloserEnds
<1>5. CASE Clear
  <2>1. open = {}
    BY <1>0, <1>5 DEF Clear, Resized, ToSet
  <2>2. cache' \in Seq(Clients)
    BY <1>5 DEF Clear
  <2> QED
    BY <1>5, <2>1, <2>2 DEF Clear, CloserEnds, Clients
<1> QED
  BY <1>2, <1>3, <1>4, <1>5 DEF CloseStep

\* No open client is ever out of the cache, whatever calls do while close()
\* awaits (gateway.py:362-392).
THEOREM ClientsKept == GatewaySpec => []NoClientLost
<1>1. ClientsInv /\ [NextCalls \/ CloseStep \/ CloseFails]_allVars => ClientsInv'
  <2> SUFFICES ASSUME ClientsInv, [NextCalls \/ CloseStep \/ CloseFails]_allVars
               PROVE  ClientsInv'
    OBVIOUS
  <2>1. CASE UNCHANGED <<cache, open, created, closer>>
    BY <2>1 DEF ClientsInv, ClientTypeOK, CloserInv, NoClientLost
  <2>2. ASSUME NEW c \in Callers, ~Connect(c),
               ConnectFails(c) \/ CallStep(c) \/ (Cancel(c) /\ UNCHANGED clientVars)
        PROVE  UNCHANGED <<cache, open, created, closer>>
    BY <2>2 DEF ConnectFails, CallStep, Send, Refused, clientVars
  <2> QED
    BY <2>1, <2>2, ConnectClients, CloseClients DEF NextCalls, allVars, clientVars
<1>2. ClientsInv => NoClientLost
  BY DEF ClientsInv
<1> QED
  BY <1>1, <1>2, InitClients, PTL DEF GatewaySpec

-----------------------------------------------------------------------------
\* Only the transient allow-list is ever retried (gateway.py:134, 152-208).
THEOREM TransientOnly == GatewaySpec => []RetriesAreTransient
<1>1. IndInv => RetriesAreTransient
  BY DEF IndInv
<1> QED BY <1>1, Inductive, PTL

\* An accounted answer is never asked for again, whatever the health sink does
\* (gateway.py:125-127, 349-360).
THEOREM FinalAnswer == GatewaySpec => []AnswerIsFinal
<1>1. IndInv => AnswerIsFinal
  BY DEF IndInv
<1> QED BY <1>1, Inductive, PTL

\* A once-only gateway is billed once at most; with retries the bill is bounded
\* by the setting (gateway.py:105-106).
THEOREM BoundedSpend == GatewaySpec => []SpendBounded
<1>1. ASSUME IndInv PROVE SpendBounded
  <2> SUFFICES ASSUME NEW c \in Callers
               PROVE /\ recorded[c] <= billed[c]
                     /\ maxRetries <= 0 => billed[c] <= 1
                     /\ maxRetries > 0 => billed[c] <= maxRetries + 1
    BY DEF SpendBounded
  <2>1. /\ recorded[c] <= billed[c]
        /\ billed[c] <= requests[c] /\ requests[c] <= Retries + 1
        /\ billed[c] \in Nat /\ requests[c] \in Nat
    BY <1>1 DEF IndInv, LoopInv, LoopOK, TypeOK
  <2>2. /\ Retries \in Nat
        /\ maxRetries <= 0 => Retries = 0
        /\ maxRetries > 0 => Retries = maxRetries
    BY <1>1, RetriesNat DEF IndInv, TypeOK
  <2> QED BY <2>1, <2>2
<1> QED BY <1>1, Inductive, PTL

\* A call takes a client for itself alone.
LEMMA ClientTaken ==
  ASSUME NEW c \in Callers, ClientFunction,
         Connect(c) \/ ConnectFails(c) \/ CallStep(c) \/ (Cancel(c) /\ UNCHANGED clientVars)
  PROVE  ClientFunction' /\ \A d \in Callers : d # c => client'[d] = client[d]
<1>1. client' = client \/ \E k : client' = [client EXCEPT ![c] = k]
  BY DEF Connect, ConnectFails, CallStep, Cancel, Send, Refused, clientVars
<1>2. ASSUME UNCHANGED client
      PROVE  ClientFunction' /\ \A d \in Callers : client'[d] = client[d]
  BY <1>2 DEF ClientFunction
<1>3. ASSUME NEW k, client' = [client EXCEPT ![c] = k]
      PROVE  ClientFunction' /\ \A d \in Callers : d # c => client'[d] = client[d]
  BY <1>3 DEF ClientFunction
<1> QED
  BY <1>1, <1>2, <1>3

\* A step of one call leaves every other as it was.
LEMMA OthersKept ==
  ASSUME IndInv, NEW c \in Callers, NEW d \in Callers, d # c, ClientFunction, SpentOK(d),
         Connect(c) \/ ConnectFails(c) \/ CallStep(c) \/ (Cancel(c) /\ UNCHANGED clientVars)
  PROVE  SpentOK(d)'
<1>1. /\ pc \in [Callers -> Places] /\ requests \in [Callers -> Nat] /\ LoopOK(c)
  BY DEF IndInv, TypeOK, LoopInv
<1>2. pc'[d] = pc[d]
  BY <1>1 DEF Connect, ConnectFails, CallStep, Cancel, Send, Refused, Request, ReplyAccepted,
              RequestFails, Retry, Wake, GiveUp, SinkFails, Notify, GoTo, vars
<1>3. requests'[d] = requests[d]
  BY <1>1 DEF Connect, ConnectFails, CallStep, Cancel, Send, Refused, Request, ReplyAccepted,
              RequestFails, Retry, Wake, GiveUp, SinkFails, Notify, vars
<1>4. failure'[d] = failure[d]
  BY DEF Connect, ConnectFails, CallStep, Cancel, Send, Refused, Request, ReplyAccepted,
         RequestFails, Retry, Wake, GiveUp, SinkFails, Notify, vars, IndInv, TypeOK
<1>5. maxRetries' = maxRetries
  BY DEF Connect, ConnectFails, CallStep, Cancel, Send, Refused, Request, ReplyAccepted,
         RequestFails, Retry, Wake, GiveUp, SinkFails, Notify, vars
<1>6. client'[d] = client[d]
  BY ClientTaken
<1> QED
  BY <1>2, <1>3, <1>4, <1>5, <1>6 DEF SpentOK

\* Before a call gave up it asked, as often as it may if asking helps.
LEMMA CallSpent ==
  ASSUME IndInv, NEW c \in Callers, SpentOK(c),
         Connect(c) \/ ConnectFails(c) \/ CallStep(c) \/ (Cancel(c) /\ UNCHANGED clientVars)
  PROVE  SpentOK(c)'
<1>0. /\ pc \in [Callers -> Places] /\ requests \in [Callers -> Nat] /\ LoopOK(c)
      /\ failure \in [Callers -> Kinds \cup {"none"}]
      /\ maxRetries \in Int /\ Retries \in Nat /\ maxRetries <= Retries
  BY RetriesNat, MaxRetriesType DEF IndInv, TypeOK, LoopInv
<1>1. CASE Connect(c)
  BY <1>1 DEF Connect, vars, SpentOK
<1>2. CASE ConnectFails(c)
  BY <1>0, <1>2 DEF ConnectFails, GoTo, clientVars, SpentOK
<1>3. CASE Send(c)
  <2>1. pc' = [pc EXCEPT ![c] = "reply"] /\ requests' = [requests EXCEPT ![c] = @ + 1]
    BY <1>0, <1>3, Attempt DEF Send, GoTo
  <2>2. requests'[c] > 0 /\ pc'[c] = "reply"
    BY <1>0, <2>1
  <2> QED
    BY <2>2 DEF SpentOK
<1>4. CASE ReplyAccepted(c) \/ RequestFails(c) \/ Refused(c)
  <2>1. /\ pc[c] = "reply" /\ UNCHANGED requests
        /\ \/ pc' = [pc EXCEPT ![c] = "notify ok"]
           \/ pc' = [pc EXCEPT ![c] = "failed"]
    BY <1>4 DEF ReplyAccepted, RequestFails, Refused, GoTo
  <2>2. pc'[c] \in {"notify ok", "failed"} /\ requests'[c] > 0
    BY <1>0, <2>1 DEF SpentOK
  <2> QED
    BY <2>2 DEF SpentOK
<1>5. CASE Retry(c) \/ Wake(c)
  <2>1. pc' = [pc EXCEPT ![c] = "sleep"] \/ pc' = [pc EXCEPT ![c] = "request"]
    BY <1>5 DEF Retry, Wake, GoTo
  <2>2. pc'[c] \in {"sleep", "request"}
    BY <1>0, <2>1
  <2> QED
    BY <2>2 DEF SpentOK
<1>6. CASE GiveUp(c)
  <2>1. /\ UNCHANGED <<requests, maxRetries, failure>>
        /\ pc[c] = "failed" /\ pc' = [pc EXCEPT ![c] = "notify failed"]
        /\ failure[c] \in Transient => ~(requests[c] <= Retries)
    BY <1>6 DEF GiveUp, GoTo, Classify, Transient
  <2>2. ~(requests[c] <= Retries) => requests[c] > maxRetries
    BY <1>0
  <2>3. pc'[c] = "notify failed" /\ requests[c] > 0
    BY <1>0, <2>1 DEF SpentOK
  <2> QED
    BY <2>1, <2>2, <2>3 DEF SpentOK, Transient
<1>7. CASE (SinkFails(c) \/ Notify(c)) /\ UNCHANGED clientVars
  <2>1. /\ UNCHANGED <<requests, maxRetries, failure, client>>
        /\ \/ pc[c] = "notify ok" /\ pc' = [pc EXCEPT ![c] = "returned"]
           \/ pc[c] = "notify failed" /\ pc' = [pc EXCEPT ![c] = "raised"]
    BY <1>7 DEF SinkFails, Notify, GoTo, clientVars
  <2>2. \/ pc[c] = "notify ok" /\ pc'[c] = "returned"
        \/ pc[c] = "notify failed" /\ pc'[c] = "raised"
    BY <1>0, <2>1
  <2> QED
    BY <2>1, <2>2 DEF SpentOK
<1>8. CASE Cancel(c)
  <2>1. pc'[c] = "cancelled"
    BY <1>0, <1>8 DEF Cancel, GoTo
  <2> QED
    BY <2>1 DEF SpentOK
<1> QED
  BY <1>1, <1>2, <1>3, <1>4, <1>5, <1>6, <1>7, <1>8 DEF CallStep

\* However max_retries is set, a call with a client asks before it raises, and asks
\* again while its setting allows (gateway.py:103-150).
THEOREM Spent == GatewaySpec => []RaisedWhenSpent
<1>1. GatewayInit => SpentInv
  BY DEF GatewayInit, Init, SpentInv, SpentOK, ClientFunction
<1>2. IndInv /\ SpentInv /\ [NextCalls \/ CloseStep \/ CloseFails]_allVars => SpentInv'
  <2> SUFFICES ASSUME IndInv, SpentInv, [NextCalls \/ CloseStep \/ CloseFails]_allVars
               PROVE  SpentInv'
    OBVIOUS
  <2>1. ASSUME NEW c \in Callers,
               Connect(c) \/ ConnectFails(c) \/ CallStep(c) \/ (Cancel(c) /\ UNCHANGED clientVars)
        PROVE  SpentInv'
    <3>1. ClientFunction' /\ SpentOK(c)'
      BY <2>1, CallSpent, ClientTaken DEF SpentInv
    <3>2. ASSUME NEW d \in Callers, d # c PROVE SpentOK(d)'
      BY <2>1, <3>2, OthersKept DEF SpentInv
    <3> QED
      BY <3>1, <3>2 DEF SpentInv
  <2>2. CASE CloseStep \/ CloseFails \/ UNCHANGED allVars
    <3>1. UNCHANGED <<pc, requests, failure, maxRetries, client>>
      BY <2>2 DEF CloseStep, Close, CloseNext, CloseRaises, Clear, CloseFails, Closing,
                  CloserEnds, allVars, clientVars, vars
    <3> QED
      BY <3>1 DEF SpentInv, SpentOK, ClientFunction
  <2> QED
    BY <2>1, <2>2 DEF NextCalls
<1>3. SpentInv => RaisedWhenSpent
  BY DEF SpentInv, SpentOK, RaisedWhenSpent
<1> QED
  BY <1>1, <1>2, <1>3, Inductive, PTL DEF GatewaySpec

-----------------------------------------------------------------------------
(* What termination rests on.                                               *)

\* The awaits that are left until the fate of a request is told, place by place.
LEMMA RestType ==
  ASSUME NEW place \in Places
  PROVE  Rest[place] \in Int /\ Rest[place] >= 0
BY DEF Rest

LEMMA RestPositive ==
  ASSUME NEW place \in Places, place \notin Ended, place # "request"
  PROVE  Rest[place] > 0
BY DEF Rest

LEMMA RestFalls ==
  /\ Rest["request"] = 0 /\ Rest["reply"] < Rest["request"] + 4
  /\ Rest["request"] < Rest["sleep"]
  /\ Rest["notify ok"] < Rest["reply"] /\ Rest["failed"] < Rest["reply"]
  /\ Rest["sleep"] < Rest["failed"] /\ Rest["notify failed"] < Rest["failed"]
BY DEF Rest, Places

\* There is something left until a call has ended.
LEMMA FuelNat ==
  ASSUME NEW c \in Callers, TypeOK, LoopOK(c)
  PROVE  /\ Fuel(c) \in Nat
         /\ requests[c] \in Nat /\ Retries \in Nat
         /\ pc[c] \in Ended => Fuel(c) = 0
         /\ pc[c] \notin Ended => /\ Fuel(c) = 4 * (Retries + 1 - requests[c]) + Rest[pc[c]]
                                  /\ Fuel(c) > 0
<1>1. /\ requests[c] \in Nat /\ Retries \in Nat /\ pc[c] \in Places
      /\ requests[c] <= Retries + 1
      /\ pc[c] = "request" => requests[c] <= Retries
  BY RetriesNat DEF TypeOK, LoopOK
<1>2. Rest[pc[c]] \in Int /\ Rest[pc[c]] >= 0
      /\ (pc[c] \notin Ended /\ pc[c] # "request" => Rest[pc[c]] > 0)
  BY <1>1, RestType, RestPositive
<1>3. /\ pc[c] \in Ended => Fuel(c) = 0
      /\ pc[c] \notin Ended => Fuel(c) = 4 * (Retries + 1 - requests[c]) + Rest[pc[c]]
  BY DEF Fuel
<1>4. CASE pc[c] \in Ended
  BY <1>1, <1>3, <1>4
<1>5. CASE pc[c] = "request"
  <2>1. pc[c] \notin Ended /\ Rest[pc[c]] = 0
    BY <1>5, RestFalls DEF Ended
  <2>2. Fuel(c) = 4 * (Retries + 1 - requests[c])
    BY <1>1, <1>3, <2>1
  <2> QED
    BY <1>1, <1>3, <1>5, <2>1, <2>2
<1>6. CASE pc[c] \notin Ended /\ pc[c] # "request"
  BY <1>1, <1>2, <1>3, <1>6
<1> QED
  BY <1>4, <1>5, <1>6

\* Less is left after a step to a place nearer the end, and after one more request.
LEMMA LessIsLeft ==
  ASSUME NEW c \in Callers, TypeOK, LoopOK(c), TypeOK', LoopOK(c)', Retries' = Retries,
         pc[c] \notin Ended, pc'[c] \notin Ended,
         \/ requests'[c] = requests[c] /\ Rest[pc'[c]] < Rest[pc[c]]
         \/ requests'[c] = requests[c] + 1 /\ Rest[pc'[c]] < Rest[pc[c]] + 4
  PROVE  Fuel(c)' \in 0..(Fuel(c) - 1)
<1>1. /\ Fuel(c) = 4 * (Retries + 1 - requests[c]) + Rest[pc[c]]
      /\ Fuel(c) \in Nat /\ requests[c] \in Nat /\ Retries \in Nat
  BY FuelNat
<1>2. /\ pc[c] \in Places /\ pc'[c] \in Places /\ requests'[c] \in Nat
  BY DEF TypeOK
<1>3. Fuel(c)' = 4 * (Retries' + 1 - requests'[c]) + Rest[pc'[c]]
  BY DEF Fuel
<1>4. Fuel(c)' \in Nat
  <2>1. Retries' \in Nat
    BY <1>1
  <2>2. /\ requests'[c] <= Retries' + 1
        /\ Rest[pc'[c]] \in Int /\ Rest[pc'[c]] >= 0
    BY <1>2, RestType DEF LoopOK
  <2> QED
    BY <1>2, <1>3, <2>1, <2>2
<1>5. Rest[pc[c]] \in Int /\ Rest[pc'[c]] \in Int
  BY <1>2, RestType
<1>6. Fuel(c)' < Fuel(c)
  BY <1>1, <1>2, <1>3, <1>5
<1> QED
  BY <1>1, <1>4, <1>6

\* One step of a call, place by place, leaves less of it.
LEMMA CallRunsDown ==
  ASSUME TypeOK, TypeOK', NEW c \in Callers, LoopOK(c), LoopOK(c)',
         Step(c) \/ Cancel(c) \/ Refused(c)
  PROVE  Fuel(c)' \in 0..(Fuel(c) - 1)
<1>1. pc \in [Callers -> Places] /\ requests \in [Callers -> Nat]
  BY DEF TypeOK
<1>2. Retries' = Retries
  BY DEF Step, Cancel, Refused, Request, ReplyAccepted, RequestFails, Retry, Wake, GiveUp,
         SinkFails, Notify, Retries
<1>3. CASE Request(c)
  <2>1. /\ pc[c] = "request" /\ pc' = [pc EXCEPT ![c] = "reply"]
        /\ requests' = [requests EXCEPT ![c] = @ + 1]
    BY <1>3, Attempt DEF GoTo
  <2>2. pc'[c] = "reply" /\ requests'[c] = requests[c] + 1
    BY <1>1, <2>1
  <2>3. pc[c] \notin Ended /\ pc'[c] \notin Ended /\ Rest[pc'[c]] < Rest[pc[c]] + 4
    BY <2>1, <2>2, RestFalls DEF Ended
  <2> QED
    BY <1>2, <2>2, <2>3, LessIsLeft
<1>4. CASE Wake(c)
  <2>1. /\ pc[c] = "sleep" /\ pc' = [pc EXCEPT ![c] = "request"] /\ requests' = requests
    BY <1>4 DEF Wake, GoTo
  <2>2. pc'[c] = "request" /\ requests'[c] = requests[c]
    BY <1>1, <2>1
  <2>3. pc[c] \notin Ended /\ pc'[c] \notin Ended /\ Rest[pc'[c]] < Rest[pc[c]]
    BY <2>1, <2>2, RestFalls DEF Ended
  <2> QED
    BY <1>2, <2>2, <2>3, LessIsLeft
<1>5. CASE ReplyAccepted(c) \/ RequestFails(c) \/ Refused(c) \/ Retry(c) \/ GiveUp(c)
  <2>1. /\ \/ pc[c] = "reply" /\ pc' = [pc EXCEPT ![c] = "notify ok"]
           \/ pc[c] = "reply" /\ pc' = [pc EXCEPT ![c] = "failed"]
           \/ pc[c] = "failed" /\ pc' = [pc EXCEPT ![c] = "sleep"]
           \/ pc[c] = "failed" /\ pc' = [pc EXCEPT ![c] = "notify failed"]
        /\ requests' = requests
    BY <1>5 DEF ReplyAccepted, RequestFails, Refused, Retry, GiveUp, GoTo
  <2>2. \/ pc[c] = "reply" /\ pc'[c] = "notify ok"
        \/ pc[c] = "reply" /\ pc'[c] = "failed"
        \/ pc[c] = "failed" /\ pc'[c] = "sleep"
        \/ pc[c] = "failed" /\ pc'[c] = "notify failed"
    BY <1>1, <2>1
  <2>3. pc[c] \notin Ended /\ pc'[c] \notin Ended /\ Rest[pc'[c]] < Rest[pc[c]]
    BY <2>2, RestFalls DEF Ended
  <2> QED
    BY <1>2, <2>1, <2>3, LessIsLeft
<1>6. CASE SinkFails(c) \/ Notify(c) \/ Cancel(c)
  <2>1. pc[c] \notin Ended /\ \E place \in Ended : pc' = [pc EXCEPT ![c] = place]
    BY <1>6 DEF SinkFails, Notify, Cancel, GoTo, Ended
  <2>2. pc'[c] \in Ended
    BY <1>1, <2>1
  <2>3. Fuel(c)' = 0
    BY <2>2 DEF Fuel
  <2>4. Fuel(c) \in Nat /\ Fuel(c) > 0
    BY <2>1, FuelNat
  <2> QED
    BY <2>3, <2>4
<1> QED
  BY <1>3, <1>4, <1>5, <1>6 DEF Step

\* A call, with all its failures, sleeps and telemetry, takes no more steps than
\* its setting of max_retries allows, and close() adds none (gateway.py:90-150).
THEOREM RunsDown == GatewaySpec => CallsRunDown
<1> DEFINE Drop == \A c \in Callers : pc'[c] # pc[c] => Fuel(c)' \in 0..(Fuel(c) - 1)
<1>1. IndInv /\ IndInv' /\ [NextCalls \/ CloseStep \/ CloseFails]_allVars => [Drop]_allVars
  <2> SUFFICES ASSUME IndInv, IndInv', [NextCalls \/ CloseStep \/ CloseFails]_allVars,
                      NEW d \in Callers, pc'[d] # pc[d]
               PROVE  Fuel(d)' \in 0..(Fuel(d) - 1)
    OBVIOUS
  <2>1. TypeOK /\ TypeOK' /\ LoopOK(d) /\ LoopOK(d)' /\ pc \in [Callers -> Places]
    BY DEF IndInv, LoopInv, TypeOK
  <2>2. ASSUME NEW c \in Callers, Step(c) \/ Cancel(c) \/ Refused(c)
        PROVE  Fuel(d)' \in 0..(Fuel(d) - 1)
    <3>1. \E place \in Places : pc' = [pc EXCEPT ![c] = place]
      BY <2>2 DEF Step, Cancel, Refused, Request, ReplyAccepted, RequestFails, Retry, Wake,
                  GiveUp, SinkFails, Notify, GoTo, Places, Ended
    <3>2. d = c
      BY <2>1, <3>1
    <3> QED
      BY <2>1, <2>2, <3>2, CallRunsDown
  <2>3. ASSUME NEW c \in Callers, ConnectFails(c)
        PROVE  Fuel(d)' \in 0..(Fuel(d) - 1)
    <3>1. /\ pc[c] = "request" /\ pc' = [pc EXCEPT ![c] = "raised"]
      BY <2>3 DEF ConnectFails, GoTo
    <3>2. d = c /\ pc'[d] = "raised" /\ pc[d] \notin Ended
      BY <2>1, <3>1 DEF Ended
    <3>3. Fuel(d)' = 0
      BY <3>2 DEF Fuel, Ended
    <3>4. Fuel(d) \in Nat /\ Fuel(d) > 0
      BY <2>1, <3>2, FuelNat
    <3> QED
      BY <3>3, <3>4
  <2>4. ASSUME UNCHANGED pc PROVE FALSE
    BY <2>4
  <2>5. ASSUME NEW c \in Callers, Connect(c) PROVE UNCHANGED pc
    BY <2>5 DEF Connect, vars
  <2>6. CASE CloseStep \/ CloseFails
    <3>1. UNCHANGED vars
      BY <2>6 DEF CloseStep, Close, CloseNext, CloseRaises, Clear, CloseFails, Closing, CloserEnds
    <3> QED
      BY <2>4, <3>1 DEF vars
  <2>7. CASE UNCHANGED allVars
    BY <2>4, <2>7 DEF allVars, vars
  <2>8. ASSUME NEW c \in Callers, CallStep(c) PROVE Step(c) \/ Refused(c)
    BY <2>8 DEF CallStep, Send, Step
  <2> QED
    BY <2>2, <2>3, <2>4, <2>5, <2>6, <2>7, <2>8 DEF NextCalls
<1> QED
  BY <1>1, Inductive, PTL DEF GatewaySpec, CallsRunDown
=============================================================================
