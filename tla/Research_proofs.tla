--------------------------- MODULE Research_proofs ---------------------------
(***************************************************************************)
(* For every set of observers, attempts, samples and replays.  The first   *)
(* part: the coordinator keeps its typing, its admission and terminal      *)
(* invariants, and implements the abstract AttemptContract.  The second:   *)
(* a decision sample is backed by the journal and the ledger although the  *)
(* replay that wrote it read them earlier, and a stored START is never     *)
(* paired as no call.                                                      *)
(***************************************************************************)
EXTENDS ResearchReplay, TLAPS

USE DEF Requests, Ended, Places, Replies, Statuses

Step(o) == Landing(o) \/ Progress(o) \/ Trouble(o)

-----------------------------------------------------------------------------
(* One step of one observer, conjunct by conjunct of the invariant.  The    *)
(* actions are grouped by what they change.                                 *)

\* Every variable keeps its type.
LEMMA TypeStep == ASSUME IndInv, NEW o \in Observers, Step(o) PROVE TypeOK'
<1> USE TargetType, SampleOfType, NobodyIsNoObserver
    DEF IndInv, TypeOK, TypeOK, stores, GoTo
<1>1. CASE Find(o) \/ Reread(o)
  BY <1>1 DEF Find, Reread, Observe
<1>2. CASE Reserve(o) \/ Start(o)
  BY <1>2 DEF Reserve, Start, Issue
<1>3. CASE \/ StartAdmitted(o) \/ StartDuplicate(o)
            \/ AdmissionRefused(o) \/ AdmissionInterrupted(o)
            \/ FinishFails(o) \/ Crash(o)
  BY <1>3 DEF StartAdmitted, StartDuplicate, AdmissionRefused,
          AdmissionInterrupted, FinishFails, Crash
<1>4. CASE Dispatch(o)
  BY <1>4 DEF Dispatch
<1>5. CASE ResponseUsable(o)
  BY <1>5 DEF ResponseUsable, Issue
<1>6. CASE DispatchImpossible(o) \/ ResponseRejected(o)
  BY <1>6 DEF DispatchImpossible, ResponseRejected, Conclude, Issue
<1>7. CASE ProviderFails(o) \/ CommitFails(o) \/ CallCancelled(o)
  BY <1>7 DEF ProviderFails, CommitFails, CallCancelled,
          FailureStatus, Conclude, Issue
<1>8. CASE CommitReturns(o)
  BY <1>8 DEF CommitReturns, Conclude, Issue
<1>9. CASE FinishReturns(o)
  BY <1>9 DEF FinishReturns
<1>10. CASE LandReserve(o)
  BY <1>10 DEF LandReserve, Land
<1>11. CASE LandStart(o)
  BY <1>11 DEF LandStart, Land, SampleTaken
<1>12. CASE LandCommit(o)
  BY <1>12 DEF LandCommit, Land
<1>13. CASE LandFinish(o)
  BY <1>13 DEF LandFinish, Land
<1> QED
  BY <1>1, <1>2, <1>3, <1>4, <1>5, <1>6, <1>7,
     <1>8, <1>9, <1>10, <1>11, <1>12, <1>13
  DEF Step, Landing, Progress, Trouble

\* The durable rows stay consistent with each other and with their writers.
LEMMA RowsStep == ASSUME IndInv, NEW o \in Observers, Step(o) PROVE RowsInv'
<1> USE TargetType, SampleOfType, NobodyIsNoObserver
    DEF IndInv, TypeOK, RowsInv, AdmissionInv, OutcomeInv, stores, GoTo
<1>1. CASE Find(o) \/ Reread(o)
  BY <1>1 DEF Find, Reread, Observe
<1>2. CASE Reserve(o) \/ Start(o)
  BY <1>2 DEF Reserve, Start, Issue
<1>3. CASE \/ StartAdmitted(o) \/ StartDuplicate(o)
            \/ AdmissionRefused(o) \/ AdmissionInterrupted(o)
            \/ FinishFails(o) \/ Crash(o)
  BY <1>3 DEF StartAdmitted, StartDuplicate, AdmissionRefused,
          AdmissionInterrupted, FinishFails, Crash
<1>4. CASE Dispatch(o)
  BY <1>4 DEF Dispatch
<1>5. CASE ResponseUsable(o)
  BY <1>5 DEF ResponseUsable, Issue
<1>6. CASE DispatchImpossible(o) \/ ResponseRejected(o)
  BY <1>6 DEF DispatchImpossible, ResponseRejected, Conclude, Issue
<1>7. CASE ProviderFails(o) \/ CommitFails(o) \/ CallCancelled(o)
  BY <1>7 DEF ProviderFails, CommitFails, CallCancelled,
          FailureStatus, Conclude, Issue
<1>8. CASE CommitReturns(o)
  BY <1>8 DEF CommitReturns, Conclude, Issue
<1>9. CASE FinishReturns(o)
  BY <1>9 DEF FinishReturns
<1>10. CASE LandReserve(o)
  BY <1>10 DEF LandReserve, Land
<1>11. CASE LandStart(o)
  BY <1>11 DEF LandStart, Land, SampleTaken
<1>12. CASE LandCommit(o)
  BY <1>12 DEF LandCommit, Land
<1>13. CASE LandFinish(o)
  BY <1>13 DEF LandFinish, Land
<1> QED
  BY <1>1, <1>2, <1>3, <1>4, <1>5, <1>6, <1>7,
     <1>8, <1>9, <1>10, <1>11, <1>12, <1>13
  DEF Step, Landing, Progress, Trouble

\* An observer never stands further than the rows allow.
LEMMA AdmissionStep == ASSUME IndInv, NEW o \in Observers, Step(o) PROVE AdmissionInv'
<1> USE TargetType, SampleOfType, NobodyIsNoObserver
    DEF IndInv, TypeOK, RowsInv, AdmissionInv, OutcomeInv, stores, GoTo
<1>1. CASE Find(o) \/ Reread(o)
  BY <1>1 DEF Find, Reread, Observe
<1>2. CASE Reserve(o) \/ Start(o)
  BY <1>2 DEF Reserve, Start, Issue
<1>3. CASE \/ StartAdmitted(o) \/ StartDuplicate(o)
            \/ AdmissionRefused(o) \/ AdmissionInterrupted(o)
            \/ FinishFails(o) \/ Crash(o)
  BY <1>3 DEF StartAdmitted, StartDuplicate, AdmissionRefused,
          AdmissionInterrupted, FinishFails, Crash
<1>4. CASE Dispatch(o)
  BY <1>4 DEF Dispatch
<1>5. CASE ResponseUsable(o)
  BY <1>5 DEF ResponseUsable, Issue
<1>6. CASE DispatchImpossible(o) \/ ResponseRejected(o)
  BY <1>6 DEF DispatchImpossible, ResponseRejected, Conclude, Issue
<1>7. CASE ProviderFails(o) \/ CommitFails(o) \/ CallCancelled(o)
  BY <1>7 DEF ProviderFails, CommitFails, CallCancelled,
          FailureStatus, Conclude, Issue
<1>8. CASE CommitReturns(o)
  BY <1>8 DEF CommitReturns, Conclude, Issue
<1>9. CASE FinishReturns(o)
  BY <1>9 DEF FinishReturns
<1>10. CASE LandReserve(o)
  BY <1>10 DEF LandReserve, Land
<1>11. CASE LandStart(o)
  BY <1>11 DEF LandStart, Land, SampleTaken
<1>12. CASE LandCommit(o)
  BY <1>12 DEF LandCommit, Land
<1>13. CASE LandFinish(o)
  BY <1>13 DEF LandFinish, Land
<1> QED
  BY <1>1, <1>2, <1>3, <1>4, <1>5, <1>6, <1>7,
     <1>8, <1>9, <1>10, <1>11, <1>12, <1>13
  DEF Step, Landing, Progress, Trouble

\* An observer never wants to record a terminal that is not honest.
LEMMA OutcomeStep == ASSUME IndInv, NEW o \in Observers, Step(o) PROVE OutcomeInv'
<1> USE TargetType, SampleOfType, NobodyIsNoObserver
    DEF IndInv, TypeOK, RowsInv, AdmissionInv, OutcomeInv, stores, GoTo
<1>1. CASE Find(o) \/ Reread(o)
  BY <1>1 DEF Find, Reread, Observe
<1>2. CASE Reserve(o) \/ Start(o)
  BY <1>2 DEF Reserve, Start, Issue
<1>3. CASE \/ StartAdmitted(o) \/ StartDuplicate(o)
            \/ AdmissionRefused(o) \/ AdmissionInterrupted(o)
            \/ FinishFails(o) \/ Crash(o)
  BY <1>3 DEF StartAdmitted, StartDuplicate, AdmissionRefused,
          AdmissionInterrupted, FinishFails, Crash
<1>4. CASE Dispatch(o)
  BY <1>4 DEF Dispatch
<1>5. CASE ResponseUsable(o)
  BY <1>5 DEF ResponseUsable, Issue
<1>6. CASE DispatchImpossible(o) \/ ResponseRejected(o)
  BY <1>6 DEF DispatchImpossible, ResponseRejected, Conclude, Issue
<1>7. CASE ProviderFails(o) \/ CommitFails(o) \/ CallCancelled(o)
  BY <1>7 DEF ProviderFails, CommitFails, CallCancelled,
          FailureStatus, Conclude, Issue
<1>8. CASE CommitReturns(o)
  BY <1>8 DEF CommitReturns, Conclude, Issue
<1>9. CASE FinishReturns(o)
  BY <1>9 DEF FinishReturns
<1>10. CASE LandReserve(o)
  BY <1>10 DEF LandReserve, Land
<1>11. CASE LandStart(o)
  BY <1>11 DEF LandStart, Land, SampleTaken
<1>12. CASE LandCommit(o)
  BY <1>12 DEF LandCommit, Land
<1>13. CASE LandFinish(o)
  BY <1>13 DEF LandFinish, Land
<1> QED
  BY <1>1, <1>2, <1>3, <1>4, <1>5, <1>6, <1>7,
     <1>8, <1>9, <1>10, <1>11, <1>12, <1>13
  DEF Step, Landing, Progress, Trouble

\* What was returned to a caller stays true.
LEMMA ObservationStep == ASSUME IndInv, NEW o \in Observers, Step(o) PROVE ObservationDurable'
<1> USE TargetType, SampleOfType, NobodyIsNoObserver
    DEF IndInv, TypeOK, RowsInv, AdmissionInv, OutcomeInv, ObservationDurable, stores, GoTo
<1>1. CASE Find(o) \/ Reread(o)
  BY <1>1 DEF Find, Reread, Observe
<1>2. CASE Reserve(o) \/ Start(o)
  BY <1>2 DEF Reserve, Start, Issue
<1>3. CASE \/ StartAdmitted(o) \/ StartDuplicate(o)
            \/ AdmissionRefused(o) \/ AdmissionInterrupted(o)
            \/ FinishFails(o) \/ Crash(o)
  BY <1>3 DEF StartAdmitted, StartDuplicate, AdmissionRefused,
          AdmissionInterrupted, FinishFails, Crash
<1>4. CASE Dispatch(o)
  BY <1>4 DEF Dispatch
<1>5. CASE ResponseUsable(o)
  BY <1>5 DEF ResponseUsable, Issue
<1>6. CASE DispatchImpossible(o) \/ ResponseRejected(o)
  BY <1>6 DEF DispatchImpossible, ResponseRejected, Conclude, Issue
<1>7. CASE ProviderFails(o) \/ CommitFails(o) \/ CallCancelled(o)
  BY <1>7 DEF ProviderFails, CommitFails, CallCancelled,
          FailureStatus, Conclude, Issue
<1>8. CASE CommitReturns(o)
  BY <1>8 DEF CommitReturns, Conclude, Issue
<1>9. CASE FinishReturns(o)
  BY <1>9 DEF FinishReturns
<1>10. CASE LandReserve(o)
  BY <1>10 DEF LandReserve, Land
<1>11. CASE LandStart(o)
  BY <1>11 DEF LandStart, Land, SampleTaken
<1>12. CASE LandCommit(o)
  BY <1>12 DEF LandCommit, Land
<1>13. CASE LandFinish(o)
  BY <1>13 DEF LandFinish, Land
<1> QED
  BY <1>1, <1>2, <1>3, <1>4, <1>5, <1>6, <1>7,
     <1>8, <1>9, <1>10, <1>11, <1>12, <1>13
  DEF Step, Landing, Progress, Trouble

\* Time touches no observer.
LEMMA ExpireStep == ASSUME IndInv, NEW s \in Samples, Expire(s) PROVE IndInv'
BY DEF Expire, IndInv, TypeOK, RowsInv, AdmissionInv, OutcomeInv,
       ObservationDurable, stores

\* A step of something else keeps it as well.
LEMMA StutterStep == ASSUME IndInv, UNCHANGED vars PROVE IndInv'
BY DEF vars, IndInv, TypeOK, RowsInv, AdmissionInv, OutcomeInv, ObservationDurable

\* Nothing is reserved, started or called at the start.
LEMMA InitInd == Init => IndInv
BY NobodyIsNoObserver, TargetType
DEF Init, IndInv, TypeOK, RowsInv, AdmissionInv, OutcomeInv, ObservationDurable

\* Together: every step keeps the invariant.
LEMMA StepInd == IndInv /\ [Next]_vars => IndInv'
<1> SUFFICES ASSUME IndInv, [Next]_vars PROVE IndInv'
  OBVIOUS
<1>1. ASSUME NEW o \in Observers, Step(o) PROVE IndInv'
  BY <1>1, TypeStep, RowsStep, AdmissionStep, OutcomeStep, ObservationStep
  DEF IndInv
<1>2. ASSUME NEW s \in Samples, Expire(s) PROVE IndInv'
  BY <1>2, ExpireStep
<1>3. CASE UNCHANGED vars
  BY <1>3, StutterStep
<1> QED
  BY <1>1, <1>2, <1>3 DEF Next, Step

\* The invariant every theorem below rests on.
THEOREM Inductive == Spec => []IndInv
BY InitInd, StepInd, PTL DEF Spec

\* Type correctness for every set of observers and attempts.
THEOREM TypeCorrect == Spec => []TypeOK
<1>1. IndInv => TypeOK
  BY DEF IndInv
<1> QED
  BY <1>1, Inductive, PTL

\* An observer in the provider client owns START and money is held for it
\* (research.py:130-145 before budget.py:176).
THEOREM Fenced == Spec => []DispatchFenced
<1>1. ASSUME IndInv PROVE DispatchFenced
  <2> SUFFICES ASSUME NEW o \in dispatched
               PROVE  started[Target[o]] = o /\ ledger[Target[o]] # "none"
    BY DEF DispatchFenced
  <2>1. o \in Observers /\ o # Nobody /\ Target[o] \in Attempts
    BY <1>1, NobodyIsNoObserver, TargetType DEF IndInv, TypeOK
  <2>2. started[Target[o]] = o
    BY <1>1, <2>1 DEF IndInv, AdmissionInv
  <2> QED
    BY <1>1, <2>1, <2>2 DEF IndInv, RowsInv
<1> QED
  BY <1>1, Inductive, PTL

\* No sample is ever sent to a provider twice.
THEOREM SentOnce == Spec => []OneDispatchPerSample
<1>1. ASSUME IndInv PROVE OneDispatchPerSample
  <2> SUFFICES ASSUME NEW o1 \in dispatched, NEW o2 \in dispatched,
                      SampleOf[Target[o1]] = SampleOf[Target[o2]]
               PROVE o1 = o2
    BY DEF OneDispatchPerSample
  <2>1. started[Target[o1]] = o1 /\ started[Target[o2]] = o2
    BY <1>1 DEF IndInv, TypeOK, AdmissionInv
  <2>2. o1 \in Observers /\ o2 \in Observers
    BY <1>1 DEF IndInv, TypeOK
  <2>3. Target[o1] = Target[o2]
    BY <1>1, <2>1, <2>2, NobodyIsNoObserver, TargetType DEF IndInv, RowsInv
  <2> QED
    BY <2>1, <2>3
<1> QED
  BY <1>1, Inductive, PTL

\* What the invariant says of a terminal row.
LEMMA HonestRows == ASSUME IndInv PROVE TerminalHonest
<1> SUFFICES ASSUME NEW a \in Attempts, terminal[a] # "open"
             PROVE  /\ terminal[a] = "FAILED" =>
                         /\ started[a] \in dispatched
                         /\ response[started[a]] = "none"
                         /\ ledger[a] = "held"
                    /\ terminal[a] = "COMPLETED" =>
                         /\ started[a] \in dispatched
                         /\ response[started[a]] = "usable"
                         /\ ledger[a] = "settled"
  BY DEF TerminalHonest
<1>1. /\ started[a] \in Observers /\ Target[started[a]] = a
      /\ outcome[started[a]] = terminal[a]
      /\ ledger[a] # "none"
      /\ ledger[a] = "settled" => response[started[a]] = "usable"
  BY DEF IndInv, TypeOK, RowsInv
<1> QED
  BY <1>1 DEF IndInv, TypeOK, OutcomeInv

\* A terminal row never contradicts the call or the ledger
\* (research.py:239-300 and 531-560).
THEOREM Honest == Spec => []TerminalHonest
BY HonestRows, Inductive, PTL

\* A caller is never told a terminal that is not the durable one.
THEOREM Durable == Spec => []ObservationDurable
<1>1. IndInv => ObservationDurable
  BY DEF IndInv
<1> QED
  BY <1>1, Inductive, PTL

-----------------------------------------------------------------------------
(* What termination rests on: every await has an end to wait for, and every  *)
(* step away from one goes forward.                                          *)

\* A request and the await on it begin together; only its landing, which answers,
\* ends the one without the other.
LEMMA ForgottenStep ==
  ASSUME IndInv, NobodyForgotten, NEW o \in Observers, Step(o)
  PROVE  NobodyForgotten'
<1> USE TargetType, NobodyIsNoObserver
    DEF IndInv, TypeOK, RowsInv, AdmissionInv, OutcomeInv, NobodyForgotten, stores, GoTo
<1>1. CASE Find(o) \/ Reread(o)
  BY <1>1 DEF Find, Reread, Observe
<1>2. CASE Reserve(o) \/ Start(o)
  BY <1>2 DEF Reserve, Start, Issue
<1>3. CASE \/ StartAdmitted(o) \/ StartDuplicate(o)
            \/ AdmissionRefused(o) \/ AdmissionInterrupted(o)
            \/ FinishFails(o) \/ Crash(o)
  BY <1>3 DEF StartAdmitted, StartDuplicate, AdmissionRefused,
          AdmissionInterrupted, FinishFails, Crash
<1>4. CASE Dispatch(o)
  BY <1>4 DEF Dispatch
<1>5. CASE ResponseUsable(o)
  BY <1>5 DEF ResponseUsable, Issue
<1>6. CASE DispatchImpossible(o) \/ ResponseRejected(o)
  BY <1>6 DEF DispatchImpossible, ResponseRejected, Conclude, Issue
<1>7. CASE ProviderFails(o) \/ CommitFails(o) \/ CallCancelled(o)
  BY <1>7 DEF ProviderFails, CommitFails, CallCancelled,
          FailureStatus, Conclude, Issue
<1>8. CASE CommitReturns(o)
  BY <1>8 DEF CommitReturns, Conclude, Issue
<1>9. CASE FinishReturns(o)
  BY <1>9 DEF FinishReturns
<1>10. CASE LandReserve(o)
  BY <1>10 DEF LandReserve, Land
<1>11. CASE LandStart(o)
  BY <1>11 DEF LandStart, Land, SampleTaken
<1>12. CASE LandCommit(o)
  BY <1>12 DEF LandCommit, Land
<1>13. CASE LandFinish(o)
  BY <1>13 DEF LandFinish, Land
<1> QED
  BY <1>1, <1>2, <1>3, <1>4, <1>5, <1>6, <1>7,
     <1>8, <1>9, <1>10, <1>11, <1>12, <1>13
  DEF Step, Landing, Progress, Trouble

\* No observer waits for a request that was never made or that is over
\* (research.py:130-154 and 514-529).
THEOREM NobodyWaitsInVain == Spec => []NobodyForgotten
<1>1. Init => NobodyForgotten
  BY DEF Init, NobodyForgotten
<1>2. IndInv /\ NobodyForgotten /\ [Next]_vars => NobodyForgotten'
  <2> SUFFICES ASSUME IndInv, NobodyForgotten, [Next]_vars PROVE NobodyForgotten'
    OBVIOUS
  <2>1. ASSUME NEW o \in Observers, Step(o) PROVE NobodyForgotten'
    BY <2>1, ForgottenStep
  <2>2. ASSUME NEW s \in Samples, Expire(s) PROVE NobodyForgotten'
    BY <2>2 DEF Expire, NobodyForgotten, stores
  <2>3. CASE UNCHANGED vars
    BY <2>3 DEF vars, NobodyForgotten
  <2> QED
    BY <2>1, <2>2, <2>3 DEF Next, Step
<1> QED
  BY <1>1, <1>2, Inductive, PTL DEF Spec

\* Where an observer goes from where it stands.
LEMMA StepForward ==
  ASSUME TypeOK, NEW o \in Observers, Step(o), NEW p \in Observers, pc'[p] # pc[p]
  PROVE  Left(pc'[p]) < Left(pc[p])
<1> USE DEF TypeOK, GoTo, Left
<1>1. CASE Landing(o)
  BY <1>1 DEF Landing, LandReserve, LandStart, LandCommit, LandFinish, Land
<1>2. CASE Find(o) \/ Reread(o)
  BY <1>2 DEF Find, Reread, Observe
<1>3. CASE Reserve(o) \/ Start(o) \/ ResponseUsable(o)
  <2>1. \/ pc[o] = "admit" /\ pc' = [pc EXCEPT ![o] = "reserve"]
        \/ pc[o] = "reserve" /\ pc' = [pc EXCEPT ![o] = "start"]
        \/ pc[o] = "call" /\ pc' = [pc EXCEPT ![o] = "commit"]
    BY <1>3 DEF Reserve, Start, ResponseUsable, Issue
  <2> QED
    BY <2>1
<1>4. CASE StartAdmitted(o) \/ StartDuplicate(o) \/ Dispatch(o)
  BY <1>4 DEF StartAdmitted, StartDuplicate, Dispatch
<1>5. CASE AdmissionRefused(o) \/ AdmissionInterrupted(o) \/ FinishFails(o)
  <2>1. /\ pc[o] \in {"find", "admit", "reserve", "start", "reread", "finish"}
        /\ pc' = [pc EXCEPT ![o] = "raised"]
    BY <1>5 DEF AdmissionRefused, AdmissionInterrupted, FinishFails
  <2> QED
    BY <2>1
<1>6. CASE DispatchImpossible(o) \/ ResponseRejected(o)
  BY <1>6 DEF DispatchImpossible, ResponseRejected, Conclude, Issue
<1>7. CASE ProviderFails(o) \/ CommitFails(o) \/ CallCancelled(o) \/ CommitReturns(o)
  <2>1. pc[o] \in {"call", "commit"} /\ pc' = [pc EXCEPT ![o] = "finish"]
    BY <1>7 DEF ProviderFails, CommitFails, CallCancelled, CommitReturns, Conclude, Issue
  <2> QED
    BY <2>1
<1>8. CASE FinishReturns(o)
  BY <1>8 DEF FinishReturns
<1>9. CASE Crash(o)
  BY <1>9 DEF Crash
<1> QED
  BY <1>1, <1>2, <1>3, <1>4, <1>5, <1>6, <1>7, <1>8, <1>9 DEF Step, Progress, Trouble

\* An observer passes every await at most once, whatever races it loses and
\* whatever fails (research.py:202-300).
THEOREM GoesForward == Spec => ForwardOnly
<1>1. TypeOK /\ [Next]_vars =>
        [\A o \in Observers : pc'[o] # pc[o] => Left(pc'[o]) < Left(pc[o])]_vars
  <2> SUFFICES ASSUME TypeOK, [Next]_vars, NEW p \in Observers, pc'[p] # pc[p]
               PROVE  Left(pc'[p]) < Left(pc[p])
    OBVIOUS
  <2>1. ~ UNCHANGED vars /\ \A s \in Samples : ~Expire(s)
    BY DEF vars, Expire
  <2> QED
    BY <2>1, StepForward DEF Next, Step
<1> QED
  BY <1>1, TypeCorrect, PTL DEF Spec, ForwardOnly

-----------------------------------------------------------------------------
(* The coordinator implements the abstract contract: five actions map to    *)
(* the contract's five, all others leave its variables alone.               *)

Called == {Target[o] : o \in dispatched}
Admitted == {a \in Attempts : started[a] # Nobody}

\* Steps that neither land in a store nor enter the provider client.
LEMMA Invisible ==
  ASSUME NEW o \in Observers, Progress(o) \/ Trouble(o), ~Dispatch(o)
  PROVE  UNCHANGED Contract!vars
<1>1. UNCHANGED <<ledger, started, terminal, dispatched>>
  BY DEF Progress, Trouble, stores, Find, Reserve, Start, StartAdmitted,
     StartDuplicate, Reread, AdmissionRefused, DispatchImpossible,
     ResponseUsable, ResponseRejected, ProviderFails, CommitReturns,
     CommitFails, FinishReturns, FinishFails, AdmissionInterrupted,
     CallCancelled, Crash
<1> QED
  BY <1>1 DEF Contract!vars

LEMMA DispatchIsCall ==
  ASSUME IndInv, NEW o \in Observers, Dispatch(o)
  PROVE  Contract!Call(Target[o])
<1>1. o \notin dispatched /\ started[Target[o]] = o /\ outcome[o] = "open"
  BY DEF Dispatch, IndInv, AdmissionInv
<1>2. Target[o] \in Admitted
  BY <1>1, TargetType, NobodyIsNoObserver DEF Admitted
<1>3. Target[o] \notin Called
  BY <1>1 DEF IndInv, TypeOK, AdmissionInv, Called
<1>4. terminal[Target[o]] = "open"
  BY <1>1, TargetType DEF IndInv, RowsInv
<1>5. Called' = Called \cup {Target[o]}
  BY DEF Dispatch, Called
<1> QED
  BY <1>2, <1>3, <1>4, <1>5
  DEF Dispatch, Contract!Call, Admitted, Called, stores

LEMMA LandReserveIsHold ==
  ASSUME IndInv, NEW o \in Observers, LandReserve(o)
  PROVE  Contract!Hold(Target[o]) \/ UNCHANGED Contract!vars
BY TargetType DEF LandReserve, Land, Contract!Hold, Contract!vars, IndInv, TypeOK, stores

LEMMA LandStartIsAdmit ==
  ASSUME IndInv, NEW o \in Observers, LandStart(o)
  PROVE  Contract!Admit(Target[o]) \/ UNCHANGED Contract!vars
<1> DEFINE a == Target[o]
<1>1. CASE UNCHANGED stores
  BY <1>1 DEF LandStart, Land, Contract!vars, stores
<1>2. CASE /\ started[a] = Nobody /\ ~SampleTaken(a)
           /\ started' = [started EXCEPT ![a] = o]
           /\ UNCHANGED <<ledger, terminal>>
  <2>1. dispatched' = dispatched /\ ledger[a] # "none"
    BY DEF LandStart, Land, IndInv, AdmissionInv
  <2>2. \A b \in Admitted : SampleOf[b] # SampleOf[a]
    BY <1>2, TargetType DEF Admitted, SampleTaken
  <2>3. Admitted' = Admitted \cup {a}
    BY <1>2, TargetType, NobodyIsNoObserver DEF Admitted, IndInv, TypeOK
  <2> QED
    BY <1>2, <2>1, <2>2, <2>3 DEF Contract!Admit, Admitted
<1> QED
  BY <1>1, <1>2 DEF LandStart

LEMMA LandCommitIsSettle ==
  ASSUME IndInv, NEW o \in Observers, LandCommit(o)
  PROVE  Contract!Settle(Target[o]) \/ UNCHANGED Contract!vars
<1>1. /\ response[o] = "usable" /\ o \in dispatched /\ started[Target[o]] = o
      /\ ledger[Target[o]] \in {"held", "settled"}
  <2>1. o # Nobody /\ Target[o] \in Attempts
    BY NobodyIsNoObserver, TargetType
  <2>2. response[o] = "usable" /\ o \in dispatched
    BY DEF LandCommit, Land, IndInv, OutcomeInv
  <2>3. started[Target[o]] = o
    BY <2>2 DEF IndInv, AdmissionInv
  <2> QED
    BY <2>1, <2>2, <2>3 DEF IndInv, TypeOK, RowsInv
<1>2. terminal[Target[o]] # "FAILED"
  BY <1>1, TargetType, NobodyIsNoObserver DEF IndInv, RowsInv, OutcomeInv
<1> QED
  BY <1>1, <1>2, TargetType
  DEF LandCommit, Land, Contract!Settle, Contract!vars, IndInv, TypeOK

LEMMA LandFinishIsConclude ==
  ASSUME IndInv, NEW o \in Observers, LandFinish(o)
  PROVE  \E status \in Statuses : Contract!Conclude(Target[o], status)
<1> DEFINE a == Target[o]
<1>1. /\ terminal[a] = "open"
      /\ terminal' = [terminal EXCEPT ![a] = outcome[o]]
      /\ UNCHANGED <<ledger, started>>
  BY DEF LandFinish
<1>2. \E status \in Statuses : Contract!Conclude(Target[o], status)
  <2>1. outcome[o] \in Statuses /\ started[a] = o /\ dispatched' = dispatched
    BY DEF LandFinish, Land, IndInv, TypeOK, OutcomeInv
  <2>2. /\ a \in Admitted
        /\ outcome[o] = "COMPLETED" => ledger[a] = "settled"
        /\ outcome[o] = "FAILED" => a \in Called /\ ledger[a] = "held"
    BY <2>1, TargetType, NobodyIsNoObserver
    DEF Admitted, Called, IndInv, TypeOK, RowsInv, OutcomeInv
  <2> QED
    BY <1>1, <2>1, <2>2 DEF Contract!Conclude, Admitted, Called
<1> QED
  BY <1>2

\* docs/SIM-RESEARCH-COORDINATOR.md, "The admission order": observe() with its
\* duplicates, restarts, cancellations and late writes keeps the contract.
THEOREM Implements == Spec => KeepsContract
<1>1. Init => Contract!Init
  BY TargetType DEF Init, Contract!Init
<1>2. IndInv /\ [Next]_vars => [Contract!Next]_(Contract!vars)
  <2> SUFFICES ASSUME IndInv, [Next]_vars
               PROVE  Contract!Next \/ UNCHANGED Contract!vars
    OBVIOUS
  <2>1. ASSUME NEW o \in Observers, Step(o)
        PROVE  Contract!Next \/ UNCHANGED Contract!vars
    <3>1. Target[o] \in Attempts
      BY TargetType
    <3>2. CASE Landing(o)
      BY <3>1, <3>2, LandReserveIsHold, LandStartIsAdmit, LandCommitIsSettle,
         LandFinishIsConclude DEF Landing, Contract!Next, Contract!Statuses
    <3>3. CASE Dispatch(o)
      BY <3>1, <3>3, DispatchIsCall DEF Contract!Next
    <3>4. CASE (Progress(o) \/ Trouble(o)) /\ ~Dispatch(o)
      BY <3>4, Invisible
    <3> QED
      BY <2>1, <3>2, <3>3, <3>4 DEF Step
  <2>2. ASSUME NEW s \in Samples, Expire(s) PROVE UNCHANGED Contract!vars
    BY <2>2 DEF Expire, stores, Contract!vars
  <2>3. CASE UNCHANGED vars
    BY <2>3 DEF vars, Contract!vars
  <2> QED
    BY <2>1, <2>2, <2>3 DEF Next, Step
<1> QED
  BY <1>1, <1>2, Inductive, PTL DEF Spec, KeepsContract, Contract!Spec

-----------------------------------------------------------------------------
(* What a replay read stays true while observers go on: the rows it pairs   *)
(* are written once.                                                        *)

\* No step of the coordinators takes a START or a terminal row back.
RowsKept ==
  \A a \in Attempts :
    /\ started[a] # Nobody => started'[a] = started[a]
    /\ terminal[a] # "open" => terminal'[a] = terminal[a]

LEMMA StepKeepsRows == ASSUME IndInv, [Next]_vars PROVE RowsKept
<1> USE TargetType, NobodyIsNoObserver
    DEF IndInv, TypeOK, stores, RowsKept
<1>1. ASSUME NEW o \in Observers, LandStart(o) PROVE RowsKept
  BY <1>1 DEF LandStart, Land
<1>2. ASSUME NEW o \in Observers, LandFinish(o) PROVE RowsKept
  BY <1>2 DEF LandFinish, Land
<1>3. ASSUME NEW o \in Observers, LandReserve(o) \/ LandCommit(o) PROVE RowsKept
  BY <1>3 DEF LandReserve, LandCommit, Land
<1>4. ASSUME NEW o \in Observers, Progress(o) \/ Trouble(o) PROVE RowsKept
  <2>1. UNCHANGED stores
    BY <1>4
    DEF Progress, Trouble, Find, Reserve, Start, StartAdmitted, StartDuplicate, Reread,
        AdmissionRefused, Dispatch, DispatchImpossible, ResponseUsable, ResponseRejected,
        ProviderFails, CommitReturns, CommitFails, FinishReturns, FinishFails,
        AdmissionInterrupted, CallCancelled, Crash
  <2> QED
    BY <2>1
<1>5. ASSUME NEW s \in Samples, Expire(s) PROVE RowsKept
  BY <1>5 DEF Expire
<1>6. CASE UNCHANGED vars
  BY <1>6 DEF vars
<1> QED
  BY <1>1, <1>2, <1>3, <1>4, <1>5, <1>6 DEF Next, Landing

-----------------------------------------------------------------------------
(* The inductive invariant of the composition.                              *)

\* The terminal row each outcome with a call was derived from.
Backing == [PROPOSAL |-> "COMPLETED", CALL_FAILED |-> "FAILED"]

\* A replay that read and did not write yet still has its row to stand on.
PairingInv ==
  \A r \in Replays : at[r] = "record" =>
    /\ pairing[r] \in Outcomes
    /\ \A o \in DOMAIN Backing :
         pairing[r] = o => terminal[ReplayTarget[r]] = Backing[o]

\* So has every sample.
RecordedInv ==
  \A s \in Samples : \A o \in DOMAIN Backing :
    sample[s] = o => \E a \in Attempts : SampleOf[a] = s /\ terminal[a] = Backing[o]

ReplayInv == IndInv /\ ReplayTypeOK /\ PairingInv /\ RecordedInv

\* The outcome of a read is one of the three, and its row is there.
LEMMA Paired ==
  ASSUME TypeOK, NEW a \in Attempts, PairedOutcome(a) # "refused"
  PROVE  /\ PairedOutcome(a) \in Outcomes
         /\ \A o \in DOMAIN Backing : PairedOutcome(a) = o => terminal[a] = Backing[o]
<1>1. ~Unresolved(a) /\ terminal[a] \in Statuses \cup {"open"}
  BY DEF TypeOK, PairedOutcome
<1>2. CASE started[a] = Nobody
  BY <1>1, <1>2 DEF PairedOutcome, Outcomes, Backing
<1>3. CASE started[a] # Nobody
  <2>1. terminal[a] \in {"FAILED", "COMPLETED"}
    BY <1>1, <1>3 DEF Unresolved, Statuses
  <2> QED
    BY <1>1, <1>3, <2>1 DEF PairedOutcome, Outcomes, Backing
<1> QED
  BY <1>2, <1>3

\* At the start nothing is read and nothing is recorded.
LEMMA ReplayInitInv == ReplayInit => ReplayInv
BY InitInd
DEF ReplayInit, ReplayInv, IndInv, ReplayTypeOK, PairingInv, RecordedInv, Backing, Outcomes

\* A step of a coordinator leaves the replays their rows.
LEMMA CoordinatorStep ==
  ASSUME ReplayInv, [Next]_vars, UNCHANGED replayVars PROVE ReplayInv'
<1>1. IndInv' /\ RowsKept
  BY StepInd, StepKeepsRows DEF ReplayInv
<1>2. ReplayTypeOK' /\ UNCHANGED <<sample, at, pairing>>
  BY <1>1 DEF ReplayInv, ReplayTypeOK, IndInv, replayVars
<1>3. PairingInv'
  BY <1>1, <1>2, ReplayTargetType DEF ReplayInv, PairingInv, RowsKept, Backing
<1>4. RecordedInv'
  BY <1>1, <1>2 DEF ReplayInv, RecordedInv, RowsKept, Backing
<1> QED
  BY <1>1, <1>2, <1>3, <1>4 DEF ReplayInv

\* A replay writes only what its read backs.
LEMMA ReplayStep ==
  ASSUME ReplayInv, NEW r \in Replays, ReadAttempt(r) \/ ReplayRefused(r) \/ RecordVerified(r)
  PROVE  ReplayInv'
<1>1. IndInv' /\ UNCHANGED <<ledger, started, terminal>>
  <2>1. UNCHANGED vars
    BY DEF ReadAttempt, ReplayRefused, RecordVerified
  <2> QED
    BY <2>1, StutterStep DEF ReplayInv, vars
<1> USE ReplayTargetType, SampleOfType
    DEF ReplayInv, ReplayTypeOK, PairingInv, RecordedInv
<1>2. CASE ReadAttempt(r)
  <2>1. CASE PairedOutcome(ReplayTarget[r]) = "refused"
    BY <1>1, <1>2, <2>1 DEF ReadAttempt, IndInv
  <2>2. CASE PairedOutcome(ReplayTarget[r]) # "refused"
    <3> DEFINE out == PairedOutcome(ReplayTarget[r])
    <3>1. /\ out \in Outcomes
          /\ \A o \in DOMAIN Backing : out = o => terminal[ReplayTarget[r]] = Backing[o]
      BY <2>2, Paired
    <3>2. /\ at' = [at EXCEPT ![r] = "record"]
          /\ pairing' = [pairing EXCEPT ![r] = out]
          /\ sample' = sample
      BY <1>2, <2>2 DEF ReadAttempt
    <3> HIDE DEF out
    <3> QED
      BY <1>1, <3>1, <3>2 DEF IndInv
  <2> QED
    BY <2>1, <2>2
<1>3. CASE ReplayRefused(r)
  BY <1>1, <1>3 DEF ReplayRefused, IndInv
<1>4. CASE RecordVerified(r)
  <2>1. /\ at[r] = "record" /\ pairing[r] \in Outcomes
        /\ sample' = [sample EXCEPT ![SampleOf[ReplayTarget[r]]] = pairing[r]]
        /\ at' = [at EXCEPT ![r] = "recorded"]
        /\ pairing' = pairing
    BY <1>4 DEF RecordVerified
  <2>2. ReplayTypeOK' /\ PairingInv'
    BY <1>1, <2>1 DEF IndInv
  <2>3. RecordedInv'
    BY <1>1, <2>1
  <2> QED
    BY <1>1, <2>2, <2>3
<1> QED
  BY <1>2, <1>3, <1>4

THEOREM ReplayInductive == ReplaySpec => []ReplayInv
<1>1. ReplayInv /\ [ReplayNext]_allVars => ReplayInv'
  <2> SUFFICES ASSUME ReplayInv, [ReplayNext]_allVars PROVE ReplayInv'
    OBVIOUS
  <2>1. CASE [Next]_vars /\ UNCHANGED replayVars
    BY <2>1, CoordinatorStep
  <2>2. CASE \E r \in Replays : ReadAttempt(r) \/ ReplayRefused(r) \/ RecordVerified(r)
    BY <2>2, ReplayStep
  <2> QED
    BY <2>1, <2>2 DEF ReplayNext, allVars
<1> QED
  BY <1>1, ReplayInitInv, PTL DEF ReplaySpec

\* A paired decision is backed by the journal and the ledger, also when they
\* changed after the replay had read them (research.py:446-529).
THEOREM Backed == ReplaySpec => []SampleBacked
<1>1. ASSUME ReplayInv PROVE SampleBacked
  <2>1. TerminalHonest
    BY <1>1, HonestRows DEF ReplayInv
  <2> SUFFICES ASSUME NEW s \in Samples, NEW o \in DOMAIN Backing, sample[s] = o
               PROVE  \E a \in Attempts :
                        /\ SampleOf[a] = s /\ terminal[a] = Backing[o]
                        /\ ledger[a] = IF o = "PROPOSAL" THEN "settled" ELSE "held"
                        /\ started[a] \in dispatched
    BY DEF SampleBacked, Backing
  <2>2. PICK a \in Attempts : SampleOf[a] = s /\ terminal[a] = Backing[o]
    BY <1>1 DEF ReplayInv, RecordedInv
  <2> QED
    BY <2>1, <2>2 DEF TerminalHonest, Backing
<1> QED
  BY <1>1, ReplayInductive, PTL
=============================================================================
