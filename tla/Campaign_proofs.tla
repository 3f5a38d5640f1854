---------------------------- MODULE Campaign_proofs ----------------------------
(***************************************************************************)
(* One campaign window, for every set of schedulers, every clock and any   *)
(* number of crashes and of given-up writes that land later: nothing is    *)
(* evaluated or sent twice, the cost receipts bracket the ledger, a causal *)
(* sample is timely, no outcome is contradicted by what lands later, and   *)
(* nothing keeps a run from counting all three arms but an interruption.   *)
(***************************************************************************)
EXTENDS Campaign, TLAPS

SafeInv == OrderInv /\ CallInv /\ LateInv /\ PairInv /\ NeverResent /\ CostFences

USE DEF CallArms, Arms, Review, Proposal

-----------------------------------------------------------------------------
(* What steps do. *)

\* What each write changes, and that it changes nothing else.
LEMMA Applied ==
  ASSUME NEW a \in CallArms, NEW w \in Writes, Apply(a, w), sampled \in BOOLEAN
  PROVE  /\ w = "evaluation" => evaluation' = [evaluation EXCEPT !.recorded = Stamp]
         /\ w # "evaluation" => evaluation' = evaluation
         /\ w \in Stages => costs' = [costs EXCEPT ![a] = @ \cup {w}]
         /\ w \notin Stages => costs' = costs
         /\ w = "reserve" => ledger' = [ledger EXCEPT ![a] = "held"]
         /\ w = "commit" => ledger' = [ledger EXCEPT ![a] = "settled"]
         /\ w \notin {"reserve", "commit"} => ledger' = ledger
         /\ w = "start" => started' = started \cup {a}
         /\ w # "start" => started' = started
         /\ w = "review" => reviewed' = reviewed \cup {a}
         /\ w # "review" => reviewed' = reviewed
         /\ w = "finish" => terminal' = [terminal EXCEPT ![a] = wanted[a]]
         /\ w # "finish" => terminal' = terminal
         /\ w \in {"review", "finish"} /\ ~Decided(a) =>
              recordedAt' = [recordedAt EXCEPT ![a] = Stamp]
         /\ ~(w \in {"review", "finish"} /\ ~Decided(a)) => recordedAt' = recordedAt
         /\ w # "sample" => sampled' = sampled
         /\ w = "sample" => sampled'
<1>1. w # "sample" => sampled' = sampled
  BY Zenon DEF Apply
<1>2. w = "sample" => sampled'
  BY DEF Apply
<1>3. ~(w \in {"review", "finish"} /\ ~Decided(a)) => recordedAt' = recordedAt
  BY DEF Apply
<1> QED
  BY <1>1, <1>2, <1>3 DEF Apply, Writes, Stages

\* The clock reads a stamp.
LEMMA Stamped == Stamp \in {"timely", "late"}
  BY DEF Stamp

\* The claiming scheduler works alone.
LEMMA Alone ==
  ASSUME IndInv, NEW s \in Schedulers, NEW place \in Places, GoTo(s, place), pc[s] \in Working
  PROVE  /\ pc'[s] = place /\ claim = s
         /\ \A t \in Schedulers \ {s} : pc'[t] = pc[t] /\ pc[t] \notin Working
  BY DEF IndInv, TypeOK, OrderInv, GoTo

\* What is given up is late at most.
LEMMA GivenUp ==
  ASSUME NEW writes, GiveUp(writes)
  PROVE  late \subseteq late' /\ late' \subseteq late \cup writes
  BY DEF GiveUp

-----------------------------------------------------------------------------
(* Steps that leave the facts alone. *)

\* A scheduler that rests or leaves does no harm.
LEMMA Rest ==
  ASSUME IndInv, UNCHANGED <<claim, evaluations, facts, late, callVars>>,
         \A t \in Schedulers : pc'[t] = pc[t] \/ pc'[t] \notin Working
  PROVE  SafeInv'
<1> USE DEF IndInv, facts, callVars
<1>0. \A t \in Schedulers : pc'[t] \in Working => pc'[t] = pc[t]
  OBVIOUS
<1>1. OrderInv'
  BY <1>0 DEF OrderInv, Untouched, Fresh
<1>2. CallInv'
  BY <1>0 DEF CallInv, Fresh, Calling, Working, Writes, Stages
<1>3. LateInv'
  BY <1>0 DEF LateInv, Idle, Decided
<1>4. PairInv'
  BY <1>0
  DEF PairInv, Idle, Evaluated, LateEvaluation, Timely, Deciding, Working, Writes, Stages
<1>5. NeverResent' /\ CostFences'
  BY DEF NeverResent, CostFences
<1> QED
  BY <1>1, <1>2, <1>3, <1>4, <1>5 DEF SafeInv
\* While a scheduler works on the window no sample was taken, and the evaluation
\* is not pending.
LEMMA Busy ==
  ASSUME IndInv, NEW s \in Schedulers, pc[s] \in Working
  PROVE  /\ ~sampled
         /\ \A a \in CallArms : <<a, "sample">> \notin late /\ <<a, "evaluation">> \notin late
  BY DEF IndInv, LateInv, PairInv, Idle

\* A working scheduler goes on to a place where it works.
LEMMA Moved ==
  ASSUME IndInv, NEW s \in Schedulers, NEW place \in Working \ {"sample"}, GoTo(s, place),
         pc[s] \in Working, pc[s] \in Deciding \/ place \notin Deciding,
         UNCHANGED <<claim, costs, ledger, started, reviewed, terminal, recordedAt, sampled, late>>,
         UNCHANGED evaluation \/ place \notin Deciding
  PROVE  LateInv' /\ PairInv'
<1>1. place \in Places
  BY DEF Working, Places
<1>2. /\ pc'[s] = place
      /\ \A t \in Schedulers \ {s} : pc'[t] \notin Working
  BY <1>1, Alone
<1>3. LateInv'
  BY Busy DEF IndInv, LateInv, Idle, Decided
<1>4. PairInv'
  <2>1. ~(\E t \in Schedulers : pc'[t] = "sample")
    BY <1>2 DEF Working, Writes
  <2>2. \A t \in Schedulers : pc'[t] \in Deciding => Evaluated' /\ ~LateEvaluation'
    BY <1>2 DEF IndInv, PairInv, Deciding, Evaluated, LateEvaluation
  <2> QED
    BY <2>1, <2>2, Busy DEF PairInv
<1> QED
  BY <1>3, <1>4

\* ClaimNext: the window is taken once.
LEMMA ClaimNextSafe == ASSUME IndInv, NEW s \in Schedulers, ClaimNext(s) PROVE SafeInv'
<1>1. /\ pc[s] = "idle" /\ claim = Nobody /\ claim' = s
      /\ UNCHANGED <<evaluations, facts, late, callVars>>
      /\ pc' = [pc EXCEPT ![s] = "sources"] \/ pc' = [pc EXCEPT ![s] = "snapshot"]
  BY DEF ClaimNext, Finalize, GoTo
<1>2. \A t \in Schedulers : pc[t] \notin Working
  BY <1>1, NobodyIsNoScheduler DEF IndInv, OrderInv
<1>3. /\ pc'[s] \in {"sources", "snapshot"}
      /\ \A t \in Schedulers \ {s} : pc'[t] \notin Working
  BY <1>1, <1>2 DEF IndInv, TypeOK
<1>4. OrderInv'
  BY <1>1, <1>3, NobodyIsNoScheduler
  DEF IndInv, OrderInv, Untouched, Fresh, facts, callVars, Working, Writes, Stages
<1>5. CallInv'
  BY <1>3 DEF CallInv, Calling, Working, Writes, Stages
<1>6. /\ \A a \in CallArms : Untouched(a)
      /\ late = {} /\ ~sampled
  BY <1>1 DEF IndInv, OrderInv
<1>7. LateInv'
  BY <1>1, <1>6 DEF LateInv, Decided, Untouched, facts
<1>8. PairInv'
  BY <1>1, <1>3, <1>6 DEF PairInv, facts, Deciding, Working, Writes, Stages
<1>9. NeverResent' /\ CostFences'
  BY <1>1 DEF IndInv, NeverResent, CostFences, facts, callVars
<1> QED
  BY <1>4, <1>5, <1>7, <1>8, <1>9 DEF SafeInv
\* Sources: the sources are there.
LEMMA SourcesSafe ==
  ASSUME IndInv, NEW s \in Schedulers, Sources(s), GoTo(s, "evaluate") PROVE SafeInv'
<1> USE DEF Working, Deciding, Calling, Writes, Stages, Places
<1>1. /\ pc[s] = "sources"
      /\ UNCHANGED <<claim, evaluations, facts, late, callVars>>
  BY DEF Sources
<1>2. /\ pc'[s] = "evaluate" /\ claim = s
      /\ \A t \in Schedulers \ {s} : pc'[t] \notin Working
  BY <1>1, Alone
<1>3. LateInv' /\ PairInv'
  BY <1>1, Moved DEF facts
<1>4. OrderInv'
  BY <1>1, <1>2, NobodyIsNoScheduler DEF IndInv, OrderInv, Untouched, Fresh, facts, callVars
<1>5. CallInv'
  BY <1>2 DEF CallInv
<1>6. NeverResent' /\ CostFences'
  BY <1>1 DEF IndInv, NeverResent, CostFences, facts, callVars
<1> QED
  BY <1>3, <1>4, <1>5, <1>6 DEF SafeInv

\* Evaluate: the evaluator ran.
LEMMA EvaluateSafe == ASSUME IndInv, NEW s \in Schedulers, Evaluate(s) PROVE SafeInv'
<1> USE DEF Working, Deciding, Calling, Writes, Stages, Places
<1>1. /\ pc[s] = "evaluate" /\ evaluations' = evaluations + 1
      /\ UNCHANGED <<claim, costs, ledger, started, reviewed, terminal, recordedAt, sampled,
                     late, callVars>>
  BY DEF Evaluate
<1>2. PICK place \in {"evaluation", "snapshot"} : GoTo(s, place)
  BY DEF Evaluate, Finalize
<1>3. /\ pc'[s] = place /\ claim = s
      /\ \A t \in Schedulers \ {s} : pc'[t] \notin Working
  BY <1>1, <1>2, Alone
<1>4. evaluations = 0 /\ arm = Review /\ Untouched(Review) /\ Untouched(Proposal)
  BY <1>1 DEF IndInv, OrderInv
<1>5. OrderInv'
  BY <1>1, <1>3, <1>4, NobodyIsNoScheduler DEF OrderInv, Untouched, Fresh, callVars
<1>6. CallInv'
  BY <1>3 DEF CallInv
<1>7. LateInv' /\ PairInv'
  BY <1>1, <1>3, Busy DEF IndInv, LateInv, PairInv, Decided
<1>8. NeverResent' /\ CostFences'
  BY <1>1, <1>4 DEF IndInv, NeverResent, CostFences, callVars
<1> QED
  BY <1>5, <1>6, <1>7, <1>8 DEF SafeInv

\* Where run_once goes after an arm.
LEMMA Ends ==
  ASSUME NEW s \in Schedulers, EndOfArm(s)
  PROVE  \E place \in {"cutoff", "snapshot"} :
           GoTo(s, place) /\ (place = "cutoff" => arm = Review)
  BY DEF EndOfArm, Finalize

\* Admit: the window is open, or the arm is over.
LEMMA AdmitSafe == ASSUME IndInv, NEW s \in Schedulers, Admit(s) PROVE SafeInv'
<1> USE DEF Working, Deciding, Calling, Writes, Stages, Places
<1>1. /\ pc[s] \in {"find", "admit"}
      /\ UNCHANGED <<claim, evaluations, facts, late, callVars>>
  BY DEF Admit
<1>2. PICK place \in {"REQUESTED", "cutoff", "snapshot"} :
        GoTo(s, place) /\ (place = "cutoff" => arm = Review)
  BY Ends DEF Admit
<1>3. /\ pc'[s] = place /\ claim = s
      /\ \A t \in Schedulers \ {s} : pc'[t] = pc[t] /\ pc[t] \notin Working
  BY <1>1, <1>2, Alone
<1>4. CASE place = "snapshot"
  BY <1>1, <1>3, <1>4, Rest
<1>5. CASE place # "snapshot"
  <2>1. LateInv' /\ PairInv'
    BY <1>1, <1>2, <1>5, Moved DEF facts
  <2>2. Untouched(arm) /\ (arm = Review => Untouched(Proposal))
    BY <1>1 DEF IndInv, OrderInv
  <2>3. OrderInv'
    BY <1>1, <1>2, <1>3, <2>2, NobodyIsNoScheduler DEF OrderInv, Untouched, Fresh, facts, callVars
  <2>4. CallInv'
    BY <1>1, <1>3, <1>5, <2>2 DEF CallInv, Untouched, Fresh, facts, callVars
  <2>5. NeverResent' /\ CostFences'
    BY <1>1 DEF IndInv, NeverResent, CostFences, facts, callVars
  <2> QED
    BY <2>1, <2>3, <2>4, <2>5 DEF SafeInv
<1> QED
  BY <1>4, <1>5

\* ReserveDenied: the cap says no.
LEMMA ReserveDeniedSafe == ASSUME IndInv, NEW s \in Schedulers, ReserveDenied(s) PROVE SafeInv'
<1> USE DEF Working, Deciding, Calling, Writes, Stages, Places
<1>1. /\ pc[s] = "reserve" /\ GoTo(s, "DENIED")
      /\ UNCHANGED <<claim, evaluations, facts, late, callVars>>
  BY DEF ReserveDenied
<1>2. /\ pc'[s] = "DENIED" /\ claim = s
      /\ \A t \in Schedulers \ {s} : pc'[t] \notin Working
  BY <1>1, Alone
<1>3. LateInv' /\ PairInv'
  BY <1>1, Moved DEF facts
<1>4. OrderInv'
  BY <1>1, <1>2, NobodyIsNoScheduler DEF IndInv, OrderInv, Untouched, Fresh, facts, callVars
<1>5. CallInv'
  BY <1>1, <1>2 DEF IndInv, CallInv, Fresh, facts, callVars
<1>6. NeverResent' /\ CostFences'
  BY <1>1 DEF IndInv, NeverResent, CostFences, facts, callVars
<1> QED
  BY <1>3, <1>4, <1>5, <1>6 DEF SafeInv

\* Cutoff: the proposal arm comes next, or the window is over.
LEMMA CutoffSafe == ASSUME IndInv, NEW s \in Schedulers, Cutoff(s) PROVE SafeInv'
<1> USE DEF Working, Deciding, Calling, Writes, Stages, Places
<1>1. /\ pc[s] = "cutoff"
      /\ UNCHANGED <<claim, evaluations, facts, late, responded, wanted, observedAt, calls>>
  BY DEF Cutoff
<1>2. CASE now >= PairedAt
  <2>1. GoTo(s, "snapshot") /\ UNCHANGED callVars
    BY <1>1, <1>2 DEF Cutoff, Finalize, callVars
  <2>2. \A t \in Schedulers : pc'[t] = pc[t] \/ pc'[t] \notin Working
    BY <1>1, <2>1, Alone
  <2> QED
    BY <1>1, <2>1, <2>2, Rest
<1>3. CASE ~(now >= PairedAt)
  <2>1. GoTo(s, "admit") /\ arm' = Proposal
    BY <1>3 DEF Cutoff
  <2>2. /\ pc'[s] = "admit" /\ claim = s
        /\ \A t \in Schedulers \ {s} : pc'[t] \notin Working
    BY <1>1, <2>1, Alone
  <2>3. LateInv' /\ PairInv'
    BY <1>1, <2>1, Moved DEF facts
  <2>4. Untouched(Proposal)
    BY <1>1 DEF IndInv, OrderInv
  <2>5. OrderInv'
    BY <1>1, <2>1, <2>2, <2>4, NobodyIsNoScheduler DEF OrderInv, Untouched, Fresh, facts
  <2>6. CallInv'
    BY <2>2 DEF CallInv
  <2>7. NeverResent' /\ CostFences'
    BY <1>1 DEF IndInv, NeverResent, CostFences, facts
  <2> QED
    BY <2>3, <2>5, <2>6, <2>7 DEF SafeInv
<1> QED
  BY <1>2, <1>3

\* Dispatch: the one call of an arm.
LEMMA DispatchSafe == ASSUME IndInv, NEW s \in Schedulers, Dispatch(s) PROVE SafeInv'
<1> USE DEF Working, Deciding, Calling, Writes, Stages, Places
<1>1. /\ pc[s] = "dispatch" /\ GoTo(s, "call")
      /\ calls' = [calls EXCEPT ![arm] = @ + 1]
      /\ UNCHANGED <<claim, evaluations, facts, late, arm, responded, wanted, observedAt>>
  BY DEF Dispatch
<1>2. /\ pc'[s] = "call" /\ claim = s
      /\ \A t \in Schedulers \ {s} : pc'[t] \notin Working
  BY <1>1, Alone
<1>3. LateInv' /\ PairInv'
  BY <1>1, Moved DEF facts
<1>4. /\ calls[arm] = 0 /\ arm \in started /\ arm \in CallArms
      /\ costs[arm] = {"REQUESTED", "RESERVED"}
      /\ calls \in [CallArms -> Nat]
      /\ arm = Review => Untouched(Proposal)
  BY <1>1 DEF IndInv, CallInv, TypeOK, OrderInv
<1>5. calls'[arm] = 1 /\ \A a \in CallArms : a # arm => calls'[a] = calls[a]
  BY <1>1, <1>4
<1>6. OrderInv'
  BY <1>1, <1>2, <1>4, <1>5, NobodyIsNoScheduler DEF OrderInv, Untouched, Fresh, facts
<1>7. CallInv'
  BY <1>1, <1>2, <1>4, <1>5 DEF IndInv, CallInv, Fresh, facts
<1>8. NeverResent'
  BY <1>1, <1>4, <1>5 DEF IndInv, NeverResent
<1>9. CostFences'
  BY <1>1, <1>4, <1>5 DEF IndInv, CostFences, facts
<1> QED
  BY <1>3, <1>6, <1>7, <1>8, <1>9 DEF SafeInv

\* Respond and CallFails: the call is over, and what follows is decided.
LEMMA CallEndsSafe ==
  ASSUME IndInv, NEW s \in Schedulers, Respond(s) \/ CallFails(s) PROVE SafeInv'
<1> USE DEF Working, Deciding, Calling, Writes, Stages, Places
<1>1. /\ pc[s] \in {"dispatch", "call"}
      /\ UNCHANGED <<claim, evaluations, facts, late, arm, calls>>
  BY DEF Respond, CallFails
<1>2. \/ GoTo(s, "COMMIT_REQUESTED") /\ UNCHANGED wanted
      \/ /\ GoTo(s, "finish")
         /\ \E status \in Terminals : wanted' = [wanted EXCEPT ![arm] = status]
  BY DEF Respond, CallFails, Conclude, FailureStatus, Terminals
<1>3. PICK place \in {"COMMIT_REQUESTED", "finish"} :
        /\ GoTo(s, place)
        /\ place = "finish" =>
             \E status \in Terminals : wanted' = [wanted EXCEPT ![arm] = status]
        /\ place = "COMMIT_REQUESTED" => pc[s] = "call"
  BY <1>1, <1>2 DEF Respond, CallFails, Conclude, GoTo, IndInv, TypeOK
<1>4. /\ pc'[s] = place /\ claim = s
      /\ \A t \in Schedulers \ {s} : pc'[t] \notin Working
  BY <1>1, <1>3, Alone
<1>5. LateInv' /\ PairInv'
  BY <1>1, <1>3, Moved DEF facts
<1>6. arm \in CallArms /\ (place = "finish" => wanted'[arm] # "open")
  BY <1>3 DEF IndInv, TypeOK, Terminals
<1>7. OrderInv'
  BY <1>1, <1>4, NobodyIsNoScheduler DEF IndInv, OrderInv, Untouched, Fresh, facts
<1>8. CallInv'
  BY <1>1, <1>3, <1>4, <1>6 DEF IndInv, CallInv, Fresh, facts
<1>9. NeverResent' /\ CostFences'
  BY <1>1 DEF IndInv, NeverResent, CostFences, facts
<1> QED
  BY <1>5, <1>7, <1>8, <1>9 DEF SafeInv
-----------------------------------------------------------------------------
(* The writes of the claiming scheduler. *)

\* Whoever records a decision stamps it.
LEMMA Recorded ==
  ASSUME IndInv, NEW a \in CallArms, NEW w \in {"review", "finish"}, Apply(a, w)
  PROVE  \A b \in CallArms : Decided(b)' => recordedAt'[b] # "never"
<1> TAKE b \in CallArms
<1>1. recordedAt' = IF ~Decided(a) THEN [recordedAt EXCEPT ![a] = Stamp] ELSE recordedAt
  BY DEF Apply
<1>2. recordedAt \in [CallArms -> Stamps] /\ terminal \in [CallArms -> Terminals \cup {"open"}]
  BY DEF IndInv, TypeOK
<1>3. Decided(b) => recordedAt[b] # "never"
  BY DEF IndInv, LateInv
<1>4. CASE b = a
  BY <1>1, <1>2, <1>3, <1>4, Stamped
<1>5. CASE b # a
  <2>1. Decided(b)' => Decided(b)
    BY <1>2, <1>5 DEF Apply, Decided
  <2>2. recordedAt'[b] = recordedAt[b]
    BY <1>1, <1>2, <1>5
  <2> QED
    BY <1>3, <2>1, <2>2
<1> QED
  BY <1>4, <1>5

\* The evaluation is recorded: a sample of it may follow only if it was in time.
LEMMA EvaluationRecordedSafe ==
  ASSUME IndInv, NEW s \in Schedulers, EvaluationRecorded(s) PROVE SafeInv'
<1> USE DEF Working, Deciding, Calling, Writes, Stages, Places
<1>1. /\ pc[s] = "evaluation" /\ Apply(arm, "evaluation") /\ arm \in CallArms /\ sampled \in BOOLEAN
      /\ UNCHANGED <<claim, evaluations, late, callVars>>
  BY DEF EvaluationRecorded, Write, IndInv, TypeOK
<1>2. /\ evaluation' = [evaluation EXCEPT !.recorded = Stamp]
      /\ UNCHANGED <<costs, ledger, started, reviewed, terminal, recordedAt, sampled>>
  BY <1>1, Applied
<1>3. PICK place \in {"find", "cutoff", "snapshot"} :
        GoTo(s, place) /\ (place # "snapshot" => ~LateEvaluation')
  BY DEF EvaluationRecorded, Finalize
<1>4. /\ pc'[s] = place /\ claim = s
      /\ \A t \in Schedulers \ {s} : pc'[t] \notin Working
  BY <1>1, <1>3, Alone
<1>5. Evaluated'
  BY <1>2, Stamped DEF Evaluated, IndInv, TypeOK
<1>6. arm = Review /\ Untouched(Review) /\ Untouched(Proposal)
  BY <1>1 DEF IndInv, OrderInv
<1>7. OrderInv'
  BY <1>1, <1>2, <1>4, <1>6, NobodyIsNoScheduler DEF OrderInv, Untouched, Fresh, callVars
<1>8. CallInv'
  BY <1>4 DEF CallInv
<1>9. LateInv' /\ PairInv'
  BY <1>1, <1>2, <1>3, <1>4, <1>5, Busy DEF IndInv, LateInv, PairInv, Decided
<1>10. NeverResent' /\ CostFences'
  BY <1>1, <1>2 DEF IndInv, NeverResent, CostFences, callVars
<1> QED
  BY <1>7, <1>8, <1>9, <1>10 DEF SafeInv

\* Fence: receipts, the reservation, START and the commit.
LEMMA FenceSafe == ASSUME IndInv, NEW s \in Schedulers, Fence(s) PROVE SafeInv'
<1> USE DEF Working, Deciding, Calling, Writes, Stages, Places
<1> DEFINE w == pc[s]
<1>1. /\ w \in {"REQUESTED", "reserve", "RESERVED", "start", "COMMIT_REQUESTED", "commit"}
      /\ Apply(arm, w) /\ arm \in CallArms /\ sampled \in BOOLEAN
      /\ UNCHANGED <<claim, evaluations, late, callVars>>
  BY DEF Fence, Write, NextWrite, IndInv, TypeOK
<1>2. /\ UNCHANGED <<evaluation, reviewed, terminal, recordedAt, sampled>>
      /\ w \in Stages => costs' = [costs EXCEPT ![arm] = @ \cup {w}]
      /\ w \notin Stages => costs' = costs
      /\ w = "reserve" => ledger' = [ledger EXCEPT ![arm] = "held"]
      /\ w = "commit" => ledger' = [ledger EXCEPT ![arm] = "settled"]
      /\ w \notin {"reserve", "commit"} => ledger' = ledger
      /\ w = "start" => started' = started \cup {arm}
      /\ w # "start" => started' = started
  BY <1>1, Applied
<1>3. PICK place \in {"reserve", "RESERVED", "start", "dispatch", "commit", "COMMITTED"} :
        /\ GoTo(s, place)
        /\ w = "REQUESTED" <=> place = "reserve"
        /\ w = "reserve" <=> place = "RESERVED"
        /\ w = "RESERVED" <=> place = "start"
        /\ w = "start" <=> place = "dispatch"
        /\ w = "COMMIT_REQUESTED" <=> place = "commit"
        /\ w = "commit" <=> place = "COMMITTED"
  BY <1>1 DEF Fence, NextWrite
<1>4. /\ pc'[s] = place /\ claim = s
      /\ \A t \in Schedulers \ {s} : pc'[t] \notin Working
  BY <1>1, <1>3, Alone
<1>5. /\ \A a \in CallArms : a # arm => costs'[a] = costs[a] /\ ledger'[a] = ledger[a]
      /\ costs'[arm] = IF w \in Stages THEN costs[arm] \cup {w} ELSE costs[arm]
      /\ ledger'[arm] = IF w = "reserve" THEN "held"
                        ELSE IF w = "commit" THEN "settled" ELSE ledger[arm]
  BY <1>1, <1>2 DEF IndInv, TypeOK
<1>6. /\ Fresh(arm) /\ terminal[arm] = "open" /\ arm \notin reviewed
      /\ w = "REQUESTED" => Untouched(arm)
      /\ arm = Review => Untouched(Proposal)
  BY <1>1 DEF IndInv, OrderInv, CallInv
<1>7. OrderInv'
  BY <1>1, <1>2, <1>3, <1>4, <1>5, <1>6, NobodyIsNoScheduler
  DEF OrderInv, Untouched, Fresh, callVars
<1>8. CallInv'
  BY <1>1, <1>2, <1>3, <1>4, <1>5, <1>6 DEF IndInv, CallInv, Fresh, Untouched, callVars
<1>9. LateInv'
  BY <1>1, <1>2, <1>4, <1>5, <1>6, Busy DEF IndInv, LateInv, Decided, Fresh, Idle
<1>10. PairInv'
  BY <1>1, <1>2, <1>3, <1>4, Busy DEF IndInv, PairInv, Evaluated, LateEvaluation
<1>11. NeverResent'
  BY <1>1 DEF IndInv, NeverResent, callVars
<1>12. CostFences'
  BY <1>1, <1>2, <1>3, <1>5, <1>6 DEF IndInv, CostFences, CallInv, OrderInv, Untouched, callVars
<1> QED
  BY <1>7, <1>8, <1>9, <1>10, <1>11, <1>12 DEF SafeInv

\* DenialRecorded: the denial is a receipt, and there is no hold.
LEMMA DenialRecordedSafe ==
  ASSUME IndInv, NEW s \in Schedulers, DenialRecorded(s) PROVE SafeInv'
<1> USE DEF Working, Deciding, Calling, Writes, Stages, Places
<1>1. /\ pc[s] = "DENIED" /\ Apply(arm, "DENIED") /\ arm \in CallArms /\ sampled \in BOOLEAN
      /\ UNCHANGED <<claim, evaluations, late, callVars>>
  BY DEF DenialRecorded, Write, IndInv, TypeOK
<1>2. /\ costs' = [costs EXCEPT ![arm] = @ \cup {"DENIED"}]
      /\ UNCHANGED <<evaluation, ledger, started, reviewed, terminal, recordedAt, sampled>>
  BY <1>1, Applied
<1>3. PICK place \in {"cutoff", "snapshot"} :
        GoTo(s, place) /\ (place = "cutoff" => arm = Review)
  BY Ends DEF DenialRecorded
<1>4. /\ pc'[s] = place /\ claim = s
      /\ \A t \in Schedulers \ {s} : pc'[t] \notin Working
  BY <1>1, <1>3, Alone
<1>5. /\ \A a \in CallArms : a # arm => costs'[a] = costs[a]
      /\ costs'[arm] = {"REQUESTED", "DENIED"}
      /\ ledger[arm] = "none" /\ calls[arm] = 0 /\ Fresh(arm)
      /\ arm = Review => Untouched(Proposal)
  BY <1>1, <1>2 DEF IndInv, TypeOK, CallInv, OrderInv
<1>6. OrderInv'
  BY <1>1, <1>2, <1>3, <1>4, <1>5, NobodyIsNoScheduler DEF OrderInv, Untouched, Fresh, callVars
<1>7. CallInv'
  BY <1>4 DEF CallInv
<1>8. LateInv'
  BY <1>1, <1>2, <1>4, <1>5, Busy DEF IndInv, LateInv, Decided, Fresh, Idle
<1>9. PairInv'
  BY <1>1, <1>2, <1>4, Busy DEF IndInv, PairInv, Evaluated, LateEvaluation
<1>10. NeverResent' /\ CostFences'
  BY <1>1, <1>2, <1>5 DEF IndInv, NeverResent, CostFences, callVars
<1> QED
  BY <1>6, <1>7, <1>8, <1>9, <1>10 DEF SafeInv

\* Committed: the exact cost is a receipt.
LEMMA CommittedSafe == ASSUME IndInv, NEW s \in Schedulers, Committed(s) PROVE SafeInv'
<1> USE DEF Working, Deciding, Calling, Writes, Stages, Places
<1>1. /\ pc[s] = "COMMITTED" /\ Apply(arm, "COMMITTED") /\ arm \in CallArms /\ sampled \in BOOLEAN
      /\ UNCHANGED <<claim, evaluations, late, arm, calls>>
  BY DEF Committed, Write, IndInv, TypeOK
<1>2. /\ costs' = [costs EXCEPT ![arm] = @ \cup {"COMMITTED"}]
      /\ UNCHANGED <<evaluation, ledger, started, reviewed, terminal, recordedAt, sampled>>
  BY <1>1, Applied
<1>3. PICK place \in {"review", "finish"} :
        /\ GoTo(s, place)
        /\ place = "review" => arm = Review
        /\ place = "finish" => \E status \in Terminals : wanted' = [wanted EXCEPT ![arm] = status]
  BY DEF Committed, Conclude, Terminals
<1>4. /\ pc'[s] = place /\ claim = s
      /\ \A t \in Schedulers \ {s} : pc'[t] \notin Working
  BY <1>1, <1>3, Alone
<1>5. /\ \A a \in CallArms : a # arm => costs'[a] = costs[a]
      /\ costs'[arm] = {"REQUESTED", "RESERVED", "COMMIT_REQUESTED", "COMMITTED"}
      /\ ledger[arm] = "settled" /\ Fresh(arm)
      /\ terminal[arm] = "open" /\ arm \notin reviewed
      /\ arm = Review => Untouched(Proposal)
      /\ place = "finish" => wanted'[arm] # "open"
  BY <1>1, <1>2, <1>3 DEF IndInv, TypeOK, CallInv, OrderInv, Terminals
<1>6. OrderInv'
  BY <1>1, <1>2, <1>3, <1>4, <1>5, NobodyIsNoScheduler DEF OrderInv, Untouched, Fresh
<1>7. CallInv'
  BY <1>1, <1>2, <1>3, <1>4, <1>5 DEF CallInv, Fresh
<1>8. LateInv'
  BY <1>1, <1>2, <1>4, <1>5, Busy DEF IndInv, LateInv, Decided, Fresh, Idle
<1>9. PairInv'
  BY <1>1, <1>2, <1>4, Busy DEF IndInv, PairInv, Evaluated, LateEvaluation
<1>10. NeverResent' /\ CostFences'
  BY <1>1, <1>2, <1>5 DEF IndInv, NeverResent, CostFences
<1> QED
  BY <1>6, <1>7, <1>8, <1>9, <1>10 DEF SafeInv

\* ReviewRecorded: the review is a receipt.
LEMMA ReviewRecordedSafe ==
  ASSUME IndInv, NEW s \in Schedulers, ReviewRecorded(s) PROVE SafeInv'
<1> USE DEF Working, Deciding, Calling, Writes, Stages, Places
<1>1. /\ pc[s] = "review" /\ Apply(arm, "review") /\ arm = Review /\ GoTo(s, "cutoff")
      /\ sampled \in BOOLEAN
      /\ UNCHANGED <<claim, evaluations, late, callVars>>
  BY DEF ReviewRecorded, Write, IndInv, CallInv, TypeOK
<1>2. /\ UNCHANGED <<evaluation, costs, ledger, started, terminal, sampled>>
      /\ reviewed' = reviewed \cup {Review}
      /\ Decided(Review) => recordedAt' = recordedAt
      /\ ~Decided(Review) => recordedAt' = [recordedAt EXCEPT ![Review] = Stamp]
  BY <1>1, Applied
<1>3. /\ pc'[s] = "cutoff" /\ claim = s
      /\ \A t \in Schedulers \ {s} : pc'[t] \notin Working
  BY <1>1, Alone
<1>4. Untouched(Proposal)
  BY <1>1 DEF IndInv, OrderInv
<1>5. OrderInv'
  BY <1>1, <1>2, <1>3, <1>4, NobodyIsNoScheduler DEF OrderInv, Untouched, Fresh, callVars
<1>6. CallInv'
  BY <1>3 DEF CallInv
<1>7. \A a \in CallArms : Decided(a)' => recordedAt'[a] # "never"
  BY <1>1, Recorded
<1>8. LateInv'
  BY <1>1, <1>2, <1>7, Busy DEF IndInv, LateInv
<1>9. PairInv'
  BY <1>1, <1>2, <1>3, Busy DEF IndInv, PairInv, Evaluated, LateEvaluation
<1>10. NeverResent' /\ CostFences'
  BY <1>1, <1>2 DEF IndInv, NeverResent, CostFences, callVars
<1> QED
  BY <1>5, <1>6, <1>8, <1>9, <1>10 DEF SafeInv

\* Finished: a terminal is durable; a timely one of the proposal is sampled next.
LEMMA FinishedSafe == ASSUME IndInv, NEW s \in Schedulers, Finished(s) PROVE SafeInv'
<1> USE DEF Working, Deciding, Calling, Writes, Stages, Places
<1>1. /\ pc[s] = "finish" /\ Apply(arm, "finish") /\ arm \in CallArms /\ sampled \in BOOLEAN
      /\ UNCHANGED <<claim, evaluations, late, callVars>>
  BY DEF Finished, Write, IndInv, TypeOK
<1>2. /\ UNCHANGED <<evaluation, costs, ledger, started, reviewed, sampled>>
      /\ terminal' = [terminal EXCEPT ![arm] = wanted[arm]]
      /\ Decided(arm) => recordedAt' = recordedAt
      /\ ~Decided(arm) => recordedAt' = [recordedAt EXCEPT ![arm] = Stamp]
  BY <1>1, Applied
<1>3. PICK place \in {"sample", "cutoff", "snapshot"} :
        /\ GoTo(s, place)
        /\ place = "cutoff" => arm = Review
        /\ place = "sample" => arm = Proposal /\ wanted[arm] # "UNRESOLVED" /\ ~LateDecision(arm)'
  BY Ends DEF Finished
<1>4. /\ pc'[s] = place /\ claim = s
      /\ \A t \in Schedulers \ {s} : pc'[t] \notin Working
  BY <1>1, <1>3, Alone
<1>5. /\ wanted[arm] \in Terminals /\ terminal'[arm] = wanted[arm]
      /\ \A a \in CallArms : a # arm => terminal'[a] = terminal[a]
      /\ <<arm, "finish">> \notin late /\ <<arm, "sample">> \notin late
      /\ arm = Review => Untouched(Proposal)
  <2>1. wanted[arm] \in Terminals \cup {"open"} /\ wanted[arm] # "open"
    BY <1>1 DEF IndInv, TypeOK, CallInv
  <2>2. terminal \in [CallArms -> Terminals \cup {"open"}]
    BY DEF IndInv, TypeOK
  <2>3. /\ <<arm, "finish">> \notin late /\ <<arm, "sample">> \notin late
        /\ arm = Review => Untouched(Proposal)
    BY <1>1 DEF IndInv, CallInv, OrderInv
  <2> QED
    BY <1>1, <1>2, <2>1, <2>2, <2>3
<1>6. OrderInv'
  BY <1>1, <1>2, <1>3, <1>4, <1>5, NobodyIsNoScheduler DEF OrderInv, Untouched, Fresh, callVars
<1>7. CallInv'
  BY <1>4 DEF CallInv
<1>8. \A a \in CallArms : Decided(a)' => recordedAt'[a] # "never"
  BY <1>1, Recorded
<1>9. LateInv'
  BY <1>1, <1>2, <1>8, Busy DEF IndInv, LateInv
<1>10. PairInv'
  <2>1. Evaluated' /\ ~LateEvaluation'
    BY <1>1, <1>2 DEF IndInv, PairInv, Evaluated, LateEvaluation
  <2>2. place = "sample" =>
          /\ terminal'[Proposal] \in {"COMPLETED", "FAILED"} /\ Timely(Proposal)'
          /\ <<Proposal, "finish">> \notin late
    <3> SUFFICES ASSUME place = "sample"
                 PROVE  /\ terminal'[Proposal] \in {"COMPLETED", "FAILED"} /\ Timely(Proposal)'
                        /\ <<Proposal, "finish">> \notin late
      OBVIOUS
    <3>1. observedAt'[Proposal] # "late" /\ recordedAt'[Proposal] # "late"
      BY <1>1, <1>3 DEF LateDecision, callVars
    <3>2. recordedAt'[Proposal] # "never"
      BY <1>3, <1>5, <1>8 DEF Decided, Terminals
    <3>3. observedAt'[Proposal] \in {"timely", "late"}
      BY <1>1 DEF IndInv, TypeOK, callVars
    <3>4. recordedAt'[Proposal] \in Stamps
      BY <1>2, <1>3, Stamped DEF IndInv, TypeOK, Stamps
    <3> QED
      BY <1>3, <1>5, <3>1, <3>2, <3>3, <3>4 DEF Timely, Stamps, Terminals
  <2> QED
    BY <1>1, <1>2, <1>4, <2>1, <2>2, Busy DEF PairInv
<1>11. NeverResent' /\ CostFences'
  BY <1>1, <1>2 DEF IndInv, NeverResent, CostFences, callVars
<1> QED
  BY <1>6, <1>7, <1>9, <1>10, <1>11 DEF SafeInv

\* SampleRecorded: the sample is durable, and the window ends.
LEMMA SampleRecordedSafe ==
  ASSUME IndInv, NEW s \in Schedulers, SampleRecorded(s) PROVE SafeInv'
<1> USE DEF Working, Deciding, Calling, Writes, Stages, Places
<1>1. /\ pc[s] = "sample" /\ Apply(arm, "sample") /\ arm \in CallArms /\ sampled \in BOOLEAN
      /\ UNCHANGED <<claim, evaluations, late, callVars>>
  BY DEF SampleRecorded, Write, IndInv, TypeOK
<1>2. UNCHANGED <<evaluation, costs, ledger, started, reviewed, terminal, recordedAt>>
  BY <1>1, Applied
<1>3. GoTo(s, "snapshot")
  BY <1>1 DEF SampleRecorded, EndOfArm, Finalize, IndInv, OrderInv
<1>4. /\ pc'[s] = "snapshot" /\ claim = s
      /\ \A t \in Schedulers \ {s} : pc'[t] \notin Working
  BY <1>1, <1>3, Alone
<1>5. OrderInv' /\ CallInv'
  BY <1>1, <1>4, NobodyIsNoScheduler DEF OrderInv, CallInv
<1>6. LateInv'
  BY <1>1, <1>2, Busy DEF IndInv, LateInv, Decided
<1>7. PairInv'
  BY <1>1, <1>2, <1>4 DEF IndInv, PairInv, Evaluated, LateEvaluation, Timely, callVars, Idle
<1>8. NeverResent' /\ CostFences'
  BY <1>1, <1>2 DEF IndInv, NeverResent, CostFences, callVars
<1> QED
  BY <1>5, <1>6, <1>7, <1>8 DEF SafeInv
-----------------------------------------------------------------------------
(* Writes that are given up, and that land later. *)

\* Where a terminal follows, although the write before it was given up.
Concluding == {"call", "COMMIT_REQUESTED", "commit", "COMMITTED", "review"}

\* The claiming scheduler leaves a write behind and works on, or stops.
LEMMA LeftBehind ==
  ASSUME IndInv, NEW s \in Schedulers, pc[s] \in Working,
         NEW place \in {"idle", "snapshot", "cutoff", "finish"}, GoTo(s, place),
         place = "cutoff" => arm = Review,
         place \in {"cutoff", "finish"} => pc[s] \in Deciding,
         place = "finish" => pc[s] \in Concluding /\ wanted'[arm] # "open",
         UNCHANGED <<claim, evaluations, facts, arm, calls>>,
         pc[s] # "call" => UNCHANGED observedAt,
         late \subseteq late',
         \A p \in late' : \/ p \in late
                          \/ p = <<arm, pc[s]>> /\ pc[s] \in Writes
                          \/ p = <<arm, "finish">> /\ place = "idle" /\ pc[s] \in Concluding
  PROVE  SafeInv'
<1> USE DEF Working, Deciding, Calling, Concluding, Writes, Stages, Places
<1>1. /\ pc'[s] = place /\ claim = s
      /\ \A t \in Schedulers \ {s} : pc'[t] \notin Working
  BY Alone
<1>2. arm \in CallArms /\ (arm = Review => Untouched(Proposal))
  BY DEF IndInv, TypeOK, OrderInv
<1>3. pc[s] \in Calling => Fresh(arm)
  BY DEF IndInv, CallInv
<1>4. OrderInv'
  BY <1>1, <1>2, NobodyIsNoScheduler DEF OrderInv, Untouched, Fresh, facts
<1>5. CallInv'
  <2>1. place = "finish" =>
          /\ terminal[arm] = "open"
          /\ <<arm, "finish">> \notin late' /\ <<arm, "sample">> \notin late'
    BY <1>3 DEF IndInv, CallInv, Fresh
  <2> QED
    BY <1>1, <2>1 DEF CallInv, facts
<1>6. LateInv'
  <2>1. \A a \in CallArms : <<a, "evaluation">> \in late' => Idle'
    BY <1>1, Busy DEF Idle
  <2>2. pc[s] = "review" => arm = Review
    BY DEF IndInv, CallInv
  <2>3. \A a \in CallArms, w \in {"reserve", "DENIED", "RESERVED", "COMMIT_REQUESTED", "commit",
                                   "COMMITTED"} :
          <<a, w>> \in late' => \/ <<a, w>> \in late
                                \/ a = arm /\ pc[s] = w /\ Fresh(arm)
    BY <1>3
  <2>4. /\ pc[s] \in {"reserve", "DENIED"} => costs[arm] = {"REQUESTED"} /\ ledger[arm] = "none"
        /\ pc[s] \in {"RESERVED", "COMMIT_REQUESTED", "commit"} => ledger[arm] = "held"
        /\ pc[s] = "commit" => "COMMIT_REQUESTED" \in costs[arm]
        /\ pc[s] = "COMMITTED" => ledger[arm] = "settled"
    BY DEF IndInv, CallInv
  <2>5. \A a \in CallArms : <<a, "reserve">> \in late' => <<a, "DENIED">> \notin late'
    BY <2>3 DEF IndInv, LateInv, Fresh
  <2> QED
    BY <2>1, <2>2, <2>3, <2>4, <2>5 DEF IndInv, LateInv, Decided, facts
<1>7. PairInv'
  <2>1. (\E a \in CallArms : <<a, "sample">> \in late') => pc[s] = "sample"
    BY Busy
  <2>2. pc[s] = "sample" =>
          /\ place \in {"idle", "snapshot"}
          /\ Evaluated /\ ~LateEvaluation
          /\ terminal[Proposal] \in {"COMPLETED", "FAILED"} /\ Timely(Proposal)
          /\ <<Proposal, "finish">> \notin late'
          /\ \A a \in CallArms : <<a, "evaluation">> \notin late'
    BY DEF IndInv, OrderInv, PairInv
  <2>3. \A t \in Schedulers : pc'[t] \in Deciding => Evaluated' /\ ~LateEvaluation'
    BY <1>1 DEF IndInv, PairInv, Evaluated, LateEvaluation, facts
  <2> QED
    BY <1>1, <2>1, <2>2, <2>3, Busy
    DEF PairInv, Idle, Evaluated, LateEvaluation, Timely, facts
<1>8. NeverResent' /\ CostFences'
  BY DEF IndInv, NeverResent, CostFences, facts
<1> QED
  BY <1>4, <1>5, <1>6, <1>7, <1>8 DEF SafeInv

\* WriteFails: the write is given up and may land later.
LEMMA WriteFailsSafe == ASSUME IndInv, NEW s \in Schedulers, WriteFails(s) PROVE SafeInv'
<1> USE DEF Working, Deciding, Concluding, Writes, Stages
<1>1. /\ pc[s] \in Writes /\ GiveUp({<<arm, pc[s]>>})
      /\ UNCHANGED <<claim, evaluations, facts, arm, calls, observedAt>>
  BY DEF WriteFails
<1>2. late \subseteq late' /\ late' \subseteq late \cup {<<arm, pc[s]>>}
  BY <1>1, GivenUp
<1>3. CASE pc[s] = "evaluation" /\ GoTo(s, "snapshot")
  BY <1>1, <1>2, <1>3, LeftBehind
<1>4. CASE pc[s] \in Deciding /\ EndOfArm(s)
  <2>1. PICK place \in {"cutoff", "snapshot"} :
          GoTo(s, place) /\ (place = "cutoff" => arm = Review)
    BY <1>4, Ends
  <2> QED
    BY <1>1, <1>2, <1>4, <2>1, LeftBehind
<1>5. CASE pc[s] \in Concluding /\ Conclude(s, "UNRESOLVED")
  <2>1. GoTo(s, "finish") /\ wanted'[arm] # "open"
    BY <1>5 DEF Conclude, IndInv, TypeOK
  <2> QED
    BY <1>1, <1>2, <1>5, <2>1, LeftBehind
<1> QED
  BY <1>3, <1>4, <1>5 DEF WriteFails, Finalize

\* Abort: a run ends anywhere; a cancelled call still writes its terminal.
LEMMA AbortSafe == ASSUME IndInv, NEW s \in Schedulers, Abort(s) PROVE SafeInv'
<1> USE DEF Working, Concluding, Writes, Stages
<1> DEFINE awaited == IF pc[s] \in Writes THEN {<<arm, pc[s]>>} ELSE {}
<1>1. GoTo(s, "idle") /\ UNCHANGED <<claim, evaluations, facts, arm, responded, calls>>
  BY DEF Abort, Run
<1>2. \/ GiveUp(awaited) /\ UNCHANGED <<wanted, observedAt>>
      \/ /\ pc[s] \in Concluding /\ GiveUp(awaited \cup {<<arm, "finish">>})
         /\ pc[s] # "call" => UNCHANGED observedAt
  <2>1. pc[s] # "call" =>
          (observedAt' = [observedAt EXCEPT ![arm] = IF pc[s] = "call" THEN Stamp ELSE @]
             => observedAt' = observedAt)
    BY DEF IndInv, TypeOK
  <2> QED
    BY <2>1 DEF Abort
<1>3. CASE pc[s] \in Working
  <2>1. late \subseteq late'
    BY <1>2, GivenUp
  <2>2. \A p \in late' : \/ p \in late
                         \/ p = <<arm, pc[s]>> /\ pc[s] \in Writes
                         \/ p = <<arm, "finish">> /\ pc[s] \in Concluding
    BY <1>2, GivenUp
  <2> QED
    BY <1>1, <1>2, <1>3, <2>1, <2>2, LeftBehind
<1>4. CASE pc[s] \notin Working
  <2>1. late' = late /\ UNCHANGED <<wanted, observedAt>>
    BY <1>2, <1>4, GivenUp
  <2>2. \A t \in Schedulers : pc'[t] = pc[t] \/ pc'[t] \notin Working
    BY <1>1 DEF GoTo, IndInv, TypeOK
  <2> QED
    BY <1>1, <2>1, <2>2, Rest DEF callVars
<1> QED
  BY <1>3, <1>4

\* What lands is a write of an arm.
LEMMA Landed ==
  ASSUME IndInv, LandLate
  PROVE  \E a \in CallArms, w \in Writes :
           /\ <<a, w>> \in late /\ Apply(a, w) /\ late' = late \ {<<a, w>>}
           /\ UNCHANGED <<claim, evaluations, pc, callVars>>
<1>1. PICK p \in late :
        /\ Apply(p[1], p[2]) /\ late' = late \ {p}
        /\ UNCHANGED <<claim, evaluations, pc, callVars>>
  BY DEF LandLate
<1>2. p \in CallArms \X Writes
  BY DEF IndInv, TypeOK
<1>3. p[1] \in CallArms /\ p[2] \in Writes /\ p = <<p[1], p[2]>>
  BY <1>2
<1> QED
  BY <1>1, <1>3

\* LandLate: a write that was given up takes effect after all.
LEMMA LandLateSafe == ASSUME IndInv, LandLate PROVE SafeInv'
<1> USE DEF Working, Deciding, Calling, Writes, Stages
<1>1. PICK a \in CallArms, w \in Writes :
        /\ <<a, w>> \in late /\ Apply(a, w) /\ late' = late \ {<<a, w>>}
        /\ UNCHANGED <<claim, evaluations, pc, callVars>>
  BY Landed
<1>2. sampled \in BOOLEAN /\ claim # Nobody
  BY <1>1 DEF IndInv, TypeOK, OrderInv
<1>3. /\ w = "evaluation" => evaluation' = [evaluation EXCEPT !.recorded = Stamp]
      /\ w # "evaluation" => evaluation' = evaluation
      /\ w = "review" => reviewed' = reviewed \cup {a}
      /\ w # "review" => reviewed' = reviewed
      /\ w = "start" => started' = started \cup {a}
      /\ w # "start" => started' = started
      /\ w \notin {"review", "finish"} => recordedAt' = recordedAt
      /\ w # "sample" => sampled' = sampled
  BY <1>1, <1>2, Applied
<1>4. /\ \A b \in CallArms : b # a =>
           /\ costs'[b] = costs[b] /\ ledger'[b] = ledger[b]
           /\ terminal'[b] = terminal[b] /\ recordedAt'[b] = recordedAt[b]
      /\ costs'[a] = IF w \in Stages THEN costs[a] \cup {w} ELSE costs[a]
      /\ ledger'[a] = IF w = "reserve" THEN "held"
                      ELSE IF w = "commit" THEN "settled" ELSE ledger[a]
      /\ w # "finish" => terminal'[a] = terminal[a]
  BY <1>1 DEF Apply, IndInv, TypeOK
<1>5. \A b \in CallArms : Fresh(b) =>
        /\ Fresh(b)' /\ costs'[b] = costs[b] /\ ledger'[b] = ledger[b]
        /\ terminal'[b] = terminal[b] /\ (b \in reviewed' <=> b \in reviewed)
  BY <1>1, <1>3, <1>4 DEF Fresh
<1>6. OrderInv'
  <2>1. ~sampled \/ claim # Nobody
    BY <1>2
  <2>2. \A b \in CallArms : Untouched(b) => Untouched(b)'
    BY <1>1, <1>5 DEF Untouched, callVars
  <2> QED
    BY <1>1, <1>2, <2>2 DEF IndInv, OrderInv, callVars, TypeOK
<1>7. CallInv'
  <2>1. arm \in CallArms
    BY DEF IndInv, TypeOK
  <2>2. \A s \in Schedulers : pc[s] \in Calling =>
          /\ Fresh(arm)' /\ costs'[arm] = costs[arm] /\ ledger'[arm] = ledger[arm]
          /\ terminal'[arm] = terminal[arm] /\ (arm \in reviewed' <=> arm \in reviewed)
    BY <1>1, <1>5, <2>1 DEF IndInv, CallInv, Fresh, callVars
  <2>3. \A s \in Schedulers : pc[s] = "finish" =>
          terminal'[arm] = terminal[arm] /\ late' \subseteq late
    BY <1>1, <1>4, <2>1 DEF IndInv, CallInv
  <2>4. arm \in started => arm \in started'
    BY <1>3
  <2>5. UNCHANGED <<pc, arm, wanted, calls>>
    BY <1>1 DEF callVars
  <2>6. \A s \in Schedulers : pc'[s] = "finish" =>
          /\ terminal'[arm'] = "open" /\ wanted'[arm'] # "open"
          /\ <<arm', "finish">> \notin late' /\ <<arm', "sample">> \notin late'
    BY <2>3, <2>5 DEF IndInv, CallInv
  <2>7. \A s \in Schedulers : pc'[s] \in Calling =>
          Fresh(arm)' /\ terminal'[arm'] = "open" /\ arm' \notin reviewed'
    BY <2>2, <2>5 DEF IndInv, CallInv
  <2> QED
    BY <2>1, <2>2, <2>4, <2>5, <2>6, <2>7 DEF IndInv, CallInv
<1>8. LateInv'
  <2>1. \A b \in CallArms : Decided(b)' => recordedAt'[b] # "never"
    <3>1. CASE w \in {"review", "finish"}
      BY <1>1, <3>1, Recorded
    <3>2. CASE w \notin {"review", "finish"}
      BY <1>3, <1>4, <3>2 DEF IndInv, LateInv, Decided
    <3> QED
      BY <3>1, <3>2
  <2>2. ASSUME NEW b \in CallArms
        PROVE  /\ <<b, "reserve">> \in late' => costs'[b] = {"REQUESTED"} /\ ledger'[b] = "none"
               /\ <<b, "reserve">> \in late' => <<b, "DENIED">> \notin late'
               /\ <<b, "DENIED">> \in late' => ledger'[b] = "none"
               /\ \A x \in {"RESERVED", "COMMIT_REQUESTED"} :
                    <<b, x>> \in late' => ledger'[b] # "none"
               /\ <<b, "commit">> \in late' => ledger'[b] # "none" /\ "COMMIT_REQUESTED" \in costs'[b]
               /\ <<b, "COMMITTED">> \in late' => ledger'[b] = "settled"
    <3>1. CASE b # a
      BY <1>1, <1>4, <3>1 DEF IndInv, LateInv
    <3>2. CASE b = a
      BY <1>1, <1>4, <3>2 DEF IndInv, LateInv
    <3> QED
      BY <3>1, <3>2
  <2>3. \A b \in CallArms : <<b, "evaluation">> \in late' => Idle'
    BY <1>1 DEF IndInv, LateInv, Idle
  <2>4. <<Proposal, "review">> \notin late'
    BY <1>1 DEF IndInv, LateInv
  <2> QED
    BY <2>1, <2>2, <2>3, <2>4 DEF LateInv
<1>9. PairInv'
  <2> DEFINE pairing == \/ sampled \/ (\E b \in CallArms : <<b, "sample">> \in late)
                        \/ (\E s \in Schedulers : pc[s] = "sample")
  <2>1. \A s \in Schedulers : pc[s] \in Deciding => Evaluated' /\ ~LateEvaluation'
    BY <1>1, <1>3 DEF IndInv, PairInv, LateInv, Idle, Evaluated, LateEvaluation
  <2>2. /\ sampled' \/ (\E b \in CallArms : <<b, "sample">> \in late') =>
             sampled \/ (\E b \in CallArms : <<b, "sample">> \in late)
        /\ pairing' => pairing
    BY <1>1, <1>3
  <2>3. pairing =>
          /\ Evaluated' /\ ~LateEvaluation'
          /\ terminal'[Proposal] \in {"COMPLETED", "FAILED"} /\ Timely(Proposal)'
          /\ <<Proposal, "finish">> \notin late'
          /\ \A b \in CallArms : <<b, "evaluation">> \notin late'
    <3> HAVE pairing
    <3>1. /\ w # "evaluation" /\ <<a, w>> # <<Proposal, "finish">>
          /\ Evaluated /\ ~LateEvaluation
          /\ terminal[Proposal] \in {"COMPLETED", "FAILED"} /\ Timely(Proposal)
          /\ <<Proposal, "finish">> \notin late
          /\ \A b \in CallArms : <<b, "evaluation">> \notin late
      BY <1>1 DEF IndInv, PairInv
    <3>2. w = "review" => a # Proposal
      BY <1>1 DEF IndInv, LateInv
    <3>3. recordedAt'[Proposal] = recordedAt[Proposal] /\ terminal'[Proposal] = terminal[Proposal]
      BY <1>3, <1>4, <3>1, <3>2
    <3> QED
      BY <1>1, <1>3, <3>1, <3>3 DEF Evaluated, LateEvaluation, Timely, callVars
  <2>4. Idle => Idle'
    BY <1>1 DEF Idle
  <2> QED
    BY <1>1, <2>1, <2>2, <2>3, <2>4 DEF IndInv, PairInv
<1>10. NeverResent'
  BY <1>1 DEF IndInv, NeverResent, callVars
<1>11. CostFences'
  <2>1. \A b \in CallArms : calls'[b] > 0 => "RESERVED" \in costs'[b] /\ b \in started'
    BY <1>1, <1>3, <1>4 DEF IndInv, CostFences, callVars
  <2>2. ASSUME NEW b \in CallArms
        PROVE  /\ ledger'[b] # "none" => "REQUESTED" \in costs'[b] /\ "DENIED" \notin costs'[b]
               /\ "RESERVED" \in costs'[b] => ledger'[b] # "none"
               /\ ledger'[b] = "settled" => "COMMIT_REQUESTED" \in costs'[b]
               /\ "COMMITTED" \in costs'[b] => ledger'[b] = "settled"
    <3>1. CASE b # a
      BY <1>4, <3>1 DEF IndInv, CostFences
    <3>2. CASE b = a
      BY <1>1, <1>4, <3>2 DEF IndInv, CostFences, LateInv
    <3> QED
      BY <3>1, <3>2
  <2> QED
    BY <2>1, <2>2 DEF CostFences
<1> QED
  BY <1>6, <1>7, <1>8, <1>9, <1>10, <1>11 DEF SafeInv
-----------------------------------------------------------------------------
(* The specification. *)

\* Every step keeps the safety part of the invariant.
LEMMA StepSafe == ASSUME IndInv, NEW s \in Schedulers, Step(s) PROVE SafeInv'
<1> USE DEF Working, Writes, Stages
<1>1. CASE Reconcile(s) \/ Snapshot(s) \/ Outcomes(s) \/ RecordOutcome(s)
           \/ OutcomeRefused(s) \/ Finalized(s)
  <2>1. /\ UNCHANGED <<claim, evaluations, facts, late, callVars>>
        /\ pc' = pc \/ \E place \in {"snapshot", "outcomes", "record", "idle"} : GoTo(s, place)
    BY <1>1
    DEF Reconcile, Snapshot, Outcomes, RecordOutcome, OutcomeRefused, Finalized, Finalize, Run
  <2>2. \A t \in Schedulers : pc'[t] = pc[t] \/ pc'[t] \notin Working
    BY <2>1 DEF GoTo, IndInv, TypeOK
  <2> QED
    BY <2>1, <2>2, Rest
<1>2. CASE Sources(s)
  <2>1. CASE GoTo(s, "evaluate")
    BY <1>2, <2>1, SourcesSafe
  <2>2. CASE GoTo(s, "snapshot")
    <3>1. \A t \in Schedulers : pc'[t] = pc[t] \/ pc'[t] \notin Working
      BY <2>2 DEF GoTo, IndInv, TypeOK
    <3> QED
      BY <1>2, <3>1, Rest DEF Sources
  <2> QED
    BY <1>2, <2>1, <2>2 DEF Sources, Finalize
<1> QED
  BY <1>1, <1>2, ClaimNextSafe, EvaluateSafe, EvaluationRecordedSafe, AdmitSafe, FenceSafe,
     ReserveDeniedSafe, DenialRecordedSafe, DispatchSafe, CallEndsSafe, CommittedSafe,
     ReviewRecordedSafe, FinishedSafe, SampleRecordedSafe, WriteFailsSafe, CutoffSafe
  DEF Step

\* A write keeps the types of what it changes.
LEMMA AppliedTypes ==
  ASSUME TypeOK, NEW a \in CallArms, NEW w \in Writes, Apply(a, w), w = "review" => a = Review
  PROVE  /\ evaluation' \in [intent : {"none", "intent", "no intent"}, at : {"timely", "late"},
                             recorded : Stamps]
         /\ costs' \in [CallArms -> SUBSET Stages]
         /\ ledger' \in [CallArms -> {"none", "held", "settled"}]
         /\ started' \subseteq CallArms
         /\ reviewed' \subseteq {Review}
         /\ terminal' \in [CallArms -> Terminals \cup {"open"}]
         /\ recordedAt' \in [CallArms -> Stamps]
         /\ sampled' \in BOOLEAN
<1>1. evaluation' \in [intent : {"none", "intent", "no intent"}, at : {"timely", "late"},
                       recorded : Stamps]
  BY Stamped DEF TypeOK, Apply, Stamps
<1>2. costs' \in [CallArms -> SUBSET Stages]
  BY DEF TypeOK, Apply
<1>3. ledger' \in [CallArms -> {"none", "held", "settled"}]
  BY DEF TypeOK, Apply
<1>4. started' \subseteq CallArms /\ reviewed' \subseteq {Review}
  BY DEF TypeOK, Apply
<1>5. terminal' \in [CallArms -> Terminals \cup {"open"}]
  BY DEF TypeOK, Apply
<1>6. recordedAt' \in [CallArms -> Stamps]
  BY Stamped DEF TypeOK, Apply, Stamps
<1>7. sampled' \in BOOLEAN
  BY Zenon DEF TypeOK, Apply
<1> QED
  BY <1>1, <1>2, <1>3, <1>4, <1>5, <1>6, <1>7

\* The steps that move a scheduler and finalize the window.
LEMMA PlaceTypes ==
  ASSUME TypeOK, NEW s \in Schedulers
  PROVE  /\ \A place \in Places : GoTo(s, place) => pc' \in [Schedulers -> Places]
         /\ \A status \in Fallbacks : Finalize(s, status) =>
              /\ pc' \in [Schedulers -> Places]
              /\ fallback' \in [Schedulers -> Fallbacks \cup {"none"}]
              /\ verdict' \in [Schedulers -> [Arms -> Statuses \cup {"none"}]]
         /\ Run(s) =>
              /\ pc' \in [Schedulers -> Places]
              /\ fallback' \in [Schedulers -> Fallbacks \cup {"none"}]
              /\ verdict' \in [Schedulers -> [Arms -> Statuses \cup {"none"}]]
         /\ EndOfArm(s) =>
              /\ pc' \in [Schedulers -> Places]
              /\ fallback' \in [Schedulers -> Fallbacks \cup {"none"}]
              /\ verdict' \in [Schedulers -> [Arms -> Statuses \cup {"none"}]]
<1>1. /\ pc \in [Schedulers -> Places]
      /\ fallback \in [Schedulers -> Fallbacks \cup {"none"}]
      /\ verdict \in [Schedulers -> [Arms -> Statuses \cup {"none"}]]
  BY DEF TypeOK
<1>2. {"idle", "snapshot", "cutoff"} \subseteq Places
  BY DEF Places
<1>3. \A place \in Places : GoTo(s, place) => pc' \in [Schedulers -> Places]
  BY <1>1 DEF GoTo
<1>4. \A status \in Fallbacks : Finalize(s, status) =>
         /\ pc' \in [Schedulers -> Places]
         /\ fallback' \in [Schedulers -> Fallbacks \cup {"none"}]
         /\ verdict' \in [Schedulers -> [Arms -> Statuses \cup {"none"}]]
  BY <1>1, <1>2, <1>3 DEF Finalize
<1>5. Run(s) =>
         /\ pc' \in [Schedulers -> Places]
         /\ fallback' \in [Schedulers -> Fallbacks \cup {"none"}]
         /\ verdict' \in [Schedulers -> [Arms -> Statuses \cup {"none"}]]
  <2>1. NoVerdict \in [Arms -> Statuses \cup {"none"}]
    BY DEF NoVerdict
  <2> QED
    BY <1>1, <1>2, <1>3, <2>1 DEF Run
<1>6. "BUDGET_BLOCKED" \in Fallbacks
  BY DEF Fallbacks
<1> QED
  BY <1>1, <1>2, <1>3, <1>4, <1>5, <1>6 DEF EndOfArm, endVars

\* What _finalize concludes is a status.
LEMMA VerdictTypes ==
  ASSUME NEW a \in Arms, NEW default \in Fallbacks \cup {"none"}
  PROVE  Known(a, default) \in Statuses \cup {"none"}
  BY DEF Known, CallVerdict, Statuses, Fallbacks

\* Steps of the claim and of the call keep the types.
LEMMA CallTypes ==
  ASSUME IndInv, NEW s \in Schedulers,
         \/ ClaimNext(s) \/ Reconcile(s) \/ Sources(s) \/ Evaluate(s) \/ Admit(s)
         \/ ReserveDenied(s) \/ Dispatch(s) \/ Respond(s) \/ CallFails(s) \/ Cutoff(s)
  PROVE  TypeOK'
<1> USE DEF facts, callVars, endVars
<1>0. TypeOK
  BY DEF IndInv
<1>1. {"MISSED", "SOURCE_MISSING", "EVALUATOR_FAILED"} \subseteq Fallbacks
  BY DEF Fallbacks
<1>2. {"sources", "evaluate", "evaluation", "REQUESTED", "DENIED", "call", "COMMIT_REQUESTED",
       "finish", "admit"} \subseteq Places
  BY DEF Places, Writes, Stages
<1>3. CASE ClaimNext(s) \/ Reconcile(s) \/ Sources(s)
  BY <1>0, <1>1, <1>2, <1>3, PlaceTypes DEF ClaimNext, Reconcile, Sources, TypeOK
<1>4. CASE Evaluate(s)
  <2>1. /\ UNCHANGED <<now, claim, costs, ledger, started, reviewed, terminal, recordedAt,
                       sampled, outcome, late, callVars, aborts>>
        /\ evaluations' = evaluations + 1
        /\ \/ UNCHANGED evaluation
           \/ \E intent \in {"intent", "no intent"} :
                evaluation' = [intent |-> intent, at |-> Stamp, recorded |-> "never"]
        /\ (GoTo(s, "evaluation") /\ UNCHANGED endVars) \/ Finalize(s, "EVALUATOR_FAILED")
    BY <1>4 DEF Evaluate
  <2>2. evaluation' \in [intent : {"none", "intent", "no intent"}, at : {"timely", "late"},
                         recorded : Stamps]
    <3>1. evaluation \in [intent : {"none", "intent", "no intent"}, at : {"timely", "late"},
                          recorded : Stamps]
      BY <1>0 DEF TypeOK
    <3>2. ASSUME NEW intent \in {"intent", "no intent"},
                 evaluation' = [intent |-> intent, at |-> Stamp, recorded |-> "never"]
          PROVE  evaluation' \in [intent : {"none", "intent", "no intent"}, at : {"timely", "late"},
                                  recorded : Stamps]
      BY <3>2, Stamped DEF Stamps
    <3>3. \/ evaluation' = evaluation
          \/ \E intent \in {"intent", "no intent"} :
               evaluation' = [intent |-> intent, at |-> Stamp, recorded |-> "never"]
      BY <2>1
    <3> QED
      BY <3>1, <3>2, <3>3
  <2>3. evaluations' \in Nat
    <3>1. evaluations \in Nat
      BY <1>0 DEF TypeOK
    <3>2. evaluations' = evaluations + 1
      BY <2>1
    <3> QED
      BY <3>1, <3>2
  <2>4. /\ pc' \in [Schedulers -> Places]
        /\ fallback' \in [Schedulers -> Fallbacks \cup {"none"}]
        /\ verdict' \in [Schedulers -> [Arms -> Statuses \cup {"none"}]]
    BY <1>0, <1>1, <1>2, <2>1, PlaceTypes DEF TypeOK
  <2> QED
    BY <1>0, <2>1, <2>2, <2>3, <2>4 DEF TypeOK
<1>5. CASE Admit(s) \/ ReserveDenied(s)
  BY <1>0, <1>2, <1>5, PlaceTypes DEF Admit, ReserveDenied, TypeOK
<1>6. CASE Dispatch(s)
  <2>1. calls' = [calls EXCEPT ![arm] = @ + 1] /\ calls \in [CallArms -> Nat]
    BY <1>0, <1>6 DEF Dispatch, TypeOK
  <2>2. calls' \in [CallArms -> Nat]
    <3>1. arm \in CallArms
      BY <1>0 DEF TypeOK
    <3> QED
      BY <2>1, <3>1
  <2>3. pc' \in [Schedulers -> Places]
    BY <1>0, <1>2, <1>6, PlaceTypes DEF Dispatch
  <2> QED
    BY <1>0, <1>6, <2>2, <2>3 DEF Dispatch, TypeOK
<1>7. CASE Respond(s) \/ CallFails(s)
  <2>1. /\ UNCHANGED <<now, claim, evaluations, facts, outcome, late, arm, endVars, aborts>>
        /\ UNCHANGED calls
        /\ responded' = responded \/ responded' = responded \cup {arm}
        /\ observedAt' = [observedAt EXCEPT ![arm] = Stamp]
    BY <1>7 DEF Respond, CallFails
  <2>2. \/ GoTo(s, "COMMIT_REQUESTED") /\ UNCHANGED wanted
        \/ GoTo(s, "finish") /\ \E status \in Terminals : wanted' = [wanted EXCEPT ![arm] = status]
    BY <1>7 DEF Respond, CallFails, Conclude, FailureStatus, Terminals
  <2>3. /\ arm \in CallArms /\ wanted \in [CallArms -> Terminals \cup {"open"}]
        /\ responded \subseteq CallArms /\ observedAt \in [CallArms -> {"timely", "late"}]
    BY <1>0 DEF TypeOK
  <2>4. wanted' \in [CallArms -> Terminals \cup {"open"}]
    BY <2>2, <2>3
  <2>5. observedAt' \in [CallArms -> {"timely", "late"}] /\ responded' \subseteq CallArms
    BY <2>1, <2>3, Stamped
  <2>6. pc' \in [Schedulers -> Places]
    BY <1>0, <1>2, <2>2, PlaceTypes
  <2> QED
    BY <1>0, <2>1, <2>4, <2>5, <2>6 DEF TypeOK
<1>8. CASE Cutoff(s)
  BY <1>0, <1>1, <1>2, <1>8, PlaceTypes DEF Cutoff, TypeOK
<1> QED
  BY <1>3, <1>4, <1>5, <1>6, <1>7, <1>8

\* Writes keep the types, whether they succeed or are given up.
LEMMA WriteTypes ==
  ASSUME IndInv, NEW s \in Schedulers,
         \/ EvaluationRecorded(s) \/ Fence(s) \/ DenialRecorded(s) \/ Committed(s)
         \/ ReviewRecorded(s) \/ Finished(s) \/ SampleRecorded(s)
  PROVE  TypeOK'
<1> USE DEF callVars, endVars
<1>0. TypeOK /\ arm \in CallArms
  BY DEF IndInv, TypeOK
<1>1. "LATE" \in Fallbacks
  BY DEF Fallbacks
<1>2. /\ {"find", "cutoff", "review", "finish", "sample", "reserve", "RESERVED", "start", "dispatch",
          "commit", "COMMITTED"} \subseteq Places
      /\ {"evaluation", "DENIED", "COMMITTED", "review", "finish", "sample", "REQUESTED", "reserve",
          "RESERVED", "start", "COMMIT_REQUESTED", "commit"} \subseteq Writes
  BY DEF Places, Writes, Stages
<1>3. pc[s] = "review" => arm = Review
  BY DEF IndInv, CallInv
<1>4. pc[s] \in Writes /\ Apply(arm, pc[s])
  BY DEF EvaluationRecorded, Fence, DenialRecorded, Committed, ReviewRecorded, Finished,
         SampleRecorded, Write
<1>5. /\ evaluation' \in [intent : {"none", "intent", "no intent"}, at : {"timely", "late"},
                          recorded : Stamps]
      /\ costs' \in [CallArms -> SUBSET Stages]
      /\ ledger' \in [CallArms -> {"none", "held", "settled"}]
      /\ started' \subseteq CallArms
      /\ reviewed' \subseteq {Review}
      /\ terminal' \in [CallArms -> Terminals \cup {"open"}]
      /\ recordedAt' \in [CallArms -> Stamps]
      /\ sampled' \in BOOLEAN
  BY <1>0, <1>3, <1>4, AppliedTypes
<1>6. CASE EvaluationRecorded(s)
  BY <1>0, <1>1, <1>2, <1>5, <1>6, PlaceTypes DEF EvaluationRecorded, TypeOK
<1>7. CASE Fence(s)
  <2>1. NextWrite[pc[s]] \in Places
    BY <1>2, <1>7 DEF Fence, NextWrite
  <2> QED
    BY <1>0, <1>5, <1>7, <2>1, PlaceTypes DEF Fence, TypeOK
<1>8. CASE DenialRecorded(s) \/ SampleRecorded(s)
  BY <1>0, <1>5, <1>8, PlaceTypes DEF DenialRecorded, SampleRecorded, TypeOK
<1>9. CASE Committed(s)
  <2>0. wanted \in [CallArms -> Terminals \cup {"open"}]
    BY <1>0 DEF TypeOK
  <2>1. \/ GoTo(s, "review") /\ UNCHANGED wanted
        \/ /\ GoTo(s, "finish")
           /\ \E status \in Terminals : wanted' = [wanted EXCEPT ![arm] = status]
    BY <1>9 DEF Committed, Conclude, Terminals
  <2>2. wanted' \in [CallArms -> Terminals \cup {"open"}]
    BY <1>0, <2>0, <2>1
  <2>3. pc' \in [Schedulers -> Places]
    BY <1>0, <1>2, <2>1, PlaceTypes
  <2> QED
    BY <1>0, <1>5, <1>9, <2>2, <2>3 DEF Committed, TypeOK
<1>10. CASE ReviewRecorded(s)
  BY <1>0, <1>2, <1>5, <1>10, PlaceTypes DEF ReviewRecorded, TypeOK
<1>11. CASE Finished(s)
  <2>1. /\ pc' \in [Schedulers -> Places]
        /\ fallback' \in [Schedulers -> Fallbacks \cup {"none"}]
        /\ verdict' \in [Schedulers -> [Arms -> Statuses \cup {"none"}]]
    BY <1>0, <1>2, <1>11, PlaceTypes DEF Finished, TypeOK
  <2> QED
    BY <1>0, <1>5, <1>11, <2>1 DEF Finished, TypeOK
<1> QED
  BY <1>6, <1>7, <1>8, <1>9, <1>10, <1>11

\* Giving up, crashing and landing keep the types.
LEMMA LossTypes ==
  ASSUME IndInv, LandLate \/ \E s \in Schedulers : WriteFails(s) \/ Abort(s)
  PROVE  TypeOK'
<1> USE DEF facts, callVars, endVars
<1>0. TypeOK /\ arm \in CallArms
  BY DEF IndInv, TypeOK
<1>1. CASE LandLate
  <2>1. PICK p \in late :
          /\ Apply(p[1], p[2]) /\ late' = late \ {p}
          /\ UNCHANGED <<now, claim, evaluations, outcome, pc, callVars, endVars, aborts>>
    BY <1>1 DEF LandLate
  <2>2. p \in CallArms \X Writes
    BY <1>0 DEF TypeOK
  <2>3. p[1] \in CallArms /\ p[2] \in Writes /\ p = <<p[1], p[2]>>
    BY <2>2
  <2>4. p[2] = "review" => p[1] = Review
    BY <2>3 DEF IndInv, LateInv
  <2> QED
    BY <1>0, <2>1, <2>3, <2>4, AppliedTypes DEF TypeOK
<1>2. ASSUME NEW s \in Schedulers, WriteFails(s) PROVE TypeOK'
  <2>1. late' \subseteq CallArms \X Writes
    <3>1. pc[s] \in Writes /\ late' \subseteq late \cup {<<arm, pc[s]>>}
      BY <1>2, GivenUp DEF WriteFails
    <3>2. late \subseteq CallArms \X Writes
      BY <1>0 DEF TypeOK
    <3> QED
      BY <1>0, <3>1, <3>2
  <2>2. "EVALUATOR_FAILED" \in Fallbacks /\ "finish" \in Places
    BY DEF Fallbacks, Places, Writes
  <2>3. \/ (Finalize(s, "EVALUATOR_FAILED") \/ EndOfArm(s)) /\ UNCHANGED wanted
        \/ Conclude(s, "UNRESOLVED") /\ UNCHANGED endVars
    BY <1>2 DEF WriteFails
  <2>4. /\ pc' \in [Schedulers -> Places]
        /\ fallback' \in [Schedulers -> Fallbacks \cup {"none"}]
        /\ verdict' \in [Schedulers -> [Arms -> Statuses \cup {"none"}]]
        /\ wanted' \in [CallArms -> Terminals \cup {"open"}]
    <3>1. /\ wanted \in [CallArms -> Terminals \cup {"open"}]
          /\ fallback \in [Schedulers -> Fallbacks \cup {"none"}]
          /\ verdict \in [Schedulers -> [Arms -> Statuses \cup {"none"}]]
      BY <1>0 DEF TypeOK
    <3>2. "UNRESOLVED" \in Terminals
      BY DEF Terminals
    <3>3. CASE (Finalize(s, "EVALUATOR_FAILED") \/ EndOfArm(s)) /\ UNCHANGED wanted
      BY <1>0, <2>2, <3>1, <3>3, PlaceTypes
    <3>4. CASE Conclude(s, "UNRESOLVED") /\ UNCHANGED endVars
      <4>1. wanted' \in [CallArms -> Terminals \cup {"open"}]
        BY <1>0, <3>1, <3>2, <3>4 DEF Conclude
      <4> QED
        BY <1>0, <2>2, <3>1, <3>4, <4>1, PlaceTypes DEF Conclude
    <3> QED
      BY <2>3, <3>3, <3>4
  <2> QED
    BY <1>0, <1>2, <2>1, <2>4 DEF WriteFails, TypeOK
<1>3. ASSUME NEW s \in Schedulers, Abort(s) PROVE TypeOK'
  <2>1. late' \subseteq CallArms \X Writes
    <3>1. "finish" \in Writes
      BY DEF Writes
    <3>2. (IF pc[s] \in Writes THEN {<<arm, pc[s]>>} ELSE {}) \cup {<<arm, "finish">>}
            \subseteq CallArms \X Writes
      BY <1>0, <3>1
    <3>3. late' \subseteq late \cup (IF pc[s] \in Writes THEN {<<arm, pc[s]>>} ELSE {})
                           \cup {<<arm, "finish">>}
      <4> DEFINE awaited == IF pc[s] \in Writes THEN {<<arm, pc[s]>>} ELSE {}
      <4>1. GiveUp(awaited) \/ GiveUp(awaited \cup {<<arm, "finish">>})
        BY <1>3 DEF Abort
      <4>2. late' \subseteq late \cup awaited \/ late' \subseteq late \cup (awaited \cup {<<arm, "finish">>})
        BY <4>1, GivenUp
      <4> QED
        BY <4>2
    <3> QED
      BY <1>0, <3>2, <3>3 DEF TypeOK
  <2>2. FailureStatus(arm, TRUE) \in Terminals
    BY DEF FailureStatus, Terminals
  <2>3. wanted' \in [CallArms -> Terminals \cup {"open"}] /\ observedAt' \in [CallArms -> {"timely", "late"}]
    <3>1. /\ wanted \in [CallArms -> Terminals \cup {"open"}]
          /\ observedAt \in [CallArms -> {"timely", "late"}]
      BY <1>0 DEF TypeOK
    <3>2. \/ UNCHANGED <<wanted, observedAt>>
          \/ /\ wanted' = [wanted EXCEPT ![arm] = FailureStatus(arm, TRUE)]
             /\ observedAt' = [observedAt EXCEPT ![arm] = IF pc[s] = "call" THEN Stamp ELSE @]
      BY <1>3 DEF Abort
    <3>3. wanted' \in [CallArms -> Terminals \cup {"open"}]
      BY <1>0, <2>2, <3>1, <3>2
    <3> QED
      BY <1>0, <3>1, <3>2, <3>3, Stamped
  <2>4. aborts' \in 0..MaxAborts
    <3>1. aborts \in 0..MaxAborts /\ MaxAborts \in Nat
      BY <1>0, TimesType DEF TypeOK
    <3>2. aborts < MaxAborts /\ aborts' = aborts + 1
      BY <1>3 DEF Abort
    <3> QED
      BY <3>1, <3>2
  <2>5. Run(s)
    BY <1>3 DEF Abort
  <2> QED
    BY <1>0, <1>3, <2>1, <2>3, <2>4, <2>5, PlaceTypes DEF Abort, TypeOK
<1> QED
  BY <1>1, <1>2, <1>3

\* _finalize keeps the types.
LEMMA FinalTypes ==
  ASSUME IndInv, NEW s \in Schedulers,
         Snapshot(s) \/ Outcomes(s) \/ RecordOutcome(s) \/ OutcomeRefused(s) \/ Finalized(s)
  PROVE  TypeOK'
<1> USE DEF facts, callVars
<1>0. TypeOK /\ fallback[s] \in Fallbacks \cup {"none"} /\ verdict[s] \in [Arms -> Statuses \cup {"none"}]
  BY DEF IndInv, TypeOK
<1>1. {"outcomes", "record"} \subseteq Places
  BY DEF Places
<1>2. CASE Snapshot(s)
  <2>1. "UNKNOWN" \in Statuses
    BY DEF Statuses
  <2>2. [a \in Arms |-> IF SpendUnknown(a) THEN "UNKNOWN" ELSE Known(a, fallback[s])]
          \in [Arms -> Statuses \cup {"none"}]
    BY <1>0, <2>1, VerdictTypes
  <2>3. /\ verdict' \in [Schedulers -> [Arms -> Statuses \cup {"none"}]]
        /\ fallback' \in [Schedulers -> Fallbacks \cup {"none"}]
    BY <1>0, <1>2, <2>2 DEF Snapshot, TypeOK
  <2> QED
    BY <1>0, <1>1, <1>2, <2>3, PlaceTypes DEF Snapshot, TypeOK
<1>3. CASE Outcomes(s)
  <2>1. [a \in Arms |-> IF outcome[a] = "none" THEN verdict[s][a] ELSE "none"]
          \in [Arms -> Statuses \cup {"none"}]
    BY <1>0
  <2>2. verdict' \in [Schedulers -> [Arms -> Statuses \cup {"none"}]]
    BY <1>0, <1>3, <2>1 DEF Outcomes, TypeOK
  <2> QED
    BY <1>0, <1>1, <1>3, <2>2, PlaceTypes DEF Outcomes, TypeOK
<1>4. CASE RecordOutcome(s)
  <2>1. PICK a \in Arms :
          /\ \E status \in {verdict[s][a], "MISSED"} : outcome' = [outcome EXCEPT ![a] = status]
          /\ verdict' = [verdict EXCEPT ![s] = [verdict[s] EXCEPT ![a] = "none"]]
    BY <1>4 DEF RecordOutcome
  <2>2. "MISSED" \in Statuses
    BY DEF Statuses, Fallbacks
  <2>3. outcome' \in [Arms -> Statuses \cup {"none"}]
    <3>1. outcome \in [Arms -> Statuses \cup {"none"}]
      BY <1>0 DEF TypeOK
    <3> QED
      BY <1>0, <2>1, <2>2, <3>1
  <2>4. [verdict[s] EXCEPT ![a] = "none"] \in [Arms -> Statuses \cup {"none"}]
    BY <1>0
  <2>5. verdict' \in [Schedulers -> [Arms -> Statuses \cup {"none"}]]
    BY <1>0, <2>1, <2>4 DEF TypeOK
  <2> QED
    BY <1>0, <1>4, <2>3, <2>5 DEF RecordOutcome, TypeOK
<1>5. CASE OutcomeRefused(s) \/ Finalized(s)
  BY <1>0, <1>5, PlaceTypes DEF OutcomeRefused, Finalized, TypeOK
<1> QED
  BY <1>2, <1>3, <1>4, <1>5

-----------------------------------------------------------------------------
\* The first state, and every step.
LEMMA InitInd == Init => IndInv
<1> SUFFICES ASSUME Init PROVE IndInv
  OBVIOUS
<1> USE DEF Init
<1>1. TypeOK
  <2>1. now \in 0..Horizon /\ aborts \in 0..MaxAborts
    BY TimesType
  <2>2. evaluation \in [intent : {"none", "intent", "no intent"}, at : {"timely", "late"},
                        recorded : Stamps]
    BY DEF NoEvaluation, Stamps
  <2>3. /\ outcome \in [Arms -> Statuses \cup {"none"}]
        /\ verdict \in [Schedulers -> [Arms -> Statuses \cup {"none"}]]
    BY DEF NoVerdict
  <2> QED
    BY <2>1, <2>2, <2>3 DEF TypeOK, Stamps, Places
<1>2. OrderInv /\ CallInv
  BY DEF OrderInv, CallInv, Untouched, Fresh, Working, Calling, Writes, Stages
<1>3. LateInv
  BY DEF LateInv, Decided
<1>4. PairInv
  BY DEF PairInv, Deciding, Working, Writes, Stages
<1>5. NeverResent /\ CostFences
  BY DEF NeverResent, CostFences
<1> QED
  BY <1>1, <1>2, <1>3, <1>4, <1>5 DEF IndInv

LEMMA StepInd == IndInv /\ [Next]_vars => IndInv'
<1> SUFFICES ASSUME IndInv, [Next]_vars PROVE TypeOK' /\ SafeInv'
  BY DEF IndInv, SafeInv
<1>1. CASE Tick
  <2>1. now' \in 0..Horizon
    <3>1. now \in 0..Horizon /\ Horizon \in Nat
      BY TimesType DEF IndInv, TypeOK
    <3>2. now < Horizon /\ now' = now + 1
      BY <1>1 DEF Tick
    <3> QED
      BY <3>1, <3>2
  <2>2. TypeOK'
    BY <1>1, <2>1 DEF Tick, IndInv, TypeOK, facts, callVars, endVars
  <2> QED
    BY <1>1, <2>2, Rest DEF Tick
<1>2. CASE LandLate
  BY <1>2, LandLateSafe, LossTypes
<1>3. ASSUME NEW s \in Schedulers, Step(s) PROVE TypeOK' /\ SafeInv'
  <2>1. TypeOK'
    BY <1>3, CallTypes, WriteTypes, LossTypes, FinalTypes DEF Step
  <2> QED
    BY <1>3, <2>1, StepSafe
<1>4. ASSUME NEW s \in Schedulers, Abort(s) PROVE TypeOK' /\ SafeInv'
  BY <1>4, AbortSafe, LossTypes
<1>5. CASE UNCHANGED vars
  <2>1. TypeOK'
    BY <1>5 DEF IndInv, TypeOK, vars, facts, callVars, endVars
  <2> QED
    BY <1>5, <2>1, Rest DEF vars
<1> QED
  BY <1>1, <1>2, <1>3, <1>4, <1>5 DEF Next

\* The claim, the places of the claiming scheduler, the receipts, the ledger and
\* the writes that may still land keep belonging together.
THEOREM Inductive == Spec => []IndInv
<1>1. Init => IndInv
  BY InitInd
<1>2. IndInv /\ [Next]_vars => IndInv'
  BY StepInd
<1> QED
  BY <1>1, <1>2, PTL DEF Spec

\* Every variable keeps its type.
THEOREM TypeCorrect == Spec => []TypeOK
<1>1. IndInv => TypeOK
  BY DEF IndInv
<1> QED
  BY <1>1, Inductive, PTL

\* "A committed window claim is never re-evaluated or resent after restart":
\* whatever crashes and lands late, the evaluator runs once and an arm is sent once.
THEOREM ResentNever == Spec => []NeverResent
<1>1. IndInv => NeverResent
  BY DEF IndInv
<1> QED
  BY <1>1, Inductive, PTL

\* The cost receipts bracket what the ledger holds, in every crash and delay.
THEOREM CostsFenced == Spec => []CostFences
<1>1. IndInv => CostFences
  BY DEF IndInv
<1> QED
  BY <1>1, Inductive, PTL

\* A causal sample pairs an evaluation and a decision that were both known and
\* durable in time, and nothing that lands afterwards takes that back.
THEOREM SamplesTimely == Spec => []SampleTimely
<1>1. IndInv => SampleTimely
  BY DEF IndInv, PairInv, SampleTimely
<1> QED
  BY <1>1, Inductive, PTL

-----------------------------------------------------------------------------
(* Each arm keeps the contract of an attempt. *)

\* Places at which AdmissionInv says something of the arm.
Special == {"REQUESTED", "reserve", "DENIED", "RESERVED", "start", "call",
            "COMMIT_REQUESTED", "commit", "COMMITTED", "review", "finish"}

\* Steps that the admission does not see.
LEMMA QuietAdmission ==
  ASSUME IndInv, AdmissionInv, UNCHANGED <<started, ledger, calls, terminal, late, wanted>>,
         \A s \in Schedulers : pc'[s] \notin Special
                               \/ (pc'[s] = pc[s] /\ UNCHANGED <<arm, responded>>)
  PROVE  AdmissionInv'
<1>1. \A a \in CallArms : Concludes(a) => Concludes(a)'
  BY DEF Concludes
<1>2. \A t \in Schedulers : pc'[t] = "finish" => Concludes(arm)'
  BY DEF AdmissionInv, Special, Concludes
<1>3. \A a \in CallArms : <<a, "finish">> \in late' => Concludes(a)'
  BY <1>1 DEF AdmissionInv
<1> QED
  BY <1>2, <1>3 DEF AdmissionInv, Special

\* The claiming scheduler goes from one place to the next.
LEMMA MovedAdmission ==
  ASSUME IndInv, AdmissionInv, NEW s \in Schedulers, NEW place \in Places, GoTo(s, place),
         pc[s] \in Working,
         UNCHANGED <<started, ledger, calls, terminal, late, arm>>, responded \subseteq responded',
         UNCHANGED wanted \/ (Fresh(arm) /\ \E status : wanted' = [wanted EXCEPT ![arm] = status]),
         place \in {"REQUESTED", "reserve", "DENIED", "RESERVED", "start"} => arm \notin started,
         place \in {"call", "COMMIT_REQUESTED", "commit", "COMMITTED", "review"} => calls[arm] > 0,
         place \in {"COMMIT_REQUESTED", "commit", "COMMITTED", "review"} => arm \in responded,
         place = "finish" => Concludes(arm)'
  PROVE  AdmissionInv'
<1>1. /\ pc'[s] = place
      /\ \A t \in Schedulers \ {s} : pc'[t] \notin Special
  BY Alone DEF Special, Working, Writes, Stages
<1>2. ASSUME NEW a \in CallArms, <<a, "finish">> \in late PROVE Concludes(a)'
  <2>1. wanted'[a] = wanted[a]
    <3>1. CASE UNCHANGED wanted
      BY <3>1
    <3>2. CASE Fresh(arm) /\ \E status : wanted' = [wanted EXCEPT ![arm] = status]
      <4>1. a # arm
        BY <1>2, <3>2 DEF Fresh, Writes
      <4>2. wanted \in [CallArms -> Terminals \cup {"open"}]
        BY DEF IndInv, TypeOK
      <4> QED
        BY <3>2, <4>1, <4>2
    <3> QED
      BY <3>1, <3>2
  <2> QED
    BY <1>2, <2>1 DEF AdmissionInv, Concludes
<1>3. \A a \in CallArms :
       /\ a \in started' => ledger'[a] # "none"
       /\ calls'[a] > 0 => a \in started'
       /\ ledger'[a] = "settled" => calls'[a] > 0
       /\ <<a, "start">> \in late' => a \notin started' /\ ledger'[a] # "none"
       /\ <<a, "commit">> \in late' => calls'[a] > 0 /\ terminal'[a] # "FAILED"
       /\ <<a, "finish">> \in late' => Concludes(a)'
  BY <1>2 DEF AdmissionInv
<1>4. \A t \in Schedulers :
       /\ pc'[t] \in {"REQUESTED", "reserve", "DENIED", "RESERVED", "start"} => arm' \notin started'
       /\ pc'[t] \in {"call", "COMMIT_REQUESTED", "commit", "COMMITTED", "review"} => calls'[arm'] > 0
       /\ pc'[t] \in {"COMMIT_REQUESTED", "commit", "COMMITTED", "review"} => arm' \in responded'
       /\ pc'[t] = "finish" => Concludes(arm)'
  BY <1>1 DEF Special
<1> QED
  BY <1>3, <1>4 DEF AdmissionInv

\* The steps before and after the calls, and the start of an arm.
LEMMA AroundAdmission ==
  ASSUME IndInv, AdmissionInv, NEW s \in Schedulers,
         \/ ClaimNext(s) \/ Reconcile(s) \/ Sources(s) \/ Evaluate(s) \/ Admit(s)
         \/ ReserveDenied(s) \/ Cutoff(s) \/ Snapshot(s) \/ Outcomes(s) \/ RecordOutcome(s)
         \/ OutcomeRefused(s) \/ Finalized(s)
  PROVE  AdmissionInv'
<1>1. UNCHANGED <<started, ledger, calls, terminal, late, wanted, responded>>
  BY DEF ClaimNext, Reconcile, Sources, Evaluate, Admit, ReserveDenied, Cutoff, Snapshot,
         Outcomes, RecordOutcome, OutcomeRefused, Finalized, facts, callVars
<1>2. CASE \E place \in {"idle", "sources", "evaluate", "evaluation", "cutoff", "admit",
                         "snapshot", "outcomes", "record"} :
             GoTo(s, place) /\ (UNCHANGED arm \/ pc[s] \in Working)
  <2>1. \A t \in Schedulers \ {s} : pc'[t] = pc[t]
    BY <1>2 DEF GoTo, IndInv, TypeOK
  <2>2. pc'[s] \notin Special
    BY <1>2 DEF GoTo, IndInv, TypeOK, Special
  <2>3. UNCHANGED arm \/ \A t \in Schedulers \ {s} : pc[t] \notin Working
    BY <1>2 DEF IndInv, OrderInv
  <2> QED
    BY <1>1, <2>1, <2>2, <2>3, QuietAdmission DEF Special, Working, Writes, Stages
<1>3. CASE pc' = pc /\ UNCHANGED arm
  BY <1>1, <1>3, QuietAdmission
<1>4. CASE /\ pc[s] \in {"find", "admit", "reserve"} /\ UNCHANGED arm
           /\ \E place \in {"REQUESTED", "DENIED"} :
                GoTo(s, place) /\ (place = "DENIED" <=> pc[s] = "reserve")
  <2>1. arm \notin started
    <3>1. CASE pc[s] = "reserve"
      BY <3>1 DEF AdmissionInv
    <3>2. CASE pc[s] \in {"find", "admit"}
      <4>1. Untouched(arm) /\ arm \in CallArms
        BY <3>2 DEF IndInv, OrderInv, TypeOK, Working, Writes
      <4> QED
        BY <4>1 DEF Untouched, AdmissionInv
    <3> QED
      BY <1>4, <3>1, <3>2
  <2> QED
    BY <1>1, <1>4, <2>1, MovedAdmission DEF Places, Working, Writes, Stages
<1>5. CASE ClaimNext(s) \/ Reconcile(s) \/ Sources(s) \/ Evaluate(s)
  BY <1>2, <1>5 DEF ClaimNext, Reconcile, Sources, Evaluate, Finalize, callVars
<1>6. CASE Admit(s) \/ ReserveDenied(s)
  BY <1>2, <1>4, <1>6 DEF Admit, ReserveDenied, EndOfArm, Finalize, callVars
<1>7. CASE Cutoff(s)
  BY <1>2, <1>7 DEF Cutoff, Finalize, Working
<1>8. CASE Snapshot(s) \/ Outcomes(s) \/ RecordOutcome(s) \/ OutcomeRefused(s) \/ Finalized(s)
  BY <1>2, <1>3, <1>8
  DEF Snapshot, Outcomes, RecordOutcome, OutcomeRefused, Finalized, Run, callVars
<1> QED
  BY <1>5, <1>6, <1>7, <1>8

\* Dispatch, Respond and CallFails.
LEMMA CallAdmission ==
  ASSUME IndInv, AdmissionInv, NEW s \in Schedulers, Dispatch(s) \/ Respond(s) \/ CallFails(s)
  PROVE  AdmissionInv'
<1>0. arm \in CallArms /\ calls \in [CallArms -> Nat] /\ wanted \in [CallArms -> Terminals \cup {"open"}]
  BY DEF IndInv, TypeOK
<1>1. CASE Dispatch(s)
  <2>1. /\ pc[s] = "dispatch" /\ GoTo(s, "call")
        /\ calls' = [calls EXCEPT ![arm] = @ + 1]
        /\ UNCHANGED <<started, ledger, terminal, late, wanted, arm, responded>>
    BY <1>1 DEF Dispatch, facts
  <2>2. /\ pc'[s] = "call"
        /\ \A t \in Schedulers \ {s} : pc'[t] \notin Special
    BY <2>1, Alone DEF Special, Working, Writes, Stages, Places
  <2>3. arm \in started /\ calls[arm] = 0
    BY <2>1 DEF IndInv, CallInv
  <2>4. calls'[arm] = 1 /\ \A a \in CallArms : a # arm => calls'[a] = calls[a]
    BY <1>0, <2>1, <2>3
  <2>5. \A a \in CallArms : Concludes(a) => Concludes(a)'
    BY <2>1, <2>4 DEF Concludes
  <2> QED
    BY <1>0, <2>1, <2>2, <2>3, <2>4, <2>5 DEF AdmissionInv, Special
<1>2. CASE Respond(s)
  <2>1. /\ pc[s] = "call" /\ responded' = responded \cup {arm}
        /\ UNCHANGED <<started, ledger, calls, terminal, late, arm>>
    BY <1>2 DEF Respond, facts
  <2>2. /\ pc[s] = "call" => calls[arm] > 0 /\ arm \in started
        /\ Fresh(arm) /\ terminal[arm] = "open"
    BY <1>0, <2>1 DEF AdmissionInv, IndInv, CallInv, Calling
  <2>3. CASE GoTo(s, "COMMIT_REQUESTED") /\ UNCHANGED wanted
    <3>1. pc'[s] = "COMMIT_REQUESTED" /\ \A t \in Schedulers \ {s} : pc'[t] \notin Special
      BY <2>1, <2>3, Alone DEF Special, Working, Writes, Stages, Places
    <3>2. \A a \in CallArms : Concludes(a) => Concludes(a)'
      BY <2>1, <2>3 DEF Concludes
    <3> QED
      BY <1>0, <2>1, <2>2, <2>3, <3>1, <3>2 DEF AdmissionInv, Special
  <2>4. CASE Conclude(s, "UNRESOLVED")
    <3>1. Concludes(arm)'
      BY <1>0, <2>1, <2>2, <2>4 DEF Conclude, Concludes, Terminals
    <3> QED
      BY <2>1, <2>2, <2>4, <3>1, MovedAdmission
      DEF Conclude, Special, Places, Working, Writes, Stages
  <2> QED
    BY <1>2, <2>3, <2>4 DEF Respond
<1>3. CASE CallFails(s)
  <2>1. /\ pc[s] \in {"dispatch", "call"} /\ GoTo(s, "finish")
        /\ UNCHANGED <<started, ledger, calls, terminal, late, arm, responded>>
    BY <1>3 DEF CallFails, Conclude, facts
  <2>2. PICK status \in {"FAILED", "UNRESOLVED"} :
          /\ wanted' = [wanted EXCEPT ![arm] = status]
          /\ status = "FAILED" => pc[s] = "call"
    BY <1>3 DEF CallFails, Conclude, FailureStatus
  <2>3. Fresh(arm) /\ terminal[arm] = "open" /\ ledger[arm] = "held"
    BY <2>1 DEF IndInv, CallInv, Calling
  <2>4. arm \in started /\ (status = "FAILED" => calls[arm] > 0)
    BY <1>0, <2>1, <2>2 DEF AdmissionInv, IndInv, CallInv
  <2>5. Concludes(arm)'
    BY <1>0, <2>1, <2>2, <2>3, <2>4 DEF Concludes, Terminals, Fresh, Writes
  <2> QED
    BY <2>1, <2>2, <2>3, <2>5, MovedAdmission DEF Special, Places, Working, Writes, Stages
<1> QED
  BY <1>1, <1>2, <1>3

\* Fence: the reservation, START and the commit.
LEMMA FenceAdmission ==
  ASSUME IndInv, AdmissionInv, NEW s \in Schedulers, Fence(s)
  PROVE  AdmissionInv'
<1> USE DEF Working, Calling, Writes, Stages, Places, Special
<1> DEFINE w == pc[s]
<1>1. /\ w \in {"REQUESTED", "reserve", "RESERVED", "start", "COMMIT_REQUESTED", "commit"}
      /\ Apply(arm, w) /\ arm \in CallArms /\ sampled \in BOOLEAN
      /\ UNCHANGED <<late, calls, wanted, arm, responded>>
  BY DEF Fence, Write, NextWrite, IndInv, TypeOK, callVars
<1>2. /\ UNCHANGED terminal
      /\ w = "start" => started' = started \cup {arm}
      /\ w # "start" => started' = started
  BY <1>1, Applied
<1>3. PICK place \in {"reserve", "RESERVED", "start", "dispatch", "commit", "COMMITTED"} :
        /\ GoTo(s, place)
        /\ w = "REQUESTED" <=> place = "reserve"
        /\ w = "reserve" <=> place = "RESERVED"
        /\ w = "RESERVED" <=> place = "start"
        /\ w = "start" <=> place = "dispatch"
        /\ w = "COMMIT_REQUESTED" <=> place = "commit"
        /\ w = "commit" <=> place = "COMMITTED"
  BY <1>1 DEF Fence, NextWrite
<1>4. pc'[s] = place /\ \A t \in Schedulers \ {s} : pc'[t] \notin Special
  BY <1>1, <1>3, Alone
<1>5. /\ \A a \in CallArms : a # arm => ledger'[a] = ledger[a]
      /\ ledger'[arm] = IF w = "reserve" THEN "held"
                        ELSE IF w = "commit" THEN "settled" ELSE ledger[arm]
  BY <1>1 DEF Apply, IndInv, TypeOK
<1>6. /\ Fresh(arm)
      /\ w \in {"start", "RESERVED"} => ledger[arm] = "held"
  BY <1>1 DEF IndInv, CallInv
<1>7. \A a \in CallArms : <<a, "finish">> \in late => a # arm /\ Concludes(a)'
  BY <1>1, <1>2, <1>5, <1>6 DEF AdmissionInv, Concludes, Fresh
<1>8. /\ w \in {"REQUESTED", "reserve", "RESERVED", "start"} => arm \notin started
      /\ w \in {"COMMIT_REQUESTED", "commit"} => calls[arm] > 0 /\ arm \in responded
  BY DEF AdmissionInv
<1>9. \A a \in CallArms :
       /\ a \in started' => ledger'[a] # "none"
       /\ calls'[a] > 0 => a \in started'
       /\ ledger'[a] = "settled" => calls'[a] > 0
       /\ <<a, "start">> \in late' => a \notin started' /\ ledger'[a] # "none"
       /\ <<a, "commit">> \in late' => calls'[a] > 0 /\ terminal'[a] # "FAILED"
       /\ <<a, "finish">> \in late' => Concludes(a)'
  <2> TAKE a \in CallArms
  <2>1. CASE a # arm
    BY <1>1, <1>2, <1>5, <1>7, <2>1 DEF AdmissionInv
  <2>2. CASE a = arm
    <3>1. <<a, "start">> \notin late /\ <<a, "commit">> \notin late /\ <<a, "finish">> \notin late
      BY <1>6, <2>2 DEF Fresh
    <3> QED
      BY <1>1, <1>2, <1>5, <1>6, <1>8, <2>2, <3>1 DEF AdmissionInv
  <2> QED
    BY <2>1, <2>2
<1> QED
  BY <1>1, <1>2, <1>3, <1>4, <1>8, <1>9 DEF AdmissionInv

\* The other writes.
LEMMA WriteAdmission ==
  ASSUME IndInv, AdmissionInv, NEW s \in Schedulers,
         \/ EvaluationRecorded(s) \/ DenialRecorded(s) \/ Committed(s) \/ ReviewRecorded(s)
         \/ Finished(s) \/ SampleRecorded(s)
  PROVE  AdmissionInv'
<1> USE DEF Working, Calling, Writes, Stages, Places, Special
<1>1. /\ pc[s] \in {"evaluation", "DENIED", "COMMITTED", "review", "finish", "sample"}
      /\ Apply(arm, pc[s]) /\ arm \in CallArms /\ sampled \in BOOLEAN
      /\ UNCHANGED <<calls, late, arm, responded>>
  BY DEF EvaluationRecorded, DenialRecorded, Committed, ReviewRecorded, Finished, SampleRecorded,
         Write, IndInv, TypeOK, callVars
<1>2. /\ UNCHANGED <<ledger, started>>
      /\ pc[s] # "finish" => terminal' = terminal
      /\ pc[s] = "finish" => terminal' = [terminal EXCEPT ![arm] = wanted[arm]]
  BY <1>1, Applied
<1>3. \A place \in Places : GoTo(s, place) =>
        pc'[s] = place /\ \A t \in Schedulers \ {s} : pc'[t] \notin Special
  BY <1>1, Alone
<1>4. CASE EvaluationRecorded(s) \/ DenialRecorded(s) \/ ReviewRecorded(s) \/ SampleRecorded(s)
  <2>1. UNCHANGED wanted /\ pc[s] # "finish"
    BY <1>4 DEF EvaluationRecorded, DenialRecorded, ReviewRecorded, SampleRecorded, callVars
  <2>2. \E place \in {"find", "cutoff", "snapshot"} : GoTo(s, place)
    BY <1>4, Ends
    DEF EvaluationRecorded, DenialRecorded, ReviewRecorded, SampleRecorded, Finalize
  <2>3. \A t \in Schedulers : pc'[t] \notin Special
    BY <1>3, <2>2
  <2> QED
    BY <1>1, <1>2, <2>1, <2>3, QuietAdmission
<1>5. CASE Committed(s)
  <2>1. pc[s] = "COMMITTED"
    BY <1>5 DEF Committed
  <2>2. /\ calls[arm] > 0 /\ arm \in responded /\ arm \in started
        /\ Fresh(arm) /\ terminal[arm] = "open" /\ ledger[arm] = "settled"
    BY <1>1, <2>1 DEF AdmissionInv, IndInv, CallInv
  <2>3. CASE GoTo(s, "review") /\ UNCHANGED wanted
    BY <1>1, <1>2, <2>1, <2>2, <2>3, MovedAdmission
  <2>4. CASE Conclude(s, "COMPLETED") \/ Conclude(s, "UNRESOLVED")
    <3>1. PICK status \in {"COMPLETED", "UNRESOLVED"} : Conclude(s, status)
      BY <2>4
    <3>2. wanted'[arm] = status
      BY <1>1, <3>1 DEF Conclude, IndInv, TypeOK
    <3>3. Concludes(arm)'
      BY <1>1, <1>2, <2>1, <2>2, <3>2 DEF Concludes, Terminals
    <3> QED
      BY <1>1, <1>2, <2>1, <2>2, <3>1, <3>3, MovedAdmission DEF Conclude
  <2> QED
    BY <1>5, <2>3, <2>4 DEF Committed
<1>6. CASE Finished(s)
  <2>1. pc[s] = "finish" /\ UNCHANGED wanted
    BY <1>6 DEF Finished, callVars
  <2>2. \E place \in {"sample", "cutoff", "snapshot"} : GoTo(s, place)
    BY <1>6, Ends DEF Finished
  <2>3. \A t \in Schedulers : pc'[t] \notin Special
    BY <1>3, <2>2
  <2>4. Concludes(arm) /\ <<arm, "finish">> \notin late
    BY <2>1 DEF AdmissionInv, IndInv, CallInv
  <2>5. terminal'[arm] = wanted[arm] /\ \A a \in CallArms : a # arm => terminal'[a] = terminal[a]
    BY <1>1, <1>2, <2>1 DEF IndInv, TypeOK
  <2>6. \A a \in CallArms : <<a, "commit">> \in late => terminal'[a] # "FAILED"
    BY <2>4, <2>5 DEF AdmissionInv, Concludes
  <2>7. \A a \in CallArms : <<a, "finish">> \in late => Concludes(a)'
    BY <1>1, <1>2, <2>1, <2>4, <2>5 DEF AdmissionInv, Concludes
  <2> QED
    BY <1>1, <1>2, <2>1, <2>3, <2>6, <2>7 DEF AdmissionInv
<1> QED
  BY <1>4, <1>5, <1>6

\* The claiming scheduler leaves a write behind.
LEMMA LeftAdmission ==
  ASSUME IndInv, AdmissionInv, NEW s \in Schedulers, pc[s] \in Working,
         NEW place \in {"idle", "snapshot", "cutoff", "finish"}, GoTo(s, place),
         UNCHANGED <<facts, calls, arm, responded>>,
         \/ /\ UNCHANGED wanted /\ place # "finish"
            /\ \A p \in late' : p \in late \/ (p = <<arm, pc[s]>> /\ pc[s] \in Writes)
         \/ /\ pc[s] \in Concluding
            /\ \E status \in {"FAILED", "UNRESOLVED"} :
                 /\ wanted' = [wanted EXCEPT ![arm] = status]
                 /\ status = "FAILED" => pc[s] = "call"
            /\ \A p \in late' : \/ p \in late
                                \/ p = <<arm, pc[s]>> /\ pc[s] \in Writes
                                \/ p = <<arm, "finish">>
  PROVE  AdmissionInv'
<1> USE DEF Working, Calling, Concluding, Writes, Stages, Places, Special
<1>0. arm \in CallArms /\ wanted \in [CallArms -> Terminals \cup {"open"}]
  BY DEF IndInv, TypeOK
<1>1. pc'[s] = place /\ \A t \in Schedulers \ {s} : pc'[t] \notin Special
  BY Alone
<1>2. UNCHANGED <<started, ledger, terminal, calls, arm, responded>>
  BY DEF facts
<1>3. pc[s] \in Calling => Fresh(arm) /\ terminal[arm] = "open"
  BY DEF IndInv, CallInv
<1>4. CASE /\ UNCHANGED wanted /\ place # "finish"
           /\ \A p \in late' : p \in late \/ (p = <<arm, pc[s]>> /\ pc[s] \in Writes)
  <2>1. \A a \in CallArms : <<a, "start">> \in late' => a \notin started /\ ledger[a] # "none"
    BY <1>4 DEF AdmissionInv, IndInv, CallInv
  <2>2. \A a \in CallArms : <<a, "commit">> \in late' => calls[a] > 0 /\ terminal[a] # "FAILED"
    BY <1>3, <1>4 DEF AdmissionInv
  <2>3. \A a \in CallArms : <<a, "finish">> \in late' => Concludes(a)'
    <3> SUFFICES ASSUME NEW a \in CallArms, <<a, "finish">> \in late' PROVE Concludes(a)'
      OBVIOUS
    <3>1. CASE <<a, "finish">> \in late
      <4>1. Concludes(a)
        BY <3>1 DEF AdmissionInv
      <4>2. <<a, "commit">> \in late' => <<a, "commit">> \in late
        BY <1>3, <1>4, <3>1 DEF Fresh
      <4> QED
        BY <1>2, <1>4, <4>1, <4>2 DEF Concludes
    <3>2. CASE a = arm /\ pc[s] = "finish"
      <4>1. Concludes(arm)
        BY <3>2 DEF AdmissionInv
      <4>2. <<a, "commit">> \in late' => <<a, "commit">> \in late
        BY <1>4, <3>2
      <4> QED
        BY <1>2, <1>4, <3>2, <4>1, <4>2 DEF Concludes
    <3> QED
      BY <1>4, <3>1, <3>2
  <2> QED
    BY <1>1, <1>2, <1>4, <2>1, <2>2, <2>3 DEF AdmissionInv
<1>5. ASSUME pc[s] \in Concluding,
             NEW status \in {"FAILED", "UNRESOLVED"},
             wanted' = [wanted EXCEPT ![arm] = status], status = "FAILED" => pc[s] = "call",
             \A p \in late' : \/ p \in late
                              \/ p = <<arm, pc[s]>> /\ pc[s] \in Writes
                              \/ p = <<arm, "finish">>
      PROVE  AdmissionInv'
  <2>1. wanted'[arm] = status /\ \A a \in CallArms : a # arm => wanted'[a] = wanted[a]
    BY <1>0, <1>5
  <2>2. calls[arm] > 0 /\ arm \in started /\ Fresh(arm) /\ terminal[arm] = "open"
    BY <1>0, <1>3, <1>5 DEF AdmissionInv
  <2>3. pc[s] = "call" => ledger[arm] = "held" /\ <<arm, "commit">> \notin late'
    BY <1>5, <2>2 DEF IndInv, CallInv, Fresh
  <2>4. Concludes(arm)'
    BY <1>2, <1>5, <2>1, <2>2, <2>3 DEF Concludes, Terminals
  <2>5. \A a \in CallArms : <<a, "finish">> \in late' => Concludes(a)'
    <3> SUFFICES ASSUME NEW a \in CallArms, <<a, "finish">> \in late', a # arm PROVE Concludes(a)'
      BY <1>2, <2>4
    <3>1. <<a, "finish">> \in late /\ (<<a, "commit">> \in late' => <<a, "commit">> \in late)
      BY <1>5
    <3> QED
      BY <1>2, <2>1, <3>1 DEF AdmissionInv, Concludes
  <2>6. \A a \in CallArms :
         /\ <<a, "start">> \in late' => a \notin started /\ ledger[a] # "none"
         /\ <<a, "commit">> \in late' => calls[a] > 0 /\ terminal[a] # "FAILED"
    BY <1>5, <2>2 DEF AdmissionInv
  <2>7. pc'[s] = "finish" => Concludes(arm)'
    BY <2>4
  <2> QED
    BY <1>1, <1>2, <2>5, <2>6, <2>7 DEF AdmissionInv
<1> QED
  BY <1>4, <1>5

LEMMA LossAdmission ==
  ASSUME IndInv, AdmissionInv, NEW s \in Schedulers, WriteFails(s) \/ Abort(s)
  PROVE  AdmissionInv'
<1> USE DEF Working, Concluding, Writes, Stages
<1>1. CASE WriteFails(s)
  <2>1. /\ pc[s] \in Writes /\ GiveUp({<<arm, pc[s]>>})
        /\ UNCHANGED <<facts, arm, responded, calls>>
    BY <1>1 DEF WriteFails
  <2>2. late' \subseteq late \cup {<<arm, pc[s]>>}
    BY <2>1, GivenUp
  <2>3. CASE UNCHANGED wanted /\ (Finalize(s, "EVALUATOR_FAILED") \/ EndOfArm(s))
    <3>1. \E place \in {"cutoff", "snapshot"} : GoTo(s, place)
      BY <2>3, Ends DEF Finalize
    <3> QED
      BY <2>1, <2>2, <2>3, <3>1, LeftAdmission
  <2>4. CASE pc[s] \in {"COMMIT_REQUESTED", "commit", "COMMITTED", "review"}
             /\ Conclude(s, "UNRESOLVED")
    BY <2>1, <2>2, <2>4, LeftAdmission DEF Conclude
  <2> QED
    BY <1>1, <2>3, <2>4 DEF WriteFails
<1>2. CASE Abort(s)
  <2> DEFINE awaited == IF pc[s] \in Writes THEN {<<arm, pc[s]>>} ELSE {}
  <2>1. GoTo(s, "idle") /\ UNCHANGED <<facts, arm, responded, calls>>
    BY <1>2 DEF Abort, Run
  <2>2. CASE GiveUp(awaited) /\ UNCHANGED wanted
    <3>1. late' \subseteq late \cup awaited
      BY <2>2, GivenUp
    <3>2. CASE pc[s] \in Working
      BY <2>1, <2>2, <3>1, <3>2, LeftAdmission
    <3>3. CASE pc[s] \notin Working
      <4>1. late' = late
        BY <2>2, <3>3, GivenUp
      <4>2. \A t \in Schedulers : pc'[t] = pc[t] \/ pc'[t] \notin Special
        BY <2>1 DEF GoTo, Special, IndInv, TypeOK
      <4> QED
        BY <2>1, <2>2, <4>1, <4>2, QuietAdmission DEF facts
    <3> QED
      BY <3>2, <3>3
  <2>3. CASE /\ pc[s] \in {"call", "COMMIT_REQUESTED", "commit", "COMMITTED", "review"}
             /\ GiveUp(awaited \cup {<<arm, "finish">>})
             /\ wanted' = [wanted EXCEPT ![arm] = FailureStatus(arm, TRUE)]
    <3>1. late' \subseteq late \cup (awaited \cup {<<arm, "finish">>})
      BY <2>3, GivenUp
    <3>2. PICK status \in {"FAILED", "UNRESOLVED"} :
            /\ wanted' = [wanted EXCEPT ![arm] = status]
            /\ status = "FAILED" => pc[s] = "call"
      BY <2>3 DEF FailureStatus, AdmissionInv
    <3> QED
      BY <2>1, <2>3, <3>1, <3>2, LeftAdmission
  <2> QED
    BY <1>2, <2>2, <2>3 DEF Abort
<1> QED
  BY <1>1, <1>2

\* A write that was given up lands.
LEMMA LandAdmission == ASSUME IndInv, AdmissionInv, LandLate PROVE AdmissionInv'
<1>1. PICK a \in CallArms, w \in Writes :
        /\ <<a, w>> \in late /\ Apply(a, w) /\ late' = late \ {<<a, w>>}
        /\ UNCHANGED <<claim, evaluations, pc, callVars>>
  BY Landed
<1>2. /\ started' = IF w = "start" THEN started \cup {a} ELSE started
      /\ \A b \in CallArms : b # a => ledger'[b] = ledger[b] /\ terminal'[b] = terminal[b]
      /\ ledger'[a] = IF w = "reserve" THEN "held" ELSE IF w = "commit" THEN "settled"
                      ELSE ledger[a]
      /\ terminal'[a] = IF w = "finish" THEN wanted[a] ELSE terminal[a]
      /\ UNCHANGED <<pc, arm, responded, wanted, calls>>
  BY <1>1 DEF Apply, IndInv, TypeOK, callVars
<1>3. /\ w = "reserve" => ledger[a] = "none"
      /\ w = "start" => a \notin started /\ ledger[a] # "none"
      /\ w = "commit" => calls[a] > 0 /\ terminal[a] # "FAILED"
      /\ w = "finish" => Concludes(a)
  BY <1>1 DEF IndInv, LateInv, AdmissionInv
<1>4. \A b \in CallArms : Concludes(b) /\ ~(b = a /\ w = "finish") => Concludes(b)'
  <2> SUFFICES ASSUME NEW b \in CallArms, Concludes(b), ~(b = a /\ w = "finish")
               PROVE  Concludes(b)'
    OBVIOUS
  <2>1. CASE b # a
    BY <1>1, <1>2, <2>1 DEF Concludes
  <2>2. CASE b = a
    <3>1. w = "commit" => wanted[a] # "FAILED"
      BY <1>1, <2>2 DEF Concludes
    <3>2. wanted[a] \in {"COMPLETED", "FAILED"} => w # "reserve"
      BY <1>3, <2>2 DEF Concludes
    <3> QED
      BY <1>1, <1>2, <2>2, <3>1, <3>2 DEF Concludes
  <2> QED
    BY <2>1, <2>2
<1>5. ASSUME NEW b \in CallArms
      PROVE  /\ b \in started' => ledger'[b] # "none"
             /\ calls'[b] > 0 => b \in started'
             /\ ledger'[b] = "settled" => calls'[b] > 0
             /\ <<b, "start">> \in late' => b \notin started' /\ ledger'[b] # "none"
             /\ <<b, "commit">> \in late' => calls'[b] > 0 /\ terminal'[b] # "FAILED"
             /\ <<b, "finish">> \in late' => Concludes(b)'
  <2>1. CASE b # a
    BY <1>1, <1>2, <1>4, <2>1 DEF AdmissionInv
  <2>2. CASE b = a
    <3>1. <<a, "commit">> \in late' => terminal'[a] # "FAILED"
      BY <1>1, <1>2, <1>3 DEF AdmissionInv, Concludes
    <3>2. <<a, "finish">> \in late' => w # "finish"
      BY <1>1
    <3> QED
      BY <1>1, <1>2, <1>3, <1>4, <2>2, <3>1, <3>2 DEF AdmissionInv
  <2> QED
    BY <2>1, <2>2
<1>6. \A s \in Schedulers : pc[s] \in Calling => a # arm \/ w = "evaluation"
  BY <1>1 DEF IndInv, CallInv, Fresh
<1>7. \A s \in Schedulers : pc[s] = "finish" => ~(a = arm /\ w = "finish")
  BY <1>1 DEF IndInv, CallInv
<1>8. arm \in CallArms
  BY DEF IndInv, TypeOK
<1>9. ASSUME NEW s \in Schedulers
      PROVE  /\ pc'[s] \in {"REQUESTED", "reserve", "DENIED", "RESERVED", "start"} => arm' \notin started'
             /\ pc'[s] \in {"call", "COMMIT_REQUESTED", "commit", "COMMITTED", "review"} => calls'[arm'] > 0
             /\ pc'[s] \in {"COMMIT_REQUESTED", "commit", "COMMITTED", "review"} => arm' \in responded'
             /\ pc'[s] = "finish" => Concludes(arm)'
  <2>1. pc[s] = "finish" => Concludes(arm)'
    <3>1. pc[s] = "finish" => Concludes(arm) /\ ~(arm = a /\ w = "finish")
      BY <1>7 DEF AdmissionInv
    <3>2. ASSUME Concludes(arm), ~(arm = a /\ w = "finish") PROVE Concludes(arm)'
      <4>1. ASSUME NEW b \in CallArms, b = arm PROVE Concludes(arm)'
        <5>1. Concludes(b)'
          BY <1>4, <3>2, <4>1
        <5> QED
          BY <1>2, <4>1, <5>1 DEF Concludes
      <4> QED
        BY <1>8, <4>1
    <3> QED
      BY <3>1, <3>2
  <2> QED
    BY <1>2, <1>6, <1>8, <2>1 DEF AdmissionInv, Calling
<1> QED
  BY <1>5, <1>9 DEF AdmissionInv

\* Every step keeps the admission of an arm.
LEMMA AdmissionStep == IndInv /\ AdmissionInv /\ [Next]_vars => AdmissionInv'
<1> SUFFICES ASSUME IndInv, AdmissionInv, [Next]_vars PROVE AdmissionInv'
  OBVIOUS
<1>1. CASE LandLate
  BY <1>1, LandAdmission
<1>2. ASSUME NEW s \in Schedulers, Step(s) \/ Abort(s) PROVE AdmissionInv'
  BY <1>2, AroundAdmission, CallAdmission, FenceAdmission, WriteAdmission, LossAdmission DEF Step
<1>3. CASE Tick \/ UNCHANGED vars
  <2>1. UNCHANGED <<facts, late, pc, callVars>>
    BY <1>3 DEF Tick, vars
  <2> QED
    BY <2>1, QuietAdmission DEF facts, callVars
<1> QED
  BY <1>1, <1>2, <1>3 DEF Next

\* In every reachable state.
LEMMA Admission == Spec => []AdmissionInv
<1>1. Init => AdmissionInv
  BY DEF Init, AdmissionInv
<1> QED
  BY <1>1, AdmissionStep, Inductive, PTL DEF Spec

-----------------------------------------------------------------------------
(* The refinement. *)

Called == {a \in CallArms : calls[a] > 0}

\* A write is a step of the contract, or the contract does not see it.
LEMMA WriteIsContract ==
  ASSUME IndInv, NEW a \in CallArms, NEW w \in Writes, Apply(a, w), UNCHANGED calls,
         w = "reserve" => ledger[a] = "none",
         w = "start" => a \notin started /\ ledger[a] # "none",
         w = "commit" => calls[a] > 0 /\ ledger[a] # "none" /\ terminal[a] # "FAILED",
         w = "finish" => Concludes(a)
  PROVE  Contract!Next \/ UNCHANGED Contract!vars
<1>0. /\ sampled \in BOOLEAN /\ started \subseteq CallArms
      /\ ledger \in [CallArms -> {"none", "held", "settled"}]
  BY DEF IndInv, TypeOK
<1>1. /\ w = "reserve" => ledger' = [ledger EXCEPT ![a] = "held"]
      /\ w = "commit" => ledger' = [ledger EXCEPT ![a] = "settled"]
      /\ w \notin {"reserve", "commit"} => ledger' = ledger
      /\ w = "start" => started' = started \cup {a}
      /\ w # "start" => started' = started
      /\ w = "finish" => terminal' = [terminal EXCEPT ![a] = wanted[a]]
      /\ w # "finish" => terminal' = terminal
  BY <1>0, Applied
<1>2. Called' = Called
  BY DEF Called
<1>3. CASE w = "reserve"
  <2>1. Contract!Hold(a)
    BY <1>1, <1>2, <1>3 DEF Contract!Hold, Called
  <2> QED
    BY <2>1 DEF Contract!Next
<1>4. CASE w = "start"
  <2>1. Contract!Admit(a)
    BY <1>0, <1>1, <1>2, <1>4 DEF Contract!Admit, Called
  <2> QED
    BY <2>1 DEF Contract!Next
<1>5. CASE w = "commit" /\ ledger[a] = "held"
  <2>1. Contract!Settle(a)
    BY <1>1, <1>2, <1>5 DEF Contract!Settle, Called
  <2> QED
    BY <2>1 DEF Contract!Next
<1>6. CASE w = "commit" /\ ledger[a] = "settled"
  BY <1>0, <1>1, <1>2, <1>6 DEF Contract!vars, Called
<1>7. CASE w = "finish"
  <2>1. wanted[a] \in Contract!Statuses /\ Contract!Conclude(a, wanted[a])
    BY <1>1, <1>2, <1>7 DEF Contract!Conclude, Contract!Statuses, Concludes, Terminals, Called
  <2> QED
    BY <2>1 DEF Contract!Next
<1>8. CASE w \notin {"reserve", "start", "commit", "finish"}
  BY <1>1, <1>2, <1>8 DEF Contract!vars, Called
<1> QED
  BY <1>0, <1>3, <1>4, <1>5, <1>6, <1>7, <1>8

\* Every step of a scheduler is a step of the contract or invisible to it.
LEMMA StepIsContract ==
  ASSUME IndInv, AdmissionInv, NEW s \in Schedulers, Step(s) \/ Abort(s)
  PROVE  Contract!Next \/ UNCHANGED Contract!vars
<1> USE DEF Writes, Stages
<1>0. arm \in CallArms
  BY DEF IndInv, TypeOK
<1>1. CASE Write(s) /\ UNCHANGED calls
  <2>1. /\ pc[s] = "reserve" => ledger[arm] = "none"
        /\ pc[s] = "start" => arm \notin started /\ ledger[arm] # "none"
        /\ pc[s] = "commit" => calls[arm] > 0 /\ ledger[arm] # "none" /\ terminal[arm] # "FAILED"
        /\ pc[s] = "finish" => Concludes(arm)
    BY DEF IndInv, CallInv, Calling, AdmissionInv
  <2> QED
    BY <1>0, <1>1, <2>1, WriteIsContract DEF Write
<1>2. CASE Dispatch(s)
  <2>1. /\ calls' = [calls EXCEPT ![arm] = @ + 1] /\ calls \in [CallArms -> Nat]
        /\ UNCHANGED <<ledger, started, terminal>>
    BY <1>2 DEF Dispatch, facts, IndInv, TypeOK
  <2>2. arm \in started /\ calls[arm] = 0 /\ terminal[arm] = "open"
    BY <1>2 DEF Dispatch, IndInv, CallInv, Calling
  <2>3. Called' = Called \cup {arm} /\ arm \notin Called
    BY <1>0, <2>1, <2>2 DEF Called
  <2>4. ASSUME NEW a \in CallArms, a = arm PROVE Contract!Call(a)
    BY <2>1, <2>2, <2>3, <2>4 DEF Contract!Call, Called
  <2>5. \E a \in CallArms : Contract!Call(a)
    BY <1>0, <2>4
  <2> QED
    BY <2>5 DEF Contract!Next
<1>3. CASE UNCHANGED <<facts, calls>>
  BY <1>3 DEF facts, Contract!vars
<1>4. CASE Evaluate(s)
  BY <1>4 DEF Evaluate, callVars, Contract!vars
<1>5. CASE \/ EvaluationRecorded(s) \/ Fence(s) \/ DenialRecorded(s) \/ Committed(s)
           \/ ReviewRecorded(s) \/ Finished(s) \/ SampleRecorded(s)
  BY <1>1, <1>5
  DEF EvaluationRecorded, Fence, DenialRecorded, Committed, ReviewRecorded, Finished,
      SampleRecorded, callVars
<1>6. CASE \/ ClaimNext(s) \/ Reconcile(s) \/ Sources(s) \/ Admit(s) \/ ReserveDenied(s)
           \/ Respond(s) \/ CallFails(s) \/ WriteFails(s) \/ Cutoff(s)
           \/ Snapshot(s) \/ Outcomes(s) \/ RecordOutcome(s) \/ OutcomeRefused(s)
           \/ Finalized(s) \/ Abort(s)
  BY <1>3, <1>6
  DEF ClaimNext, Reconcile, Sources, Admit, ReserveDenied, Respond, CallFails, WriteFails,
      Cutoff, Snapshot, Outcomes, RecordOutcome, OutcomeRefused, Finalized, Abort, callVars
<1> QED
  BY <1>2, <1>4, <1>5, <1>6 DEF Step

\* "Only a START permits a call", and the rest of the admission order, for both arms
\* of a window, whichever scheduler crashes and whatever lands late (campaign.py:55-135
\* and 339-451).
THEOREM Implements == Spec => KeepsContract
<1>1. Init => Contract!Init
  BY DEF Init, Contract!Init
<1>2. ASSUME IndInv, AdmissionInv, [Next]_vars PROVE [Contract!Next]_(Contract!vars)
  <2>1. CASE LandLate
    <3>1. PICK a \in CallArms, w \in Writes :
            <<a, w>> \in late /\ Apply(a, w) /\ UNCHANGED calls
      BY <1>2, <2>1, Landed DEF callVars
    <3>2. /\ w = "reserve" => ledger[a] = "none"
          /\ w = "start" => a \notin started /\ ledger[a] # "none"
          /\ w = "commit" => calls[a] > 0 /\ ledger[a] # "none" /\ terminal[a] # "FAILED"
          /\ w = "finish" => Concludes(a)
      BY <1>2, <3>1 DEF IndInv, LateInv, AdmissionInv
    <3> QED
      BY <1>2, <3>1, <3>2, WriteIsContract
  <2>2. ASSUME NEW s \in Schedulers, Step(s) \/ Abort(s)
        PROVE  Contract!Next \/ UNCHANGED Contract!vars
    BY <1>2, <2>2, StepIsContract
  <2>3. CASE Tick \/ UNCHANGED vars
    <3>1. UNCHANGED <<facts, callVars>>
      BY <2>3 DEF Tick, vars
    <3> QED
      BY <3>1 DEF facts, callVars, Contract!vars
  <2> QED
    BY <1>2, <2>1, <2>2, <2>3 DEF Next
<1> QED
  BY <1>1, <1>2, Inductive, Admission, PTL DEF Spec, KeepsContract, Contract!Spec

-----------------------------------------------------------------------------
(* The outcomes. *)

\* What a write adds to the facts, and that it takes none back.
Adds ==
  /\ Evaluated => evaluation' = evaluation
  /\ started \subseteq started' /\ reviewed \subseteq reviewed'
  /\ \A a \in CallArms :
       /\ costs[a] \subseteq costs'[a]
       /\ terminal[a] # "open" => terminal'[a] = terminal[a]
       /\ Decided(a) => recordedAt'[a] = recordedAt[a]

\* What a step of anybody leaves true of the facts.
Forward ==
  /\ Adds
  /\ now \in Nat /\ now' \in Nat /\ now <= now'
  /\ \A a \in CallArms : Decided(a) => observedAt'[a] = observedAt[a]
  /\ Evaluated /\ evaluation.intent = "no intent" => calls'[Review] = calls[Review]
  /\ Over => /\ Over'
             /\ calls' = calls
             /\ \A a \in CallArms : ledger[a] = "none" /\ <<a, "reserve">> \notin late =>
                  ledger'[a] = "none" /\ <<a, "reserve">> \notin late'

\* The clock and the cutoff are numbers.
LEMMA Clock == ASSUME IndInv PROVE now \in Nat /\ PairedAt \in Nat
<1>1. now \in 0..Horizon /\ Horizon \in Nat /\ PairedAt \in Nat
  BY TimesType DEF IndInv, TypeOK
<1> QED
  BY <1>1

\* Nothing takes away what a status rests on.
LEMMA RestsStay ==
  ASSUME IndInv, Forward, NEW a \in Arms, NEW status, Rests(a, status)
  PROVE  Rests(a, status)'
<1>1. Evaluated => Evaluated' /\ evaluation' = evaluation /\ (LateEvaluation' <=> LateEvaluation)
  BY DEF Forward, Adds, Evaluated, LateEvaluation
<1>2. a \in CallArms /\ Decided(a) =>
        Decided(a)' /\ (Timely(a)' <=> Timely(a)) /\ (terminal[a] # "open" => terminal'[a] = terminal[a])
  BY DEF Forward, Adds, Decided, Timely
<1>3. /\ status = "BASELINE" => Rests(a, status)'
      /\ status = "NO_INTENT" => Rests(a, status)'
  BY <1>1 DEF Rests, NeverCalled, Forward
<1>4. status = "REVIEWED" => Rests(a, status)'
  <2>1. status = "REVIEWED" => a \in CallArms /\ Decided(a)
    BY DEF Rests, Decided, IndInv, TypeOK
  <2> QED
    BY <1>2, <2>1 DEF Rests, Forward, Adds
<1>5. status \in {"PROPOSAL", "CALL_FAILED", "LATE"} => Rests(a, status)'
  BY <1>1, <1>2 DEF Rests, Decided
<1>6. status \in {"SOURCE_MISSING", "EVALUATOR_FAILED", "BUDGET_BLOCKED"} => Rests(a, status)'
  BY DEF Rests, NeverCalled, Forward
<1>7. status = "UNKNOWN" => Rests(a, status)'
  BY DEF Rests, Forward, Adds
<1>8. status = "MISSED" => Rests(a, status)'
  <2>1. now >= PairedAt => now' >= PairedAt
    <3>1. now \in Nat /\ now' \in Nat /\ now <= now' /\ PairedAt \in Nat
      BY Clock DEF Forward
    <3> QED
      BY <3>1
  <2> QED
    BY <2>1 DEF Rests
<1> QED
  BY <1>3, <1>4, <1>5, <1>6, <1>7, <1>8 DEF Rests

\* A write that lands in its turn, or late, adds a fact.
LEMMA ApplyAdds ==
  ASSUME IndInv, NEW a \in CallArms, NEW w \in Writes, Apply(a, w),
         w = "evaluation" => ~Evaluated, w = "finish" => terminal[a] = "open"
  PROVE  Adds
<1>1. /\ costs \in [CallArms -> SUBSET Stages] /\ sampled \in BOOLEAN
      /\ terminal \in [CallArms -> Terminals \cup {"open"}]
      /\ recordedAt \in [CallArms -> Stamps]
  BY DEF IndInv, TypeOK
<1>2. Evaluated => evaluation' = evaluation
  BY <1>1, Applied
<1>3. started \subseteq started' /\ reviewed \subseteq reviewed'
  BY <1>1, Applied
<1>4. \A b \in CallArms : costs[b] \subseteq costs'[b]
  BY <1>1, Applied
<1>5. \A b \in CallArms : terminal[b] # "open" => terminal'[b] = terminal[b]
  BY <1>1, Applied
<1>6. \A b \in CallArms : Decided(b) => recordedAt'[b] = recordedAt[b]
  <2>1. CASE w \in {"review", "finish"} /\ ~Decided(a)
    BY <1>1, <2>1, Applied
  <2>2. CASE ~(w \in {"review", "finish"} /\ ~Decided(a))
    BY <1>1, <2>2, Applied
  <2> QED
    BY <2>1, <2>2
<1> QED
  BY <1>2, <1>3, <1>4, <1>5, <1>6 DEF Adds

\* While a scheduler works on the window it is not over.
LEMMA NotOver == ASSUME NEW s \in Schedulers, pc[s] \in Working PROVE ~Over
  BY DEF Over, Idle

\* The clock moves, or a scheduler that does not work stays out of the window.
LEMMA QuietForward ==
  ASSUME IndInv, UNCHANGED <<facts, calls, observedAt, late>>, now' \in Nat, now <= now',
         claim # Nobody => claim' # Nobody,
         \A t \in Schedulers : pc'[t] \in Working => pc[t] \in Working \/ claim = Nobody
  PROVE  Forward
<1>1. now \in Nat
  BY Clock
<1>2. Over => Over'
  BY DEF Over, Idle
<1> QED
  BY <1>1, <1>2 DEF Forward, Adds, facts

\* A step of the claiming scheduler that writes what is due.
LEMMA WorkForward ==
  ASSUME IndInv, NEW s \in Schedulers, pc[s] \in Working, Adds, UNCHANGED now,
         \/ UNCHANGED observedAt
         \/ ~Decided(arm) /\ \E stamp : observedAt' = [observedAt EXCEPT ![arm] = stamp],
         \/ UNCHANGED calls
         \/ /\ arm = Review => evaluation.intent = "intent"
            /\ calls' = [calls EXCEPT ![arm] = @ + 1]
  PROVE  Forward
<1>1. ~Over
  BY NotOver
<1>2. now \in Nat /\ now' \in Nat /\ now <= now'
  BY Clock
<1>3. \A a \in CallArms : Decided(a) => observedAt'[a] = observedAt[a]
  BY DEF IndInv, TypeOK
<1>4. Evaluated /\ evaluation.intent = "no intent" => calls'[Review] = calls[Review]
  BY DEF IndInv, TypeOK
<1> QED
  BY <1>1, <1>2, <1>3, <1>4, Zenon DEF Forward

\* Every step.
LEMMA StepForward ==
  ASSUME IndInv, AdmissionInv, EvaluationInv, [Next]_vars PROVE Forward
<1> USE DEF Working, Calling, Writes, Stages
<1>0. arm \in CallArms /\ now \in Nat /\ sampled \in BOOLEAN
  BY Clock DEF IndInv, TypeOK
<1>1. CASE Tick \/ UNCHANGED vars
  <2>1. now' = now \/ now' = now + 1
    BY <1>1 DEF Tick, vars
  <2> QED
    BY <1>0, <1>1, <2>1, QuietForward DEF Tick, vars, callVars
<1>2. CASE LandLate
  <2>1. PICK a \in CallArms, w \in Writes :
          /\ <<a, w>> \in late /\ Apply(a, w) /\ late' = late \ {<<a, w>>}
          /\ UNCHANGED <<claim, evaluations, pc, callVars>>
    BY <1>2, Landed
  <2>2. Adds
    <3>1. w = "evaluation" => ~Evaluated
      BY <2>1 DEF EvaluationInv
    <3>2. w = "finish" => terminal[a] = "open"
      BY <2>1 DEF AdmissionInv, Concludes
    <3> QED
      BY <2>1, <3>1, <3>2, ApplyAdds
  <2>3. \A b \in CallArms : ledger[b] = "none" /\ <<b, "reserve">> \notin late => ledger'[b] = "none"
    <3>1. w = "commit" => ledger[a] # "none"
      BY <2>1 DEF IndInv, LateInv
    <3>2. \A b \in CallArms : b # a \/ w \notin {"reserve", "commit"} => ledger'[b] = ledger[b]
      <4>1. ledger \in [CallArms -> {"none", "held", "settled"}]
        BY DEF IndInv, TypeOK
      <4> QED
        BY <2>1, <4>1 DEF Apply
    <3> QED
      BY <2>1, <3>1, <3>2
  <2>4. Over => Over'
    BY <2>1 DEF Over, Idle
  <2>5. now' = now
    BY <1>2 DEF LandLate
  <2> QED
    BY <1>0, <2>1, <2>2, <2>3, <2>4, <2>5 DEF Forward, callVars
<1>3. ASSUME NEW s \in Schedulers, Step(s) \/ Abort(s) PROVE Forward
  <2>1. CASE \/ ClaimNext(s) \/ Reconcile(s) \/ Sources(s) \/ Admit(s) \/ ReserveDenied(s) \/ Cutoff(s)
             \/ Snapshot(s) \/ Outcomes(s) \/ RecordOutcome(s) \/ OutcomeRefused(s) \/ Finalized(s)
    <3>1. UNCHANGED <<now, facts, calls, observedAt, late>>
      BY <2>1
      DEF ClaimNext, Reconcile, Sources, Admit, ReserveDenied, Cutoff, Snapshot, Outcomes,
          RecordOutcome, OutcomeRefused, Finalized, callVars
    <3>2. claim' = claim \/ claim' = s
      BY <2>1
      DEF ClaimNext, Reconcile, Sources, Admit, ReserveDenied, Cutoff, Snapshot, Outcomes,
          RecordOutcome, OutcomeRefused, Finalized
    <3>3. pc' = pc \/ \E place : GoTo(s, place)
      BY <2>1
      DEF ClaimNext, Reconcile, Sources, Admit, ReserveDenied, Cutoff, Snapshot, Outcomes,
          RecordOutcome, OutcomeRefused, Finalized, Finalize, EndOfArm, Run
    <3>4. CASE pc[s] \in Working \/ claim = Nobody
      <4>1. \A t \in Schedulers \ {s} : pc'[t] = pc[t]
        BY <3>3 DEF GoTo, IndInv, TypeOK
      <4> QED
        BY <1>0, <3>1, <3>2, <3>4, <4>1, QuietForward, NobodyIsNoScheduler
    <3>5. CASE pc[s] \notin Working /\ claim # Nobody
      <4>1. \/ Reconcile(s) \/ Snapshot(s) \/ Outcomes(s) \/ RecordOutcome(s)
            \/ OutcomeRefused(s) \/ Finalized(s)
        BY <2>1, <3>5 DEF ClaimNext, Sources, Admit, ReserveDenied, Cutoff
      <4>2. pc' = pc \/ \E place \in {"idle", "snapshot", "outcomes", "record"} : GoTo(s, place)
        BY <4>1
        DEF Reconcile, Snapshot, Outcomes, RecordOutcome, OutcomeRefused, Finalized, Finalize, Run
      <4>3. \A t \in Schedulers : pc'[t] = pc[t] \/ pc'[t] \notin Working
        BY <4>2 DEF GoTo, IndInv, TypeOK
      <4> QED
        BY <1>0, <3>1, <3>2, <3>5, <4>3, QuietForward, NobodyIsNoScheduler
    <3> QED
      BY <3>4, <3>5
  <2>2. CASE Evaluate(s)
    <3>1. pc[s] = "evaluate" /\ ~Evaluated
      BY <2>2 DEF Evaluate, EvaluationInv
    <3>2. UNCHANGED <<now, costs, started, reviewed, terminal, recordedAt, observedAt, calls>>
      BY <2>2 DEF Evaluate, callVars
    <3> QED
      BY <3>1, <3>2, WorkForward DEF Adds
  <2>3. CASE \/ EvaluationRecorded(s) \/ Fence(s) \/ DenialRecorded(s) \/ Committed(s)
             \/ ReviewRecorded(s) \/ Finished(s) \/ SampleRecorded(s)
    <3>1. /\ pc[s] \in Writes /\ Apply(arm, pc[s])
          /\ UNCHANGED <<now, observedAt, calls>>
      BY <2>3
      DEF EvaluationRecorded, Fence, DenialRecorded, Committed, ReviewRecorded, Finished,
          SampleRecorded, Write, callVars
    <3>2. Adds
      BY <1>0, <3>1, ApplyAdds DEF EvaluationInv, AdmissionInv, Concludes
    <3> QED
      BY <3>1, <3>2, WorkForward
  <2>4. CASE Dispatch(s)
    BY <2>4, WorkForward DEF Dispatch, EvaluationInv, facts, Adds
  <2>5. CASE Respond(s) \/ CallFails(s)
    <3>1. pc[s] \in {"dispatch", "call"} /\ ~Decided(arm)
      BY <2>5 DEF Respond, CallFails, IndInv, CallInv, Decided
    <3>2. /\ UNCHANGED <<now, facts, calls>>
          /\ observedAt' = [observedAt EXCEPT ![arm] = Stamp]
      BY <2>5 DEF Respond, CallFails
    <3> QED
      BY <3>1, <3>2, WorkForward DEF facts, Adds
  <2>6. CASE WriteFails(s)
    <3>1. pc[s] \in Writes /\ UNCHANGED <<now, facts, observedAt, calls>>
      BY <2>6 DEF WriteFails
    <3> QED
      BY <3>1, WorkForward DEF facts, Adds
  <2>7. CASE Abort(s)
    <3>1. GoTo(s, "idle") /\ UNCHANGED <<now, claim, facts, calls>>
      BY <2>7 DEF Abort, Run
    <3>2. CASE pc[s] \in Working
      <4>1. CASE UNCHANGED observedAt
        BY <3>1, <3>2, <4>1, WorkForward DEF facts, Adds
      <4>2. CASE /\ pc[s] \in {"call", "COMMIT_REQUESTED", "commit", "COMMITTED", "review"}
                 /\ observedAt' = [observedAt EXCEPT ![arm] = IF pc[s] = "call" THEN Stamp ELSE @]
        <5>1. ~Decided(arm)
          BY <4>2 DEF IndInv, CallInv, Decided
        <5>2. \E stamp : observedAt' = [observedAt EXCEPT ![arm] = stamp]
          BY <4>2
        <5> QED
          BY <3>1, <3>2, <5>1, <5>2, WorkForward DEF facts, Adds
      <4> QED
        BY <2>7, <4>1, <4>2 DEF Abort
    <3>3. CASE pc[s] \notin Working
      <4>1. UNCHANGED <<late, observedAt>>
        <5>1. GiveUp({}) /\ UNCHANGED observedAt
          BY <2>7, <3>3, Zenon DEF Abort
        <5> QED
          BY <5>1, GivenUp
      <4>2. \A t \in Schedulers : pc'[t] = pc[t] \/ pc'[t] \notin Working
        BY <3>1 DEF GoTo, IndInv, TypeOK
      <4> QED
        BY <1>0, <3>1, <4>1, <4>2, QuietForward
    <3> QED
      BY <3>2, <3>3
  <2> QED
    BY <1>3, <2>1, <2>2, <2>3, <2>4, <2>5, <2>6, <2>7 DEF Step
<1> QED
  BY <1>1, <1>2, <1>3 DEF Next

\* Where EvaluationInv says something of a scheduler.
Reviewing == Calling \cup {"sources", "evaluate", "evaluation", "find"}

\* A scheduler goes on, or leaves, and the evaluation stays as it is.
LEMMA MovedEvaluation ==
  ASSUME IndInv, EvaluationInv, NEW s \in Schedulers, NEW place \in Places, GoTo(s, place),
         claim' # Nobody \/ UNCHANGED claim, UNCHANGED evaluation,
         place \in {"sources", "evaluate"} => ~Evaluated,
         place # "evaluation",
         place \in Calling \cup {"find"} /\ arm' = Review => evaluation.intent = "intent",
         UNCHANGED arm \/ pc[s] \in Working,
         \A a \in CallArms : <<a, "evaluation">> \in late' =>
           <<a, "evaluation">> \in late \/ (a = arm /\ pc[s] = "evaluation")
  PROVE  EvaluationInv'
<1> USE DEF Working, Calling, Writes, Stages
<1>1. /\ pc'[s] = place
      /\ \A t \in Schedulers \ {s} : pc'[t] = pc[t]
      /\ pc[s] \in Working => \A t \in Schedulers \ {s} : pc[t] \notin Working
  BY DEF GoTo, IndInv, TypeOK, OrderInv
<1>2. (Evaluated' <=> Evaluated) /\ (Evaluated => evaluation.intent # "none")
  BY DEF Evaluated, EvaluationInv
<1>3. ASSUME NEW t \in Schedulers
      PROVE  /\ pc'[t] \in {"sources", "evaluate", "evaluation"} => ~Evaluated'
             /\ pc'[t] = "evaluation" => evaluation'.intent # "none"
             /\ pc'[t] \in Calling \cup {"find"} /\ arm' = Review => evaluation'.intent = "intent"
  <2>1. CASE t = s
    BY <1>1, <1>2, <2>1
  <2>2. CASE t # s
    BY <1>1, <1>2, <2>2 DEF EvaluationInv
  <2> QED
    BY <2>1, <2>2
<1>4. pc[s] = "evaluation" => ~Evaluated /\ evaluation.intent # "none" /\ arm = Review
  BY DEF EvaluationInv, IndInv, OrderInv
<1>5. /\ <<Proposal, "evaluation">> \notin late'
      /\ <<Review, "evaluation">> \in late' => ~Evaluated' /\ evaluation'.intent # "none"
  BY <1>2, <1>4 DEF EvaluationInv
<1> QED
  BY <1>2, <1>3, <1>5 DEF EvaluationInv

\* Steps that leave the places, the claim and the evaluation alone.
LEMMA StillEvaluation ==
  ASSUME EvaluationInv, UNCHANGED <<claim, evaluation, pc, arm, late>>
  PROVE  EvaluationInv'
  BY DEF EvaluationInv, Evaluated

\* Every step.
LEMMA EvaluationStep == IndInv /\ EvaluationInv /\ [Next]_vars => EvaluationInv'
<1> SUFFICES ASSUME IndInv, EvaluationInv, [Next]_vars PROVE EvaluationInv'
  OBVIOUS
<1> USE DEF Working, Calling, Writes, Stages, Places
<1>0. arm \in CallArms /\ sampled \in BOOLEAN
  BY DEF IndInv, TypeOK
<1>1. CASE Tick \/ UNCHANGED vars
  BY <1>1, StillEvaluation DEF Tick, vars, facts, callVars
<1>2. CASE LandLate
  <2>1. PICK a \in CallArms, w \in Writes :
          /\ <<a, w>> \in late /\ Apply(a, w) /\ late' = late \ {<<a, w>>}
          /\ UNCHANGED <<claim, evaluations, pc, callVars>>
    BY <1>2, Landed
  <2>2. CASE w # "evaluation"
    <3>1. evaluation' = evaluation
      BY <1>0, <2>1, <2>2, Applied
    <3> QED
      BY <2>1, <2>2, <3>1 DEF EvaluationInv, Evaluated, callVars
  <2>3. CASE w = "evaluation"
    <3>1. evaluation' = [evaluation EXCEPT !.recorded = Stamp]
      BY <1>0, <2>1, <2>3, Applied
    <3>2. evaluation'.intent = evaluation.intent /\ evaluation'.recorded = Stamp
      BY <3>1 DEF IndInv, TypeOK
    <3>3. a = Review /\ evaluation.intent # "none" /\ Idle
      BY <2>1, <2>3 DEF EvaluationInv, IndInv, LateInv
    <3>4. claim # Nobody
      BY <2>1 DEF IndInv, OrderInv
    <3> QED
      BY <2>1, <2>3, <3>2, <3>3, <3>4 DEF EvaluationInv, Evaluated, Idle, callVars
  <2> QED
    BY <2>2, <2>3
<1>3. ASSUME NEW s \in Schedulers, Step(s) \/ Abort(s) PROVE EvaluationInv'
  <2>0. pc[s] \in Working => claim = s /\ claim # Nobody
    BY NobodyIsNoScheduler DEF IndInv, OrderInv
  <2>1. CASE ClaimNext(s)
    <3>1. /\ claim = Nobody /\ claim' = s /\ UNCHANGED <<evaluation, arm, late>>
          /\ \E place \in {"sources", "snapshot"} : GoTo(s, place)
      BY <2>1 DEF ClaimNext, Finalize, facts, callVars
    <3> QED
      BY <3>1, MovedEvaluation, NobodyIsNoScheduler DEF EvaluationInv
  <2>2. CASE Reconcile(s)
    BY <2>2, MovedEvaluation DEF Reconcile, Finalize, facts, callVars
  <2>3. CASE Sources(s)
    <3>1. /\ pc[s] = "sources" /\ UNCHANGED <<claim, evaluation, arm, late>>
          /\ \E place \in {"evaluate", "snapshot"} : GoTo(s, place)
      BY <2>3 DEF Sources, Finalize, facts, callVars
    <3> QED
      BY <2>0, <3>1, MovedEvaluation DEF EvaluationInv
  <2>4. CASE Evaluate(s)
    <3>1. pc[s] = "evaluate" /\ ~Evaluated /\ UNCHANGED <<claim, arm, late>>
      BY <2>4 DEF Evaluate, EvaluationInv, callVars
    <3>2. CASE GoTo(s, "snapshot") /\ UNCHANGED evaluation
      BY <2>0, <3>1, <3>2, MovedEvaluation
    <3>3. ASSUME GoTo(s, "evaluation"), NEW intent \in {"intent", "no intent"},
                 evaluation' = [intent |-> intent, at |-> Stamp, recorded |-> "never"]
          PROVE  EvaluationInv'
      <4>0. evaluation'.recorded = "never" /\ evaluation'.intent # "none"
        BY <3>3
      <4>1. \A a \in CallArms : <<a, "evaluation">> \notin late'
        BY <3>1, Busy
      <4>2. /\ pc'[s] = "evaluation"
            /\ \A t \in Schedulers \ {s} : pc'[t] \notin Working
        BY <3>1, <3>3, Alone
      <4> QED
        BY <2>0, <3>1, <4>0, <4>1, <4>2 DEF EvaluationInv, Evaluated
    <3>4. \/ GoTo(s, "snapshot") /\ UNCHANGED evaluation
          \/ /\ GoTo(s, "evaluation")
             /\ \E intent \in {"intent", "no intent"} :
                  evaluation' = [intent |-> intent, at |-> Stamp, recorded |-> "never"]
      BY <2>4 DEF Evaluate, Finalize
    <3> QED
      BY <3>2, <3>3, <3>4
  <2>5. CASE EvaluationRecorded(s)
    <3>1. /\ pc[s] = "evaluation" /\ Apply(arm, "evaluation") /\ UNCHANGED <<claim, arm, late>>
          /\ \/ GoTo(s, "snapshot") \/ GoTo(s, "cutoff")
             \/ GoTo(s, "find") /\ evaluation.intent = "intent"
      BY <2>5 DEF EvaluationRecorded, Write, Finalize, callVars
    <3>2. evaluation' = [evaluation EXCEPT !.recorded = Stamp]
      BY <1>0, <3>1, Applied
    <3>3. evaluation'.intent = evaluation.intent /\ evaluation.intent # "none"
      BY <3>1, <3>2 DEF IndInv, TypeOK, EvaluationInv
    <3>4. \A a \in CallArms : <<a, "evaluation">> \notin late'
      BY <3>1, Busy
    <3>5. PICK place \in {"snapshot", "cutoff", "find"} :
            GoTo(s, place) /\ (place = "find" => evaluation.intent = "intent")
      BY <3>1
    <3>6. pc'[s] = place /\ \A t \in Schedulers \ {s} : pc'[t] \notin Working
      BY <3>1, <3>5, Alone
    <3> QED
      BY <2>0, <3>1, <3>3, <3>4, <3>5, <3>6 DEF EvaluationInv
  <2>6. CASE Admit(s)
    <3>1. /\ pc[s] \in {"find", "admit"} /\ UNCHANGED <<claim, evaluation, arm, late>>
          /\ \E place \in {"REQUESTED", "cutoff", "snapshot"} : GoTo(s, place)
      BY <2>6, Ends DEF Admit, facts, callVars
    <3>2. pc[s] = "admit" => arm = Proposal
      BY DEF IndInv, OrderInv
    <3> QED
      BY <2>0, <3>1, <3>2, MovedEvaluation DEF EvaluationInv
  <2>7. CASE Cutoff(s)
    <3>1. /\ pc[s] = "cutoff" /\ UNCHANGED <<claim, evaluation, late>>
          /\ \E place \in {"admit", "snapshot"} : GoTo(s, place)
      BY <2>7 DEF Cutoff, Finalize, facts
    <3> QED
      BY <2>0, <3>1, MovedEvaluation
  <2>8. CASE \/ ReserveDenied(s) \/ DenialRecorded(s) \/ Fence(s) \/ Dispatch(s) \/ Respond(s)
             \/ CallFails(s) \/ Committed(s) \/ ReviewRecorded(s) \/ Finished(s)
             \/ SampleRecorded(s)
    <3>1. UNCHANGED <<claim, arm, late>>
      BY <2>8
      DEF ReserveDenied, DenialRecorded, Fence, Dispatch, Respond, CallFails, Committed,
          ReviewRecorded, Finished, SampleRecorded, callVars
    <3>2. pc[s] \in Calling \cup {"finish", "sample"}
      BY <2>8
      DEF ReserveDenied, DenialRecorded, Fence, NextWrite, Dispatch, Respond, CallFails, Committed,
          ReviewRecorded, Finished, SampleRecorded
    <3>3. UNCHANGED evaluation
      <4>1. CASE UNCHANGED facts
        BY <4>1 DEF facts
      <4>2. CASE Write(s)
        BY <1>0, <3>2, <4>2, Applied DEF Write
      <4> QED
        BY <2>8, <4>1, <4>2
        DEF ReserveDenied, DenialRecorded, Fence, Dispatch, Respond, CallFails, Committed,
            ReviewRecorded, Finished, SampleRecorded
    <3>4. \E place \in Places \ {"sources", "evaluate", "evaluation", "find"} :
            GoTo(s, place) /\ (place \in Calling => pc[s] \in Calling)
      <4>1. CASE DenialRecorded(s) \/ Finished(s) \/ SampleRecorded(s)
        <5>1. \E place \in {"cutoff", "snapshot", "sample"} : GoTo(s, place)
          BY <4>1, Ends DEF DenialRecorded, Finished, SampleRecorded
        <5> QED
          BY <5>1
      <4>2. CASE Fence(s)
        BY <4>2 DEF Fence, NextWrite
      <4>3. CASE Committed(s) \/ Respond(s) \/ CallFails(s)
        BY <4>3 DEF Committed, Respond, CallFails, Conclude
      <4>4. CASE ReserveDenied(s) \/ Dispatch(s) \/ ReviewRecorded(s)
        BY <4>4 DEF ReserveDenied, Dispatch, ReviewRecorded
      <4> QED
        BY <2>8, <4>1, <4>2, <4>3, <4>4
    <3> QED
      BY <2>0, <3>1, <3>2, <3>3, <3>4, MovedEvaluation DEF EvaluationInv
  <2>9. CASE WriteFails(s)
    <3>1. /\ pc[s] \in Writes /\ UNCHANGED <<claim, evaluation, arm>>
          /\ late' \subseteq late \cup {<<arm, pc[s]>>}
      BY <2>9, GivenUp DEF WriteFails, facts
    <3>2. \E place \in {"snapshot", "cutoff", "finish"} : GoTo(s, place)
      BY <2>9, Ends DEF WriteFails, Finalize, Conclude
    <3> QED
      BY <2>0, <3>1, <3>2, MovedEvaluation
  <2>10. CASE Abort(s)
    <3>1. GoTo(s, "idle") /\ UNCHANGED <<claim, evaluation, arm>>
      BY <2>10 DEF Abort, Run, facts
    <3>2. late' \subseteq late \cup {<<arm, pc[s]>>, <<arm, "finish">>}
      <4>1. \/ GiveUp({}) \/ GiveUp({<<arm, pc[s]>>}) \/ GiveUp({<<arm, "finish">>})
            \/ GiveUp({<<arm, pc[s]>>} \cup {<<arm, "finish">>})
            \/ GiveUp({} \cup {<<arm, "finish">>})
        BY <2>10, Zenon DEF Abort
      <4> QED
        BY <4>1, GivenUp
    <3> QED
      BY <3>1, <3>2, MovedEvaluation
  <2>11. CASE Snapshot(s) \/ Outcomes(s) \/ RecordOutcome(s) \/ OutcomeRefused(s) \/ Finalized(s)
    <3>1. UNCHANGED <<claim, evaluation, arm, late>>
      BY <2>11 DEF Snapshot, Outcomes, RecordOutcome, OutcomeRefused, Finalized, facts, callVars
    <3>2. pc' = pc \/ \E place \in {"idle", "outcomes", "record"} : GoTo(s, place)
      BY <2>11 DEF Snapshot, Outcomes, RecordOutcome, OutcomeRefused, Finalized, Run
    <3> QED
      BY <3>1, <3>2, MovedEvaluation, StillEvaluation
  <2> QED
    BY <1>3, <2>1, <2>2, <2>3, <2>4, <2>5, <2>6, <2>7, <2>8, <2>9, <2>10, <2>11 DEF Step
<1> QED
  BY <1>1, <1>2, <1>3 DEF Next

\* What a fallback stands for stays so.
LEMMA FallsStay == ASSUME IndInv, Forward, NEW status, Falls(status) PROVE Falls(status)'
<1>1. Evaluated => Evaluated' /\ (LateEvaluation' <=> LateEvaluation)
  BY DEF Forward, Adds, Evaluated, LateEvaluation
<1>2. now >= PairedAt => now' >= PairedAt
  <2>1. now \in Nat /\ now' \in Nat /\ now <= now' /\ PairedAt \in Nat
    BY Clock DEF Forward
  <2> QED
    BY <2>1
<1> QED
  BY <1>1, <1>2 DEF Falls, Forward

\* The claiming scheduler leaves the window to _finalize.
LEMMA Leaves ==
  ASSUME IndInv, NEW s \in Schedulers, pc[s] \in Working, GoTo(s, "snapshot"), UNCHANGED claim
  PROVE  Over'
<1>1. claim # Nobody
  BY NobodyIsNoScheduler DEF IndInv, OrderInv
<1>2. pc'[s] = "snapshot" /\ \A t \in Schedulers \ {s} : pc'[t] \notin Working
  BY Alone DEF Places
<1> QED
  BY <1>1, <1>2 DEF Over, Idle, Working, Writes, Stages

\* After an arm the fallback is that of a window without a call.
LEMMA EndFalls ==
  ASSUME IndInv, Forward, NEW s \in Schedulers, pc[s] \in Deciding, EndOfArm(s), UNCHANGED claim
  PROVE  \/ UNCHANGED fallback
         \/ \E status : fallback' = [fallback EXCEPT ![s] = status] /\ Falls(status)'
<1>1. CASE arm = Review
  BY <1>1 DEF EndOfArm, endVars
<1>2. CASE arm # Review
  <2>1. GoTo(s, "snapshot") /\ fallback' = [fallback EXCEPT ![s] = "BUDGET_BLOCKED"]
    BY <1>2 DEF EndOfArm, Finalize
  <2>2. Over'
    BY <2>1, Leaves DEF Deciding
  <2>3. Evaluated'
    BY DEF IndInv, PairInv, Forward, Adds, Evaluated
  <2> QED
    BY <2>1, <2>2, <2>3 DEF Falls
<1> QED
  BY <1>1, <1>2

\* Every step of a scheduler sets its fallback rightly, or not at all.
LEMMA StepFalls ==
  ASSUME IndInv, Forward, NEW s \in Schedulers, Step(s) \/ Abort(s)
  PROVE  \/ UNCHANGED fallback
         \/ \E status : fallback' = [fallback EXCEPT ![s] = status] /\ Falls(status)'
<1> USE DEF Working, Deciding, Writes, Stages
<1>1. CASE ClaimNext(s) \/ Reconcile(s) \/ Cutoff(s)
  <2>1. \/ UNCHANGED fallback
        \/ now >= PairedAt /\ now' = now /\ fallback' = [fallback EXCEPT ![s] = "MISSED"]
    BY <1>1 DEF ClaimNext, Reconcile, Cutoff, Finalize, endVars
  <2> QED
    BY <2>1 DEF Falls
<1>2. ASSUME NEW status \in {"SOURCE_MISSING", "EVALUATOR_FAILED"}, Finalize(s, status),
             pc[s] \in Working, UNCHANGED claim
      PROVE  fallback' = [fallback EXCEPT ![s] = status] /\ Falls(status)'
  BY <1>2, Leaves DEF Finalize, Falls
<1>3. CASE Sources(s) \/ Evaluate(s)
  <2>1. /\ pc[s] \in Working /\ UNCHANGED claim
        /\ \/ UNCHANGED fallback
           \/ \E status \in {"SOURCE_MISSING", "EVALUATOR_FAILED"} : Finalize(s, status)
    BY <1>3 DEF Sources, Evaluate, endVars
  <2> QED
    BY <1>2, <2>1
<1>4. CASE EvaluationRecorded(s)
  <2>1. CASE LateEvaluation'
    <3>1. /\ fallback' = [fallback EXCEPT ![s] = "LATE"]
          /\ pc[s] = "evaluation" /\ Apply(arm, "evaluation")
      BY <1>4, <2>1 DEF EvaluationRecorded, Finalize, Write
    <3>2. evaluation' = [evaluation EXCEPT !.recorded = Stamp]
      BY <3>1, Applied DEF IndInv, TypeOK
    <3>3. Evaluated'
      BY <3>2, Stamped DEF Evaluated, IndInv, TypeOK
    <3> QED
      BY <2>1, <3>1, <3>3 DEF Falls
  <2>2. CASE ~LateEvaluation'
    BY <1>4, <2>2 DEF EvaluationRecorded, endVars
  <2> QED
    BY <2>1, <2>2
<1>5. CASE Admit(s) \/ DenialRecorded(s) \/ Finished(s) \/ SampleRecorded(s)
  <2>1. /\ pc[s] \in Deciding /\ UNCHANGED claim
        /\ UNCHANGED fallback \/ EndOfArm(s)
    BY <1>5 DEF Admit, DenialRecorded, Finished, SampleRecorded, endVars
  <2> QED
    BY <2>1, EndFalls
<1>6. CASE WriteFails(s)
  <2>1. /\ pc[s] \in Writes /\ UNCHANGED claim
        /\ \/ pc[s] = "evaluation" /\ Finalize(s, "EVALUATOR_FAILED")
           \/ pc[s] \in Deciding /\ EndOfArm(s)
           \/ UNCHANGED fallback
    BY <1>6 DEF WriteFails, endVars
  <2> QED
    BY <1>2, <2>1, EndFalls
<1>7. CASE Snapshot(s) \/ OutcomeRefused(s) \/ Finalized(s) \/ Abort(s)
  <2>1. fallback' = [fallback EXCEPT ![s] = "none"]
    BY <1>7 DEF Snapshot, OutcomeRefused, Finalized, Abort, Run
  <2>2. Falls("none")'
    BY DEF Falls
  <2> QED
    BY <2>1, <2>2
<1>8. CASE \/ Fence(s) \/ ReserveDenied(s) \/ Dispatch(s) \/ Respond(s) \/ CallFails(s)
           \/ Committed(s) \/ ReviewRecorded(s) \/ Outcomes(s) \/ RecordOutcome(s)
  BY <1>8
  DEF Fence, ReserveDenied, Dispatch, Respond, CallFails, Committed, ReviewRecorded, Outcomes,
      RecordOutcome, endVars
<1> QED
  BY <1>1, <1>3, <1>4, <1>5, <1>6, <1>7, <1>8 DEF Step

\* What _finalize reconstructs of an arm that started.
LEMMA CallRests ==
  ASSUME IndInv, NEW a \in CallArms, a \in started PROVE Rests(a, CallVerdict(a))
<1>1. /\ terminal[a] \in Terminals \cup {"open"} /\ reviewed \subseteq {Review}
      /\ observedAt[a] \in {"timely", "late"} /\ recordedAt[a] \in Stamps
  BY DEF IndInv, TypeOK
<1>2. Decided(a) => recordedAt[a] # "never"
  BY DEF IndInv, LateInv
<1>3. CASE ~Decided(a) \/ terminal[a] = "UNRESOLVED"
  <2>1. CallVerdict(a) = "UNKNOWN"
    BY <1>3 DEF CallVerdict
  <2> QED
    BY <2>1 DEF Rests
<1>4. CASE Decided(a) /\ terminal[a] # "UNRESOLVED" /\ LateDecision(a)
  <2>1. CallVerdict(a) = "LATE"
    BY <1>4 DEF CallVerdict
  <2> QED
    BY <1>4, <2>1 DEF Rests, Timely, LateDecision
<1>5. CASE Decided(a) /\ terminal[a] # "UNRESOLVED" /\ ~LateDecision(a)
  <2>1. Timely(a)
    BY <1>1, <1>2, <1>5 DEF LateDecision, Timely, Stamps
  <2>2. CASE a \in reviewed
    <3>1. CallVerdict(a) = "REVIEWED"
      BY <1>5, <2>2 DEF CallVerdict
    <3> QED
      BY <2>1, <2>2, <3>1 DEF Rests
  <2>3. CASE a \notin reviewed /\ terminal[a] = "FAILED"
    <3>1. CallVerdict(a) = "CALL_FAILED"
      BY <1>5, <2>3 DEF CallVerdict
    <3> QED
      BY <2>1, <2>3, <3>1 DEF Rests
  <2>4. CASE a \notin reviewed /\ terminal[a] # "FAILED"
    <3>1. CallVerdict(a) = "PROPOSAL" /\ terminal[a] = "COMPLETED"
      BY <1>1, <1>5, <2>4 DEF CallVerdict, Decided, Terminals
    <3> QED
      BY <2>1, <3>1 DEF Rests
  <2> QED
    BY <2>2, <2>3, <2>4
<1> QED
  BY <1>3, <1>4, <1>5

\* An arm whose money is known was never called, unless it started.
LEMMA NotCalled ==
  ASSUME IndInv, NEW a \in Arms, a \notin started
  PROVE  /\ NeverCalled(a)
         /\ a \in CallArms /\ ~SpendUnknown(a) => ledger[a] = "none" /\ <<a, "reserve">> \notin late
<1>1. NeverCalled(a)
  <2>1. a \in CallArms => calls[a] \in Nat /\ ~(calls[a] > 0)
    BY DEF IndInv, TypeOK, CostFences
  <2> QED
    BY <2>1 DEF NeverCalled
<1>2. ASSUME a \in CallArms, ~SpendUnknown(a)
      PROVE  ledger[a] = "none" /\ <<a, "reserve">> \notin late
  <2>1. "REQUESTED" \notin costs[a] \/ "DENIED" \in costs[a]
    BY <1>2 DEF SpendUnknown
  <2>2. ledger[a] = "none"
    BY <1>2, <2>1 DEF IndInv, CostFences
  <2>3. <<a, "reserve">> \in late => costs[a] = {"REQUESTED"}
    BY <1>2 DEF IndInv, LateInv
  <2> QED
    BY <2>1, <2>2, <2>3
<1> QED
  BY <1>1, <1>2

\* What _finalize concludes of an arm rests on the facts it has read.
LEMMA KnownRests ==
  ASSUME IndInv, EvaluationInv, NEW a \in Arms, NEW default \in Fallbacks \cup {"none"},
         Falls(default), ~SpendUnknown(a)
  PROVE  Rests(a, Known(a, default))
<1>1. /\ evaluation.intent \in {"none", "intent", "no intent"} /\ started \subseteq CallArms
  BY DEF IndInv, TypeOK
<1>2. CASE Evaluated /\ LateEvaluation
  <2>1. Known(a, default) = "LATE"
    BY <1>2 DEF Known
  <2> QED
    BY <1>2, <2>1 DEF Rests
<1>3. CASE Evaluated /\ ~LateEvaluation /\ a = "strategy-only"
  <2>1. evaluation.intent # "none"
    BY <1>3 DEF EvaluationInv
  <2>2. CASE evaluation.intent = "intent"
    <3>1. Known(a, default) = "BASELINE"
      BY <1>3, <2>2 DEF Known
    <3> QED
      BY <1>3, <2>2, <3>1 DEF Rests
  <2>3. CASE evaluation.intent # "intent"
    <3>1. Known(a, default) = "NO_INTENT"
      BY <1>3, <2>3 DEF Known
    <3> QED
      BY <1>1, <1>3, <2>1, <2>3, <3>1 DEF Rests, NeverCalled
  <2> QED
    BY <2>2, <2>3
<1>4. CASE /\ ~(Evaluated /\ LateEvaluation) /\ ~(a = "strategy-only" /\ Evaluated)
           /\ a = Review /\ Evaluated /\ evaluation.intent = "no intent" /\ a \notin started
  <2>1. Known(a, default) = "NO_INTENT"
    BY <1>4 DEF Known
  <2> QED
    BY <1>4, <2>1, NotCalled DEF Rests
<1>5. CASE /\ ~(Evaluated /\ LateEvaluation) /\ ~(a = "strategy-only" /\ Evaluated)
           /\ a \in started
  <2>1. Known(a, default) = CallVerdict(a)
    BY <1>5 DEF Known
  <2> QED
    BY <1>1, <1>5, <2>1, CallRests
<1>6. CASE /\ ~(Evaluated /\ LateEvaluation) /\ ~(a = "strategy-only" /\ Evaluated)
           /\ ~(a = Review /\ Evaluated /\ evaluation.intent = "no intent" /\ a \notin started)
           /\ a \notin started
  <2>1. \/ Known(a, default) = "MISSED" /\ now >= PairedAt
        \/ Known(a, default) = default
    BY <1>6 DEF Known
  <2>2. CASE Known(a, default) = "MISSED" /\ now >= PairedAt
    BY <2>2 DEF Rests
  <2>3. CASE Known(a, default) = default
    <3>1. Rests(a, default)
      BY <1>6, NotCalled DEF Rests, Falls, Fallbacks
    <3> QED
      BY <2>3, <3>1
  <2> QED
    BY <2>1, <2>2, <2>3
<1> QED
  BY <1>2, <1>3, <1>4, <1>5, <1>6

\* Every step concludes what rests on facts, or drops it.
LEMMA StepVerdict ==
  ASSUME IndInv, OutcomeInv, NEW s \in Schedulers, Step(s) \/ Abort(s)
  PROVE  \/ UNCHANGED verdict
         \/ \E v : verdict' = [verdict EXCEPT ![s] = v] /\ \A a \in Arms : Rests(a, v[a])
<1>0. /\ verdict \in [Schedulers -> [Arms -> Statuses \cup {"none"}]]
      /\ fallback[s] \in Fallbacks \cup {"none"}
  BY DEF IndInv, TypeOK
<1>1. \A a \in Arms : SpendUnknown(a) => Rests(a, "UNKNOWN")
  BY DEF Rests, SpendUnknown
<1>2. \A a \in Arms : Rests(a, "none")
  BY DEF Rests
<1>3. CASE Snapshot(s)
  <2> DEFINE v == [a \in Arms |-> IF SpendUnknown(a) THEN "UNKNOWN" ELSE Known(a, fallback[s])]
  <2>1. verdict' = [verdict EXCEPT ![s] = v]
    BY <1>3 DEF Snapshot
  <2>2. ASSUME NEW a \in Arms PROVE Rests(a, v[a])
    <3>1. CASE SpendUnknown(a)
      BY <1>1, <3>1
    <3>2. CASE ~SpendUnknown(a)
      <4>1. Rests(a, Known(a, fallback[s]))
        BY <1>0, <3>2, KnownRests DEF OutcomeInv
      <4> QED
        BY <3>2, <4>1
    <3> QED
      BY <3>1, <3>2
  <2> HIDE DEF v
  <2> QED
    BY <2>1, <2>2
<1>4. CASE Outcomes(s)
  <2> DEFINE v == [a \in Arms |-> IF outcome[a] = "none" THEN verdict[s][a] ELSE "none"]
  <2>1. verdict' = [verdict EXCEPT ![s] = v]
    BY <1>4 DEF Outcomes
  <2>2. ASSUME NEW a \in Arms PROVE Rests(a, v[a])
    <3>1. v[a] = verdict[s][a] \/ v[a] = "none"
      OBVIOUS
    <3> QED
      BY <1>2, <3>1 DEF OutcomeInv
  <2> HIDE DEF v
  <2> QED
    BY <2>1, <2>2
<1>5. CASE RecordOutcome(s)
  <2>1. PICK b \in Arms : verdict' = [verdict EXCEPT ![s] = [verdict[s] EXCEPT ![b] = "none"]]
    BY <1>5 DEF RecordOutcome
  <2> DEFINE v == [verdict[s] EXCEPT ![b] = "none"]
  <2>2. ASSUME NEW a \in Arms PROVE Rests(a, v[a])
    <3>1. v[a] = verdict[s][a] \/ v[a] = "none"
      BY <1>0
    <3> QED
      BY <1>2, <3>1 DEF OutcomeInv
  <2>3. verdict' = [verdict EXCEPT ![s] = v]
    BY <2>1
  <2> HIDE DEF v
  <2> QED
    BY <2>2, <2>3
<1>6. CASE OutcomeRefused(s) \/ Finalized(s) \/ Abort(s)
  <2>1. verdict' = [verdict EXCEPT ![s] = NoVerdict]
    BY <1>6 DEF OutcomeRefused, Finalized, Abort, Run
  <2>2. \A a \in Arms : NoVerdict[a] = "none"
    BY DEF NoVerdict
  <2> QED
    BY <1>2, <2>1, <2>2
<1>7. CASE \/ ClaimNext(s) \/ Reconcile(s) \/ Sources(s) \/ Evaluate(s) \/ EvaluationRecorded(s)
           \/ Admit(s) \/ DenialRecorded(s) \/ Finished(s) \/ SampleRecorded(s) \/ WriteFails(s)
           \/ Cutoff(s)
  BY <1>7
  DEF ClaimNext, Reconcile, Sources, Evaluate, EvaluationRecorded, Admit, DenialRecorded,
      Finished, SampleRecorded, WriteFails, Cutoff, Finalize, EndOfArm, endVars
<1>8. CASE \/ Fence(s) \/ ReserveDenied(s) \/ Dispatch(s) \/ Respond(s) \/ CallFails(s)
           \/ Committed(s) \/ ReviewRecorded(s)
  BY <1>8
  DEF Fence, ReserveDenied, Dispatch, Respond, CallFails, Committed, ReviewRecorded, endVars
<1> QED
  BY <1>3, <1>4, <1>5, <1>6, <1>7, <1>8 DEF Step

\* Every step records what rests on facts.
LEMMA StepOutcome ==
  ASSUME OutcomeInv, NEW s \in Schedulers, Step(s) \/ Abort(s)
  PROVE  \/ UNCHANGED outcome
         \/ \E a \in Arms : \E status : outcome' = [outcome EXCEPT ![a] = status] /\ Rests(a, status)
<1>1. CASE RecordOutcome(s)
  <2>0. PICK a \in Arms : \E status :
          /\ outcome' = [outcome EXCEPT ![a] = status]
          /\ status = verdict[s][a] \/ (status = "MISSED" /\ now >= PairedAt)
    BY <1>1 DEF RecordOutcome
  <2>1. PICK status :
          /\ outcome' = [outcome EXCEPT ![a] = status]
          /\ status = verdict[s][a] \/ (status = "MISSED" /\ now >= PairedAt)
    BY <2>0
  <2>2. Rests(a, status)
    <3>1. CASE status = verdict[s][a]
      BY <3>1 DEF OutcomeInv
    <3>2. CASE status = "MISSED" /\ now >= PairedAt
      BY <3>2 DEF Rests
    <3> QED
      BY <2>1, <3>1, <3>2
  <2> QED
    BY <2>1, <2>2
<1>2. CASE \/ ClaimNext(s) \/ Reconcile(s) \/ Sources(s) \/ Evaluate(s) \/ EvaluationRecorded(s)
           \/ Admit(s) \/ Fence(s) \/ ReserveDenied(s) \/ DenialRecorded(s) \/ Dispatch(s)
           \/ Respond(s) \/ CallFails(s) \/ Committed(s) \/ ReviewRecorded(s) \/ Finished(s)
           \/ SampleRecorded(s) \/ WriteFails(s) \/ Cutoff(s) \/ Snapshot(s) \/ Outcomes(s)
           \/ OutcomeRefused(s) \/ Finalized(s) \/ Abort(s)
  BY <1>2
  DEF ClaimNext, Reconcile, Sources, Evaluate, EvaluationRecorded, Admit, Fence, ReserveDenied,
      DenialRecorded, Dispatch, Respond, CallFails, Committed, ReviewRecorded, Finished,
      SampleRecorded, WriteFails, Cutoff, Snapshot, Outcomes, OutcomeRefused, Finalized, Abort
<1> QED
  BY <1>1, <1>2 DEF Step

\* Every step keeps what is, or will be, recorded true.
LEMMA OutcomeStep == IndInv /\ AdmissionInv /\ OutcomeInv /\ [Next]_vars => OutcomeInv'
<1> SUFFICES ASSUME IndInv, AdmissionInv, OutcomeInv, [Next]_vars PROVE OutcomeInv'
  OBVIOUS
<1>0. /\ DOMAIN verdict = Schedulers /\ DOMAIN fallback = Schedulers /\ DOMAIN outcome = Arms
      /\ verdict = [s \in Schedulers |-> verdict[s]]
      /\ fallback = [s \in Schedulers |-> fallback[s]]
      /\ outcome = [a \in Arms |-> outcome[a]]
  BY DEF IndInv, TypeOK
<1>1. EvaluationInv' /\ Forward
  BY EvaluationStep, StepForward DEF OutcomeInv
<1>2. \A a \in Arms : \A status : Rests(a, status) => Rests(a, status)'
  BY <1>1, RestsStay
<1>3. \A status : Falls(status) => Falls(status)'
  BY <1>1, FallsStay
<1>4. \/ UNCHANGED endVars /\ UNCHANGED outcome
      \/ \E s \in Schedulers : Step(s) \/ Abort(s)
  BY DEF Next, Tick, LandLate, vars, endVars
<1>5. ASSUME NEW t \in Schedulers PROVE Falls(fallback[t])'
  <2>1. \/ UNCHANGED fallback
        \/ \E s \in Schedulers : \E status :
             fallback' = [fallback EXCEPT ![s] = status] /\ Falls(status)'
    BY <1>1, <1>4, StepFalls DEF endVars
  <2>2. \E status : fallback'[t] = status /\ Falls(status)'
    BY <1>0, <1>3, <2>1 DEF OutcomeInv
  <2> QED
    BY <2>2 DEF Falls
<1>6. ASSUME NEW t \in Schedulers, NEW a \in Arms PROVE Rests(a, verdict[t][a])'
  <2>1. \/ UNCHANGED verdict
        \/ \E s \in Schedulers : \E v :
             verdict' = [verdict EXCEPT ![s] = v] /\ \A b \in Arms : Rests(b, v[b])
    BY <1>4, StepVerdict DEF endVars
  <2>2. \E status : verdict'[t][a] = status /\ Rests(a, status)
    BY <1>0, <2>1 DEF OutcomeInv
  <2>3. \E status : verdict'[t][a] = status /\ Rests(a, status)'
    BY <1>2, <2>2
  <2> QED
    BY <2>3 DEF Rests
<1>7. ASSUME NEW a \in Arms PROVE Rests(a, outcome[a])'
  <2>1. \/ UNCHANGED outcome
        \/ \E b \in Arms : \E status : outcome' = [outcome EXCEPT ![b] = status] /\ Rests(b, status)
    BY <1>4, StepOutcome
  <2>2. \E status : outcome'[a] = status /\ Rests(a, status)
    BY <1>0, <2>1 DEF OutcomeInv
  <2>3. \E status : outcome'[a] = status /\ Rests(a, status)'
    BY <1>2, <2>2
  <2> QED
    BY <2>3 DEF Rests
<1> QED
  BY <1>1, <1>5, <1>6, <1>7 DEF OutcomeInv

\* The denominator tells the truth, now and later: no status that _finalize
\* reconstructs (campaign.py:453-560) is contradicted by a receipt, a reservation or a
\* call that lands after it was recorded, whoever recorded it.
THEOREM OutcomesHonest == Spec => []OutcomeHonest
<1>1. Init => OutcomeInv
  <2> SUFFICES ASSUME Init PROVE OutcomeInv
    OBVIOUS
  <2>1. EvaluationInv
    BY DEF Init, EvaluationInv, Evaluated, NoEvaluation, Calling, Writes, Stages
  <2>2. \A a \in Arms : Rests(a, "none") /\ Falls("none") /\ NoVerdict[a] = "none"
    BY DEF Rests, Falls, NoVerdict
  <2> QED
    BY <2>1, <2>2 DEF Init, OutcomeInv
<1>2. OutcomeInv => OutcomeHonest
  BY DEF OutcomeInv, OutcomeHonest, Rests
<1> QED
  BY <1>1, <1>2, OutcomeStep, Inductive, Admission, PTL DEF Spec

-----------------------------------------------------------------------------
(* What the counting of a window rests on.                                  *)

\* _finalize has a status for every arm.
LEMMA Concluded ==
  ASSUME NEW a \in Arms, NEW default, default # "none"
  PROVE  SpendUnknown(a) \/ Known(a, default) # "none"
<1>1. CallVerdict(a) # "none"
  BY DEF CallVerdict
<1> QED
  BY <1>1 DEF Known

\* Before _finalize a step goes on, or begins it with a fallback.
LEMMA Begins ==
  ASSUME IndInv, NEW s \in Schedulers,
         \/ ClaimNext(s) \/ Reconcile(s) \/ Sources(s) \/ Evaluate(s) \/ EvaluationRecorded(s)
         \/ Admit(s) \/ Fence(s) \/ ReserveDenied(s) \/ DenialRecorded(s) \/ Dispatch(s)
         \/ Respond(s) \/ CallFails(s) \/ Committed(s) \/ ReviewRecorded(s) \/ Finished(s)
         \/ SampleRecorded(s) \/ WriteFails(s) \/ Cutoff(s)
  PROVE  /\ UNCHANGED <<verdict, outcome>>
         /\ \/ \E place \in Working : GoTo(s, place) /\ UNCHANGED fallback
            \/ \E status \in Fallbacks : Finalize(s, status)
<1> USE DEF Working, Writes, Stages, Fallbacks, endVars
<1>1. CASE ClaimNext(s) \/ Reconcile(s) \/ Sources(s) \/ Evaluate(s) \/ Cutoff(s)
  <2>1. UNCHANGED <<verdict, outcome>>
    BY <1>1 DEF ClaimNext, Reconcile, Sources, Evaluate, Cutoff, Finalize
  <2>2. \/ \E place \in {"sources", "evaluate", "evaluation", "admit"} :
             GoTo(s, place) /\ UNCHANGED fallback
        \/ \E status \in {"MISSED", "SOURCE_MISSING", "EVALUATOR_FAILED"} : Finalize(s, status)
    BY <1>1 DEF ClaimNext, Reconcile, Sources, Evaluate, Cutoff
  <2> QED
    BY <2>1, <2>2
<1>2. CASE EvaluationRecorded(s)
  <2>1. \/ Finalize(s, "LATE")
        \/ /\ \E place \in {"find", "cutoff"} : GoTo(s, place)
           /\ UNCHANGED endVars
    BY <1>2 DEF EvaluationRecorded
  <2> QED
    BY <1>2, <2>1 DEF EvaluationRecorded, Finalize
<1>3. ASSUME EndOfArm(s)
      PROVE  /\ UNCHANGED verdict
             /\ \/ GoTo(s, "cutoff") /\ UNCHANGED fallback
                \/ Finalize(s, "BUDGET_BLOCKED")
  BY <1>3 DEF EndOfArm, Finalize
<1>4. CASE Admit(s) \/ DenialRecorded(s) \/ Finished(s) \/ SampleRecorded(s)
  <2>1. /\ UNCHANGED outcome
        /\ \/ EndOfArm(s)
           \/ /\ \E place \in {"REQUESTED", "sample"} : GoTo(s, place)
              /\ UNCHANGED endVars
    BY <1>4 DEF Admit, DenialRecorded, Finished, SampleRecorded
  <2> QED
    BY <1>3, <2>1
<1>5. CASE Fence(s)
  <2>1. pc[s] \in DOMAIN NextWrite /\ GoTo(s, NextWrite[pc[s]])
    BY <1>5 DEF Fence
  <2>2. NextWrite[pc[s]] \in Working
    BY <2>1 DEF NextWrite
  <2> QED
    BY <1>5, <2>1, <2>2 DEF Fence
<1>6. CASE ReserveDenied(s) \/ Dispatch(s) \/ Respond(s) \/ CallFails(s)
           \/ Committed(s) \/ ReviewRecorded(s)
  <2>1. /\ UNCHANGED <<verdict, outcome, fallback>>
        /\ \E place \in {"DENIED", "call", "COMMIT_REQUESTED", "finish", "review", "cutoff"} :
             GoTo(s, place)
    BY <1>6 DEF ReserveDenied, Dispatch, Respond, CallFails, Committed, ReviewRecorded, Conclude
  <2> QED
    BY <2>1
<1>7. CASE WriteFails(s)
  <2>1. /\ UNCHANGED outcome
        /\ \/ Finalize(s, "EVALUATOR_FAILED")
           \/ EndOfArm(s)
           \/ GoTo(s, "finish") /\ UNCHANGED endVars
    BY <1>7 DEF WriteFails, Conclude
  <2>2. CASE Finalize(s, "EVALUATOR_FAILED")
    BY <2>1, <2>2 DEF Finalize
  <2> QED
    BY <1>3, <2>1, <2>2
<1> QED
  BY <1>1, <1>2, <1>4, <1>5, <1>6, <1>7

\* Every step leaves something to be said of each arm.
LEMMA SnapshotStep == IndInv /\ SnapshotInv /\ [Next]_vars => SnapshotInv'
<1> SUFFICES ASSUME IndInv, SnapshotInv, [Next]_vars PROVE SnapshotInv'
  OBVIOUS
<1>0. /\ pc \in [Schedulers -> Places]
      /\ verdict \in [Schedulers -> [Arms -> Statuses \cup {"none"}]]
      /\ fallback \in [Schedulers -> Fallbacks \cup {"none"}]
      /\ outcome \in [Arms -> Statuses \cup {"none"}]
  BY DEF IndInv, TypeOK
<1>1. ASSUME UNCHANGED <<outcome, pc, verdict, fallback>> PROVE SnapshotInv'
  BY <1>1 DEF SnapshotInv
<1>2. ASSUME NEW s \in Schedulers, Snapshot(s) PROVE SnapshotInv'
  <2> DEFINE v == [a \in Arms |-> IF SpendUnknown(a) THEN "UNKNOWN" ELSE Known(a, fallback[s])]
  <2>1. /\ pc[s] = "snapshot" /\ pc' = [pc EXCEPT ![s] = "outcomes"]
        /\ verdict' = [verdict EXCEPT ![s] = v] /\ outcome' = outcome
        /\ fallback' = [fallback EXCEPT ![s] = "none"]
    BY <1>2 DEF Snapshot, GoTo
  <2>2. \A a \in Arms : v[a] # "none"
    BY <2>1, Concluded DEF SnapshotInv, Fallbacks
  <2> HIDE DEF v
  <2> QED
    BY <1>0, <2>1, <2>2 DEF SnapshotInv
<1>3. ASSUME NEW s \in Schedulers, Outcomes(s) PROVE SnapshotInv'
  <2> DEFINE v == [a \in Arms |-> IF outcome[a] = "none" THEN verdict[s][a] ELSE "none"]
  <2>1. /\ pc[s] = "outcomes" /\ pc' = [pc EXCEPT ![s] = "record"]
        /\ verdict' = [verdict EXCEPT ![s] = v] /\ outcome' = outcome /\ fallback' = fallback
    BY <1>3 DEF Outcomes, GoTo
  <2>2. \A a \in Arms : outcome[a] # "none" \/ v[a] # "none"
    BY <2>1 DEF SnapshotInv
  <2> HIDE DEF v
  <2> QED
    BY <1>0, <2>1, <2>2 DEF SnapshotInv
<1>4. ASSUME NEW s \in Schedulers, RecordOutcome(s) PROVE SnapshotInv'
  <2>1. PICK a \in Arms :
          /\ Turn(s, a)
          /\ \E status \in {verdict[s][a], "MISSED"} : outcome' = [outcome EXCEPT ![a] = status]
          /\ verdict' = [verdict EXCEPT ![s] = [verdict[s] EXCEPT ![a] = "none"]]
    BY <1>4 DEF RecordOutcome
  <2>2. PICK status \in {verdict[s][a], "MISSED"} : outcome' = [outcome EXCEPT ![a] = status]
    BY <2>1
  <2>3. status # "none"
    BY <2>1, <2>2 DEF Turn
  <2>4. /\ outcome'[a] # "none"
        /\ \A b \in Arms \ {a} : outcome'[b] = outcome[b]
        /\ \A t \in Schedulers, b \in Arms : t # s \/ b # a => verdict'[t][b] = verdict[t][b]
    BY <1>0, <2>1, <2>2, <2>3
  <2>5. UNCHANGED <<pc, fallback>> /\ pc[s] = "record"
    BY <1>4 DEF RecordOutcome
  <2> QED
    BY <2>4, <2>5 DEF SnapshotInv
<1>5. ASSUME NEW s \in Schedulers, OutcomeRefused(s) \/ Finalized(s) \/ Abort(s)
      PROVE  SnapshotInv'
  <2>1. /\ pc' = [pc EXCEPT ![s] = "idle"] /\ outcome' = outcome
        /\ verdict' = [verdict EXCEPT ![s] = NoVerdict]
        /\ fallback' = [fallback EXCEPT ![s] = "none"]
    BY <1>5 DEF OutcomeRefused, Finalized, Abort, Run, GoTo
  <2> QED
    BY <1>0, <2>1 DEF SnapshotInv
<1>6. ASSUME NEW s \in Schedulers,
             /\ UNCHANGED <<verdict, outcome>>
             /\ \/ \E place \in Working : GoTo(s, place) /\ UNCHANGED fallback
                \/ \E status \in Fallbacks : Finalize(s, status)
      PROVE  SnapshotInv'
  <2>1. CASE \E place \in Working : GoTo(s, place) /\ UNCHANGED fallback
    <3>1. PICK place \in Working : pc' = [pc EXCEPT ![s] = place] /\ fallback' = fallback
      BY <2>1 DEF GoTo
    <3>2. place \notin {"snapshot", "outcomes", "record"}
      BY DEF Working, Writes, Stages
    <3> QED
      BY <1>0, <1>6, <3>1, <3>2 DEF SnapshotInv
  <2>2. CASE \E status \in Fallbacks : Finalize(s, status)
    <3>1. PICK status \in Fallbacks : /\ pc' = [pc EXCEPT ![s] = "snapshot"]
                                      /\ fallback' = [fallback EXCEPT ![s] = status]
      BY <2>2 DEF Finalize, GoTo
    <3> QED
      BY <1>0, <1>6, <3>1 DEF SnapshotInv
  <2> QED
    BY <1>6, <2>1, <2>2
<1>7. CASE Tick \/ LandLate \/ UNCHANGED vars
  BY <1>1, <1>7 DEF Tick, LandLate, vars, endVars
<1> QED
  BY <1>2, <1>3, <1>4, <1>5, <1>6, <1>7, Begins DEF Next, Step

\* "Every due window receives all three denominator outcomes": whoever comes to the end
\* of _finalize (campaign.py:443-528) has passed over no arm, and an outcome stays.
THEOREM WindowCounted == Spec => FinalizeCounts
<1>1. Init => SnapshotInv
  BY DEF Init, SnapshotInv
<1>2. Spec => []SnapshotInv
  BY <1>1, SnapshotStep, Inductive, PTL DEF Spec
<1> DEFINE Counts == /\ \A s \in Schedulers : Finalized(s) => \A a \in Arms : outcome'[a] # "none"
                     /\ \A a \in Arms : outcome[a] # "none" => outcome'[a] = outcome[a]
<1>3. IndInv /\ SnapshotInv /\ [Next]_vars => [Counts]_vars
  <2> SUFFICES ASSUME IndInv, SnapshotInv, [Next]_vars PROVE Counts
    OBVIOUS
  <2>1. ASSUME NEW s \in Schedulers, Finalized(s), NEW a \in Arms PROVE outcome'[a] # "none"
    <3>1. pc[s] = "record" /\ verdict[s] = NoVerdict /\ outcome' = outcome
      BY <2>1 DEF Finalized
    <3>2. verdict[s][a] = "none"
      BY <3>1 DEF NoVerdict
    <3> QED
      BY <3>1, <3>2 DEF SnapshotInv
  <2>2. ASSUME NEW a \in Arms, outcome[a] # "none" PROVE outcome'[a] = outcome[a]
    <3>1. ASSUME NEW s \in Schedulers, RecordOutcome(s) PROVE outcome'[a] = outcome[a]
      <4>1. outcome \in [Arms -> Statuses \cup {"none"}]
        BY DEF IndInv, TypeOK
      <4>2. PICK b \in Arms :
              outcome[b] = "none" /\ \E status : outcome' = [outcome EXCEPT ![b] = status]
        BY <3>1 DEF RecordOutcome
      <4> QED
        BY <2>2, <4>1, <4>2
    <3>2. CASE UNCHANGED outcome
      BY <3>2
    <3>3. ASSUME NEW s \in Schedulers, Step(s) \/ Abort(s), ~RecordOutcome(s)
          PROVE  UNCHANGED outcome
      <4>1. CASE \/ Snapshot(s) \/ Outcomes(s) \/ OutcomeRefused(s) \/ Finalized(s) \/ Abort(s)
        BY <4>1 DEF Snapshot, Outcomes, OutcomeRefused, Finalized, Abort
      <4> QED
        BY <3>3, <4>1, Begins DEF Step
    <3>4. CASE Tick \/ LandLate \/ UNCHANGED vars
      BY <3>2, <3>4 DEF Tick, LandLate, vars
    <3> QED
      BY <3>1, <3>2, <3>3, <3>4 DEF Next
  <2> QED
    BY <2>1, <2>2
<1> QED
  BY <1>2, <1>3, Inductive, PTL DEF Spec, FinalizeCounts

\* The order of the places, as far as steps compare them.
LEMMA AheadOf ==
  /\ \A place \in Places : Ahead[place] \in Int /\ Ahead[place] >= 0 /\ Ahead[place] < 30
  /\ \A place \in DOMAIN NextWrite : Ahead[NextWrite[place]] < Ahead[place]
  /\ \A place \in {"dispatch", "call", "COMMIT_REQUESTED", "commit", "COMMITTED", "review"} :
       Ahead["finish"] < Ahead[place]
  /\ \A place \in Working \ {"cutoff"} : Ahead["cutoff"] < Ahead[place]
  /\ \A place \in Working : Ahead["snapshot"] < Ahead[place]
  /\ \A place \in Places \ {"idle"} : Ahead["idle"] < Ahead[place]
<1>1. \A place \in Places : Ahead[place] \in Int /\ Ahead[place] >= 0 /\ Ahead[place] < 30
  BY DEF Ahead
<1>2. \A place \in DOMAIN NextWrite : Ahead[NextWrite[place]] < Ahead[place]
  BY DEF Ahead, NextWrite, Places, Writes, Stages
<1>3. \A place \in {"dispatch", "call", "COMMIT_REQUESTED", "commit", "COMMITTED", "review"} :
        Ahead["finish"] < Ahead[place]
  BY DEF Ahead, Places, Writes, Stages
<1>4. \A place \in Working \ {"cutoff"} : Ahead["cutoff"] < Ahead[place]
  BY DEF Ahead, Places, Working, Writes, Stages
<1>5. \A place \in Working : Ahead["snapshot"] < Ahead[place]
  BY DEF Ahead, Places, Working, Writes, Stages
<1>6. \A place \in Places \ {"idle"} : Ahead["idle"] < Ahead[place]
  BY DEF Ahead, Places, Writes, Stages
<1> QED
  BY <1>1, <1>2, <1>3, <1>4, <1>5, <1>6

\* The steps between two named places.
LEMMA AheadBetween ==
  /\ Ahead["evaluate"] < Ahead["sources"] /\ Ahead["evaluation"] < Ahead["evaluate"]
  /\ Ahead["find"] < Ahead["evaluation"]
  /\ Ahead["REQUESTED"] < Ahead["find"] /\ Ahead["REQUESTED"] < Ahead["admit"]
  /\ Ahead["DENIED"] < Ahead["reserve"] /\ Ahead["call"] < Ahead["dispatch"]
  /\ Ahead["COMMIT_REQUESTED"] < Ahead["call"] /\ Ahead["review"] < Ahead["COMMITTED"]
  /\ Ahead["sample"] < Ahead["finish"]
  /\ Ahead["outcomes"] < Ahead["snapshot"] /\ Ahead["record"] < Ahead["outcomes"]
BY DEF Ahead, Places, Writes, Stages

\* A step to a place nearer to the end, of the same arm or away from it.
LEMMA Nearer ==
  ASSUME IndInv, NEW s \in Schedulers, NEW place \in Places, GoTo(s, place), arm' = arm,
         Ahead[place] < Ahead[pc[s]], place \in Working => pc[s] \in Working
  PROVE  Route(s)' < Route(s)
<1>1. pc'[s] = place /\ pc[s] \in Places
  BY DEF IndInv, TypeOK, GoTo
<1>2. Ahead[place] \in Int /\ Ahead[pc[s]] \in Int
  BY <1>1, AheadOf
<1> QED
  BY <1>1, <1>2 DEF Route

\* The claiming scheduler ends an arm.
LEMMA EndIsNearer ==
  ASSUME IndInv, NEW s \in Schedulers, EndOfArm(s), arm' = arm, pc[s] \in Working \ {"cutoff"}
  PROVE  Route(s)' < Route(s)
<1>1. PICK place \in {"cutoff", "snapshot"} : GoTo(s, place)
  BY Ends
<1>2. Ahead[place] < Ahead[pc[s]]
  BY <1>1, AheadOf
<1> QED
  BY <1>1, <1>2, Nearer DEF Places

\* A scheduler begins _finalize.
LEMMA FinalizeIsNearer ==
  ASSUME IndInv, NEW s \in Schedulers, NEW status, Finalize(s, status), arm' = arm,
         pc[s] \in Working
  PROVE  Route(s)' < Route(s)
<1>1. GoTo(s, "snapshot") /\ Ahead["snapshot"] < Ahead[pc[s]]
  BY AheadOf DEF Finalize
<1> QED
  BY <1>1, Nearer DEF Places, Working, Writes, Stages

\* Every step of a run that leaves its place comes nearer to its end.
LEMMA RunStep ==
  ASSUME IndInv, NEW s \in Schedulers, Step(s) \/ Abort(s), pc[s] # "idle"
  PROVE  pc'[s] = pc[s] \/ Route(s)' < Route(s)
<1>1. CASE ClaimNext(s) \/ Reconcile(s)
  BY <1>1 DEF ClaimNext, Reconcile
<1>2. CASE Sources(s) \/ Evaluate(s)
  <2>1. /\ arm' = arm /\ pc[s] \in {"sources", "evaluate"}
        /\ \/ pc[s] = "sources" /\ GoTo(s, "evaluate")
           \/ pc[s] = "evaluate" /\ GoTo(s, "evaluation")
           \/ \E status : Finalize(s, status)
    BY <1>2 DEF Sources, Evaluate, callVars
  <2>2. pc[s] \in Working
    BY <2>1 DEF Working
  <2> QED
    BY <2>1, <2>2, AheadBetween, Nearer, FinalizeIsNearer DEF Places, Writes
<1>3. CASE EvaluationRecorded(s)
  <2>1. /\ arm' = arm /\ pc[s] = "evaluation"
        /\ \/ GoTo(s, "find") \/ GoTo(s, "cutoff")
           \/ \E status : Finalize(s, status)
    BY <1>3 DEF EvaluationRecorded, callVars
  <2>2. pc[s] \in Working \ {"cutoff"}
    BY <2>1 DEF Working, Writes
  <2> QED
    BY <2>1, <2>2, AheadBetween, AheadOf, Nearer, FinalizeIsNearer DEF Places
<1>4. CASE Admit(s) \/ DenialRecorded(s) \/ Finished(s) \/ SampleRecorded(s)
  <2>1. /\ arm' = arm /\ pc[s] \in {"find", "admit", "DENIED", "finish", "sample"}
        /\ \/ pc[s] \in {"find", "admit"} /\ GoTo(s, "REQUESTED")
           \/ pc[s] = "finish" /\ GoTo(s, "sample")
           \/ EndOfArm(s)
    BY <1>4 DEF Admit, DenialRecorded, Finished, SampleRecorded, callVars
  <2>2. pc[s] \in Working \ {"cutoff"}
    BY <2>1 DEF Working, Writes, Stages
  <2> QED
    BY <2>1, <2>2, AheadBetween, Nearer, EndIsNearer DEF Places, Writes, Stages
<1>5. CASE Fence(s)
  <2>1. pc[s] \in DOMAIN NextWrite /\ GoTo(s, NextWrite[pc[s]]) /\ arm' = arm
    BY <1>5 DEF Fence, callVars
  <2>2. NextWrite[pc[s]] \in Places /\ pc[s] \in Working
    BY <2>1 DEF NextWrite, Places, Working, Writes, Stages
  <2> QED
    BY <2>1, <2>2, AheadOf, Nearer
<1>6. CASE ReserveDenied(s) \/ Dispatch(s) \/ Respond(s) \/ CallFails(s) \/ Committed(s)
  <2>1. /\ arm' = arm
        /\ \/ pc[s] = "reserve" /\ GoTo(s, "DENIED")
           \/ pc[s] = "dispatch" /\ GoTo(s, "call")
           \/ pc[s] = "call" /\ GoTo(s, "COMMIT_REQUESTED")
           \/ pc[s] = "COMMITTED" /\ GoTo(s, "review")
           \/ pc[s] \in {"dispatch", "call", "COMMITTED"} /\ GoTo(s, "finish")
    BY <1>6 DEF ReserveDenied, Dispatch, Respond, CallFails, Committed, Conclude, callVars
  <2>2. \E place \in {"DENIED", "call", "COMMIT_REQUESTED", "review", "finish"} :
          GoTo(s, place) /\ Ahead[place] < Ahead[pc[s]]
    BY <2>1, AheadBetween, AheadOf
  <2>3. pc[s] \in Working
    BY <2>1 DEF Working, Writes, Stages
  <2> QED
    BY <2>1, <2>2, <2>3, Nearer DEF Places, Writes, Stages
<1>7. CASE ReviewRecorded(s)
  <2>1. arm' = arm /\ pc[s] = "review" /\ GoTo(s, "cutoff")
    BY <1>7 DEF ReviewRecorded, callVars
  <2>2. pc[s] \in Working \ {"cutoff"}
    BY <2>1 DEF Working, Writes
  <2> QED
    BY <2>1, <2>2, AheadOf, Nearer DEF Places
<1>8. CASE WriteFails(s)
  <2>1. /\ arm' = arm /\ pc[s] \in Writes
        /\ \/ \E status : Finalize(s, status)
           \/ EndOfArm(s)
           \/ /\ pc[s] \in {"COMMIT_REQUESTED", "commit", "COMMITTED", "review"}
              /\ GoTo(s, "finish")
    BY <1>8 DEF WriteFails, Conclude
  <2>2. pc[s] \in Working \ {"cutoff"}
    BY <2>1 DEF Working, Writes, Stages
  <2> QED
    BY <2>1, <2>2, AheadOf, Nearer, FinalizeIsNearer, EndIsNearer DEF Places, Writes
<1>9. CASE Cutoff(s)
  <2>1. CASE now >= PairedAt
    <3>1. arm' = arm /\ pc[s] = "cutoff" /\ Finalize(s, "MISSED")
      BY <1>9, <2>1 DEF Cutoff
    <3> QED
      BY <3>1, FinalizeIsNearer DEF Working
  <2>2. CASE ~(now >= PairedAt)
    <3>1. pc[s] = "cutoff" /\ GoTo(s, "admit") /\ arm' = Proposal
      BY <1>9, <2>2 DEF Cutoff
    <3>2. arm = Review /\ pc'[s] = "admit"
      BY <3>1 DEF IndInv, TypeOK, OrderInv, GoTo, Working
    <3>3. Route(s) = Ahead["cutoff"] + 30
      BY <3>1, <3>2 DEF Route, Working
    <3>4. Route(s)' = Ahead["admit"] + 0
      BY <3>1, <3>2 DEF Route
    <3>5. /\ Ahead["cutoff"] \in Int /\ Ahead["cutoff"] >= 0
          /\ Ahead["admit"] \in Int /\ Ahead["admit"] < 30
      BY AheadOf DEF Places
    <3> QED
      BY <3>3, <3>4, <3>5
  <2> QED
    BY <2>1, <2>2
<1>10. CASE Snapshot(s) \/ Outcomes(s)
  <2>1. /\ arm' = arm
        /\ \/ pc[s] = "snapshot" /\ GoTo(s, "outcomes")
           \/ pc[s] = "outcomes" /\ GoTo(s, "record")
    BY <1>10 DEF Snapshot, Outcomes, callVars
  <2> QED
    BY <2>1, AheadBetween, Nearer DEF Places, Working, Writes, Stages
<1>11. CASE RecordOutcome(s)
  BY <1>11 DEF RecordOutcome
<1>12. CASE OutcomeRefused(s) \/ Finalized(s) \/ Abort(s)
  <2>1. arm' = arm /\ GoTo(s, "idle")
    BY <1>12 DEF OutcomeRefused, Finalized, Abort, Run, callVars
  <2>2. Ahead["idle"] < Ahead[pc[s]]
    BY AheadOf DEF IndInv, TypeOK
  <2> QED
    BY <2>1, <2>2, Nearer DEF Places, Working, Writes, Stages
<1> QED
  BY <1>1, <1>2, <1>3, <1>4, <1>5, <1>6, <1>7, <1>8, <1>9, <1>10, <1>11, <1>12 DEF Step

\* A run of the scheduler (campaign.py:130-221) goes through its places once, whatever
\* fails, and cannot go round in circles before it has finalized the window.
THEOREM GoesForward == Spec => RunsForward
<1> DEFINE Nears == \A s \in Schedulers :
                      pc[s] # "idle" /\ pc'[s] # pc[s] => Route(s)' < Route(s)
<1>1. IndInv /\ [Next]_vars => [Nears]_vars
  <2> SUFFICES ASSUME IndInv, [Next]_vars, NEW s \in Schedulers, pc[s] # "idle", pc'[s] # pc[s]
               PROVE  Route(s)' < Route(s)
    OBVIOUS
  <2>1. PICK t \in Schedulers : Step(t) \/ Abort(t)
    BY DEF Next, Tick, LandLate, vars
  <2>2. t = s
    <3>1. PICK place : pc' = [pc EXCEPT ![t] = place]
      <4>1. CASE Snapshot(t) \/ Outcomes(t) \/ OutcomeRefused(t) \/ Finalized(t) \/ Abort(t)
        BY <4>1 DEF Snapshot, Outcomes, OutcomeRefused, Finalized, Abort, Run, GoTo
      <4>2. CASE RecordOutcome(t)
        BY <4>2 DEF RecordOutcome
      <4> QED
        BY <2>1, <4>1, <4>2, Begins DEF Step, Finalize, GoTo
    <3> QED
      BY <3>1 DEF IndInv, TypeOK
  <2> QED
    BY <2>1, <2>2, RunStep
<1> QED
  BY <1>1, Inductive, PTL DEF Spec, RunsForward
=============================================================================
