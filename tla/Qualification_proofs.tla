-------------------------- MODULE Qualification_proofs --------------------------
(***************************************************************************)
(* Proofs about Qualification, for every list of workloads, every number   *)
(* of samples and every reservation.  The plan is Samples times the sum    *)
(* of the workloads' reservations; the samples made so far were charged no *)
(* more than their own reservations, a beginning of that sum.              *)
(***************************************************************************)
EXTENDS Qualification, Sums

\* What the constants are.
LEMMA Constants ==
  /\ Len(Selected) \in Nat \ {0}
  /\ \A j \in 1..Len(Selected) : Selected[j] \in Workloads /\ Ceiling[Selected[j]] \in Nat
  /\ Workloads # {}
  /\ Samples * Len(Selected) \in Nat
<1>1. Selected \in Seq(STRING) /\ Selected # <<>>
  BY SelectedType
<1>2. Len(Selected) \in Nat \ {0}
  BY <1>1
<1>3. \A j \in 1..Len(Selected) : Selected[j] \in Workloads
  BY DEF Workloads
<1>4. Workloads # {}
  <2>1. 1 \in 1..Len(Selected)
    BY <1>2
  <2> QED
    BY <1>3, <2>1
<1>5. \A w \in Workloads : Ceiling[w] \in Nat
  BY MoneyType
<1>6. Samples * Len(Selected) \in Nat
  BY <1>2, SamplesPositive
<1> QED
  BY <1>2, <1>3, <1>4, <1>5, <1>6

\* The samples' reservations are amounts, the i-th that of its workload.
LEMMA HoldsAre ==
  ASSUME NEW i \in 1..(Samples * Len(Selected))
  PROVE  /\ ((i - 1) \div Samples) + 1 \in 1..Len(Selected)
         /\ Holds[i] = Ceiling[Selected[((i - 1) \div Samples) + 1]]
         /\ Holds[i] \in Nat
<1>1. ((i - 1) \div Samples) + 1 \in 1..Len(Selected)
  BY RowOf, Constants, SamplesPositive
<1>2. Holds[i] = Ceiling[Selected[((i - 1) \div Samples) + 1]]
  BY DEF Holds
<1> QED
  BY <1>1, <1>2, Constants

\* They add up to the plan.
LEMMA HoldsAddUp ==
  SumFunctionOnSet(Holds, 1..(Samples * Len(Selected))) = Planned
<1> DEFINE f == [i \in DOMAIN Selected |-> Ceiling[Selected[i]]]
           n == Len(Selected)
<1>1. DOMAIN Selected = 1..n /\ n \in Nat
  BY SelectedType, Constants
<1>2. \A j \in 1..n : f[j] = Ceiling[Selected[j]] /\ f[j] \in Int
  BY <1>1, Constants
<1>3. \A i \in 1..(Samples * n) : Holds[i] = f[((i - 1) \div Samples) + 1]
  BY <1>2, HoldsAre
<1>4. Planned = Samples * SumFunctionOnSet(f, 1..n)
  BY <1>1 DEF Planned, SumFunction
<1> HIDE DEF f, n
<1>5. SumFunctionOnSet(Holds, 1..(Samples * n)) = Samples * SumFunctionOnSet(f, 1..n)
  BY <1>1, <1>2, <1>3, SamplesPositive, SumRepeat
<1> QED
  BY <1>4, <1>5 DEF n

\* What the first n samples may be charged is part of the plan.
LEMMA HoldsWithinPlan ==
  ASSUME NEW n \in Nat, n <= Samples * Len(Selected)
  PROVE  /\ SumFunctionOnSet(Holds, 1..n) \in Nat
         /\ SumFunctionOnSet(Holds, 1..n) <= Planned
         /\ Planned \in Nat
<1> DEFINE S == 1..(Samples * Len(Selected))
           T == 1..n
<1>1. IsFiniteSet(S) /\ IsFiniteSet(T) /\ T \subseteq S
  BY FS_Interval, Constants
<1>2. \A i \in S : Holds[i] \in Nat
  BY HoldsAre
<1>3. Planned = SumFunctionOnSet(Holds, S)
  BY HoldsAddUp
<1> HIDE DEF S, T
<1>4. SumFunctionOnSet(Holds, T) <= SumFunctionOnSet(Holds, S)
  BY <1>1, <1>2, SumSubset
<1>5. SumFunctionOnSet(Holds, T) \in Nat /\ SumFunctionOnSet(Holds, S) \in Nat
  BY <1>1, <1>2, SumNat
<1> QED
  BY <1>3, <1>4, <1>5 DEF T

\* The sample being made is one of the plan's.
LEMMA CurrentIs ==
  ASSUME TypeOK, SpentInv, Sampling
  PROVE  /\ Len(calls) \in Nat
         /\ Len(calls) + 1 \in 1..(Samples * Len(Selected))
         /\ Current \in Workloads
         /\ Ceiling[Current] \in Nat
         /\ Holds[Len(calls) + 1] = Ceiling[Current]
<1>1. Len(calls) \in Nat
  BY DEF TypeOK
<1> DEFINE n == Len(calls)
           top == Samples * Len(Selected)
<1>2. Len(Selected) * Samples = Samples * Len(Selected)
  BY Constants, SamplesPositive
<1>3. n < top /\ n \in Nat /\ top \in Nat
  BY <1>1, <1>2, Constants DEF Sampling
<1>4. Current = Selected[(n \div Samples) + 1]
  BY DEF Current
<1>5. n + 1 \in 1..top /\ (n + 1) - 1 = n
  <2> HIDE DEF n, top
  <2> QED
    BY <1>3
<1>6. /\ (n \div Samples) + 1 \in 1..Len(Selected)
      /\ Holds[n + 1] = Ceiling[Selected[(n \div Samples) + 1]]
      /\ Holds[n + 1] \in Nat
  <2> HIDE DEF n
  <2> QED
    BY <1>5, HoldsAre
<1>7. Current \in Workloads
  BY <1>4, <1>6, Constants
<1> QED
  BY <1>1, <1>4, <1>5, <1>6, <1>7

\* Whatever a sample costs within its reservation, the plan covers it.
LEMMA SampleCovered ==
  ASSUME TypeOK, SpentInv, Sampling, NEW cost \in 0..Ceiling[Current]
  PROVE  /\ charged + cost \in Nat
         /\ charged + cost <= SumFunctionOnSet(Holds, 1..(Len(calls) + 1))
         /\ charged + cost <= Planned
         /\ Planned <= planLimit
<1> DEFINE n == Len(calls)
           sum(m) == SumFunctionOnSet(Holds, 1..m)
<1>1. /\ n \in Nat /\ n + 1 \in 1..(Samples * Len(Selected))
      /\ Ceiling[Current] \in Nat /\ Holds[n + 1] = Ceiling[Current]
  BY CurrentIs
<1>2. charged \in Nat /\ charged <= sum(n) /\ Planned <= planLimit
  BY DEF TypeOK, SpentInv, Sampling
<1>3. cost \in Nat /\ cost <= Ceiling[Current]
  BY <1>1
<1> HIDE DEF n
<1>4. \A i \in 1..(n + 1) : Holds[i] \in Int
  BY <1>1, HoldsAre, Constants
<1>5. sum(n) \in Int /\ sum(n + 1) = sum(n) + Holds[n + 1]
  BY <1>1, <1>4, SumNext
<1>6. sum(n + 1) <= Planned /\ Planned \in Nat
  BY <1>1, HoldsWithinPlan, Constants
<1> HIDE DEF sum
<1>7. charged + cost \in Nat /\ charged + cost <= sum(n + 1) /\ charged + cost <= Planned
  BY <1>1, <1>2, <1>3, <1>5, <1>6
<1> QED
  BY <1>2, <1>7 DEF sum, n

-----------------------------------------------------------------------------
(* What one more observation changes.                                       *)

\* The reported cost grows by the sample's.
LEMMA ReportedNext ==
  ASSUME TypeOK, NEW o \in Observation, calls' = Append(calls, o)
  PROVE  /\ Reported \in Nat
         /\ Reported' = Reported + o.cost
<1> DEFINE n == Len(calls)
           f == [i \in DOMAIN calls |-> calls[i].cost]
           g == [i \in DOMAIN calls' |-> calls'[i].cost]
<1>1. calls \in Seq(Observation) /\ o.cost \in Nat
  BY DEF TypeOK, Observation
<1>2. /\ n \in Nat /\ DOMAIN calls = 1..n /\ DOMAIN calls' = 1..(n + 1)
      /\ \A i \in 1..n : calls'[i] = calls[i]
      /\ calls'[n + 1] = o
  BY <1>1
<1>3. \A i \in 1..n : calls[i].cost \in Nat
  <2>1. \A i \in 1..n : calls[i] \in Observation
    BY <1>1, <1>2
  <2> HIDE DEF n
  <2>2. \A c \in Observation : c.cost \in Nat
    BY DEF Observation
  <2> QED
    BY <2>1, <2>2
<1>4. /\ \A i \in 1..n : f[i] \in Nat /\ f[i] = g[i]
      /\ g[n + 1] = o.cost
      /\ \A i \in 1..(n + 1) : g[i] \in Int
  <2>1. \A i \in 1..n : f[i] \in Nat /\ f[i] = g[i]
    BY <1>2, <1>3
  <2>2. g[n + 1] = o.cost
    BY <1>2
  <2>3. \A i \in 1..(n + 1) : i \in 1..n \/ i = n + 1
    BY <1>2
  <2> HIDE DEF f, g, n
  <2>4. ASSUME NEW i \in 1..(n + 1) PROVE g[i] \in Int
    <3>1. CASE i \in 1..n
      <4>1. f[i] \in Nat /\ f[i] = g[i]
        BY <2>1, <3>1
      <4> QED
        BY <4>1
    <3>2. CASE i = n + 1
      BY <1>1, <2>2, <3>2
    <3> QED
      BY <2>3, <3>1, <3>2
  <2> QED
    BY <2>1, <2>2, <2>4
<1>5. /\ Reported = SumFunctionOnSet(f, 1..n)
      /\ Reported' = SumFunctionOnSet(g, 1..(n + 1))
  BY <1>2 DEF Reported, SumFunction
<1> HIDE DEF f, g, n
<1>6. SumFunctionOnSet(g, 1..(n + 1)) = SumFunctionOnSet(g, 1..n) + g[n + 1]
  BY <1>2, <1>4, SumNext
<1> DEFINE T == 1..n
<1>7. IsFiniteSet(T) /\ \A i \in T : f[i] \in Nat /\ f[i] = g[i]
  BY <1>2, <1>4, FS_Interval
<1> HIDE DEF T
<1>8. SumFunctionOnSet(f, T) = SumFunctionOnSet(g, T)
  BY <1>7, SumSame
<1>9. SumFunctionOnSet(f, T) \in Nat
  BY <1>7, SumNat
<1> QED
  BY <1>4, <1>5, <1>6, <1>8, <1>9 DEF T

\* A nonempty set of positions has a last one.
LEMMA LastOf ==
  ASSUME NEW n \in Nat, NEW B \in SUBSET (1..n), B # {}
  PROVE  \E i \in B : \A j \in B : j <= i
<1> DEFINE C == {n - i : i \in B}
<1>1. C \in SUBSET Nat /\ C # {}
  <2>1. \A i \in B : n - i \in Nat
    OBVIOUS
  <2>2. PICK b : b \in B
    OBVIOUS
  <2>3. n - b \in C
    BY <2>2
  <2> QED
    BY <2>1, <2>3
<1>2. PICK m \in C : \A k \in C : m <= k
  <2> HIDE DEF C
  <2> QED
    BY <1>1, LeastNat
<1>3. PICK i \in B : m = n - i
  OBVIOUS
<1>4. ASSUME NEW j \in B PROVE j <= i
  <2>1. n - j \in C
    OBVIOUS
  <2>2. n - i <= n - j
    BY <1>2, <1>3, <2>1
  <2>3. i \in 1..n /\ j \in 1..n
    OBVIOUS
  <2> HIDE DEF C
  <2> QED
    BY <2>2, <2>3
<1> QED
  BY <1>4

\* A sample that says something has the last word; another one changes nothing.
LEMMA LastSaidNext ==
  ASSUME TypeOK, NEW o \in Observation, calls' = Append(calls, o), NEW name
  PROVE  LastSaid(name)' = IF name \in DOMAIN o.seen THEN o.seen[name] ELSE LastSaid(name)
<1> DEFINE n == Len(calls)
           told == {i \in DOMAIN calls : name \in DOMAIN calls[i].seen}
           now == {i \in DOMAIN calls' : name \in DOMAIN calls'[i].seen}
           last(B) == CHOOSE i \in B : \A j \in B : j <= i
<1>1. /\ n \in Nat /\ DOMAIN calls = 1..n /\ DOMAIN calls' = 1..(n + 1)
      /\ \A i \in 1..n : calls'[i] = calls[i]
      /\ calls'[n + 1] = o
  BY DEF TypeOK
<1>2. LastSaid(name) = IF told = {} THEN "nothing" ELSE calls[last(told)].seen[name]
  BY DEF LastSaid
<1>3. LastSaid(name)' = IF now = {} THEN "nothing" ELSE calls'[last(now)].seen[name]
  BY DEF LastSaid
<1>4. \A i \in 1..(n + 1) : i \in 1..n \/ i = n + 1
  BY <1>1
<1>5. CASE name \in DOMAIN o.seen
  <2>1. n + 1 \in now /\ \A i \in now : i \in 1..(n + 1)
    BY <1>1, <1>5
  <2>2. ASSUME NEW i \in now, \A j \in now : j <= i
        PROVE  i = n + 1
    BY <1>1, <2>1, <2>2
  <2>3. \A j \in now : j <= n + 1
    BY <1>1, <2>1
  <2>4. last(now) = n + 1
    <3> HIDE DEF now
    <3> QED
      BY <2>1, <2>2, <2>3
  <2> QED
    BY <1>1, <1>3, <1>5, <2>1, <2>4
<1>6. CASE name \notin DOMAIN o.seen
  <2>1. now = told
    BY <1>1, <1>4, <1>6
  <2>2. CASE told = {}
    BY <1>2, <1>3, <1>6, <2>1, <2>2
  <2>3. CASE told # {}
    <3>1. told \in SUBSET (1..n)
      BY <1>1
    <3>2. last(told) \in told
      <4> HIDE DEF told
      <4> QED
        BY <1>1, <2>3, <3>1, LastOf
    <3>3. calls'[last(told)] = calls[last(told)]
      BY <1>1, <3>1, <3>2
    <3> HIDE DEF told, now
    <3> QED
      BY <1>2, <1>3, <1>6, <2>1, <2>3, <3>3
  <2> QED
    BY <2>2, <2>3
<1> QED
  BY <1>5, <1>6

-----------------------------------------------------------------------------
(* Headers.                                                                 *)

\* No header is a header.
LEMMA NoHeadersTyped ==
  NoHeaders \in Headers /\ NoHeaders \in MergedHeaders /\ DOMAIN NoHeaders = {}
<1>1. NoHeaders \in [{} -> {"positive", "zero"}]
  BY DEF NoHeaders
<1>2. DOMAIN NoHeaders = {}
  BY DEF NoHeaders
<1> QED
  BY <1>1, <1>2 DEF Headers, MergedHeaders

\* What one answer says.
LEMMA HeadersTyped ==
  ASSUME NEW h \in Headers
  PROVE  h \in MergedHeaders
<1> DEFINE Limits == {"remaining-requests", "remaining-tokens"}
           Hint == [n \in {"retry-after"} |-> "zero"]
<1>1. CASE h = Hint
  <2>1. {"retry-after"} \in SUBSET HeaderNames
    BY DEF HeaderNames
  <2>2. Hint \in [{"retry-after"} -> {"positive", "zero"}]
    OBVIOUS
  <2> QED
    BY <1>1, <2>1, <2>2 DEF MergedHeaders
<1>2. CASE \E names \in SUBSET Limits : h \in [names -> {"positive", "zero"}]
  <2>1. SUBSET Limits \subseteq SUBSET HeaderNames
    BY DEF HeaderNames
  <2>2. PICK names \in SUBSET Limits : h \in [names -> {"positive", "zero"}]
    BY <1>2
  <2>3. names \in SUBSET HeaderNames
    BY <2>1
  <2> HIDE DEF Limits, Hint
  <2> QED
    BY <2>2, <2>3 DEF MergedHeaders
<1>3. \/ h = Hint
      \/ \E names \in SUBSET Limits : h \in [names -> {"positive", "zero"}]
  BY DEF Headers
<1> QED
  BY <1>1, <1>2, <1>3

\* A merged answer speaks of both answers' names, and the new one is believed.
LEMMA MergeTyped ==
  ASSUME NEW old \in MergedHeaders, NEW new \in MergedHeaders
  PROVE  /\ Merge(old, new) \in MergedHeaders
         /\ DOMAIN Merge(old, new) = DOMAIN old \cup DOMAIN new
         /\ \A n \in DOMAIN Merge(old, new) :
              Merge(old, new)[n] = IF n \in DOMAIN new THEN new[n] ELSE old[n]
<1>1. PICK names \in SUBSET HeaderNames : old \in [names -> {"positive", "zero"}]
  BY DEF MergedHeaders
<1>2. PICK names2 \in SUBSET HeaderNames : new \in [names2 -> {"positive", "zero"}]
  BY DEF MergedHeaders
<1> DEFINE all == names \cup names2
<1>3. DOMAIN old = names /\ DOMAIN new = names2
  BY <1>1, <1>2
<1>4. Merge(old, new) \in [all -> {"positive", "zero"}]
  BY <1>1, <1>2, <1>3 DEF Merge
<1>5. all \in SUBSET HeaderNames
  OBVIOUS
<1>6. Merge(old, new) \in MergedHeaders
  BY <1>4, <1>5 DEF MergedHeaders
<1> QED
  BY <1>6 DEF Merge

\* An answer without headers changes nothing.
LEMMA MergeNone ==
  ASSUME NEW old \in MergedHeaders
  PROVE  Merge(old, NoHeaders) = old
<1>1. PICK names \in SUBSET HeaderNames : old \in [names -> {"positive", "zero"}]
  BY DEF MergedHeaders
<1> QED
  BY <1>1, NoHeadersTyped DEF Merge

-----------------------------------------------------------------------------
(* The invariant.                                                           *)

\* What a run does not touch when it makes a sample.
Sampled(o, cost) ==
  /\ calls' = Append(calls, o)
  /\ charged' = charged + cost
  /\ UNCHANGED <<keys, planLimit, phase, quotas, report>>

\* A sample keeps the spending within the plan.
LEMMA SampleSpends ==
  ASSUME TypeOK, SpentInv, Sampling, NEW o \in Observation,
         NEW cost \in 0..Ceiling[Current], Sampled(o, cost)
  PROVE  SpentInv'
<1>1. phase = "run" /\ phase' = "run" /\ planLimit' = planLimit
  BY DEF Sampling, Sampled
<1>2. Len(calls) \in Nat /\ Len(calls) + 1 \in 1..(Samples * Len(Selected))
  BY CurrentIs
<1>3. calls' = Append(calls, o) /\ charged' = charged + cost
  BY DEF Sampled
<1>4. Len(calls') = Len(calls) + 1
  BY <1>3 DEF TypeOK
<1>5. Len(calls') <= Samples * Len(Selected)
  BY <1>2, <1>4, Constants
<1>6. /\ charged' <= SumFunctionOnSet(Holds, 1..Len(calls'))
      /\ charged' <= Planned
      /\ Planned <= planLimit
  BY <1>3, <1>4, SampleCovered
<1> QED
  BY <1>1, <1>5, <1>6 DEF SpentInv, Planned

\* A sample that is charged what it reports, or fails, keeps the account.
LEMMA SampleAccounts ==
  ASSUME TypeOK, CallsInv, Sampling, NEW o \in Observation,
         NEW cost \in Nat, Sampled(o, cost),
         o.status = "FAIL" => ProviderOf[o.workload] \in keys,
         o.status # "FAIL" => cost = o.cost
  PROVE  CallsInv'
<1>1. phase = "run" /\ phase' = "run" /\ keys' = keys /\ charged' = charged + cost
      /\ calls' = Append(calls, o)
  BY DEF Sampling, Sampled
<1> DEFINE n == Len(calls)
<1>2. /\ n \in Nat /\ DOMAIN calls = 1..n /\ DOMAIN calls' = 1..(n + 1)
      /\ \A i \in 1..n : calls'[i] = calls[i]
      /\ calls'[n + 1] = o
  BY <1>1 DEF TypeOK
<1>3. \A i \in 1..(n + 1) : i \in 1..n \/ i = n + 1
  BY <1>2
<1>4. \A i \in DOMAIN calls' :
        calls'[i].status = "FAIL" => ProviderOf[calls'[i].workload] \in keys
  BY <1>2, <1>3 DEF CallsInv
<1>5. ASSUME \A i \in DOMAIN calls' : calls'[i].status # "FAIL"
      PROVE  charged' = Reported'
  <2>1. n + 1 \in 1..(n + 1) /\ \A i \in 1..n : i \in 1..(n + 1)
    BY <1>2
  <2>2. o.status # "FAIL" /\ \A i \in DOMAIN calls : calls[i].status # "FAIL"
    BY <1>2, <1>5, <2>1
  <2>3. charged = Reported /\ cost = o.cost
    BY <1>1, <2>2 DEF CallsInv
  <2> QED
    BY <1>1, <2>3, ReportedNext
<1> QED
  BY <1>1, <1>4, <1>5 DEF CallsInv

\* A sample keeps the types.
LEMMA SampleTyped ==
  ASSUME TypeOK, Sampling, SpentInv, NEW o \in Observation,
         NEW cost \in 0..Ceiling[Current], Sampled(o, cost),
         headers' \in MergedHeaders
  PROVE  TypeOK'
<1>1. charged' \in Nat
  BY SampleCovered DEF Sampled
<1>2. calls' \in Seq(Observation)
  BY DEF Sampled, TypeOK
<1> QED
  BY <1>1, <1>2 DEF Sampled, TypeOK

\* Before there is a report, nothing is said of it.
LEMMA SaysNothing ==
  ASSUME NoReportInv, phase # "reported", report' = report, phase' # "reported"
  PROVE  NoReportInv' /\ PassAccountsForAll' /\ FailuresFail' /\ QuotaIsCurrent'
  BY DEF NoReportInv, NoReport, PassAccountsForAll, FailuresFail, QuotaIsCurrent

\* Whatever is not touched stays true.
LEMMA CallsKept ==
  ASSUME CallsInv, HeadersInv, UNCHANGED <<keys, charged, headers, calls>>,
         phase' = "run" => phase = "run"
  PROVE  CallsInv' /\ HeadersInv'
<1>1. Reported' = Reported
  BY DEF Reported
<1>2. ASSUME NEW name PROVE LastSaid(name)' = LastSaid(name)
  BY DEF LastSaid
<1>3. CallsInv'
  BY <1>1 DEF CallsInv
<1>4. HeadersInv'
  BY <1>2 DEF HeadersInv
<1> QED
  BY <1>3, <1>4

\* The invariant holds before anything was done.
THEOREM InitInductive == Init => IndInv
<1> SUFFICES ASSUME Init PROVE IndInv
  OBVIOUS
<1> USE DEF Init
<1>1. TypeOK
  BY NoHeadersTyped, MoneyType DEF TypeOK
<1>2. SpentInv
  BY Constants DEF SpentInv
<1>3. CallsInv
  BY DEF CallsInv
<1>4. HeadersInv
  <2>1. ASSUME NEW name PROVE LastSaid(name) = "nothing"
    BY DEF LastSaid
  <2> QED
    BY <2>1, NoHeadersTyped DEF HeadersInv
<1>5. NoReportInv /\ PassAccountsForAll /\ FailuresFail /\ QuotaIsCurrent
  BY DEF NoReportInv, NoReport, PassAccountsForAll, FailuresFail, QuotaIsCurrent
<1> QED
  BY <1>1, <1>2, <1>3, <1>4, <1>5 DEF IndInv

\* A plan within the limit may be run, and nothing is charged yet.
LEMMA StepPlan == IndInv /\ Plan => IndInv'
<1> SUFFICES ASSUME IndInv, Plan PROVE IndInv'
  OBVIOUS
<1>0. TypeOK /\ SpentInv /\ CallsInv /\ HeadersInv /\ NoReportInv
  BY DEF IndInv
<1>1. /\ phase = "plan"
      /\ phase' = IF Planned > planLimit THEN "refused" ELSE "run"
      /\ UNCHANGED <<keys, planLimit, quotas, headers, calls, charged, report>>
  BY DEF Plan
<1>2. TypeOK'
  BY <1>0, <1>1 DEF TypeOK
<1>3. calls = <<>> /\ charged = 0
  BY <1>0, <1>1 DEF SpentInv
<1>4. Len(calls') = 0 /\ 1..Len(calls') = {} /\ DOMAIN calls' = {}
  BY <1>1, <1>3
<1>5. SpentInv'
  <2>1. SumFunctionOnSet(Holds, 1..Len(calls')) = 0
    BY <1>4, SumEmpty
  <2>2. Planned \in Nat /\ planLimit \in Nat
    BY <1>0, HoldsWithinPlan, Constants DEF TypeOK
  <2>3. phase' = "run" => Planned <= planLimit
    BY <1>1, <2>2
  <2>4. 0 <= Samples * Len(Selected)
    BY Constants
  <2> QED
    BY <1>1, <1>3, <1>4, <2>1, <2>2, <2>3, <2>4 DEF SpentInv, Planned
<1>6. CallsInv'
  <2>1. Reported' = SumFunctionOnSet([i \in DOMAIN calls' |-> calls'[i].cost], {})
    BY <1>4 DEF Reported, SumFunction
  <2>2. Reported' = 0
    BY <2>1, SumEmpty
  <2> QED
    BY <1>1, <1>3, <1>4, <2>2 DEF CallsInv
<1>7. HeadersInv'
  <2>1. ASSUME NEW name PROVE LastSaid(name)' = LastSaid(name)
    BY <1>1 DEF LastSaid
  <2> QED
    BY <1>0, <1>1, <2>1 DEF HeadersInv
<1>8. NoReportInv' /\ PassAccountsForAll' /\ FailuresFail' /\ QuotaIsCurrent'
  BY <1>0, <1>1, SaysNothing
<1> QED
  BY <1>2, <1>5, <1>6, <1>7, <1>8 DEF IndInv

\* A quota observation changes no amount and no call.
LEMMA StepPreflight ==
  ASSUME IndInv, NEW p \in Providers, Preflight(p)
  PROVE  IndInv'
<1>0. TypeOK /\ SpentInv /\ CallsInv /\ HeadersInv /\ NoReportInv
  BY DEF IndInv
<1>1. /\ phase = "run"
      /\ UNCHANGED <<keys, planLimit, phase, headers, calls, charged, report>>
      /\ \E status \in Statuses : quotas' = [quotas EXCEPT ![p] = status]
  BY DEF Preflight, Statuses
<1>2. TypeOK'
  BY <1>0, <1>1 DEF TypeOK
<1>3. SpentInv'
  BY <1>0, <1>1 DEF SpentInv, Planned
<1>4. CallsInv' /\ HeadersInv'
  BY <1>0, <1>1, CallsKept
<1>5. NoReportInv' /\ PassAccountsForAll' /\ FailuresFail' /\ QuotaIsCurrent'
  BY <1>0, <1>1, SaysNothing
<1> QED
  BY <1>2, <1>3, <1>4, <1>5 DEF IndInv

\* What the three kinds of samples have in common.
LEMMA StepSample ==
  ASSUME IndInv, Sampling, NEW o \in Observation, NEW cost \in 0..Ceiling[Current],
         Sampled(o, cost),
         o.status = "FAIL" => ProviderOf[o.workload] \in keys,
         o.status # "FAIL" => cost = o.cost,
         headers' = Merge(headers, o.seen)
  PROVE  IndInv'
<1>0. TypeOK /\ SpentInv /\ CallsInv /\ HeadersInv /\ NoReportInv
  BY DEF IndInv
<1>1. cost \in Nat
  BY <1>0, CurrentIs
<1>2. headers \in MergedHeaders /\ o.seen \in MergedHeaders
  BY <1>0, HeadersTyped DEF TypeOK, Observation
<1>3. /\ headers' \in MergedHeaders
      /\ DOMAIN headers' = DOMAIN headers \cup DOMAIN o.seen
      /\ \A name \in DOMAIN headers' :
           headers'[name] = IF name \in DOMAIN o.seen THEN o.seen[name] ELSE headers[name]
  <2> DEFINE seen == o.seen
             merged == Merge(headers, seen)
  <2>1. seen \in MergedHeaders /\ headers \in MergedHeaders /\ headers' = merged
    BY <1>2
  <2> HIDE DEF seen
  <2>2. /\ merged \in MergedHeaders
        /\ DOMAIN merged = DOMAIN headers \cup DOMAIN seen
        /\ \A name \in DOMAIN merged :
             merged[name] = IF name \in DOMAIN seen THEN seen[name] ELSE headers[name]
    BY <2>1, MergeTyped
  <2> HIDE DEF merged
  <2> QED
    BY <2>1, <2>2 DEF seen
<1>4. TypeOK'
  BY <1>0, <1>3, SampleTyped
<1>5. SpentInv'
  BY <1>0, SampleSpends
<1>6. CallsInv'
  BY <1>0, <1>1, SampleAccounts
<1>7. HeadersInv'
  <2> SUFFICES ASSUME NEW name \in HeaderNames
               PROVE  LastSaid(name)' = IF name \in DOMAIN headers' THEN headers'[name]
                                                                    ELSE "nothing"
    BY DEF HeadersInv
  <2>1. LastSaid(name) = IF name \in DOMAIN headers THEN headers[name] ELSE "nothing"
    BY <1>0 DEF HeadersInv
  <2>2. LastSaid(name)' = IF name \in DOMAIN o.seen THEN o.seen[name] ELSE LastSaid(name)
    BY <1>0, LastSaidNext DEF Sampled
  <2> QED
    BY <1>3, <2>1, <2>2
<1>8. NoReportInv' /\ PassAccountsForAll' /\ FailuresFail' /\ QuotaIsCurrent'
  BY <1>0, SaysNothing DEF Sampling, Sampled
<1> QED
  BY <1>4, <1>5, <1>6, <1>7, <1>8 DEF IndInv

\* A workload without a key costs nothing and says nothing.
LEMMA StepSkip == IndInv /\ Skip => IndInv'
<1> SUFFICES ASSUME IndInv, Skip PROVE IndInv'
  OBVIOUS
<1> DEFINE o == [workload |-> Current, status |-> "BLOCKED", cost |-> 0,
                 model |-> "none", seen |-> NoHeaders]
<1>1. Sampling /\ calls' = Append(calls, o) /\ headers' = headers
      /\ UNCHANGED <<keys, planLimit, phase, quotas, charged, report>>
  BY DEF Skip, Observe
<1>2. TypeOK /\ SpentInv /\ charged \in Nat
  BY DEF IndInv, TypeOK
<1>3. Current \in Workloads /\ 0 \in 0..Ceiling[Current]
  BY <1>1, <1>2, CurrentIs
<1>4. o \in Observation
  BY <1>3, NoHeadersTyped DEF Observation, Statuses
<1>5. Sampled(o, 0)
  BY <1>1, <1>2 DEF Sampled
<1>6. headers' = Merge(headers, o.seen)
  <2>1. headers \in MergedHeaders
    BY DEF IndInv, TypeOK
  <2> QED
    BY <1>1, <2>1, MergeNone
<1>7. o.status = "BLOCKED" /\ o.cost = 0
  OBVIOUS
<1> HIDE DEF o
<1> QED
  BY <1>1, <1>3, <1>4, <1>5, <1>6, <1>7, StepSample

\* A valid sample is reported at what it was charged.
LEMMA StepValid == IndInv /\ Valid => IndInv'
<1> SUFFICES ASSUME IndInv, Valid PROVE IndInv'
  OBVIOUS
<1>1. PICK cost \in 1..Ceiling[Current], model \in Models :
        \E seen \in IF ProviderOf[Current] = OpenAI THEN Headers ELSE {NoHeaders} :
          /\ Observe("PASS", cost, model, seen)
          /\ headers' = Merge(headers, seen)
          /\ charged' = charged + cost
  BY DEF Valid
<1>2. PICK seen \in Headers :
        /\ Observe("PASS", cost, model, seen)
        /\ headers' = Merge(headers, seen)
        /\ charged' = charged + cost
  BY <1>1, NoHeadersTyped
<1> DEFINE o == [workload |-> Current, status |-> "PASS", cost |-> cost,
                 model |-> model, seen |-> seen]
<1>3. Sampling /\ Sampled(o, cost)
  BY <1>2 DEF Valid, Observe, Sampled
<1>4. TypeOK /\ SpentInv
  BY DEF IndInv
<1>5. Current \in Workloads /\ Ceiling[Current] \in Nat
  BY <1>3, <1>4, CurrentIs
<1>6. cost \in 0..Ceiling[Current] /\ cost \in Nat
  BY <1>5
<1>7. o \in Observation
  BY <1>5, <1>6 DEF Observation, Statuses
<1>8. headers' = Merge(headers, o.seen)
  BY <1>2
<1>9. o.status = "PASS" /\ o.cost = cost
  OBVIOUS
<1> HIDE DEF o
<1> QED
  BY <1>3, <1>6, <1>7, <1>8, <1>9, StepSample

\* A failed sample is charged within its reservation and reported at zero.
LEMMA StepFailed == IndInv /\ Failed => IndInv'
<1> SUFFICES ASSUME IndInv, Failed PROVE IndInv'
  OBVIOUS
<1> DEFINE o == [workload |-> Current, status |-> "FAIL", cost |-> 0,
                 model |-> "none", seen |-> NoHeaders]
<1>1. PICK cost \in 0..Ceiling[Current] : charged' = charged + cost
  BY DEF Failed
<1>2. Sampling /\ calls' = Append(calls, o) /\ headers' = headers
      /\ ProviderOf[Current] \in keys
      /\ UNCHANGED <<keys, planLimit, phase, quotas, report>>
  BY DEF Failed, Observe
<1>3. TypeOK /\ SpentInv
  BY DEF IndInv
<1>4. Current \in Workloads
  BY <1>2, <1>3, CurrentIs
<1>5. o \in Observation
  BY <1>4, NoHeadersTyped DEF Observation, Statuses
<1>6. Sampled(o, cost)
  BY <1>1, <1>2 DEF Sampled
<1>7. headers' = Merge(headers, o.seen)
  <2>1. headers \in MergedHeaders
    BY DEF IndInv, TypeOK
  <2> QED
    BY <1>2, <2>1, MergeNone
<1>8. o.status = "FAIL" /\ o.workload = Current
  OBVIOUS
<1> HIDE DEF o
<1> QED
  BY <1>2, <1>5, <1>6, <1>7, <1>8, StepSample

\* A sample interrupted after its charge is covered by the plan all the same.
LEMMA StepInterrupt == IndInv /\ Interrupt => IndInv'
<1> SUFFICES ASSUME IndInv, Interrupt PROVE IndInv'
  OBVIOUS
<1>0. TypeOK /\ SpentInv /\ CallsInv /\ HeadersInv /\ NoReportInv
  BY DEF IndInv
<1>1. /\ phase = "run" /\ phase' = "interrupted"
      /\ UNCHANGED <<keys, planLimit, quotas, headers, calls, report>>
  BY DEF Interrupt
<1>2. charged \in Nat /\ charged <= Planned /\ Planned <= planLimit
  BY <1>0, <1>1 DEF SpentInv, TypeOK
<1>3. charged' \in Nat /\ charged' <= Planned
  <2>1. CASE Sampling /\ ProviderOf[Current] \in keys
    <3>1. PICK cost \in 0..Ceiling[Current] : charged' = charged + cost
      BY <2>1 DEF Interrupt
    <3> QED
      BY <1>0, <2>1, <3>1, SampleCovered
  <2>2. CASE ~ (Sampling /\ ProviderOf[Current] \in keys)
    <3>1. charged' = charged + 0
      BY <2>2 DEF Interrupt
    <3> QED
      BY <1>2, <3>1
  <2> QED
    BY <2>1, <2>2
<1>4. TypeOK'
  BY <1>0, <1>1, <1>3 DEF TypeOK
<1>5. SpentInv'
  BY <1>0, <1>1, <1>2, <1>3 DEF SpentInv, Planned
<1>6. CallsInv' /\ HeadersInv'
  <2>1. ASSUME NEW name PROVE LastSaid(name)' = LastSaid(name)
    BY <1>1 DEF LastSaid
  <2> QED
    BY <1>0, <1>1, <2>1 DEF CallsInv, HeadersInv
<1>7. NoReportInv' /\ PassAccountsForAll' /\ FailuresFail' /\ QuotaIsCurrent'
  BY <1>0, <1>1, SaysNothing
<1> QED
  BY <1>4, <1>5, <1>6, <1>7 DEF IndInv

-----------------------------------------------------------------------------
(* The report.                                                              *)

\* A run passes only if every workload does.
LEMMA OverallPasses ==
  ASSUME NEW statuses, Overall(statuses) = "PASS"
  PROVE  "FAIL" \notin statuses /\ "BLOCKED" \notin statuses
  BY DEF Overall

\* A workload one of whose calls did not pass is no pass.
LEMMA SummaryPasses ==
  ASSUME NEW w, NEW slow, Summary(w, slow) = "PASS", NEW i \in CallsOf(w)
  PROVE  calls[i].status = "PASS"
<1>1. Reasons(w, slow) = {}
  BY DEF Summary
<1>2. PassesOf(w) = CallsOf(w)
  BY <1>1 DEF Reasons
<1> QED
  BY <1>2 DEF PassesOf

\* A workload whose key was there and one of whose calls failed is a failure.
LEMMA SummaryFails ==
  ASSUME NEW w, NEW slow, ProviderOf[w] \in keys,
         NEW i \in CallsOf(w), calls[i].status = "FAIL"
  PROVE  Summary(w, slow) = "FAIL"
<1>1. PassesOf(w) # CallsOf(w)
  BY DEF PassesOf
<1>2. "availability_below_threshold" \in Reasons(w, slow)
  BY <1>1 DEF Reasons
<1>3. "provider_key_missing" \notin Reasons(w, slow)
  BY DEF Reasons
<1> QED
  BY <1>2, <1>3 DEF Summary, KeyMissing

\* The report: a PASS has no failed call behind it, a failed call makes a FAIL,
\* and the quota of OpenAI is that of the latest word on every limit.
LEMMA StepReport == IndInv /\ Report => IndInv'
<1> SUFFICES ASSUME IndInv, Report PROVE IndInv'
  OBVIOUS
<1>0. TypeOK /\ SpentInv /\ CallsInv /\ HeadersInv /\ NoReportInv
  BY DEF IndInv
<1>1. /\ phase = "run" /\ phase' = "reported"
      /\ UNCHANGED <<keys, planLimit, quotas, headers, calls, charged>>
  BY DEF Report
<1>2. PICK slow \in SUBSET Workloads :
        report' = [status |-> Overall({IF Reported > MaxTotal THEN "FAIL" ELSE Summary(w, slow) :
                                         w \in Workloads}
                                      \cup {Quota(p) : p \in Providers}),
                   quotas |-> [p \in Providers |-> Quota(p)], cost |-> Reported]
  <2>1. PICK slow \in SUBSET Workloads :
       LET summaries == [w \in Workloads |->
             IF Reported > MaxTotal THEN "FAIL" ELSE Summary(w, slow)]
           final == [p \in Providers |-> Quota(p)]
       IN  report' = [status |-> Overall({summaries[w] : w \in Workloads}
                                         \cup {final[p] : p \in Providers}),
                      quotas |-> final, cost |-> Reported]
    BY DEF Report
  <2> DEFINE summaries == [w \in Workloads |->
             IF Reported > MaxTotal THEN "FAIL" ELSE Summary(w, slow)]
             final == [p \in Providers |-> Quota(p)]
  <2>2. {summaries[w] : w \in Workloads}
          = {IF Reported > MaxTotal THEN "FAIL" ELSE Summary(w, slow) : w \in Workloads}
    OBVIOUS
  <2>3. {final[p] : p \in Providers} = {Quota(p) : p \in Providers}
    OBVIOUS
  <2> HIDE DEF summaries
  <2> QED
    BY <2>1, <2>2, <2>3 DEF summaries
<1> DEFINE statuses == {IF Reported > MaxTotal THEN "FAIL" ELSE Summary(w, slow) :
                          w \in Workloads} \cup {Quota(p) : p \in Providers}
<1>3. report'.status = Overall(statuses) /\ report'.cost = Reported
      /\ report'.quotas = [p \in Providers |-> Quota(p)]
  BY <1>2
<1>4. \A i \in DOMAIN calls : calls[i].workload \in Workloads /\ i \in CallsOf(calls[i].workload)
  <2>1. \A i \in DOMAIN calls : calls[i] \in Observation
    BY <1>0 DEF TypeOK
  <2> QED
    BY <2>1 DEF Observation, CallsOf
<1>5. TypeOK'
  BY <1>0, <1>1 DEF TypeOK
<1>6. SpentInv'
  BY <1>0, <1>1 DEF SpentInv, Planned
<1>7. CallsInv' /\ HeadersInv'
  BY <1>0, <1>1, CallsKept
<1>8. NoReportInv'
  BY <1>1 DEF NoReportInv
<1>9. PassAccountsForAll'
  <2> SUFFICES ASSUME Overall(statuses) = "PASS"
               PROVE  Reported = charged /\ charged <= MaxTotal
    BY <1>1, <1>3 DEF PassAccountsForAll
  <2>1. "FAIL" \notin statuses /\ "BLOCKED" \notin statuses
    <3> HIDE DEF statuses
    <3> QED
      BY OverallPasses
  <2>2. ASSUME NEW w \in Workloads PROVE ~ (Reported > MaxTotal) /\ Summary(w, slow) = "PASS"
    <3>1. (IF Reported > MaxTotal THEN "FAIL" ELSE Summary(w, slow)) \in statuses
      OBVIOUS
    <3>2. Summary(w, slow) \in {"PASS", "BLOCKED", "FAIL"}
      BY DEF Summary
    <3> HIDE DEF statuses
    <3> QED
      BY <2>1, <3>1, <3>2
  <2>3. \A i \in DOMAIN calls : calls[i].status = "PASS"
    BY <1>4, <2>2, SummaryPasses
  <2>4. charged = Reported
    BY <1>0, <1>1, <2>3 DEF CallsInv
  <2>5. ~ (Reported > MaxTotal)
    BY <2>2, Constants
  <2>6. charged \in Nat /\ MaxTotal \in Nat
    BY <1>0, MoneyType DEF TypeOK
  <2> QED
    BY <2>4, <2>5, <2>6
<1>10. FailuresFail'
  <2> SUFFICES ASSUME NEW i \in DOMAIN calls, calls[i].status = "FAIL"
               PROVE  Overall(statuses) = "FAIL"
    BY <1>1, <1>3 DEF FailuresFail
  <2> DEFINE w == calls[i].workload
  <2>1. w \in Workloads /\ i \in CallsOf(w)
    BY <1>4
  <2>2. ProviderOf[w] \in keys
    BY <1>0 DEF CallsInv
  <2>3. Summary(w, slow) = "FAIL"
    BY <2>1, <2>2, SummaryFails
  <2>4. "FAIL" \in statuses
    <3>1. (IF Reported > MaxTotal THEN "FAIL" ELSE Summary(w, slow)) \in statuses
      BY <2>1
    <3> HIDE DEF statuses, w
    <3> QED
      BY <2>3, <3>1
  <2> HIDE DEF statuses
  <2> QED
    BY <2>4 DEF Overall
<1>11. QuotaIsCurrent'
  <2>1. ASSUME NEW name PROVE LastSaid(name)' = LastSaid(name)
    BY <1>1 DEF LastSaid
  <2> SUFFICES ASSUME OpenAI \in Providers, headers # NoHeaders, Quota(OpenAI) = "PASS"
               PROVE  /\ LastSaid("remaining-requests") = "positive"
                      /\ LastSaid("remaining-tokens") # "zero"
                      /\ LastSaid("retry-after") = "nothing"
    BY <1>1, <1>3, <2>1 DEF QuotaIsCurrent
  <2>2. Positive(headers)
    BY DEF Quota
  <2>3. \A name \in HeaderNames :
          LastSaid(name) = IF name \in DOMAIN headers THEN headers[name] ELSE "nothing"
    BY <1>0 DEF HeadersInv
  <2> QED
    BY <2>2, <2>3 DEF Positive, HeaderNames
<1> QED
  BY <1>5, <1>6, <1>7, <1>8, <1>9, <1>10, <1>11 DEF IndInv

\* Every step of the run keeps the invariant.
THEOREM StepInductive == IndInv /\ [Next]_vars => IndInv'
<1> SUFFICES ASSUME IndInv, [Next]_vars PROVE IndInv'
  OBVIOUS
<1>1. CASE UNCHANGED vars
  <2>1. ASSUME NEW name PROVE LastSaid(name)' = LastSaid(name)
    BY <1>1 DEF LastSaid, vars
  <2> QED
    BY <1>1, <2>1 DEF IndInv, vars, TypeOK, SpentInv, CallsInv, HeadersInv, NoReportInv,
                      Reported, Planned, PassAccountsForAll, FailuresFail, QuotaIsCurrent
<1> QED
  BY <1>1, StepPlan, StepSkip, StepValid, StepFailed, StepReport, StepInterrupt,
     StepPreflight DEF Next

\* The invariant holds throughout a run.
THEOREM Inductive == Spec => []IndInv
  BY InitInductive, StepInductive, PTL DEF Spec

\* Every variable keeps its type.
THEOREM TypeCorrect == Spec => []TypeOK
<1>1. IndInv => TypeOK
  BY DEF IndInv
<1> QED
  BY <1>1, Inductive, PTL

\* _validate_total_budget: a run is never charged more than its caller allowed,
\* whatever fails, repeats or is interrupted.
THEOREM PlanKept == Spec => []SpendWithinPlan
<1>1. IndInv => SpendWithinPlan
  <2> SUFFICES ASSUME IndInv PROVE charged <= planLimit
    BY DEF SpendWithinPlan
  <2>1. charged \in Nat /\ planLimit \in Nat /\ Planned \in Nat
    BY HoldsWithinPlan, Constants DEF IndInv, TypeOK
  <2> QED
    BY <2>1 DEF IndInv, SpentInv
<1> QED
  BY <1>1, Inductive, PTL

\* A PASS report accounts for all that was charged, though failed calls are
\* reported at zero, and it is within the policy.
THEOREM PassAccounts == Spec => []PassAccountsForAll
<1>1. IndInv => PassAccountsForAll
  BY DEF IndInv
<1> QED
  BY <1>1, Inductive, PTL

\* A run that lost a paid sample is reported as a FAIL.
THEOREM LostSamplesFail == Spec => []FailuresFail
<1>1. IndInv => FailuresFail
  BY DEF IndInv
<1> QED
  BY <1>1, Inductive, PTL

\* The quota of OpenAI passes only on the latest word on every limit.
THEOREM QuotaCurrent == Spec => []QuotaIsCurrent
<1>1. IndInv => QuotaIsCurrent
  BY DEF IndInv
<1> QED
  BY <1>1, Inductive, PTL
=============================================================================
