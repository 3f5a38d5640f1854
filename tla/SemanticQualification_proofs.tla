--------------------- MODULE SemanticQualification_proofs ---------------------
(***************************************************************************)
(* For every set of processes that are given one output path, every list   *)
(* of cases and every number of power failures: one run pays at most, its  *)
(* receipts explain what it paid, and the report is whole.                 *)
(***************************************************************************)
EXTENDS SemanticQualification, Sums, SequenceTheorems

\* The length of the list is a positive natural number.
LEMMA SomeCases == Len(WorkloadOf) \in Nat /\ Len(WorkloadOf) > 0
  BY CasesType, EmptySeq

\* Writing the report touches neither the folder nor the ledger.
LEMMA ReportStep ==
  ASSUME IndInv, NEW w \in Writers, WriteReport(w), UNCHANGED <<seen, receipts, ledger, losses>>
  PROVE  IndInv'
<1>1. PICK place \in {"refused", "write", "replace", "failed", "reported"} :
        pc' = [pc EXCEPT ![w] = place]
  BY DEF WriteReport, TestTarget, WriteTemporary, WriteReportFails, Replace, GoTo
<1>2. UNCHANGED <<folder, plan, receipt, seen, sent, charged>>
  BY DEF receipts, ledger
<1>3. \A r \in Runs : pc'[r] = pc[r] \/ pc'[r] \in {"refused", "write", "replace", "failed", "reported"}
  BY <1>1, RunsAreWriters DEF IndInv, TypeOK
<1>4. TypeOK'
  BY <1>1, <1>2 DEF IndInv, TypeOK, Places, Running
<1>5. FolderInv'
  BY <1>2, <1>3 DEF IndInv, FolderInv, Admitted
<1>6. ReceiptInv'
  BY <1>2, <1>3 DEF IndInv, ReceiptInv, SeenOK, ReceiptsOK
<1> QED
  BY <1>4, <1>5, <1>6 DEF IndInv

-----------------------------------------------------------------------------
(* The steps of a run, conjunct by conjunct. *)

\* What a run observes of its case costs what was charged, or it does not know;
\* what it does not call a failure is what the one backend of its workload charged.
LEMMA Observed ==
  ASSUME IndInv, NEW r \in Runs, Raised(r) \/ Invalid(r) \/ Answered(r)
  PROVE  \E o \in Observation :
           /\ seen' = [seen EXCEPT ![r] = Append(@, o)]
           /\ o.cost \in {Unknown, charged[r][sent[r]]}
           /\ o.failed \/ o.cost = charged[r][sent[r]]
           /\ o.failed <=> o.model = "none"
           /\ o.status = "PASS" => ~o.failed
           /\ ~o.failed => SameBackend(r, o.model)
<1> DEFINE Obs(status, failed, cost, model) ==
      [status |-> status, failed |-> failed, cost |-> cost, model |-> model]
           Told(status, failed, cost, model) ==
             /\ failed \/ cost = Cost(r)
             /\ failed <=> model = "none"
             /\ status = "PASS" => ~failed
             /\ ~failed => SameBackend(r, model)
<1>1. Cost(r) \in Nat /\ Cost(r) = charged[r][sent[r]]
  <2>1. pc[r] = "reply"
    BY DEF Raised, Invalid, Answered, Observe
  <2>2. sent[r] \in Cases
    BY <2>1, SomeCases DEF IndInv, FolderInv, TypeOK, Cases
  <2> QED
    BY <2>2 DEF IndInv, TypeOK, Cost
<1>2. \E status \in {"PASS", "FAIL"}, failed \in BOOLEAN, cost \in {Unknown, Cost(r)},
         model \in Models \cup {"none"} :
           Observe(r, status, failed, cost, model) /\ Told(status, failed, cost, model)
  <2>1. CASE Raised(r)
    BY <2>1 DEF Raised
  <2>2. CASE Invalid(r)
    BY <2>2 DEF Invalid
  <2>3. CASE Answered(r)
    <3>1. PICK model \in Models :
            \/ /\ SameBackend(r, model)
               /\ \E status \in {"PASS", "FAIL"} : Observe(r, status, FALSE, Cost(r), model)
            \/ Observe(r, "FAIL", TRUE, Cost(r), "none")
      BY <2>3 DEF Answered
    <3>2. model # "none"
      BY DEF Models
    <3> QED
      BY <3>1, <3>2
  <2> QED
    BY <2>1, <2>2, <2>3
<1>3. PICK status \in {"PASS", "FAIL"}, failed \in BOOLEAN, cost \in {Unknown, Cost(r)},
           model \in Models \cup {"none"} :
             Observe(r, status, failed, cost, model) /\ Told(status, failed, cost, model)
  BY <1>2
<1>4. Obs(status, failed, cost, model) \in Observation
  BY <1>1 DEF Observation, Unknown
<1>5. seen' = [seen EXCEPT ![r] = Append(@, Obs(status, failed, cost, model))]
  BY <1>3 DEF Observe
<1> QED
  BY <1>1, <1>3, <1>4, <1>5

\* A run that writes a receipt has an observation to write.
LEMMA SeenLast ==
  ASSUME IndInv, NEW r \in Runs, pc[r] = "receipt" PROVE seen[r][sent[r]] \in Observation
<1>1. Len(seen[r]) = sent[r] /\ sent[r] > 0 /\ sent[r] \in Nat /\ seen[r] \in Seq(Observation)
  BY SomeCases DEF IndInv, TypeOK, FolderInv, ReceiptInv, SeenOK
<1>2. sent[r] \in 1..Len(seen[r])
  BY <1>1
<1> QED
  BY <1>1, <1>2, ElementOfSeq

\* A run that ends keeps the types.
LEMMA CutType ==
  ASSUME IndInv, NEW r \in Runs, NEW place \in {"failed", "dead"}, GoTo(r, place),
         CutShort(r), seen' = [seen EXCEPT ![r] = <<>>], UNCHANGED <<folder, ledger>>
  PROVE  TypeOK'
<1> USE DEF IndInv, TypeOK, GoTo, Places, Running, Stages, ledger, Unfinished
<1>1. pc' \in [Writers -> Places] /\ seen' \in [Runs -> Seq(Observation)]
  BY RunsAreWriters
<1>2. plan' \in Stages
  BY DEF CutShort
<1>3. receipt' \in [Cases -> [stage : Stages, of : Observation \cup {<<>>}]]
  <2>1. CASE UNCHANGED receipt
    BY <2>1
  <2>2. CASE ~UNCHANGED receipt
    <3>1. PICK stage \in Unfinished :
            /\ pc[r] = "receipt"
            /\ receipt' = [receipt EXCEPT ![sent[r]] =
                 IF stage = "absent" THEN NoReceipt ELSE [stage |-> stage, of |-> seen[r][sent[r]]]]
      BY <2>2 DEF CutShort
    <3>2. (IF stage = "absent" THEN NoReceipt ELSE [stage |-> stage, of |-> seen[r][sent[r]]])
            \in [stage : Stages, of : Observation \cup {<<>>}]
      BY <3>1, SeenLast DEF NoReceipt
    <3> QED
      BY <3>1, <3>2
  <2> QED
    BY <2>1, <2>2
<1> QED
  BY <1>1, <1>2, <1>3

\* Every variable keeps its type.
LEMMA RunType == ASSUME IndInv, NEW r \in Runs, RunStep(r) PROVE TypeOK'
<1> USE RunsAreWriters, CasesType, SomeCases
    DEF IndInv, TypeOK, GoTo, Places, Running, Stages, Cases
<1>1. CASE Refuse(r) \/ Check(r) \/ ReadKey(r)
  BY <1>1 DEF Refuse, Check, ReadKey, memory, receipts, ledger
<1>2. CASE MakeFolder(r) \/ WritePlan(r)
  BY <1>2 DEF MakeFolder, WritePlan, PlanStored, memory, ledger
<1>3. CASE Probe(r)
  BY <1>3 DEF Probe, FolderInv, memory, receipts
<1>4. CASE Raised(r) \/ Invalid(r) \/ Answered(r)
  <2>1. PICK o \in Observation : seen' = [seen EXCEPT ![r] = Append(@, o)]
    BY <1>4, Observed
  <2>2. seen' \in [Runs -> Seq(Observation)]
    BY <2>1, AppendProperties
  <2> QED
    BY <1>4, <2>2 DEF Raised, Invalid, Answered, Observe, receipts, ledger
<1>5. CASE WriteReceipt(r)
  <2>1. seen[r][sent[r]] \in Observation
    BY <1>5, SeenLast DEF WriteReceipt
  <2> QED
    BY <1>5, <2>1 DEF WriteReceipt, ReceiptStored, memory, ledger
<1>6. CASE Close(r)
  BY <1>6 DEF Close, receipts, ledger
<1>7. CASE Fails(r)
  BY <1>7, CutType DEF Fails
<1> QED
  BY <1>1, <1>2, <1>3, <1>4, <1>5, <1>6, <1>7 DEF RunStep

\* The folder keeps its one owner.
LEMMA RunFolder == ASSUME IndInv, NEW r \in Runs, RunStep(r) PROVE FolderInv'
<1> USE RunsAreWriters, CasesType, SomeCases
    DEF IndInv, TypeOK, GoTo, FolderInv, Admitted
<1>1. CASE Refuse(r) \/ Check(r) \/ ReadKey(r)
  BY <1>1 DEF Refuse, Check, ReadKey, memory, receipts, ledger
<1>2. CASE MakeFolder(r) \/ WritePlan(r)
  BY <1>2 DEF MakeFolder, WritePlan, PlanStored, memory, ledger
<1>3. CASE Probe(r)
  BY <1>3 DEF Probe, memory, receipts
<1>4. CASE Raised(r) \/ Invalid(r) \/ Answered(r)
  BY <1>4 DEF Raised, Invalid, Answered, Observe, receipts, ledger
<1>5. CASE WriteReceipt(r)
  BY <1>5 DEF WriteReceipt, memory, ledger
<1>6. CASE Close(r)
  BY <1>6 DEF Close, receipts, ledger
<1>7. CASE Fails(r)
  BY <1>7 DEF Fails, CutShort, ledger
<1> QED
  BY <1>1, <1>2, <1>3, <1>4, <1>5, <1>6, <1>7 DEF RunStep

\* Runs that do not own the folder have no cases, and none take part.
LEMMA Bystanders ==
  ASSUME IndInv, NEW r \in Runs, pc[r] = "plan" \/ Admitted(r), NEW q \in Runs \ {r}
  PROVE  sent[q] = 0 /\ pc[q] \notin {"plan", "key", "probe", "reply", "receipt"}
  BY DEF IndInv, FolderInv, Admitted, TypeOK

\* What they have seen stays empty.
LEMMA BystandersKeep ==
  ASSUME IndInv, NEW r \in Runs, pc[r] = "plan" \/ Admitted(r), NEW q \in Runs \ {r},
         pc'[q] = pc[q], sent'[q] = sent[q], seen'[q] = seen[q]
  PROVE  SeenOK(q)' /\ ReceiptsOK(q)'
  BY Bystanders DEF IndInv, ReceiptInv, SeenOK, ReceiptsOK

\* A run that ends leaves what it wrote of the receipt in progress.
LEMMA CutReceipts ==
  ASSUME IndInv, NEW r \in Runs, NEW place \in {"failed", "dead"}, GoTo(r, place),
         CutShort(r), seen' = [seen EXCEPT ![r] = <<>>], UNCHANGED ledger
  PROVE  ReceiptInv'
<1>1. /\ \A q \in Runs : SeenOK(q) /\ ReceiptsOK(q) /\ sent[q] \in Nat
      /\ SeenOK(r) /\ ReceiptsOK(r) /\ sent[r] \in 0..Len(WorkloadOf)
  BY SomeCases DEF IndInv, ReceiptInv, TypeOK
<1>2. /\ pc'[r] = place /\ seen'[r] = <<>> /\ UNCHANGED <<sent, charged>>
      /\ \A q \in Runs \ {r} : pc'[q] = pc[q] /\ seen'[q] = seen[q]
  BY RunsAreWriters DEF IndInv, TypeOK, GoTo, ledger
<1>3. SeenOK(r)'
  BY <1>2 DEF SeenOK
<1>4. CASE UNCHANGED receipt
  <2>1. ReceiptsOK(r)'
    BY <1>1, <1>2, <1>4 DEF ReceiptsOK
  <2>2. \A q \in Runs \ {r} : SeenOK(q)' /\ ReceiptsOK(q)'
    BY <1>1, <1>2, <1>4 DEF SeenOK, ReceiptsOK
  <2> QED
    BY <1>2, <1>3, <1>4, <2>1, <2>2 DEF IndInv, ReceiptInv
<1>5. CASE ~UNCHANGED receipt
  <2> DEFINE k == sent[r]
  <2>1. /\ pc[r] = "receipt" /\ Admitted(r)
        /\ \E stage \in Unfinished :
             receipt' = [receipt EXCEPT ![k] =
               IF stage = "absent" THEN NoReceipt ELSE [stage |-> stage, of |-> seen[r][k]]]
    BY <1>5 DEF CutShort, Admitted
  <2>2. k \in Cases /\ k > 0 /\ seen[r][k].cost \in {Unknown, charged[r][k]}
    BY <1>1, <2>1, SomeCases DEF IndInv, FolderInv, SeenOK, Cases
  <2>3. /\ Whole(receipt'[k].stage) => receipt'[k].of.cost \in {Unknown, charged[r][k]}
        /\ \A i \in Cases \ {k} : receipt'[i] = receipt[i]
    BY <2>1, <2>2 DEF IndInv, TypeOK, NoReceipt, Whole, Unfinished
  <2>4. ReceiptsOK(r)'
    <3>1. ASSUME NEW i \in 1..k
          PROVE  /\ i < k => receipt'[i].stage = "flushed"
                 /\ Whole(receipt'[i].stage) => receipt'[i].of.cost \in {Unknown, charged[r][i]}
      <4>1. CASE i = k
        BY <1>1, <2>3, <4>1
      <4>2. CASE i # k
        <5>1. i \in Cases \ {k} /\ i < k
          BY <1>1, <4>2, SomeCases DEF Cases
        <5> QED
          BY <1>1, <2>2, <2>3, <5>1 DEF ReceiptsOK
      <4> QED
        BY <4>1, <4>2
    <3>2. \A i \in Cases : i > k => receipt'[i] = NoReceipt
      BY <1>1, <2>2, <2>3 DEF ReceiptsOK
    <3> QED
      BY <1>2, <3>1, <3>2 DEF ReceiptsOK
  <2> QED
    BY <1>2, <1>3, <2>1, <2>2, <2>4, BystandersKeep DEF ReceiptInv
<1> QED
  BY <1>4, <1>5

\* The receipts keep up with the ledger.
LEMMA RunReceipts == ASSUME IndInv, NEW r \in Runs, RunStep(r) PROVE ReceiptInv'
<1> USE RunsAreWriters, CasesType, SomeCases
<1>0. /\ \A q \in Runs : SeenOK(q) /\ ReceiptsOK(q) /\ sent[q] \in Nat
      /\ SeenOK(r) /\ ReceiptsOK(r) /\ sent[r] \in 0..Len(WorkloadOf)
      /\ seen[r] \in Seq(Observation)
  BY DEF IndInv, ReceiptInv, TypeOK
<1>1. CASE Refuse(r) \/ Check(r) \/ ReadKey(r) \/ MakeFolder(r) \/ WritePlan(r)
  <2>1. UNCHANGED <<receipt, seen, sent, charged>>
    BY <1>1 DEF Refuse, Check, ReadKey, MakeFolder, WritePlan, memory, receipts, ledger
  <2>2. /\ \A q \in Runs \ {r} : pc'[q] = pc[q]
        /\ pc[r] \in {"idle", "admit", "plan", "key"}
        /\ pc'[r] \in {"refused", "admit", "plan", "key", "probe"}
    BY <1>1 DEF Refuse, Check, ReadKey, MakeFolder, WritePlan, GoTo, IndInv, TypeOK
  <2>3. sent[r] = 0 /\ seen[r] = <<>>
    BY <1>0, <2>2 DEF IndInv, FolderInv, SeenOK
  <2>4. SeenOK(r)' /\ ReceiptsOK(r)'
    BY <2>1, <2>2, <2>3 DEF SeenOK, ReceiptsOK
  <2>5. \A q \in Runs \ {r} : SeenOK(q)' /\ ReceiptsOK(q)'
    BY <1>0, <2>1, <2>2 DEF SeenOK, ReceiptsOK
  <2> QED
    BY <2>1, <2>4, <2>5 DEF IndInv, ReceiptInv
<1>2. CASE Probe(r)
  <2>1. PICK cost \in 0..Ceiling : charged' = [charged EXCEPT ![r][sent[r] + 1] = cost]
    BY <1>2 DEF Probe
  <2>2. /\ pc[r] = "probe" /\ pc' = [pc EXCEPT ![r] = "reply"]
        /\ sent' = [sent EXCEPT ![r] = @ + 1]
        /\ UNCHANGED <<receipt, seen>> /\ Admitted(r)
    BY <1>2 DEF Probe, GoTo, memory, receipts, Admitted
  <2>3. /\ pc'[r] = "reply" /\ sent'[r] = sent[r] + 1
        /\ \A q \in Runs \ {r} : pc'[q] = pc[q] /\ sent'[q] = sent[q]
    BY <2>2 DEF IndInv, TypeOK
  <2>4. \A i \in 1..sent[r] : charged'[r][i] = charged[r][i]
    BY <2>1, <1>0 DEF IndInv, TypeOK, Cases
  <2>5. \A i \in Cases : i > sent[r] => receipt[i] = NoReceipt
    <3>1. CASE sent[r] > 0
      BY <1>0, <3>1 DEF ReceiptsOK
    <3>2. CASE sent[r] = 0
      <4>1. \A q \in Runs : sent[q] = 0
        BY <3>2, <2>2, Bystanders
      <4> QED
        BY <4>1 DEF IndInv, ReceiptInv
    <3> QED
      BY <1>0, <3>1, <3>2
  <2>6. SeenOK(r)'
    BY <1>0, <2>2, <2>3 DEF SeenOK
  <2>7. ReceiptsOK(r)'
    <3>1. ASSUME NEW i \in 1..sent[r] + 1
          PROVE  /\ i < sent[r] + 1 => receipt[i].stage = "flushed"
                 /\ Whole(receipt[i].stage) => receipt[i].of.cost \in {Unknown, charged'[r][i]}
      <4>1. CASE i \in 1..sent[r]
        BY <1>0, <2>2, <2>4, <4>1 DEF ReceiptsOK
      <4>2. CASE i = sent[r] + 1
        <5>1. i \in Cases
          BY <1>0, <2>2, <4>2 DEF IndInv, FolderInv, Cases
        <5> QED
          BY <1>0, <2>5, <4>2, <5>1 DEF NoReceipt, Whole
      <4> QED
        BY <1>0, <4>1, <4>2
    <3> QED
      BY <1>0, <2>2, <2>3, <2>5, <3>1 DEF ReceiptsOK, Cases
  <2> QED
    BY <1>0, <2>2, <2>3, <2>6, <2>7, BystandersKeep DEF ReceiptInv
<1>3. CASE Raised(r) \/ Invalid(r) \/ Answered(r)
  <2>1. PICK o \in Observation :
          /\ seen' = [seen EXCEPT ![r] = Append(@, o)]
          /\ o.cost \in {Unknown, charged[r][sent[r]]}
    BY <1>3, Observed
  <2>2. /\ pc[r] = "reply" /\ pc' = [pc EXCEPT ![r] = "receipt"]
        /\ UNCHANGED <<receipt, sent, charged>> /\ Admitted(r)
    BY <1>3 DEF Raised, Invalid, Answered, Observe, GoTo, receipts, ledger, Admitted
  <2>3. /\ pc'[r] = "receipt" /\ seen'[r] = Append(seen[r], o)
        /\ \A q \in Runs \ {r} : pc'[q] = pc[q] /\ seen'[q] = seen[q]
    BY <2>1, <2>2 DEF IndInv, TypeOK
  <2>4. Len(seen[r]) = sent[r] - 1 /\ sent[r] > 0
    BY <1>0, <2>2 DEF IndInv, FolderInv, SeenOK
  <2>5. Len(seen'[r]) = sent[r] /\ seen'[r][sent[r]] = o
    BY <1>0, <2>3, <2>4, AppendProperties
  <2>6. SeenOK(r)'
    BY <2>1, <2>2, <2>3, <2>5 DEF SeenOK
  <2>7. ReceiptsOK(r)'
    BY <1>0, <2>2, <2>3 DEF ReceiptsOK
  <2> QED
    BY <1>0, <2>2, <2>3, <2>4, <2>6, <2>7, BystandersKeep DEF ReceiptInv
<1>4. CASE WriteReceipt(r)
  <2> DEFINE k == sent[r]
  <2>1. /\ pc[r] = "receipt" /\ pc' = [pc EXCEPT ![r] = pc'[r]] /\ pc'[r] \in {"close", "probe"}
        /\ receipt' = [receipt EXCEPT ![k] = [stage |-> "flushed", of |-> seen[r][k]]]
        /\ UNCHANGED <<seen, sent, charged>> /\ Admitted(r)
    BY <1>4 DEF WriteReceipt, GoTo, ReceiptStored, memory, ledger, Admitted, IndInv, TypeOK
  <2>2. k \in Cases /\ k > 0 /\ seen[r][k].cost \in {Unknown, charged[r][k]} /\ Len(seen[r]) = k
    BY <1>0, <2>1 DEF IndInv, FolderInv, SeenOK, Cases
  <2>3. /\ receipt'[k].stage = "flushed"
        /\ receipt'[k].of.cost \in {Unknown, charged[r][k]}
        /\ \A i \in Cases \ {k} : receipt'[i] = receipt[i]
    BY <2>1, <2>2 DEF IndInv, TypeOK
  <2>4. SeenOK(r)'
    BY <2>1, <2>2 DEF SeenOK
  <2>5. ReceiptsOK(r)'
    <3>1. ASSUME NEW i \in 1..k
          PROVE  /\ receipt'[i].stage = "flushed"
                 /\ receipt'[i].of.cost \in {Unknown, charged[r][i]}
      <4>1. CASE i = k
        BY <2>3, <4>1
      <4>2. CASE i # k
        <5>1. i \in Cases \ {k} /\ i < k
          BY <1>0, <4>2 DEF Cases
        <5> QED
          BY <1>0, <2>2, <2>3, <5>1 DEF ReceiptsOK, Whole
      <4> QED
        BY <4>1, <4>2
    <3>2. \A i \in Cases : i > k => receipt'[i] = NoReceipt
      BY <1>0, <2>2, <2>3 DEF ReceiptsOK
    <3> QED
      BY <2>1, <3>1, <3>2 DEF ReceiptsOK
  <2>6. \A q \in Runs \ {r} : pc'[q] = pc[q] /\ seen'[q] = seen[q] /\ sent'[q] = sent[q]
    BY <2>1 DEF IndInv, TypeOK
  <2> QED
    BY <2>1, <2>2, <2>4, <2>5, <2>6, BystandersKeep DEF ReceiptInv
<1>5. CASE Close(r)
  <2>1. /\ pc' = [pc EXCEPT ![r] = "report"]
        /\ seen' = [seen EXCEPT ![r] = <<>>]
        /\ UNCHANGED <<receipt, sent, charged>> /\ pc[r] = "close"
    BY <1>5 DEF Close, GoTo, receipts, ledger
  <2>2. /\ pc'[r] = "report"
        /\ \A q \in Runs \ {r} : pc'[q] = pc[q] /\ seen'[q] = seen[q]
    BY <2>1 DEF IndInv, TypeOK
  <2>3. SeenOK(r)' /\ ReceiptsOK(r)'
    BY <1>0, <2>1, <2>2 DEF SeenOK, ReceiptsOK
  <2>4. \A q \in Runs \ {r} : SeenOK(q)' /\ ReceiptsOK(q)'
    BY <1>0, <2>1, <2>2 DEF SeenOK, ReceiptsOK
  <2> QED
    BY <2>1, <2>3, <2>4 DEF IndInv, ReceiptInv
<1>6. CASE Fails(r)
  BY <1>6, CutReceipts DEF Fails
<1> QED
  BY <1>1, <1>2, <1>3, <1>4, <1>5, <1>6 DEF RunStep
-----------------------------------------------------------------------------
(* Deaths and power failures. *)

\* A process that dies leaves its files as they are, or a file unfinished.
LEMMA DieStep == ASSUME IndInv, NEW w \in Writers, Die(w) PROVE IndInv'
<1>1. CASE w \in Runs
  <2>1. /\ pc[w] \in Running /\ GoTo(w, "dead") /\ CutShort(w)
        /\ seen' = [seen EXCEPT ![w] = <<>>] /\ UNCHANGED <<folder, ledger>>
    BY <1>1 DEF Die
  <2>2. FolderInv'
    BY <1>1, <2>1, RunsAreWriters
    DEF IndInv, TypeOK, GoTo, FolderInv, Admitted, CutShort, ledger
  <2> QED
    BY <1>1, <2>1, <2>2, CutType, CutReceipts DEF IndInv
<1>2. CASE w \notin Runs
  <2>1. /\ \A r \in Runs : pc'[r] = pc[r]
        /\ UNCHANGED <<plan, receipt, seen, folder, sent, charged>>
        /\ pc' = [pc EXCEPT ![w] = "dead"]
    BY <1>2, RunsAreWriters DEF Die, GoTo, IndInv, TypeOK, ledger
  <2>2. TypeOK'
    BY <2>1 DEF IndInv, TypeOK, Places
  <2>3. FolderInv'
    BY <2>1 DEF IndInv, FolderInv, Admitted
  <2>4. ReceiptInv'
    BY <2>1 DEF IndInv, ReceiptInv, SeenOK, ReceiptsOK
  <2> QED
    BY <2>2, <2>3, <2>4 DEF IndInv
<1> QED
  BY <1>1, <1>2

\* What a power failure leaves of each stage.
LEMMA Left ==
  /\ \A stage \in Stages : Survivors(stage) \subseteq {"absent", "partial", "flushed"}
  /\ Survivors("flushed") = {"flushed"} /\ Survivors("absent") = {"absent"}
  BY DEF Survivors, Stages

\* Flushed files stay, and the folder with them.
LEMMA PowerLossStep == ASSUME IndInv, PowerLoss PROVE IndInv'
<1>1. /\ pc' = [w \in Writers |-> IF pc[w] \in Running THEN "dead" ELSE pc[w]]
      /\ seen' = [r \in Runs |-> <<>>]
      /\ plan' \in Survivors(plan)
      /\ UNCHANGED <<sent, charged>>
  BY DEF PowerLoss, ledger
<1>2. PICK left \in [Cases -> {"absent", "partial", "flushed"}] :
        /\ \A i \in Cases : left[i] \in Survivors(receipt[i].stage)
        /\ receipt' = [i \in Cases |->
             IF left[i] = "absent" THEN NoReceipt ELSE [receipt[i] EXCEPT !.stage = left[i]]]
        /\ folder' \in {folder, folder /\ (plan' # "absent" \/ \E i \in Cases : left[i] # "absent")}
  BY DEF PowerLoss
<1>3. TypeOK /\ FolderInv /\ ReceiptInv
  BY DEF IndInv
<1>4. \A r \in Runs : pc'[r] \in {"idle", "refused", "failed", "dead", "reported"}
                      /\ (pc'[r] = "idle" => pc[r] = "idle")
  BY <1>1, <1>3, RunsAreWriters DEF TypeOK, Places, Running
<1>5. \A i \in Cases :
        /\ receipt'[i] \in [stage : Stages, of : Observation \cup {<<>>}]
        /\ receipt'[i].stage = left[i]
        /\ left[i] # "absent" => receipt'[i].of = receipt[i].of
        /\ left[i] = "absent" => receipt'[i] = NoReceipt
        /\ receipt[i] = NoReceipt => receipt'[i] = NoReceipt
        /\ receipt[i].stage = "flushed" => left[i] = "flushed"
        /\ Whole(left[i]) => left[i] = "flushed" /\ Whole(receipt[i].stage)
  <2> SUFFICES ASSUME NEW i \in Cases
               PROVE  /\ receipt'[i] \in [stage : Stages, of : Observation \cup {<<>>}]
                      /\ receipt'[i].stage = left[i]
                      /\ left[i] # "absent" => receipt'[i].of = receipt[i].of
                      /\ left[i] = "absent" => receipt'[i] = NoReceipt
                      /\ receipt[i] = NoReceipt => receipt'[i] = NoReceipt
                      /\ receipt[i].stage = "flushed" => left[i] = "flushed"
                      /\ Whole(left[i]) => left[i] = "flushed" /\ Whole(receipt[i].stage)
    OBVIOUS
  <2>1. receipt[i] \in [stage : Stages, of : Observation \cup {<<>>}]
    BY <1>3 DEF TypeOK
  <2>2. left[i] \in Survivors(receipt[i].stage) /\ left[i] \in {"absent", "partial", "flushed"}
    BY <1>2
  <2>3. receipt'[i] = IF left[i] = "absent" THEN NoReceipt ELSE [receipt[i] EXCEPT !.stage = left[i]]
    BY <1>2
  <2>4. /\ receipt[i].stage = "absent" => left[i] = "absent"
        /\ receipt[i].stage = "flushed" => left[i] = "flushed"
        /\ left[i] = "flushed" => receipt[i].stage \in {"written", "flushed"}
    BY <2>1, <2>2 DEF Survivors, Stages
  <2> QED
    BY <2>1, <2>2, <2>3, <2>4 DEF NoReceipt, Whole, Stages
<1>6. TypeOK'
  <2>1. plan' \in Stages
    BY <1>1, <1>3, Left DEF TypeOK, Stages
  <2>2. folder' \in BOOLEAN
    BY <1>2, <1>3 DEF TypeOK
  <2>3. receipt' \in [Cases -> [stage : Stages, of : Observation \cup {<<>>}]]
    <3>1. receipt' = [i \in Cases |-> receipt'[i]]
      BY <1>2
    <3> QED
      BY <1>5, <3>1
  <2>4. pc' \in [Writers -> Places]
    BY <1>1, <1>3 DEF TypeOK, Places
  <2>5. seen' \in [Runs -> Seq(Observation)]
    BY <1>1
  <2> QED
    BY <1>1, <1>3, <2>1, <2>2, <2>3, <2>4, <2>5 DEF TypeOK
<1>7. FolderInv'
  <2>1. ASSUME NEW r \in Runs, sent[r] > 0 PROVE folder' /\ plan' = "flushed"
    <3>1. folder /\ plan = "flushed"
      BY <1>3, <2>1 DEF FolderInv, Admitted
    <3>2. plan' = "flushed"
      BY <1>1, <3>1, Left
    <3> QED
      BY <1>2, <3>1, <3>2
  <2> QED
    BY <1>1, <1>3, <1>4, <2>1 DEF FolderInv, Admitted
<1>8. ReceiptInv'
  <2>1. ASSUME NEW r \in Runs PROVE SeenOK(r)'
    BY <1>1, <1>4, <2>1 DEF SeenOK
  <2>2. ASSUME NEW r \in Runs PROVE ReceiptsOK(r)'
    <3>1. ReceiptsOK(r) /\ sent[r] \in 0..Len(WorkloadOf)
      BY <1>3 DEF ReceiptInv, TypeOK
    <3>2. \A i \in 1..sent[r] : i \in Cases
      BY <3>1, SomeCases DEF Cases
    <3> QED
      BY <1>1, <1>4, <1>5, <3>1, <3>2 DEF ReceiptsOK
  <2> QED
    BY <1>1, <1>3, <1>5, <2>1, <2>2 DEF ReceiptInv
<1> QED
  BY <1>6, <1>7, <1>8 DEF IndInv

\* Nothing is stored, seen or charged at the start.
LEMMA InitInd == Init => IndInv
<1> SUFFICES ASSUME Init PROVE IndInv
  OBVIOUS
<1>1. TypeOK
  <2>1. NoReceipt \in [stage : Stages, of : Observation \cup {<<>>}]
    BY DEF NoReceipt, Stages
  <2>2. pc \in [Writers -> Places]
    BY DEF Init, Places, Running
  <2>3. seen \in [Runs -> Seq(Observation)]
    BY DEF Init
  <2>4. /\ sent \in [Runs -> 0..Len(WorkloadOf)]
        /\ charged \in [Runs -> [Cases -> Nat]]
    BY SomeCases DEF Init
  <2> QED
    BY <2>1, <2>2, <2>3, <2>4 DEF Init, TypeOK, Stages
<1>2. \A r \in Runs : pc[r] = "idle" /\ sent[r] = 0 /\ seen[r] = <<>>
  BY RunsAreWriters DEF Init
<1>3. FolderInv
  BY <1>2 DEF FolderInv, Admitted
<1>4. ReceiptInv
  <2>1. \A i \in Cases : receipt[i] = NoReceipt
    BY DEF Init
  <2>2. \A r \in Runs : SeenOK(r) /\ ReceiptsOK(r)
    BY <1>2 DEF SeenOK, ReceiptsOK
  <2> QED
    BY <2>1, <2>2 DEF ReceiptInv
<1> QED
  BY <1>1, <1>3, <1>4 DEF IndInv

\* Every step keeps the invariant.
LEMMA StepInd == IndInv /\ [Next]_vars => IndInv'
<1> SUFFICES ASSUME IndInv, [Next]_vars PROVE IndInv'
  OBVIOUS
<1>1. ASSUME NEW r \in Runs, RunStep(r) PROVE IndInv'
  BY <1>1, RunType, RunFolder, RunReceipts DEF IndInv
<1>2. CASE UNCHANGED vars
  BY <1>2
  DEF vars, IndInv, TypeOK, FolderInv, Admitted, ReceiptInv, SeenOK, ReceiptsOK
<1> QED
  BY <1>1, <1>2, ReportStep, DieStep, PowerLossStep DEF Next

-----------------------------------------------------------------------------
(* The honest report. *)

\* While a run is admitted, nobody else touches receipts or charges.
LEMMA BystanderStep ==
  ASSUME IndInv, NEW r \in Runs, Admitted(r), NEW q \in Runs \ {r}, RunStep(q) \/ Die(q)
  PROVE  /\ UNCHANGED <<receipt, sent, charged>>
         /\ pc'[r] = pc[r] /\ seen'[r] = seen[r]
<1>1. pc[q] \notin {"plan", "key", "probe", "reply", "receipt"}
  BY Bystanders
<1>2. ~WritePlan(q) /\ ~ReadKey(q) /\ ~Probe(q) /\ ~Raised(q) /\ ~Invalid(q) /\ ~Answered(q)
      /\ ~WriteReceipt(q)
  BY <1>1 DEF WritePlan, ReadKey, Probe, Raised, Invalid, Answered, Observe, WriteReceipt
<1>3. CASE Refuse(q) \/ Check(q) \/ MakeFolder(q)
  BY <1>3, RunsAreWriters DEF Refuse, Check, MakeFolder, GoTo, memory, receipts, ledger, IndInv, TypeOK
<1>4. CASE Close(q)
  BY <1>4 DEF Close, GoTo, receipts, ledger, IndInv, TypeOK
<1>5. CASE Fails(q)
  BY <1>1, <1>5 DEF Fails, CutShort, GoTo, ledger, IndInv, TypeOK
<1>6. CASE Die(q)
  BY <1>1, <1>6, RunsAreWriters DEF Die, CutShort, GoTo, ledger, IndInv, TypeOK
<1> QED
  BY <1>2, <1>3, <1>4, <1>5, <1>6 DEF RunStep

\* A process that writes its report, or is no run, touches nothing of a run.
LEMMA WriterStep ==
  ASSUME IndInv, NEW w \in Writers,
         \/ WriteReport(w) /\ UNCHANGED <<seen, receipts, ledger, losses>>
         \/ w \notin Runs /\ Die(w)
  PROVE  /\ UNCHANGED <<receipt, sent, charged, seen>>
         /\ \A r \in Runs :
              \/ pc'[r] = pc[r]
              \/ /\ pc[r] \in {"report", "write", "replace"}
                 /\ pc'[r] \in {"refused", "write", "replace", "failed", "reported"}
<1>1. CASE w \notin Runs /\ Die(w)
  BY <1>1, RunsAreWriters DEF Die, GoTo, ledger, IndInv, TypeOK
<1>2. CASE WriteReport(w) /\ UNCHANGED <<seen, receipts, ledger, losses>>
  <2>1. PICK place \in {"refused", "write", "replace", "failed", "reported"} :
          /\ pc[w] \in {"report", "write", "replace"}
          /\ pc' = [pc EXCEPT ![w] = place]
    BY <1>2 DEF WriteReport, TestTarget, WriteTemporary, WriteReportFails, Replace, GoTo
  <2> QED
    BY <1>2, <2>1, RunsAreWriters DEF receipts, ledger, IndInv, TypeOK
<1> QED
  BY <1>1, <1>2

\* What a power failure leaves of what a run keeps.
LEMMA PowerLeaves ==
  ASSUME IndInv, PowerLoss
  PROVE  /\ UNCHANGED <<sent, charged>>
         /\ \A i \in Cases : receipt[i].stage = "flushed" => receipt'[i] = receipt[i]
         /\ \A r \in Runs :
              /\ seen'[r] = <<>>
              /\ pc'[r] = IF pc[r] \in Running THEN "dead" ELSE pc[r]
<1>1. /\ pc' = [w \in Writers |-> IF pc[w] \in Running THEN "dead" ELSE pc[w]]
      /\ seen' = [r \in Runs |-> <<>>]
      /\ UNCHANGED <<sent, charged>>
  BY DEF PowerLoss, ledger
<1>2. PICK left \in [Cases -> {"absent", "partial", "flushed"}] :
        /\ \A i \in Cases : left[i] \in Survivors(receipt[i].stage)
        /\ receipt' = [i \in Cases |->
             IF left[i] = "absent" THEN NoReceipt ELSE [receipt[i] EXCEPT !.stage = left[i]]]
  BY DEF PowerLoss
<1>3. ASSUME NEW i \in Cases, receipt[i].stage = "flushed"
      PROVE  receipt'[i] = receipt[i]
  <2>1. left[i] = "flushed"
    BY <1>2, <1>3, Left
  <2>2. receipt'[i] = [receipt[i] EXCEPT !.stage = "flushed"]
    BY <1>2, <2>1
  <2>3. receipt[i] \in [stage : Stages, of : Observation \cup {<<>>}]
    BY DEF IndInv, TypeOK
  <2> QED
    BY <1>3, <2>2, <2>3
<1> QED
  BY <1>1, <1>3, RunsAreWriters

\* What a run is done with stays as it is.
LEMMA ClosedStep ==
  ASSUME IndInv, [Next]_vars, NEW r \in Runs, Closed(r)
  PROVE  /\ Closed(r)'
         /\ charged'[r] = charged[r]
         /\ \A i \in Cases : receipt'[i] = receipt[i]
<1>1. Admitted(r) /\ sent[r] > 0 /\ \A i \in Cases : receipt[i].stage = "flushed"
  BY DEF Closed, Admitted
<1>2. CASE UNCHANGED vars
  BY <1>2 DEF vars, Closed
<1>3. ASSUME NEW q \in Runs, q # r, RunStep(q) \/ Die(q) PROVE Closed(r)' /\ UNCHANGED <<receipt, charged>>
  BY <1>1, <1>3, BystanderStep DEF Closed
<1>4. ~RunStep(r)
  BY DEF Closed, RunStep, Refuse, Check, MakeFolder, WritePlan, ReadKey, Probe, Raised, Invalid,
         Answered, Observe, WriteReceipt, Close, Fails
<1>5. CASE Die(r)
  <2>1. UNCHANGED <<receipt, sent, charged>> /\ pc'[r] = "dead"
    BY <1>5, RunsAreWriters DEF Die, CutShort, Closed, GoTo, ledger, IndInv, TypeOK
  <2> QED
    BY <2>1 DEF Closed
<1>6. ASSUME NEW w \in Writers,
             \/ WriteReport(w) /\ UNCHANGED <<seen, receipts, ledger, losses>>
             \/ w \notin Runs /\ Die(w)
      PROVE  Closed(r)' /\ UNCHANGED <<receipt, charged>>
  BY <1>6, WriterStep DEF Closed
<1>7. CASE PowerLoss
  BY <1>1, <1>7, PowerLeaves DEF Closed
<1> QED
  BY <1>2, <1>3, <1>4, <1>5, <1>6, <1>7 DEF Next

-----------------------------------------------------------------------------
(* What a run has seen. *)

\* A run that does not move sees what it saw, if its receipts and charges stay.
LEMMA SeenKept ==
  ASSUME NEW r \in Runs, SeenFaithful(r), UNCHANGED <<receipt, sent, charged>>,
         pc'[r] = pc[r], seen'[r] = seen[r]
  PROVE  SeenFaithful(r)'
  BY DEF SeenFaithful

\* A run that sees nothing is faithful.
LEMMA SeenNothing ==
  ASSUME NEW r \in Runs, seen'[r] = <<>>, pc'[r] # "close"
  PROVE  SeenFaithful(r)'
  BY DEF SeenFaithful

\* A run that takes no part sees nothing, or the others leave it alone.
LEMMA SeenOther ==
  ASSUME IndInv, NEW r \in Runs, SeenFaithful(r), NEW q \in Runs \ {r}, RunStep(q) \/ Die(q)
  PROVE  SeenFaithful(r)'
<1>1. pc'[r] = pc[r] /\ seen'[r] = seen[r]
  BY RunsAreWriters
  DEF RunStep, Refuse, Check, MakeFolder, WritePlan, ReadKey, Probe, Raised, Invalid, Answered,
      Observe, WriteReceipt, Close, Fails, Die, GoTo, memory, IndInv, TypeOK
<1>2. CASE seen[r] = <<>>
  <2>1. pc[r] # "close"
    BY <1>2, SomeCases DEF SeenFaithful
  <2> QED
    BY <1>1, <1>2, <2>1, SeenNothing
<1>3. CASE seen[r] # <<>>
  <2>1. Admitted(r)
    BY <1>3 DEF SeenFaithful, Admitted
  <2> QED
    BY <1>1, <2>1, BystanderStep, SeenKept
<1> QED
  BY <1>2, <1>3

\* The steps of a run itself.
LEMMA SeenOwn ==
  ASSUME IndInv, NEW r \in Runs, SeenFaithful(r), RunStep(r)
  PROVE  SeenFaithful(r)'
<1>0. /\ SeenOK(r) /\ ReceiptsOK(r) /\ sent[r] \in 0..Len(WorkloadOf)
      /\ seen[r] \in Seq(Observation) /\ sent[r] \in Nat /\ Len(WorkloadOf) \in Nat
  BY SomeCases DEF IndInv, ReceiptInv, TypeOK
<1>1. CASE Refuse(r) \/ Check(r) \/ ReadKey(r) \/ MakeFolder(r) \/ WritePlan(r)
  <2>1. seen'[r] = seen[r] /\ pc[r] \in {"idle", "admit", "plan", "key"}
    BY <1>1 DEF Refuse, Check, ReadKey, MakeFolder, WritePlan, memory
  <2>2. pc'[r] \in {"refused", "admit", "plan", "key", "probe"}
    BY <1>1, RunsAreWriters
    DEF Refuse, Check, ReadKey, MakeFolder, WritePlan, GoTo, IndInv, TypeOK
  <2> QED
    BY <1>0, <2>1, <2>2, SeenNothing DEF SeenOK
<1>2. CASE Probe(r)
  <2>1. PICK cost \in 0..Ceiling : charged' = [charged EXCEPT ![r][sent[r] + 1] = cost]
    BY <1>2 DEF Probe
  <2>2. pc[r] = "probe" /\ pc'[r] = "reply" /\ sent'[r] = sent[r] + 1
        /\ UNCHANGED <<receipt, seen>>
    BY <1>2, RunsAreWriters DEF Probe, GoTo, memory, receipts, IndInv, TypeOK
  <2>3. DOMAIN seen[r] = 1..sent[r]
    BY <1>0, <2>2 DEF SeenOK
  <2>4. \A i \in 1..sent[r] : charged'[r][i] = charged[r][i]
    BY <1>0, <2>1 DEF IndInv, TypeOK, Cases
  <2> QED
    BY <1>0, <2>2, <2>3, <2>4 DEF SeenFaithful
<1>3. CASE Raised(r) \/ Invalid(r) \/ Answered(r)
  <2>1. PICK o \in Observation :
          /\ seen' = [seen EXCEPT ![r] = Append(@, o)]
          /\ o.cost \in {Unknown, charged[r][sent[r]]}
          /\ o.failed \/ o.cost = charged[r][sent[r]]
          /\ o.failed <=> o.model = "none"
          /\ o.status = "PASS" => ~o.failed
          /\ ~o.failed => SameBackend(r, o.model)
    BY <1>3, Observed
  <2> DEFINE k == sent[r]
  <2>2. pc[r] = "reply" /\ pc'[r] = "receipt" /\ UNCHANGED <<receipt, sent, charged>>
    BY <1>3, RunsAreWriters
    DEF Raised, Invalid, Answered, Observe, GoTo, receipts, ledger, IndInv, TypeOK
  <2>3. /\ Len(seen[r]) = k - 1 /\ k > 0 /\ k \in Nat
        /\ seen'[r] = Append(seen[r], o)
    BY <1>0, <2>1, <2>2 DEF IndInv, FolderInv, SeenOK, TypeOK
  <2>4. /\ DOMAIN seen[r] = 1..(k - 1)
        /\ DOMAIN seen'[r] = 1..k
        /\ \A i \in 1..(k - 1) : seen'[r][i] = seen[r][i]
        /\ seen'[r][k] = o
    BY <1>0, <2>3, AppendProperties
  <2>5. \A i \in 1..k : i \in 1..(k - 1) \/ i = k
    BY <2>3
  <2>6. seen'[r] # <<>>
    <3>1. k \in DOMAIN seen'[r]
      BY <2>3, <2>4
    <3> QED
      BY <3>1
  <2>7. \A i \in 1..(k - 1) : WorkloadOf[i] = WorkloadOf[k] /\ ~seen[r][i].failed /\ ~o.failed =>
                                seen[r][i].model = o.model
    BY <2>1, <2>4 DEF SeenFaithful, SameBackend
  <2>8. ASSUME NEW i \in DOMAIN seen'[r]
        PROVE  /\ seen'[r][i].cost \in {Unknown, charged'[r][i]}
               /\ seen'[r][i].failed \/ seen'[r][i].cost = charged'[r][i]
               /\ seen'[r][i].failed <=> seen'[r][i].model = "none"
               /\ seen'[r][i].status = "PASS" => ~seen'[r][i].failed
               /\ i < sent'[r] => receipt'[i] = [stage |-> "flushed", of |-> seen'[r][i]]
    <3>1. CASE i \in 1..(k - 1)
      <4>1. i < k /\ i \in DOMAIN seen[r] /\ seen'[r][i] = seen[r][i]
        BY <2>3, <2>4, <3>1
      <4> QED
        BY <2>2, <4>1 DEF SeenFaithful
    <3>2. CASE i = k
      <4>1. ~(k < k)
        BY <2>3
      <4> QED
        BY <2>1, <2>2, <2>4, <3>2, <4>1
    <3> QED
      BY <2>4, <2>5, <3>1, <3>2
  <2>9. ASSUME NEW i \in DOMAIN seen'[r], NEW j \in DOMAIN seen'[r],
               WorkloadOf[i] = WorkloadOf[j], ~seen'[r][i].failed, ~seen'[r][j].failed
        PROVE  seen'[r][i].model = seen'[r][j].model
    <3>1. CASE i \in 1..(k - 1) /\ j \in 1..(k - 1)
      BY <2>4, <2>9, <3>1 DEF SeenFaithful
    <3>2. CASE i = k \/ j = k
      BY <2>4, <2>5, <2>7, <2>9, <3>2
    <3> QED
      BY <2>4, <2>5, <3>1, <3>2
  <2> HIDE DEF k
  <2> QED
    BY <2>2, <2>3, <2>8, <2>9 DEF SeenFaithful, k
<1>4. CASE WriteReceipt(r)
  <2> DEFINE k == sent[r]
  <2>1. /\ pc[r] = "receipt"
        /\ pc'[r] = IF k = Len(WorkloadOf) THEN "close" ELSE "probe"
        /\ receipt' = [receipt EXCEPT ![k] = [stage |-> "flushed", of |-> seen[r][k]]]
        /\ UNCHANGED <<seen, sent, charged>>
    BY <1>4, RunsAreWriters DEF WriteReceipt, GoTo, ReceiptStored, memory, ledger, IndInv, TypeOK
  <2>2. k \in Cases /\ k > 0 /\ k \in Nat /\ Len(seen[r]) = k /\ DOMAIN seen[r] = 1..k
    BY <1>0, <2>1 DEF IndInv, FolderInv, SeenOK, Cases
  <2>3. /\ receipt'[k] = [stage |-> "flushed", of |-> seen[r][k]]
        /\ \A i \in Cases \ {k} : receipt'[i] = receipt[i]
    BY <2>1, <2>2 DEF IndInv, TypeOK
  <2>4. ASSUME NEW i \in 1..k
        PROVE  receipt'[i] = [stage |-> "flushed", of |-> seen[r][i]]
    <3>1. CASE i = k
      BY <2>3, <3>1
    <3>2. CASE i # k
      <4>1. i \in Cases \ {k} /\ i < k
        BY <1>0, <2>2, <3>2 DEF Cases
      <4> QED
        BY <2>2, <2>3, <4>1 DEF SeenFaithful
    <3> QED
      BY <3>1, <3>2
  <2> QED
    BY <2>1, <2>2, <2>4 DEF SeenFaithful
<1>5. CASE Close(r) \/ Fails(r)
  <2>1. seen'[r] = <<>> /\ pc'[r] \in {"report", "failed"}
    BY <1>5, RunsAreWriters DEF Close, Fails, GoTo, IndInv, TypeOK
  <2> QED
    BY <2>1, SeenNothing
<1> QED
  BY <1>1, <1>2, <1>3, <1>4, <1>5 DEF RunStep

\* Every step keeps what the runs have seen faithful.
LEMMA SeenStep == ASSUME IndInv, SeenInv, [Next]_vars PROVE SeenInv'
<1> SUFFICES ASSUME NEW r \in Runs PROVE SeenFaithful(r)'
  BY DEF SeenInv
<1>0. SeenFaithful(r)
  BY DEF SeenInv
<1>1. CASE UNCHANGED vars
  BY <1>0, <1>1, SeenKept DEF vars
<1>2. ASSUME NEW q \in Runs, RunStep(q) PROVE SeenFaithful(r)'
  BY <1>0, <1>2, SeenOwn, SeenOther
<1>3. ASSUME NEW q \in Runs, Die(q) PROVE SeenFaithful(r)'
  <2>1. CASE q = r
    <3>1. seen'[r] = <<>> /\ pc'[r] = "dead"
      BY <1>3, <2>1, RunsAreWriters DEF Die, GoTo, IndInv, TypeOK
    <3> QED
      BY <3>1, SeenNothing
  <2> QED
    BY <1>0, <1>3, <2>1, SeenOther
<1>4. ASSUME NEW w \in Writers,
             \/ WriteReport(w) /\ UNCHANGED <<seen, receipts, ledger, losses>>
             \/ w \notin Runs /\ Die(w)
      PROVE  SeenFaithful(r)'
  <2>1. /\ UNCHANGED <<receipt, sent, charged, seen>>
        /\ \/ pc'[r] = pc[r]
           \/ /\ pc[r] \in {"report", "write", "replace"}
              /\ pc'[r] \in {"refused", "write", "replace", "failed", "reported"}
    BY <1>4, WriterStep
  <2>2. CASE pc'[r] = pc[r]
    BY <1>0, <2>1, <2>2, SeenKept
  <2>3. CASE pc'[r] # pc[r]
    <3>1. seen'[r] = <<>> /\ pc'[r] # "close"
      BY <1>0, <2>1, <2>3 DEF SeenFaithful
    <3> QED
      BY <3>1, SeenNothing
  <2> QED
    BY <2>2, <2>3
<1>5. CASE PowerLoss
  <2>1. seen'[r] = <<>> /\ pc'[r] # "close"
    BY <1>5, PowerLeaves DEF Running
  <2> QED
    BY <2>1, SeenNothing
<1> QED
  BY <1>1, <1>2, <1>3, <1>4, <1>5 DEF Next

-----------------------------------------------------------------------------
(* What a run reports. *)

\* The report is composed of what the run has seen.
LEMMA CloseHonest ==
  ASSUME IndInv, DOMAIN text = Writers, NEW r \in Runs, SeenFaithful(r), Close(r)
  PROVE  Closed(r)' /\ Honest(text[r], r)'
<1>1. /\ pc[r] = "close" /\ pc'[r] = "report" /\ UNCHANGED <<receipt, sent, charged>>
  BY RunsAreWriters DEF Close, GoTo, receipts, ledger, IndInv, TypeOK
<1> DEFINE n == Len(WorkloadOf)
           told == [i \in DOMAIN seen[r] |-> IF seen[r][i].cost = Unknown THEN 0 ELSE seen[r][i].cost]
<1>2. /\ n \in Nat /\ n > 0 /\ Cases = 1..n
      /\ DOMAIN seen[r] = Cases /\ Len(seen[r]) = n
      /\ charged[r] \in [Cases -> Nat]
  BY <1>1, SomeCases DEF SeenFaithful, IndInv, TypeOK, Cases
<1>3. \A i \in Cases :
        /\ seen[r][i].cost \in {Unknown, charged[r][i]}
        /\ seen[r][i].failed \/ seen[r][i].cost = charged[r][i]
        /\ seen[r][i].status = "PASS" => ~seen[r][i].failed
        /\ receipt[i].stage = "flushed" /\ receipt[i].of = seen[r][i]
  <2>1. \A i \in Cases : receipt[i] = [stage |-> "flushed", of |-> seen[r][i]]
    BY <1>1, <1>2 DEF SeenFaithful
  <2>2. ASSUME NEW i \in Cases
        PROVE  receipt[i].stage = "flushed" /\ receipt[i].of = seen[r][i]
    <3>1. receipt[i] = [stage |-> "flushed", of |-> seen[r][i]]
      BY <2>1
    <3> QED
      BY <3>1
  <2> QED
    BY <1>1, <1>2, <2>2 DEF SeenFaithful
<1>4. \A i \in Cases : told[i] \in Int /\ charged[r][i] \in Int /\ told[i] <= charged[r][i]
  <2> SUFFICES ASSUME NEW i \in Cases
               PROVE  told[i] \in Int /\ charged[r][i] \in Int /\ told[i] <= charged[r][i]
    OBVIOUS
  <2>1. told[i] = IF seen[r][i].cost = Unknown THEN 0 ELSE seen[r][i].cost
    BY <1>2
  <2>2. charged[r][i] \in Nat /\ seen[r][i].cost \in {Unknown, charged[r][i]}
    BY <1>2, <1>3
  <2> HIDE DEF told
  <2> QED
    BY <2>1, <2>2
<1>5. IsFiniteSet(Cases)
  BY <1>2, FS_Interval
<1>6. ObservedCost(r) = SumFunctionOnSet(told, Cases) /\ Total(r) = SumFunctionOnSet(charged[r], Cases)
  <2>1. ObservedCost(r) = SumFunction(told)
    BY DEF ObservedCost
  <2>2. DOMAIN told = Cases /\ DOMAIN charged[r] = Cases
    BY <1>2
  <2> HIDE DEF told
  <2>3. Total(r) = SumFunctionOnSet(charged[r], DOMAIN charged[r])
    BY DEF Total, SumFunction
  <2>4. SumFunction(told) = SumFunctionOnSet(told, DOMAIN told)
    BY DEF SumFunction
  <2> QED
    BY <2>1, <2>2, <2>3, <2>4
<1>7. text'[r] = [by |-> r, status |-> Status(r), cost |-> ObservedCost(r), unknown |-> CostUnknown(r)]
  BY RunsAreWriters DEF Close
<1>8. Total(r)' = Total(r)
  BY <1>1 DEF Total
<1>9. ObservedCost(r) <= Total(r)
  <2> HIDE DEF told
  <2> QED
    BY <1>4, <1>5, <1>6, SumMonotone
<1>10. ASSUME ~CostUnknown(r) PROVE ObservedCost(r) = Total(r)
  <2>1. \A i \in Cases : seen[r][i].cost = charged[r][i]
    BY <1>2, <1>3, <1>10 DEF CostUnknown
  <2>2. \A i \in Cases : told[i] = charged[r][i]
    BY <1>2, <2>1 DEF Unknown
  <2> HIDE DEF told
  <2> QED
    BY <1>4, <1>5, <1>6, <2>2, SumSame
<1>11. ASSUME Status(r) = "PASS"
       PROVE  /\ ~CostUnknown(r)
              /\ \A i, j \in Cases :
                   /\ receipt[i].of.status = "PASS"
                   /\ WorkloadOf[i] = WorkloadOf[j] => receipt[i].of.model = receipt[j].of.model
  <2>1. \A i \in Cases : seen[r][i].status = "PASS" /\ ~seen[r][i].failed /\ receipt[i].of = seen[r][i]
    <3>1. \A i \in Cases : seen[r][i].status = "PASS"
      BY <1>11 DEF Status
    <3>2. \A i \in Cases : receipt[i].of = seen[r][i]
      BY <1>3
    <3> QED
      BY <1>3, <3>1, <3>2
  <2>2. \A i, j \in Cases : WorkloadOf[i] = WorkloadOf[j] => seen[r][i].model = seen[r][j].model
    BY <1>2, <2>1 DEF SeenFaithful
  <2> QED
    BY <1>2, <2>1, <2>2 DEF CostUnknown
<1>12. Closed(r)'
  <2>1. sent[r] > 0
    <3>1. seen[r] # <<>>
      BY <1>2
    <3> QED
      BY <3>1 DEF SeenFaithful
  <2>2. \A i \in Cases : receipt[i].stage = "flushed"
    BY <1>3
  <2> QED
    BY <1>1, <2>1, <2>2 DEF Closed
<1>13. Honest(text[r], r)'
  <2>1. /\ text'[r].status = Status(r) /\ text'[r].cost = ObservedCost(r)
        /\ text'[r].unknown = CostUnknown(r)
    BY <1>7
  <2> QED
    BY <1>1, <1>8, <1>9, <1>10, <1>11, <2>1 DEF Honest
<1> QED
  BY <1>12, <1>13

\* An honest text stays so once its run is done with its cases.
LEMMA HonestKept ==
  ASSUME IndInv, [Next]_vars, NEW r \in Runs, Closed(r), NEW t, Honest(t, r)
  PROVE  Honest(t, r)'
<1>1. /\ charged'[r] = charged[r]
      /\ \A i \in Cases : receipt'[i] = receipt[i]
  BY ClosedStep
<1>2. Total(r)' = Total(r)
  BY <1>1 DEF Total
<1> QED
  BY <1>1, <1>2 DEF Honest

\* Texts are composed when a run is closed, and only then.
LEMMA TextChanges ==
  ASSUME IndInv, TextInv, [Next]_vars
  PROVE  \/ text' = text
         \/ \E r \in Runs : /\ Close(r)
                            /\ DOMAIN text' = Writers
                            /\ text'[r].by = r
                            /\ \A w \in Writers \ {r} : text'[w] = text[w]
<1>1. ASSUME NEW r \in Runs, Close(r)
      PROVE  /\ DOMAIN text' = Writers
             /\ text'[r].by = r
             /\ \A w \in Writers \ {r} : text'[w] = text[w]
  BY <1>1, RunsAreWriters DEF Close, TextInv
<1>2. (\E r \in Runs : Close(r)) \/ text' = text
  BY DEF Next, RunStep, Refuse, Check, MakeFolder, WritePlan, ReadKey, Probe, Raised, Invalid,
         Answered, Observe, WriteReceipt, Fails, Die, PowerLoss, WriteReport, TestTarget,
         WriteTemporary, WriteReportFails, Replace, memory, vars
<1> QED
  BY <1>1, <1>2

\* Who is about to report was so before, or has just closed.
LEMMA AboutToReport ==
  ASSUME IndInv, [Next]_vars, NEW r \in Runs, pc'[r] \in {"report", "write", "replace"}
  PROVE  Close(r) \/ pc[r] \in {"report", "write", "replace"}
<1>1. CASE UNCHANGED vars
  BY <1>1 DEF vars
<1>2. ASSUME NEW q \in Runs, RunStep(q), q # r PROVE pc'[r] = pc[r]
  BY <1>2, RunsAreWriters
  DEF RunStep, Refuse, Check, MakeFolder, WritePlan, ReadKey, Probe, Raised, Invalid, Answered,
      Observe, WriteReceipt, Close, Fails, GoTo, IndInv, TypeOK
<1>3. CASE RunStep(r)
  <2>1. Close(r) \/ pc'[r] \in {"refused", "admit", "plan", "key", "probe", "reply", "receipt",
                                "close", "failed"}
    BY <1>3, RunsAreWriters
    DEF RunStep, Refuse, Check, MakeFolder, WritePlan, ReadKey, Probe, Raised, Invalid, Answered,
        Observe, WriteReceipt, Fails, GoTo, IndInv, TypeOK
  <2> QED
    BY <2>1
<1>4. ASSUME NEW w \in Writers, WriteReport(w) /\ UNCHANGED <<seen, receipts, ledger, losses>>
      PROVE  pc'[r] = pc[r] \/ pc[r] \in {"report", "write", "replace"}
  BY <1>4, WriterStep
<1>5. ASSUME NEW w \in Writers, Die(w)
      PROVE  pc'[r] = pc[r] \/ pc'[r] = "dead"
  BY <1>5, RunsAreWriters DEF Die, GoTo, IndInv, TypeOK
<1>6. CASE PowerLoss
  BY <1>6, PowerLeaves DEF Running
<1> QED
  BY <1>1, <1>2, <1>3, <1>4, <1>5, <1>6 DEF Next

\* What a run is about to report is honest.
LEMMA TextStep ==
  ASSUME IndInv, SeenInv, TextInv, [Next]_vars
  PROVE  TextInv'
<1>1. DOMAIN text = Writers /\ \A w \in Writers : text[w].by = w
  BY DEF TextInv
<1>2. DOMAIN text' = Writers /\ \A w \in Writers : text'[w].by = w
  BY <1>1, TextChanges
<1>3. ASSUME NEW r \in Runs, pc'[r] \in {"report", "write", "replace"}
      PROVE  Closed(r)' /\ Honest(text[r], r)'
  <2>1. CASE Close(r)
    BY <1>1, <2>1, CloseHonest DEF SeenInv
  <2>2. CASE ~Close(r)
    <3>1. Closed(r) /\ Honest(text[r], r)
      BY <1>3, <2>2, AboutToReport DEF TextInv
    <3>2. text'[r] = text[r]
      BY <2>2, TextChanges, RunsAreWriters
    <3>3. PICK t : t = text[r]
      OBVIOUS
    <3>4. Honest(t, r)
      BY <3>1, <3>3
    <3>5. Honest(t, r)'
      BY <3>1, <3>4, HonestKept
    <3>6. Honest(text[r], r)'
      BY <3>2, <3>3, <3>5 DEF Honest
    <3> QED
      BY <3>1, <3>6, ClosedStep
  <2> QED
    BY <2>1, <2>2
<1> QED
  BY <1>2, <1>3 DEF TextInv

\* What comes to the path was there, was to come back, or was about to be reported.
LEMMA FileSource ==
  ASSUME [Next]_vars, NEW f \in {target', previous'}
  PROVE  f.text \in {target.text, previous.text, NoText} \cup {text[w] : w \in {v \in Writers : pc[v] = "replace"}}
<1>1. CASE UNCHANGED file
  BY <1>1 DEF file
<1>2. ASSUME NEW w \in Writers, Replace(w)
      PROVE  f.text \in {target.text, previous.text, NoText} \cup {text[v] : v \in {v \in Writers : pc[v] = "replace"}}
  <2>1. pc[w] = "replace" /\ target'.text = text[w] /\ previous' = target
    BY <1>2 DEF Replace, Renamed
  <2> QED
    BY <2>1
<1>3. CASE LoseTarget
  <2>1. f \in Lost(target) \cup {previous}
    BY <1>3 DEF LoseTarget
  <2>2. \A g \in Lost(target) : g.text \in {target.text, NoText}
    <3> TAKE g \in Lost(target)
    <3>1. PICK stage : g = IF stage = "absent" THEN NoFile ELSE [target EXCEPT !.stage = stage]
      BY DEF Lost
    <3>2. NoFile.text = NoText
      BY DEF NoFile
    <3>3. [target EXCEPT !.stage = stage].text = target.text
      OBVIOUS
    <3> QED
      BY <3>1, <3>2, <3>3
  <2> QED
    BY <2>1, <2>2
<1>4. UNCHANGED file \/ LoseTarget \/ \E w \in Writers : Replace(w)
  BY DEF Next, RunStep, Refuse, Check, MakeFolder, WritePlan, ReadKey, Probe, Raised,
     Invalid, Answered, Observe, WriteReceipt, Close, Fails, Die, PowerLoss, WriteReport,
     TestTarget, WriteTemporary, WriteReportFails, vars, file
<1> QED
  BY <1>1, <1>2, <1>3, <1>4

\* Every report that is or may come to the path is honest.
LEMMA FilesStep ==
  ASSUME IndInv, TextInv, FilesInv, [Next]_vars
  PROVE  FilesInv'
<1>1. ASSUME NEW f \in {target', previous'}, NEW r \in Runs, NEW t, t = f.text, t.by = r
      PROVE  Closed(r)' /\ Honest(t, r)'
  <2>1. Closed(r) /\ Honest(t, r)
    <3>1. CASE t \in {target.text, previous.text}
      BY <1>1, <3>1 DEF FilesInv
    <3>2. CASE t = NoText
      BY <1>1, <3>2, NobodyWrites, RunsAreWriters
    <3>3. ASSUME NEW w \in Writers, pc[w] = "replace", t = text[w]
          PROVE  Closed(r) /\ Honest(t, r)
      <4>1. w = r
        BY <1>1, <3>3 DEF TextInv
      <4> QED
        BY <3>3, <4>1 DEF TextInv
    <3> QED
      BY <1>1, <3>1, <3>2, <3>3, FileSource
  <2> QED
    BY <2>1, ClosedStep, HonestKept
<1>2. ASSUME NEW r \in Runs, target'.text.by = r
      PROVE  Closed(r)' /\ Honest(target.text, r)'
  <2>1. PICK t : t = target'.text
    OBVIOUS
  <2>2. Closed(r)' /\ Honest(t, r)'
    BY <1>1, <1>2, <2>1
  <2> QED
    BY <2>1, <2>2 DEF Honest
<1>3. ASSUME NEW r \in Runs, previous'.text.by = r
      PROVE  Closed(r)' /\ Honest(previous.text, r)'
  <2>1. PICK t : t = previous'.text
    OBVIOUS
  <2>2. Closed(r)' /\ Honest(t, r)'
    BY <1>1, <1>3, <2>1
  <2> QED
    BY <2>1, <2>2 DEF Honest
<1> QED
  BY <1>2, <1>3 DEF FilesInv, Honest

-----------------------------------------------------------------------------
(* The theorems. *)

\* The folder with its flushed plan belongs to one run, and the receipts follow the
\* order in which it paid (semantic_qualification.py:303-420).
THEOREM Inductive == Spec => []IndInv
  BY InitInd, StepInd, PTL DEF Spec

\* Only one run ever hands cases to the gateway, whoever dies and whoever starts
\* the command again or at the same time (semantic_qualification.py:362-420).
THEOREM OneRunPays == Spec => []OncePerCase
<1>1. IndInv => OncePerCase
  BY DEF IndInv, FolderInv, Admitted, OncePerCase
<1> QED
  BY <1>1, Inductive, PTL

\* The plan and the receipts of all its cases but the one in progress survive,
\* and a receipt's cost is the ledger's (semantic_qualification.py:303-349).
THEOREM LedgerExplained == Spec => []ReceiptsExplainLedger
<1>1. ASSUME IndInv PROVE ReceiptsExplainLedger
  <2> SUFFICES ASSUME NEW r \in Runs, sent[r] > 0
               PROVE  /\ folder /\ Whole(plan)
                      /\ \A i \in 1..(sent[r] - 1) : Whole(receipt[i].stage)
                      /\ \A i \in 1..sent[r] :
                           Whole(receipt[i].stage) /\ receipt[i].of.cost # Unknown =>
                             receipt[i].of.cost = charged[r][i]
    BY DEF ReceiptsExplainLedger
  <2>1. folder /\ plan = "flushed"
    BY <1>1 DEF IndInv, FolderInv, Admitted
  <2>2. ReceiptsOK(r) /\ sent[r] \in 0..Len(WorkloadOf)
    BY <1>1 DEF IndInv, ReceiptInv, TypeOK
  <2>3. \A i \in 1..(sent[r] - 1) : i \in 1..sent[r] /\ i < sent[r]
    BY <2>2, SomeCases
  <2> QED
    BY <2>1, <2>2, <2>3 DEF ReceiptsOK, Whole
<1> QED
  BY <1>1, Inductive, PTL

\* A report claims no more than happened: its cost is what the ledger was charged
\* unless it says that a cost is unknown, and PASS means that every case was
\* answered as expected by one backend per workload, whatever other processes
\* report to the path and whichever power failure brings an older report back
\* (semantic_qualification.py:189-211 and 223-302).
THEOREM ReportIsHonest == Spec => []ReportHonest
<1>1. Init => HonestInv
  <2> SUFFICES ASSUME Init PROVE HonestInv
    OBVIOUS
  <2>1. IndInv
    BY InitInd
  <2>2. SeenInv
    <3>1. \A r \in Runs : seen[r] = <<>> /\ pc[r] = "idle"
      BY RunsAreWriters DEF Init
    <3> QED
      BY <3>1 DEF SeenInv, SeenFaithful
  <2>3. TextInv
    <3>1. \A r \in Runs : pc[r] = "idle"
      BY RunsAreWriters DEF Init
    <3>2. DOMAIN text = Writers /\ \A w \in Writers : text[w].by = w
      BY DEF Init
    <3> QED
      BY <3>1, <3>2 DEF TextInv
  <2>4. FilesInv
    <3>1. target.text = NoText /\ previous.text = NoText
      BY DEF Init, NoFile
    <3> QED
      BY <3>1, NobodyWrites, RunsAreWriters DEF FilesInv
  <2> QED
    BY <2>1, <2>2, <2>3, <2>4 DEF HonestInv
<1>2. HonestInv /\ [Next]_vars => HonestInv'
  BY StepInd, SeenStep, TextStep, FilesStep DEF HonestInv
<1>3. HonestInv => ReportHonest
  BY DEF HonestInv, FilesInv, ReportHonest
<1> QED
  BY <1>1, <1>2, <1>3, PTL DEF Spec

\* A file at the path was flushed before it came there.
Stored(f) == f.stage \in {"absent", "flushed"} /\ f = [stage |-> f.stage, text |-> f.text]

\* What is at the path is one process's whole report, also after a power failure
\* (qualification.py:635-656).
THEOREM Reports == Spec => []ReportWhole
<1> DEFINE FileInv == Stored(target) /\ Stored(previous)
<1>1. Init => FileInv
  BY DEF Init, Stored, NoFile
<1>2. FileInv /\ [Next]_vars => FileInv'
  <2> SUFFICES ASSUME FileInv, [Next]_vars PROVE FileInv'
    OBVIOUS
  <2>1. CASE UNCHANGED file
    BY <2>1 DEF file
  <2>2. ASSUME NEW w \in Writers, Replace(w) PROVE FileInv'
    BY <2>2 DEF Replace, Renamed, Stored
  <2>3. CASE LoseTarget
    <3>1. PICK f \in Lost(target) \cup {previous} : target' = f /\ previous' = f
      BY <2>3 DEF LoseTarget
    <3>2. \A g \in Lost(target) : Stored(g)
      BY DEF Lost, Survivors, Stored, NoFile
    <3> QED
      BY <3>1, <3>2
  <2>4. UNCHANGED file \/ LoseTarget \/ \E w \in Writers : Replace(w)
    BY DEF Next, RunStep, Refuse, Check, MakeFolder, WritePlan, ReadKey, Probe, Raised,
       Invalid, Answered, Observe, WriteReceipt, Close, Fails, Die, PowerLoss, WriteReport,
       TestTarget, WriteTemporary, WriteReportFails, vars, file
  <2> QED
    BY <2>1, <2>2, <2>3, <2>4
<1>3. FileInv => ReportWhole
  BY DEF Stored, ReportWhole
<1> QED
  BY <1>1, <1>2, <1>3, PTL DEF Spec
=============================================================================
