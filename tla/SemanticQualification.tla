------------------------- MODULE SemanticQualification -------------------------
(***************************************************************************)
(* kairos_llm/semantic_qualification.py: paid runs of the fixed synthetic  *)
(* cases, with one output path.  A run may die at any point and the power  *)
(* may fail; whoever starts the command again runs it from the beginning.  *)
(* The writers that are not Runs are route qualifiers (qualification.py)   *)
(* that were given the same path and are about to report.                  *)
(***************************************************************************)
EXTENDS ReportFile, Integers, Sequences, Functions

CONSTANTS Runs,           \* the processes that run the command
          WorkloadOf,     \* the workload of each case, in the order of the loop
          Ceiling,        \* reservation of one case
          MaxPowerLosses  \* bound: power failures

ASSUME RunsAreWriters == Runs \subseteq Writers
ASSUME NobodyWrites == NoText.by \notin Writers
ASSUME CasesType == WorkloadOf \in Seq(STRING) \ {<<>>} /\ Ceiling \in Nat

Cases  == 1..Len(WorkloadOf)
Models == {"backend A", "backend B"}

VARIABLES
  folder,    \* whether <output>.receipts exists
  plan,      \* how far plan.json is stored
  receipt,   \* the receipt of each case: how far it is stored, and its text
  seen,      \* the observations of a run, in the order of the cases
  sent,      \* how many cases a run handed to the gateway
  charged,   \* what each of them costs in the shared ledger
  losses     \* power failures so far

vars == <<pc, text, target, previous, folder, plan, receipt, seen, sent, charged, losses>>

memory   == <<text, seen>>
receipts == <<folder, plan, receipt>>
ledger   == <<sent, charged>>

Unknown   == -1
NoReceipt == [stage |-> "absent", of |-> <<>>]
Running   == {"admit", "plan", "key", "probe", "reply", "receipt", "close",
              "report", "write", "replace"}

Init ==
  /\ pc = [w \in Writers |-> IF w \in Runs THEN "idle" ELSE "report"]
  /\ text = [w \in Writers |-> [by |-> w]]
  /\ target = NoFile /\ previous = NoFile
  /\ folder = FALSE
  /\ plan = "absent"
  /\ receipt = [i \in Cases |-> NoReceipt]
  /\ seen = [r \in Runs |-> <<>>]
  /\ sent = [r \in Runs |-> 0]
  /\ charged = [r \in Runs |-> [i \in Cases |-> 0]]
  /\ losses = 0

-----------------------------------------------------------------------------
(* Admission. *)

\* The plan has another identity or exceeds its bound, or a target exists.
Refuse(r) ==
  /\ pc[r] = "idle"
  /\ GoTo(r, "refused")
  /\ UNCHANGED <<memory, file, receipts, ledger, losses>>

Check(r) ==
  /\ pc[r] = "idle"
  /\ target.stage = "absent" /\ ~folder
  /\ GoTo(r, "admit")
  /\ UNCHANGED <<memory, file, receipts, ledger, losses>>

\* mkdir(exist_ok=False), after the database was verified.
MakeFolder(r) ==
  /\ pc[r] = "admit"
  /\ ~folder
  /\ GoTo(r, "plan")
  /\ folder' = TRUE
  /\ UNCHANGED <<memory, file, plan, receipt, ledger, losses>>

\* Plausible bug: the plan is not flushed before the first case.
PlanWritten == "written"

PlanStored == "flushed"

WritePlan(r) ==
  /\ pc[r] = "plan"
  /\ plan = "absent"
  /\ GoTo(r, "key")
  /\ plan' = PlanStored
  /\ UNCHANGED <<memory, file, folder, receipt, ledger, losses>>

\* _read_secret and the checks before provider admission.
ReadKey(r) ==
  /\ pc[r] = "key"
  /\ GoTo(r, "probe")
  /\ UNCHANGED <<memory, file, receipts, ledger, losses>>

-----------------------------------------------------------------------------
(* The cases, one after the other. *)

\* The gateway is asked once; what the provider will charge is settled here.
Probe(r) ==
  /\ pc[r] = "probe"
  /\ GoTo(r, "reply")
  /\ sent' = [sent EXCEPT ![r] = @ + 1]
  /\ \E cost \in 0..Ceiling : charged' = [charged EXCEPT ![r][sent[r] + 1] = cost]
  /\ UNCHANGED <<memory, file, receipts, losses>>

Observe(r, status, failed, cost, model) ==
  /\ pc[r] = "reply"
  /\ GoTo(r, "receipt")
  /\ seen' = [seen EXCEPT ![r] =
       Append(@, [status |-> status, failed |-> failed, cost |-> cost, model |-> model])]
  /\ UNCHANGED <<text, file, receipts, ledger, losses>>

\* The gateway raised: nothing is known of the cost.
Raised(r) == Observe(r, "FAIL", TRUE, Unknown, "none")

Cost(r) == charged[r][sent[r]]

\* A result that fails validation; its cost is kept unless it is not finite.
Invalid(r) ==
  /\ pc[r] = "reply" /\ Cost(r) > 0
  /\ \E cost \in {Cost(r), Unknown} : Observe(r, "FAIL", TRUE, cost, "none")

\* Plausible bug: a backend is compared with the one before it in no case.
AnyBackend(r, model) == TRUE

\* resolved_by_workload.setdefault
SameBackend(r, model) ==
  \A i \in DOMAIN seen[r] :
    WorkloadOf[i] = WorkloadOf[sent[r]] => seen[r][i].model \in {"none", model}

\* A backend that changed within the run is a failure, a wrong label is not.
Answered(r) ==
  /\ pc[r] = "reply" /\ Cost(r) > 0
  /\ \E model \in Models :
       IF SameBackend(r, model)
         THEN \E status \in {"PASS", "FAIL"} : Observe(r, status, FALSE, Cost(r), model)
         ELSE Observe(r, "FAIL", TRUE, Cost(r), "none")

\* Plausible bug: receipts are not flushed.
ReceiptWritten == "written"

ReceiptStored == "flushed"

\* checkpoint: open("x"), write, flush, fsync.
WriteReceipt(r) ==
  /\ pc[r] = "receipt"
  /\ receipt[sent[r]] = NoReceipt
  /\ receipt' = [receipt EXCEPT ![sent[r]] =
       [stage |-> ReceiptStored, of |-> seen[r][sent[r]]]]
  /\ GoTo(r, IF sent[r] = Len(WorkloadOf) THEN "close" ELSE "probe")
  /\ UNCHANGED <<memory, file, folder, plan, ledger, losses>>

-----------------------------------------------------------------------------
(* The report. *)

Status(r) ==
  IF Len(seen[r]) = Len(WorkloadOf) /\ \A i \in Cases : seen[r][i].status = "PASS"
    THEN "PASS" ELSE "FAIL"

CostUnknown(r) == \E i \in DOMAIN seen[r] : seen[r][i].failed

ObservedCost(r) ==
  SumFunction([i \in DOMAIN seen[r] |->
                 IF seen[r][i].cost = Unknown THEN 0 ELSE seen[r][i].cost])

\* Gateway and database are closed, then the report is composed.
Close(r) ==
  /\ pc[r] = "close"
  /\ GoTo(r, "report")
  /\ text' = [text EXCEPT ![r] = [by |-> r, status |-> Status(r), cost |-> ObservedCost(r),
                                  unknown |-> CostUnknown(r)]]
  /\ seen' = [seen EXCEPT ![r] = <<>>]
  /\ UNCHANGED <<file, receipts, ledger, losses>>

-----------------------------------------------------------------------------
(* Failures. *)

\* What a write that did not end may have left of its new file.
Unfinished == {"absent", "partial", "written"}

CutShort(r) ==
  /\ IF pc[r] = "plan" /\ plan = "absent" THEN plan' \in Unfinished ELSE UNCHANGED plan
  /\ IF pc[r] = "receipt" /\ receipt[sent[r]] = NoReceipt
       THEN \E stage \in Unfinished :
              receipt' = [receipt EXCEPT ![sent[r]] =
                IF stage = "absent" THEN NoReceipt
                ELSE [stage |-> stage, of |-> seen[r][sent[r]]]]
       ELSE UNCHANGED receipt

\* A check, the database, the key file, a write or close() raised.
Fails(r) ==
  /\ pc[r] \in {"admit", "plan", "key", "receipt", "close"}
  /\ GoTo(r, "failed")
  /\ CutShort(r)
  /\ seen' = [seen EXCEPT ![r] = <<>>]
  /\ UNCHANGED <<text, file, folder, ledger, losses>>

\* Cancelled, killed or crashed: no Exception, and no report.
Die(w) ==
  /\ pc[w] \in Running
  /\ GoTo(w, "dead")
  /\ IF w \in Runs
       THEN CutShort(w) /\ seen' = [seen EXCEPT ![w] = <<>>]
       ELSE UNCHANGED <<plan, receipt, seen>>
  /\ UNCHANGED <<text, file, folder, ledger, losses>>

\* Every process dies; a folder that holds no flushed file may go as well.
PowerLoss ==
  /\ losses < MaxPowerLosses
  /\ losses' = losses + 1
  /\ pc' = [w \in Writers |-> IF pc[w] \in Running THEN "dead" ELSE pc[w]]
  /\ seen' = [r \in Runs |-> <<>>]
  /\ plan' \in Survivors(plan)
  /\ \E left \in [Cases -> {"absent", "partial", "flushed"}] :
       /\ \A i \in Cases : left[i] \in Survivors(receipt[i].stage)
       /\ receipt' = [i \in Cases |->
            IF left[i] = "absent" THEN NoReceipt ELSE [receipt[i] EXCEPT !.stage = left[i]]]
       /\ folder' \in {folder, folder /\ (plan' # "absent" \/ \E i \in Cases : left[i] # "absent")}
  /\ LoseTarget
  /\ UNCHANGED <<text, ledger>>

RunStep(r) ==
  \/ Refuse(r) \/ Check(r) \/ MakeFolder(r) \/ WritePlan(r) \/ ReadKey(r) \/ Probe(r)
  \/ Raised(r) \/ Invalid(r) \/ Answered(r) \/ WriteReceipt(r) \/ Close(r) \/ Fails(r)

Next ==
  \/ \E r \in Runs : RunStep(r)
  \/ \E w \in Writers :
       \/ WriteReport(w) /\ UNCHANGED <<seen, receipts, ledger, losses>>
       \/ Die(w)
  \/ PowerLoss

Spec == Init /\ [][Next]_vars

-----------------------------------------------------------------------------
\* "It sends the same four preregistered synthetic inputs to all four current
\* OpenAI routes exactly once" (docs/SYNTHETIC-SHADOW-POLICY.md), "never automatic
\* rerun/resume": whoever dies and whoever starts the command again or at the same
\* time, only one run ever hands cases to the gateway.
OncePerCase == \A r, q \in Runs : sent[r] > 0 /\ sent[q] > 0 => r = q

\* What a run leaves behind when it dies or the power fails: the plan, and all its
\* cases but the one in progress with what they cost, or that it is not known.
ReceiptsExplainLedger ==
  \A r \in Runs : sent[r] > 0 =>
    /\ folder /\ Whole(plan)
    /\ \A i \in 1..(sent[r] - 1) : Whole(receipt[i].stage)
    /\ \A i \in 1..sent[r] :
         Whole(receipt[i].stage) /\ receipt[i].of.cost # Unknown =>
           receipt[i].of.cost = charged[r][i]

Total(r) == SumFunction(charged[r])

Honest(report, r) ==
  /\ report.cost <= Total(r)
  /\ ~report.unknown => report.cost = Total(r)
  /\ report.status = "PASS" =>
       /\ ~report.unknown
       /\ \A i, j \in Cases :
            /\ receipt[i].of.status = "PASS"
            /\ WorkloadOf[i] = WorkloadOf[j] => receipt[i].of.model = receipt[j].of.model

\* A report claims no more than happened: its cost is what the ledger was charged
\* unless it says that a cost is unknown, and it is never more; PASS means that
\* every case was answered as expected, by one backend per workload.
ReportHonest ==
  \A r \in Runs : target.text.by = r => Honest(target.text, r)

\* "there is no overwrite/resume option": a process that was not told to overwrite
\* never replaces a report that is there.
NoOverwrite ==
  [][\A w \in Writers \ Overwriting : Replace(w) => target.stage = "absent"]_vars
-----------------------------------------------------------------------------
(* The inductive invariant. *)

Places == Running \cup {"idle", "refused", "failed", "dead", "reported"}
Stages == {"absent", "partial", "written", "flushed"}

Observation ==
  [status : {"PASS", "FAIL"}, failed : BOOLEAN, cost : Int, model : Models \cup {"none"}]

TypeOK ==
  /\ pc \in [Writers -> Places]
  /\ folder \in BOOLEAN /\ plan \in Stages
  /\ receipt \in [Cases -> [stage : Stages, of : Observation \cup {<<>>}]]
  /\ seen \in [Runs -> Seq(Observation)]
  /\ sent \in [Runs -> 0..Len(WorkloadOf)]
  /\ charged \in [Runs -> [Cases -> Nat]]

Admitted(r) == pc[r] \in {"key", "probe", "reply", "receipt"} \/ sent[r] > 0

\* The folder belongs to one run; after its plan is flushed nothing takes it away.
FolderInv ==
  /\ \A r \in Runs :
       /\ pc[r] = "plan" => folder
       /\ Admitted(r) => folder /\ plan = "flushed"
       /\ pc[r] \in {"idle", "admit", "plan", "key"} => sent[r] = 0
       /\ pc[r] \in {"reply", "receipt"} => sent[r] > 0
       /\ pc[r] = "probe" => sent[r] < Len(WorkloadOf)
  /\ \A r, q \in Runs :
       (pc[r] = "plan" \/ Admitted(r)) /\ (pc[q] = "plan" \/ Admitted(q)) => r = q

\* What a run has seen.
SeenOK(r) ==
  /\ pc[r] \in {"key", "plan", "admit", "idle"} => seen[r] = <<>>
  /\ pc[r] \in {"probe", "receipt"} => Len(seen[r]) = sent[r]
  /\ pc[r] = "reply" => Len(seen[r]) = sent[r] - 1
  /\ pc[r] = "receipt" => seen[r][sent[r]].cost \in {Unknown, charged[r][sent[r]]}

\* What its receipts say.
ReceiptsOK(r) ==
  sent[r] > 0 =>
    /\ \A i \in 1..sent[r] :
         /\ i < sent[r] \/ pc[r] = "probe" => receipt[i].stage = "flushed"
         /\ Whole(receipt[i].stage) => receipt[i].of.cost \in {Unknown, charged[r][i]}
    /\ \A i \in Cases :
         i > sent[r] \/ (i = sent[r] /\ pc[r] \in {"reply", "receipt"}) =>
           receipt[i] = NoReceipt

ReceiptInv ==
  /\ (\A r \in Runs : sent[r] = 0) => \A i \in Cases : receipt[i] = NoReceipt
  /\ \A r \in Runs : SeenOK(r) /\ ReceiptsOK(r)

IndInv == TypeOK /\ FolderInv /\ ReceiptInv

-----------------------------------------------------------------------------
(* What makes the report honest. *)

\* What a run has seen is what the provider charged, what one backend per workload
\* answered, and what the receipts say.
SeenFaithful(r) ==
  /\ pc[r] \notin {"probe", "reply", "receipt", "close"} => seen[r] = <<>>
  /\ pc[r] = "close" => Len(seen[r]) = Len(WorkloadOf)
  /\ seen[r] # <<>> => sent[r] > 0
  /\ \A i \in DOMAIN seen[r] :
       /\ seen[r][i].cost \in {Unknown, charged[r][i]}
       /\ seen[r][i].failed \/ seen[r][i].cost = charged[r][i]
       /\ seen[r][i].failed <=> seen[r][i].model = "none"
       /\ seen[r][i].status = "PASS" => ~seen[r][i].failed
       /\ i < sent[r] \/ pc[r] \in {"probe", "close"} =>
            receipt[i] = [stage |-> "flushed", of |-> seen[r][i]]
  /\ \A i, j \in DOMAIN seen[r] :
       WorkloadOf[i] = WorkloadOf[j] /\ ~seen[r][i].failed /\ ~seen[r][j].failed =>
         seen[r][i].model = seen[r][j].model

SeenInv == \A r \in Runs : SeenFaithful(r)

\* A run that is done with its cases: nothing changes its charges and receipts.
Closed(r) ==
  /\ pc[r] \notin {"idle", "admit", "plan", "key", "probe", "reply", "receipt", "close"}
  /\ sent[r] > 0
  /\ \A i \in Cases : receipt[i].stage = "flushed"

\* The text of a run that is about to report, and what is or may come to the path.
TextInv ==
  /\ DOMAIN text = Writers /\ \A w \in Writers : text[w].by = w
  /\ \A r \in Runs :
       pc[r] \in {"report", "write", "replace"} => Closed(r) /\ Honest(text[r], r)

FilesInv ==
  \A f \in {target, previous}, r \in Runs :
    f.text.by = r => Closed(r) /\ Honest(f.text, r)

HonestInv == IndInv /\ SeenInv /\ TextInv /\ FilesInv
=============================================================================
