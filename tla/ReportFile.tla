------------------------------ MODULE ReportFile ------------------------------
(***************************************************************************)
(* kairos_llm/qualification.py: _write_report, with which a paid run ends. *)
(* Nothing keeps two processes from being started with one --output.       *)
(*                                                                         *)
(* The file system is external: text that was flushed survives a power     *)
(* failure, text that was only written may be lost or cut, and a rename is *)
(* undone at worst, since the directory is not flushed.                    *)
(***************************************************************************)
CONSTANTS Writers,      \* the processes that report to one path
          Overwriting   \* those that were given --overwrite

VARIABLES
  pc,        \* where each process is
  text,      \* what each process has to report
  target,    \* the file at the path: how far it is stored, and its text
  previous   \* the file that a lost rename would bring back

file == <<target, previous>>

NoText == [by |-> "nobody"]
NoFile == [stage |-> "absent", text |-> NoText]

Whole(stage) == stage \in {"written", "flushed"}

\* What a power failure leaves of a file.
Survivors(stage) ==
  CASE stage = "flushed" -> {"flushed"}
    [] stage = "written" -> {"absent", "partial", "flushed"}
    [] OTHER             -> {"absent", stage}

GoTo(w, place) == pc' = [pc EXCEPT ![w] = place]

\* "refusing to overwrite": the only look at the path.
TestTarget(w) ==
  /\ pc[w] = "report"
  /\ GoTo(w, IF target.stage # "absent" /\ w \notin Overwriting THEN "refused"
             ELSE "write")
  /\ UNCHANGED <<text, file>>

\* The text goes to a temporary file of its own.
WriteTemporary(w) ==
  /\ pc[w] = "write"
  /\ GoTo(w, "replace")
  /\ UNCHANGED <<text, file>>

\* mkstemp, write, flush or replace raised; the temporary file is removed.
WriteReportFails(w) ==
  /\ pc[w] \in {"write", "replace"}
  /\ GoTo(w, "failed")
  /\ UNCHANGED <<text, file>>

\* Plausible bug: the temporary file is not flushed before it is renamed.
RenamedUnflushed(w) == [stage |-> "written", text |-> text[w]]

Renamed(w) == [stage |-> "flushed", text |-> text[w]]

\* os.replace does not ask what it replaces.
Replace(w) ==
  /\ pc[w] = "replace"
  /\ GoTo(w, "reported")
  /\ target' = Renamed(w)
  /\ previous' = target
  /\ UNCHANGED text

WriteReport(w) ==
  TestTarget(w) \/ WriteTemporary(w) \/ WriteReportFails(w) \/ Replace(w)

Lost(f) ==
  {IF stage = "absent" THEN NoFile ELSE [f EXCEPT !.stage = stage] :
     stage \in Survivors(f.stage)}

LoseTarget ==
  /\ target' \in Lost(target) \cup {previous}
  /\ previous' = target'

-----------------------------------------------------------------------------
\* The report is "written atomically" (docs/SYNTHETIC-SHADOW-POLICY.md): what is
\* at the path is one process's whole report, also after a power failure.
ReportWhole == target.stage # "partial"
=============================================================================
