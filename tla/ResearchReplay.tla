--------------------------- MODULE ResearchReplay ---------------------------
(***************************************************************************)
(* kairos_llm/research.py: ResearchProposalCoordinator.replay_sample.      *)
(* A replay pairs a stored evaluation with what the journal says of the    *)
(* attempt and records one decision sample.  It runs beside the observers  *)
(* of ResearchAttempt: the journal may change between the replay's read    *)
(* and its write.                                                          *)
(***************************************************************************)
EXTENDS ResearchAttempt

CONSTANTS Replays,      \* runs of replay_sample()
          ReplayTarget  \* the attempt identity each of them computes

ASSUME ReplayTargetType == ReplayTarget \in [Replays -> Attempts]

VARIABLES sample,     \* decision sample rows: slot -> outcome or "none"
          at,         \* where a replay is
          pairing     \* the LLM outcome a replay derived from its read

replayVars == <<sample, at, pairing>>
allVars == <<vars, replayVars>>

Outcomes == {"NOT_CALLED", "CALL_FAILED", "PROPOSAL"}

ReplayInit ==
  /\ Init
  /\ sample = [s \in Samples |-> "none"]
  /\ at = [r \in Replays |-> "read"]
  /\ pairing = [r \in Replays |-> "none"]

\* ResearchAttemptObservation.unresolved, for an attempt that was found.
Unresolved(a) == started[a] # Nobody /\ terminal[a] \in {"open", "UNRESOLVED"}

\* A plausible bug: an unresolved call pairs as a failed one.
UnresolvedPairsAsFailure(a) ==
  CASE terminal[a] = "COMPLETED" -> "PROPOSAL"
    [] started[a] = Nobody -> "NOT_CALLED"
    [] OTHER -> "CALL_FAILED"

\* What the stored facts say of the call; an unresolved attempt says nothing.
PairedOutcome(a) ==
  IF Unresolved(a) THEN "refused"
  ELSE IF started[a] = Nobody THEN "NOT_CALLED"
  ELSE IF terminal[a] = "FAILED" THEN "CALL_FAILED" ELSE "PROPOSAL"

\* find_attempt, then the sample is built from that answer.
ReadAttempt(r) ==
  /\ at[r] = "read"
  /\ LET o == PairedOutcome(ReplayTarget[r]) IN
       IF o = "refused"
         THEN /\ at' = [at EXCEPT ![r] = "raised"]
              /\ UNCHANGED pairing
         ELSE /\ at' = [at EXCEPT ![r] = "record"]
              /\ pairing' = [pairing EXCEPT ![r] = o]
  /\ UNCHANGED <<vars, sample>>

\* The evaluation is missing, late or another one; a source does not match;
\* a receipt observed after the deadline cannot be built into a sample.
ReplayRefused(r) ==
  /\ at[r] \in {"read", "record"}
  /\ at' = [at EXCEPT ![r] = "raised"]
  /\ UNCHANGED <<vars, sample, pairing>>

\* The journal's record_verified_sample is external: it accepts NOT_CALLED only if
\* no attempt of that sample exists when the row is written, and one row.
RecordVerified(r) ==
  LET s == SampleOf[ReplayTarget[r]] IN
  /\ at[r] = "record"
  /\ pairing[r] = "NOT_CALLED" =>
       \A a \in Attempts : SampleOf[a] = s => started[a] = Nobody
  /\ sample[s] \in {"none", pairing[r]}
  /\ sample' = [sample EXCEPT ![s] = pairing[r]]
  /\ at' = [at EXCEPT ![r] = "recorded"]
  /\ UNCHANGED <<vars, pairing>>

ReplayNext ==
  \/ Next /\ UNCHANGED replayVars
  \/ \E r \in Replays : ReadAttempt(r) \/ ReplayRefused(r) \/ RecordVerified(r)

ReplaySpec == ReplayInit /\ [][ReplayNext]_allVars

-----------------------------------------------------------------------------
ReplayTypeOK ==
  /\ TypeOK
  /\ sample \in [Samples -> Outcomes \cup {"none"}]
  /\ at \in [Replays -> {"read", "record", "recorded", "raised"}]
  /\ pairing \in [Replays -> Outcomes \cup {"none"}]

\* A paired decision is backed by the journal: a PROPOSAL sample by an attempt
\* whose call completed and was settled, a CALL_FAILED sample by one that was
\* dispatched, failed and still holds its reservation.
SampleBacked ==
  \A s \in Samples :
    LET backedBy(status, spent) ==
          \E a \in Attempts :
            /\ SampleOf[a] = s
            /\ terminal[a] = status /\ ledger[a] = spent
            /\ started[a] \in dispatched
    IN /\ sample[s] = "PROPOSAL" => backedBy("COMPLETED", "settled")
       /\ sample[s] = "CALL_FAILED" => backedBy("FAILED", "held")
=============================================================================
