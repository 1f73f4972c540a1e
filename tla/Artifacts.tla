------------------------------ MODULE Artifacts ------------------------------
(***************************************************************************)
(* What a run made, from the working tree to the phone: the worker reads   *)
(* the tree when the agent stops, verifies, records the artifacts of a     *)
(* pass or keeps those of a rejection, and corrects the paths of files the *)
(* verify command moved (src/src/worker.py, src/src/preserve.py); the      *)
(* Telegram daemon reads the same board and the same run directory and     *)
(* renders one card (src/src/completion_report.py).                        *)
(*                                                                         *)
(* One run, which starts in a clean tree, and the poll that announces it.  *)
(* Definitions marked "variant" belong to no specification; each is the    *)
(* definition it precedes with a plausible defect.                         *)
(***************************************************************************)
EXTENDS Integers, FiniteSets

CONSTANTS
  Files,      \* paths the agent or the verify command may touch
  Committed,  \* those that are in the tree before the run
  Promised,   \* those the task promises (expected_artifacts)
  Lookalikes, \* paths with a file of their name and size elsewhere in the tree
  Unsent      \* stands for a card that was not sent

ASSUME ArtifactsAssumption ==
  /\ Committed \subseteq Files /\ Promised \subseteq Files /\ Lookalikes \subseteq Files

VARIABLES
  phase,     \* where the worker stands
  did,       \* what the agent did to each path
  left,      \* what the agent wrote and the verify command left in place
  lies,      \* where the file the path named is: "here", "filed" or "gone"
  observed,  \* the porcelain records, path and change
  records,   \* triai_run_artifacts: for each recorded path what it leads to
  keeps,     \* the paths preserve.keep copied
  missed,    \* those it could not copy, or not put on its manifest
  outcome,   \* task_runs.status: "open" until the run is closed
  card       \* the files the card names, or Unsent

runVars  == <<phase, did, left, lies, observed, keeps, missed, outcome>>
artifactVars == <<runVars, records, card>>

ArtifactsInit ==
  /\ phase = "agent"
  /\ did = [f \in Files |-> "nothing"]
  /\ lies = [f \in Files |-> IF f \in Committed THEN "here" ELSE "gone"]
  /\ left = {} /\ observed = {} /\ records = [f \in {} |-> f]
  /\ keeps = {} /\ missed = {}
  /\ outcome = "open" /\ card = Unsent

-----------------------------------------------------------------------------
(* The agent, and the look at the tree when it stops *)

AgentStops ==
  /\ phase = "agent"
  /\ \E what \in [Files -> {"nothing", "wrote", "deleted"}] :
       /\ \A f \in Files : what[f] = "deleted" => f \in Committed
       /\ did' = what
       /\ lies' = [f \in Files |-> CASE what[f] = "wrote"   -> "here"
                                     [] what[f] = "deleted" -> "gone"
                                     [] OTHER               -> lies[f]]
  /\ phase' = "stopped"
  /\ UNCHANGED <<left, observed, keeps, missed, outcome, records, card>>

(* Variant: what is in the tree when the artifacts are recorded. *)
ObservesLate == [f \in Files |-> IF lies[f] = "here" /\ f \notin Committed THEN "wrote" ELSE did[f]]

(* _porcelain_artifacts: new, changed and deleted paths alike *)
Porcelain == did

Changed(what) == {<<f, what[f]>> : f \in {g \in Files : what[g] # "nothing"}}

(* _declared_artifacts_present, before the verify command may run.  A run   *)
(* that breaks its promise is reverted and fails; nothing is copied.        *)
Observes ==
  /\ phase = "stopped"
  /\ observed' = Changed(Porcelain)
  /\ phase' = IF \A f \in Promised : lies[f] = "here" THEN "verify" ELSE "revert"
  /\ UNCHANGED <<did, left, lies, keeps, missed, outcome, records, card>>

(* A runtime that failed, or a model that was not the one pinned, is no     *)
(* turn: the tree is reverted before anybody looks at it.                   *)
TurnFails ==
  /\ phase = "stopped"
  /\ phase' = "revert"
  /\ UNCHANGED <<did, left, lies, observed, keeps, missed, outcome, records, card>>

(* run_verify: the command may file, delete and create files. *)
Verifies(passed) ==
  /\ phase = "verify"
  /\ \E after \in [Files -> {"here", "filed", "gone"}] :
       /\ \A f \in Files : lies[f] = "gone" => after[f] \in {"gone", "here"}
       /\ lies' = after
       /\ left' = {f \in Files : did[f] = "wrote" /\ after[f] = "here"}
  /\ phase' = IF passed THEN "complete" ELSE "keep"
  /\ UNCHANGED <<did, observed, keeps, missed, outcome, records, card>>

-----------------------------------------------------------------------------
(* A pass: complete_task, _record_artifacts, _relocate_moved_artifacts *)

Completes ==
  /\ phase = "complete"
  /\ outcome' = "done" /\ phase' = "record"
  /\ UNCHANGED <<did, left, lies, observed, keeps, missed, records, card>>

(* Variant: read afresh, as for a caller that observed nothing. *)
RecordsAfresh ==
  /\ phase = "record"
  /\ records' = [f \in {g \in Files : ObservesLate[g] # "nothing"} |-> f]
  /\ phase' = "relocate"
  /\ UNCHANGED <<did, left, lies, observed, keeps, missed, outcome, card>>

RecordsArtifacts ==
  /\ phase = "record"
  /\ records' = [f \in {o[1] : o \in observed} |-> f]
  /\ phase' = "relocate"
  /\ UNCHANGED <<did, left, lies, observed, keeps, missed, outcome, card>>

(* The files of this name: a deleted path was recorded without a size, so   *)
(* that any file of its name will do.                                       *)
Candidates(f) ==
  (IF lies[f] = "filed" THEN {<<f, "filed">>} ELSE {})
    \cup (IF f \in Lookalikes THEN {<<f, "lookalike">>} ELSE {})

(* Only what no longer resolves is touched, and only if one file fits. *)
Relocates ==
  /\ phase = "relocate"
  /\ records' = [f \in DOMAIN records |->
                   IF lies[f] # "here" /\ Cardinality(Candidates(f)) = 1
                     THEN CHOOSE c \in Candidates(f) : TRUE
                     ELSE records[f]]
  /\ phase' = "over"
  /\ UNCHANGED <<did, left, lies, observed, keeps, missed, outcome, card>>

-----------------------------------------------------------------------------
(* A rejection: preserve.keep, revert, and the failure on the board *)

(* Variant: the revert comes first. *)
KeepsReverted ==
  /\ phase = "keep"
  /\ keeps' = {}
  /\ phase' = "revert"
  /\ UNCHANGED <<did, left, lies, observed, missed, outcome, records, card>>

(* What was observed and is still where it was is copied, except what the   *)
(* disk does not take; a manifest that cannot be written loses all of it.   *)
Keeps ==
  /\ phase = "keep"
  /\ LET there == {f \in {o[1] : o \in observed} : lies[f] = "here"} IN
       /\ missed' \in SUBSET there
       /\ keeps' = there \ missed'
  /\ phase' = "revert"
  /\ UNCHANGED <<did, left, lies, observed, outcome, records, card>>

Reverts ==
  /\ phase = "revert"
  /\ lies' = [f \in Files |-> IF f \in Committed THEN "here" ELSE "gone"]
  /\ phase' = "fail"
  /\ UNCHANGED <<did, left, observed, keeps, missed, outcome, records, card>>

SettlesFailed ==
  /\ phase = "fail"
  /\ outcome' = "failed" /\ phase' = "over"
  /\ UNCHANGED <<did, left, lies, observed, keeps, missed, records, card>>

WorkerDies ==
  /\ phase \notin {"over", "dead"}
  /\ phase' = "dead"
  /\ UNCHANGED <<did, left, lies, observed, keeps, missed, outcome, records, card>>

-----------------------------------------------------------------------------
(* completion_report.render, of a run that is closed and not announced: its *)
(* records, or else what was kept of it, or else "produced no files".       *)
ShowsCard ==
  /\ outcome # "open" /\ card = Unsent
  /\ card' = IF DOMAIN records # {} THEN DOMAIN records ELSE keeps
  /\ UNCHANGED <<runVars, records>>

ArtifactsNext ==
  \/ AgentStops \/ TurnFails \/ Observes \/ \E passed \in BOOLEAN : Verifies(passed)
  \/ Completes \/ RecordsArtifacts \/ Relocates
  \/ Keeps \/ Reverts \/ SettlesFailed \/ WorkerDies \/ ShowsCard

ArtifactsSpec == ArtifactsInit /\ [][ArtifactsNext]_artifactVars

-----------------------------------------------------------------------------
ArtifactsTypeOK ==
  /\ phase \in {"agent", "stopped", "verify", "complete", "record", "relocate",
                "keep", "revert", "fail", "over", "dead"}
  /\ lies \in [Files -> {"here", "filed", "gone"}]
  /\ DOMAIN records \subseteq Files /\ keeps \subseteq Files /\ missed \subseteq Files
  /\ outcome \in {"open", "done", "failed"}
  /\ card = Unsent \/ card \subseteq Files

(* What is recorded for a run is what its agent changed: nothing the verify *)
(* command made, filed or left behind is ever credited to it.               *)
CreditedToAgent == \A f \in DOMAIN records : did[f] # "nothing"

(* A run its verify command rejected is announced with every file it wrote  *)
(* that the command left in place and the disk took: the tree has been      *)
(* reverted by then, and the run is on the board only after the copying.    *)
RejectionsAreShown ==
  (card # Unsent /\ outcome = "failed") => (left \ missed \subseteq card)

(* The report of a run names its agent's work: nothing else, and of a       *)
(* rejected run all that could be kept.                                    *)
ReportIsTrue == CreditedToAgent /\ RejectionsAreShown
=============================================================================
