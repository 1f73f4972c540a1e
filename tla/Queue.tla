-------------------------------- MODULE Queue --------------------------------
(***************************************************************************)
(* The two readers of a queue file: src/src/run_queue.py, which runs its   *)
(* lines in one checkout and keeps a ledger of what passed, and            *)
(* src/src/assign.py, which turns them into rows of the board.  They share *)
(* nothing, so each has a next-state relation of its own.                  *)
(*                                                                         *)
(* A checkout is reduced to whose edits are in it: unstaged edits of       *)
(* tracked files, staged ones, new files.  A scheduled run may be killed   *)
(* anywhere.  Definitions marked "variant" belong to no specification;     *)
(* each is the definition it precedes with a plausible defect.             *)
(***************************************************************************)
EXTENDS Integers, FiniteSets, Sequences

CONSTANTS
  Lines,      \* how many lines the file has; a line's number is its id
  MaxNights,  \* bound on runs of the queue
  MaxEdits,   \* bound on edits of a line
  MaxBoardRows \* bound on rows made from the file

ASSUME QueueAssumption ==
  Lines \in Nat \ {0} /\ {MaxNights, MaxEdits, MaxBoardRows} \subseteq Nat

VARIABLES
  night,    \* runs of run_queue.py so far
  already,  \* done_ids() as this run read them
  line,     \* the line it is at, 0 when no run is going
  errand,   \* what comes next for it
  kept,     \* whose work the checkout holds, by kind of edit
  runLog    \* the ledger: [id, result, night]

VARIABLES
  edition,  \* for each line the version of it in the file
  reading,  \* the line assign is at, 0 when it is not running
  made      \* the rows: [key, body, gate, archived]

queueVars  == <<night, already, line, errand, kept, runLog>>
assignVars == <<edition, reading, made>>

Ids   == 1..Lines
EditKinds == {"unstaged", "staged", "untracked"}

QueueInit ==
  /\ night = 0 /\ already = {} /\ line = 0 /\ errand = "none"
  /\ kept = [k \in EditKinds |-> {}] /\ runLog = <<>>

AssignInit == edition = [i \in Ids |-> 1] /\ reading = 0 /\ made = <<>>

-----------------------------------------------------------------------------
(* run_queue.py *)

ResultsOf(i) == {runLog[e].result : e \in {n \in 1..Len(runLog) : runLog[n].id = i}}

(* Variants: a line that was attempted is done; one that once failed is not. *)
Attempted   == {i \in Ids : ResultsOf(i) # {}}
NeverFailed == {i \in Ids : "pass" \in ResultsOf(i) /\ "fail" \notin ResultsOf(i)}

DoneIds == {i \in Ids : "pass" \in ResultsOf(i)}

NightBegins ==
  /\ line = 0 /\ night < MaxNights
  /\ night' = night + 1 /\ already' = DoneIds
  /\ line' = 1 /\ errand' = "agent"
  /\ UNCHANGED <<kept, runLog>>

NextLine ==
  /\ line' = IF line = Lines THEN 0 ELSE line + 1
  /\ errand' = IF line = Lines THEN "none" ELSE "agent"

LogRecords(result) ==
  runLog' = Append(runLog, [id |-> line, result |-> result, night |-> night])

SkipsPassed ==
  /\ errand = "agent" /\ line \in already
  /\ NextLine
  /\ UNCHANGED <<night, already, kept, runLog>>

(* The checkout is on another branch than the line expects. *)
SkipsBranch ==
  /\ errand = "agent" /\ line \notin already
  /\ LogRecords("skip") /\ NextLine
  /\ UNCHANGED <<night, already, kept>>

(* `hermes -z`: the agent edits, stages and creates what it likes. *)
AgentWorks ==
  /\ errand = "agent" /\ line \notin already
  /\ \E kinds \in SUBSET EditKinds :
       kept' = [k \in EditKinds |-> kept[k] \cup {i \in {line} : k \in kinds}]
  /\ errand' = "verify"
  /\ UNCHANGED <<night, already, line, runLog>>

VerifyPasses ==
  /\ errand = "verify"
  /\ LogRecords("pass") /\ NextLine
  /\ UNCHANGED <<night, already, kept>>

(* Variant: `git reset` puts the edits back in the working tree. *)
IndexReset == kept' = [kept EXCEPT !["unstaged"] = @ \cup kept["staged"], !["staged"] = {}]

(* `git checkout -- .` takes every file git tracks back to the index, *)
(* whoever edited it.                                                 *)
CheckedOut == kept' = [kept EXCEPT !["unstaged"] = {}]

VerifyFails ==
  /\ errand = "verify"
  /\ CheckedOut
  /\ errand' = "record"
  /\ UNCHANGED <<night, already, line, runLog>>

RecordsFailure ==
  /\ errand = "record"
  /\ LogRecords("fail") /\ NextLine
  /\ UNCHANGED <<night, already, kept>>

(* The scheduler's limit or a reboot ends the run; nothing is written. *)
NightIsCut ==
  /\ line # 0 /\ night < MaxNights
  /\ line' = 0 /\ errand' = "none"
  /\ UNCHANGED <<night, already, kept, runLog>>

QueueStep ==
  SkipsPassed \/ SkipsBranch \/ AgentWorks \/ VerifyPasses \/ VerifyFails \/ RecordsFailure

QueueNext == NightBegins \/ NightIsCut \/ QueueStep
QueueSpec == QueueInit /\ [][QueueNext]_queueVars /\ WF_queueVars(QueueStep)

QueueTypeOK ==
  /\ night \in 0..MaxNights /\ already \subseteq Ids /\ line \in 0..Lines
  /\ errand \in {"none", "agent", "verify", "record"}
  /\ kept \in [EditKinds -> SUBSET Ids]
  /\ runLog \in Seq([id : Ids, result : {"pass", "fail", "skip"}, night : 1..MaxNights])

(* "A nightly run retries only what is broken": no agent is started for a  *)
(* line that had passed when the run began, and after a failure was        *)
(* recorded none of its unstaged edits are in the tree.                    *)
OnlyBrokenIsRetried ==
  (errand = "agent" /\ errand' = "verify") =>
     \A e \in 1..Len(runLog) :
       runLog[e].id = line /\ runLog[e].night < night => runLog[e].result # "pass"

FailedEditsGo ==
  (errand = "record" /\ runLog' # runLog) => line \notin kept'["unstaged"]

(* A run that is not cut decides every line: it passes, now or before, or  *)
(* gets a result of this run.                                              *)
EveryLineIsDecided ==
  night = MaxNights ~>
    \A i \in Ids : \E e \in 1..Len(runLog) :
      runLog[e].id = i /\ (runLog[e].result = "pass" \/ runLog[e].night = MaxNights)

-----------------------------------------------------------------------------
(* assign.py --from-queue *)

LineIsEdited ==
  /\ \E i \in Ids :
       edition[i] <= MaxEdits /\ edition' = [edition EXCEPT ![i] = @ + 1]
  /\ UNCHANGED <<reading, made>>

AssignBegins ==
  /\ reading = 0 /\ reading' = 1
  /\ UNCHANGED <<edition, made>>

(* Variant: a row is looked up by its key and its text. *)
HoldersOfText(key) ==
  {r \in 1..Len(made) : made[r].key = key /\ made[r].body = edition[key] /\ ~made[r].archived}

Holders(key) == {r \in 1..Len(made) : made[r].key = key /\ ~made[r].archived}

(* Variant: the verify columns are written whether or not the row is new. *)
GateRefreshed(key) ==
  made' = [r \in 1..Len(made) |->
             IF r \in Holders(key) THEN [made[r] EXCEPT !.gate = edition[key]] ELSE made[r]]

(* board.create_task: a key that a row still holds makes the call a no-op. *)
LeftAsItIs(key) == UNCHANGED made

ReadsOn == reading' = IF reading = Lines THEN 0 ELSE reading + 1

LineIsKnown ==
  /\ reading # 0 /\ Holders(reading) # {}
  /\ LeftAsItIs(reading) /\ ReadsOn
  /\ UNCHANGED edition

LineBecomesRow ==
  /\ reading # 0 /\ Holders(reading) = {} /\ Len(made) < MaxBoardRows
  /\ made' = Append(made, [key |-> reading, body |-> edition[reading],
                           gate |-> edition[reading], archived |-> FALSE])
  /\ ReadsOn
  /\ UNCHANGED edition

(* A line without a field it needs ends the run; the rows before it stay. *)
LineIsRefused ==
  /\ reading # 0 /\ reading' = 0
  /\ UNCHANGED <<edition, made>>

RowIsArchived ==
  /\ \E r \in 1..Len(made) :
       ~made[r].archived /\ made' = [made EXCEPT ![r].archived = TRUE]
  /\ UNCHANGED <<edition, reading>>

AssignNext ==
  LineIsEdited \/ AssignBegins \/ LineIsKnown \/ LineBecomesRow \/ LineIsRefused \/ RowIsArchived

AssignSpec == AssignInit /\ [][AssignNext]_assignVars

AssignTypeOK ==
  /\ edition \in [Ids -> 1..MaxEdits + 1] /\ reading \in 0..Lines
  /\ made \in Seq([key : Ids, body : Nat, gate : Nat, archived : BOOLEAN])

(* "A fresh oracle bolted onto an old workspace" never happens: the gate   *)
(* of a row is the gate its prompt was written with, and no two live rows  *)
(* come from one line, however often the file is edited and assigned.      *)
GateMatchesBody == \A r \in 1..Len(made) : made[r].gate = made[r].body
OneLiveRow ==
  \A r, s \in 1..Len(made) :
    made[r].key = made[s].key /\ ~made[r].archived /\ ~made[s].archived => r = s

(* What a queue file asks for is done once and as it was asked: a night     *)
(* retries only what is broken and takes back the edits of what failed, and *)
(* a row of the board is one line as it was read, prompt and gate together. *)
LinesAreKept ==
  [][OnlyBrokenIsRetried /\ FailedEditsGo
     /\ GateMatchesBody' /\ OneLiveRow']_<<queueVars, assignVars>>
=============================================================================
