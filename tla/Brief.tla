------------------------------- MODULE Brief --------------------------------
(***************************************************************************)
(* The taste gate over the attempts of one task: src/src/taste.py and its  *)
(* use in execute_task of src/src/worker.py.  An agent asked for something *)
(* people look at must first write BRIEF.md; the verifier (outside src/,   *)
(* it calls taste.py check) holds the work to the brief, and what it says  *)
(* is told to the next attempt.                                            *)
(*                                                                         *)
(* Of a brief the model keeps how many promises and references it has, and *)
(* whether it has all the sections that are asked for; of a page, how many *)
(* promises of its brief it shows and whether it stands above the floor    *)
(* (no filler, a palette, a typeface, an image where one is expected).     *)
(* Findings are kinds: the words of each, and the cut after the eighth in  *)
(* what the next agent is told of them, are left out.                      *)
(* Definitions marked "variant" belong to no specification; each is the    *)
(* definition it precedes with a plausible defect.                         *)
(***************************************************************************)
EXTENDS Integers, FiniteSets, Sequences

CONSTANTS
  Outcomes,      \* what an agent may produce
  MaxAttempts,   \* bound on the attempts at the task
  MaxRewrites    \* bound on edits of ~/.tri-ai/taste.json

(* A promise that is not in the brief is not kept.                         *)
AllWork ==
  {w \in [brief : {"none", "own"}, promises : 0..2, references : 0..1,
          sections : BOOLEAN, kept : 0..2, page : BOOLEAN, good : BOOLEAN] :
     /\ w.kept <= w.promises
     /\ w.brief = "none" => w.promises = 0 /\ w.references = 0 /\ ~w.sections
     /\ w.good => w.page}

ASSUME BriefAssumption ==
  Outcomes \subseteq AllWork /\ MaxAttempts \in Nat /\ MaxRewrites \in Nat

VARIABLES
  taste,     \* ~/.tri-ai/taste.json: "absent", "lenient", "off" or "broken"
  rewrites,
  named,     \* the request names the page's file
  disk,      \* of BRIEF.md and the page, those in the workspace before a run
  turnOf,    \* "idle", "agent", "verify"
  toldAgent, \* what the attempt under way was told
  work,      \* what it produced
  logs       \* for each earlier attempt: told, work, verdict, findings

briefVars == <<taste, rewrites, named, disk, turnOf, toldAgent, work, logs>>

Standard(promises, references, enabled) ==
  [promises |-> promises, references |-> references, enabled |-> enabled]
Default == Standard(2, 1, TRUE)

NoWork == [brief |-> "none", promises |-> 0, references |-> 0, sections |-> FALSE,
           kept |-> 0, page |-> FALSE, good |-> FALSE]
Untold == [standard |-> Default, required |-> FALSE, reasons |-> {}]

BriefInit ==
  /\ taste \in {"absent", "lenient", "off", "broken"} /\ rewrites = 0
  /\ named \in BOOLEAN
  /\ disk \in SUBSET {"brief", "page"}
  /\ turnOf = "idle" /\ toldAgent = Untold /\ work = NoWork /\ logs = <<>>

-----------------------------------------------------------------------------
(* load: an absent file and a broken one both mean the defaults. *)
Load == CASE taste = "lenient" -> Standard(1, 0, TRUE)
          [] taste = "off"     -> Standard(2, 1, FALSE)
          [] OTHER             -> Default

OperatorRewrites ==
  /\ rewrites < MaxRewrites /\ rewrites' = rewrites + 1
  /\ taste' \in {"absent", "lenient", "off", "broken"} \ {taste}
  /\ UNCHANGED <<named, disk, turnOf, toldAgent, work, logs>>

(* The request names a file that is already where the agent will work. *)
IsRepair == named /\ "page" \in disk

AppliesTo(standard) == standard.enabled /\ ~IsRepair

LatestOf(of) == CHOOSE k \in of : \A j \in of : j <= k

(* Variant: the attempts are read from the oldest. *)
EarliestOf(of) == CHOOSE k \in of : \A j \in of : k <= j

LastRejected(of) == LatestOf(of)

(* previous_rejection: the complaints of the last attempt that has any. *)
PreviousRejection ==
  LET rejected == {k \in DOMAIN logs : logs[k].findings # {}}
  IN  IF rejected = {} THEN {} ELSE logs[LastRejected(rejected)].findings

(* What the prompt says of the bar, and of the attempt before. *)
BriefFor(standard) ==
  [standard |-> standard, required |-> AppliesTo(standard), reasons |-> PreviousRejection]

Starts ==
  /\ turnOf = "idle" /\ Len(logs) < MaxAttempts
  /\ \A k \in DOMAIN logs : logs[k].verdict # "accepted"
  /\ toldAgent' = BriefFor(Load)
  /\ turnOf' = "agent"
  /\ UNCHANGED <<taste, rewrites, named, disk, work, logs>>

AgentWorks ==
  /\ turnOf = "agent" /\ turnOf' = "verify"
  /\ work' \in Outcomes
  /\ UNCHANGED <<taste, rewrites, named, disk, toldAgent, logs>>

-----------------------------------------------------------------------------
(* taste.py check *)

(* collect: a brief this run did not produce is found, and found out. *)
Collected ==
  IF work.brief = "none" /\ "brief" \in disk THEN [work EXCEPT !.brief = "old"] ELSE work

Lesser(a, b) == IF a <= b THEN a ELSE b

CheckBrief(w, standard) ==
  (IF w.promises < standard.promises THEN {"few promises"} ELSE {})
    \cup (IF w.references < standard.references THEN {"few references"} ELSE {})
    \cup (IF w.sections THEN {} ELSE {"no section"})

CheckWork(w, standard) ==
  (CASE w.brief = "none" -> {"no brief"}
     [] w.brief = "old"  -> {"an earlier brief"}
     [] OTHER -> CheckBrief(w, standard)
          \cup (IF w.promises > 0 /\ w.kept < Lesser(standard.promises, w.promises)
                THEN {"promises not kept"} ELSE {}))
    \cup (IF w.page /\ ~w.good THEN {"below the floor"} ELSE {})

(* Variant: the verifier reads taste.json for itself. *)
ReadAgain == Load

(* The snapshot of the standard the agent was set. *)
FromSnapshot == toldAgent.standard

Found ==
  IF ~toldAgent.required THEN {} ELSE CheckWork(Collected, FromSnapshot)

(* Variant: a rejected run's files stay. *)
StaysOnDisk ==
  disk' = disk \cup (IF work.brief = "own" THEN {"brief"} ELSE {})
               \cup (IF work.page THEN {"page"} ELSE {})

(* The worker stashes what a rejected run left. *)
IsReverted == disk' = disk

Ends(verdict, findings) ==
  /\ logs' = Append(logs, [toldAgent |-> toldAgent, work |-> work, verdict |-> verdict,
                           findings |-> findings])
  /\ turnOf' = "idle" /\ toldAgent' = Untold /\ work' = NoWork
  /\ UNCHANGED <<taste, rewrites, named>>

TasteRejects ==
  /\ turnOf = "verify" /\ Found # {}
  /\ Ends("rejected", Found) /\ IsReverted

(* The rest of the operator's verify command, or the agent itself, fails. *)
FailsOtherwise ==
  /\ turnOf = "verify"
  /\ Ends("failed", {}) /\ IsReverted

Accepted ==
  /\ turnOf = "verify" /\ Found = {}
  /\ Ends("accepted", {})
  /\ UNCHANGED disk

BriefNext == OperatorRewrites \/ Starts \/ AgentWorks
             \/ TasteRejects \/ FailsOtherwise \/ Accepted

BriefSpec == BriefInit /\ [][BriefNext]_briefVars

-----------------------------------------------------------------------------
Findings == {"no brief", "an earlier brief", "few promises", "few references",
             "no section", "promises not kept", "below the floor"}

BriefTypeOK ==
  /\ taste \in {"absent", "lenient", "off", "broken"}
  /\ rewrites \in 0..MaxRewrites /\ named \in BOOLEAN
  /\ disk \subseteq {"brief", "page"} /\ turnOf \in {"idle", "agent", "verify"}
  /\ toldAgent.required \in BOOLEAN /\ toldAgent.reasons \subseteq Findings
  /\ Len(logs) <= MaxAttempts
  /\ \A k \in DOMAIN logs :
       /\ logs[k].verdict \in {"accepted", "rejected", "failed"}
       /\ (logs[k].verdict = "rejected") <=> (logs[k].findings # {})

Meets(w, standard) ==
  /\ w.brief = "own" /\ w.promises >= standard.promises
  /\ w.references >= standard.references /\ w.sections /\ w.kept >= standard.promises
  /\ w.page => w.good

(* "The bar the agent is set is the bar it is judged by", whatever the     *)
(* operator writes to taste.json in between: taste rejects only work that  *)
(* misses the standard its agent was told, and nothing that misses it is   *)
(* accepted, on the research of an earlier task least of all.              *)
JudgedAsTold ==
  \A k \in DOMAIN logs :
    LET r == logs[k] IN
    /\ r.verdict = "rejected" => r.toldAgent.required /\ ~Meets(r.work, r.toldAgent.standard)
    /\ (r.verdict = "accepted" /\ r.toldAgent.required) => Meets(r.work, r.toldAgent.standard)

(* The attempt after one that taste rejected is told why.                  *)
ToldWhy ==
  (turnOf # "idle" /\ logs # <<>> /\ logs[Len(logs)].verdict = "rejected")
    => toldAgent.reasons = logs[Len(logs)].findings

(* A retry is held to a brief as the attempt before it was, unless the     *)
(* operator switched the standard off: what the rejected attempt left      *)
(* behind cannot make a repair of it.                                      *)
RetryIsHeld ==
  (turnOf # "idle" /\ logs # <<>> /\ logs[Len(logs)].toldAgent.required)
    => (toldAgent.required \/ ~toldAgent.standard.enabled)

(* Over a series of attempts the agent, its verifier and its successor are  *)
(* told the same.                                                           *)
AttemptsAreFair == JudgedAsTold /\ ToldWhy /\ RetryIsHeld
=============================================================================
