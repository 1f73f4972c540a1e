------------------------------ MODULE Learning ------------------------------
(***************************************************************************)
(* What the system learns from its failures: ledger lines                  *)
(* (src/src/ledger.py), the episodic index of them (src/src/memory), the   *)
(* candidate rules an idle worker drafts (src/src/proposals.py), the       *)
(* operator's decisions on them (src/src/board.py) and the advice the next *)
(* agent of the same workspace and role is given (src/src/worker.py).      *)
(* Failures are grouped by their signature, which has the verify exit in   *)
(* it too: two failures of one role with different exits are no repeat.    *)
(*                                                                         *)
(* A proposal rests on citations: a line number and the digest of the line *)
(* that stood there.  Lines carry a timestamp, so two lines never have the *)
(* same digest.  Definitions marked "variant" belong to no specification;  *)
(* each is the definition it precedes with a plausible defect.             *)
(***************************************************************************)
EXTENDS Integers, FiniteSets, SequencesExt

CONSTANTS
  Groups,       \* workspace, role and verify exit: the signature of a failure
  Other,        \* the group of lines that are no logic failure
  Chats,        \* the authorized chats
  MaxRecords,   \* bound on what is ever recorded
  MaxRotations, \* bound on times the ledger's head is cut off
  MaxRuns       \* bound on runs of the task

ASSUME LearningAssumption ==
  /\ Other \notin Groups
  /\ {MaxRecords, MaxRotations, MaxRuns} \subseteq Nat

VARIABLES
  ledger,    \* the file's physical lines; <<>> is a line that is not JSON
  recorded,  \* how many entries were recorded
  rotations,
  events,    \* the current events of the episodic index, as citations
  drafts,    \* the candidates this pass still has to persist
  pass,      \* where the idle pass is
  fate,      \* triai_proposals: the status of every proposal there is
  lapsed,    \* candidate rules whose expires_at is past
  told,      \* triai_proposal_notifications
  row, run   \* status and latest run of a task; see the outcome proposals

fileVars  == <<ledger, recorded, rotations>>
passVars  == <<events, drafts, pass>>
boardLVars == <<fate, lapsed, told>>
taskVars  == <<row, run>>
learnVars == <<fileVars, passVars, boardLVars, taskVars>>

LearnInit ==
  /\ ledger = <<>> /\ recorded = 0 /\ rotations = 0
  /\ events = {} /\ drafts = {} /\ pass = "idle"
  /\ fate = <<>> /\ lapsed = {} /\ told = {}
  /\ row = "ready" /\ run = 0

-----------------------------------------------------------------------------
(* The ledger *)

Broken == <<>>

(* ledger.record: one entry, one write.  An entry with a line separator in  *)
(* it (the escape of json.dumps leaves U+2028 and U+0085 alone) is read     *)
(* back as two lines, neither of which is JSON.                             *)
Records(g, separator) ==
  /\ recorded < MaxRecords
  /\ recorded' = recorded + 1
  /\ ledger' = ledger \o (IF separator THEN <<Broken, Broken>>
                                       ELSE <<<<g, recorded + 1>>>>)
  /\ UNCHANGED <<rotations, passVars, boardLVars, taskVars>>

(* The operator cuts off the head of the file, or a stretch that is broken. *)
Rotates ==
  /\ rotations < MaxRotations
  /\ rotations' = rotations + 1
  /\ \E from \in DOMAIN ledger : \E to \in from..Len(ledger) :
       /\ from = 1 \/ \A i \in from..to : ledger[i] = Broken
       /\ ledger' = SubSeq(ledger, 1, from - 1) \o SubSeq(ledger, to + 1, Len(ledger))
  /\ UNCHANGED <<recorded, passVars, boardLVars, taskVars>>

(* read_entries and _parse_ledger raise at the first line that is no JSON.  *)
Readable == \A i \in DOMAIN ledger : ledger[i] # Broken

Citation(i) == [at |-> i, line |-> ledger[i]]

(* episodic.validate: the cited line still reads as it did. *)
Validates(c) == c.at \in DOMAIN ledger /\ ledger[c.at] = c.line

-----------------------------------------------------------------------------
(* proposals.refresh_from_ledger, the pass of an idle worker *)

(* episodic.sync and query: the index holds what the file holds now. *)
Syncs ==
  /\ pass = "idle" /\ Readable
  /\ events' = {Citation(i) : i \in DOMAIN ledger}
  /\ pass' = "propose"
  /\ UNCHANGED <<fileVars, drafts, boardLVars, taskVars>>

GroupsWith(cites, n) ==
  {g \in Groups : Cardinality({c \in cites : c.line[1] = g}) >= n}

Candidate(g, cites) ==
  [kind |-> "rule", group |-> g, cites |-> {c \in cites : c.line[1] = g}]

(* Variant: one failure is a pattern. *)
ProposesAtOnce ==
  LET valid == {c \in events : Validates(c)}
  IN  {Candidate(g, valid) : g \in GroupsWith(valid, 1)}

(* Variant: off by one. *)
ProposesLate ==
  LET valid == {c \in events : Validates(c)}
  IN  {Candidate(g, valid) : g \in GroupsWith(valid, 3)}

(* evolution.propose: a group of logic failures that is there twice makes a *)
(* draft, whose identity is the group and all of its valid citations.       *)
Proposed ==
  LET valid == {c \in events : Validates(c)}
  IN  {Candidate(g, valid) : g \in GroupsWith(valid, 2)}

Proposes ==
  /\ pass = "propose"
  /\ drafts' = Proposed
  /\ pass' = "persist"
  /\ UNCHANGED <<fileVars, events, boardLVars, taskVars>>

(* Variant: a proposal that exists already is made pending again. *)
Refreshed(p) == fate' = [q \in DOMAIN fate \cup {p} |-> IF q = p THEN "pending" ELSE fate[q]]

(* _create_proposal: inserted once, never refreshed. *)
Created(p) ==
  fate' = IF p \in DOMAIN fate THEN fate
          ELSE [q \in DOMAIN fate \cup {p} |-> IF q = p THEN "pending" ELSE fate[q]]

(* create_candidate_rule_proposal; a citation that drifted since the draft  *)
(* raises, and the pass swallows that together with the drafts that follow. *)
Persists ==
  /\ pass = "persist" /\ drafts # {}
  /\ \E d \in drafts :
       IF \A c \in d.cites : Validates(c)
       THEN /\ Created(d)
            /\ drafts' = drafts \ {d}
            /\ UNCHANGED pass
       ELSE /\ drafts' = {}
            /\ pass' = "idle"
            /\ UNCHANGED fate
  /\ UNCHANGED <<fileVars, events, lapsed, told, taskVars>>

EndsPass ==
  /\ pass = "persist" /\ drafts = {}
  /\ pass' = "idle"
  /\ UNCHANGED <<fileVars, events, drafts, boardLVars, taskVars>>

LearningPass == Syncs \/ Proposes \/ Persists \/ EndsPass

-----------------------------------------------------------------------------
(* A task and the proposal each of its outcomes makes *)

OutcomeOf(n, o) == [kind |-> "task", run |-> n, outcome |-> o]

RunStarts ==
  /\ row = "ready" /\ run < MaxRuns
  /\ row' = "running" /\ run' = run + 1
  /\ UNCHANGED <<fileVars, passVars, boardLVars>>

(* A pass is proposed for the archive, a failure for a retry. *)
RunEnds(o) ==
  /\ row = "running"
  /\ row' \in (IF o = "passed" THEN {"done"} ELSE {"ready", "blocked"})
  /\ Created(OutcomeOf(run, o))
  /\ UNCHANGED <<fileVars, passVars, lapsed, told, run>>

-----------------------------------------------------------------------------
(* The operator *)

(* publish_pending sends the card and records that it did; a proposal that  *)
(* was decided meanwhile is not announced.                                  *)
Announces(p, chat) ==
  /\ fate[p] = "pending" /\ <<p, chat>> \notin told
  /\ told' = told \cup {<<p, chat>>}
  /\ UNCHANGED <<fileVars, passVars, fate, lapsed, taskVars>>

Decides(p, verdict) ==
  /\ fate[p] = "pending"
  /\ fate' = [fate EXCEPT ![p] = verdict]
  /\ UNCHANGED <<fileVars, passVars, lapsed, told, run>>

Pressed(p) == \E chat \in Chats : <<p, chat>> \in told

Rejects(p) == Pressed(p) /\ Decides(p, "rejected") /\ UNCHANGED row

(* Variant: what was proposed is activated as it was. *)
ApprovesAsDrafted(p) ==
  /\ Pressed(p) /\ p.kind = "rule"
  /\ Decides(p, "approved")
  /\ UNCHANGED row

(* A rule is activated only if it is not expired and its citations still    *)
(* read as they did; otherwise the decision says so.                        *)
ApprovesRule(p) ==
  /\ Pressed(p) /\ p.kind = "rule"
  /\ Decides(p, IF p \notin lapsed /\ \A c \in p.cites : Validates(c)
                THEN "approved" ELSE "expired")
  /\ UNCHANGED row

(* _archive_done_task_in_txn; refused, the proposal stays pending. *)
ApprovesArchive(p) ==
  /\ Pressed(p) /\ p.kind = "task" /\ p.outcome = "passed"
  /\ row = "done"
  /\ row' = "archived"
  /\ Decides(p, "approved")

(* Variant: every task at rest may be retried. *)
RetriesAtRest(p) ==
  /\ Pressed(p) /\ p.kind = "task" /\ p.outcome = "failed"
  /\ row \in {"ready", "blocked", "done"}
  /\ row' = "ready"
  /\ Decides(p, "approved")

(* _retry_task_in_txn, or nothing to do if the task is ready already. *)
ApprovesRetry(p) ==
  /\ Pressed(p) /\ p.kind = "task" /\ p.outcome = "failed"
  /\ row \in {"ready", "blocked"}
  /\ row' = "ready"
  /\ Decides(p, "approved")

Lapses(p) ==
  /\ p.kind = "rule"
  /\ lapsed' = lapsed \cup {p}
  /\ UNCHANGED <<fileVars, passVars, fate, told, taskVars>>

Operates == \E p \in DOMAIN fate :
  \/ \E chat \in Chats : Announces(p, chat)
  \/ Rejects(p)

(* The two kinds of proposals have nothing but their table in common. *)
LessonNext ==
  \/ \E g \in Groups \cup {Other} : Records(g, FALSE)
  \/ Records(Other, TRUE) \/ Rotates
  \/ LearningPass
  \/ Operates
  \/ \E p \in DOMAIN fate : ApprovesRule(p) \/ Lapses(p)

OutcomeNext ==
  \/ RunStarts
  \/ \E o \in {"passed", "failed"} : RunEnds(o)
  \/ Operates
  \/ \E p \in DOMAIN fate : ApprovesArchive(p) \/ ApprovesRetry(p)

LearnNext == LessonNext \/ OutcomeNext

(* serve calls the pass whenever a tick finds nothing to do. *)
LearnSpec == LearnInit /\ [][LearnNext]_learnVars /\ WF_learnVars(LearningPass)

-----------------------------------------------------------------------------
(* worker._approved_advice and procedural.select: the activated rules of    *)
(* the workspace and role that are not expired and still cited.  An agent   *)
(* gets those of every signature of its role; these are the ones of g.      *)
(* (All candidates bring the same checks, which fit into the budget.)       *)
Advice(g) ==
  {p \in DOMAIN fate :
     /\ p.kind = "rule" /\ fate[p] = "approved"
     /\ p.group = g /\ p \notin lapsed
     /\ \A c \in p.cites : Validates(c)}

Failures(g) == {i \in DOMAIN ledger : ledger[i] # Broken /\ ledger[i][1] = g}

LearnTypeOK ==
  /\ \A i \in DOMAIN ledger : ledger[i] = Broken
                              \/ ledger[i] \in (Groups \cup {Other}) \X (1..recorded)
  /\ recorded \in 0..MaxRecords /\ rotations \in 0..MaxRotations
  /\ pass \in {"idle", "propose", "persist"}
  /\ \A p \in DOMAIN fate : fate[p] \in {"pending", "approved", "rejected", "expired"}
  /\ lapsed \subseteq DOMAIN fate
  /\ told \subseteq (DOMAIN fate) \X Chats
  /\ row \in {"ready", "running", "done", "blocked", "archived"}

(* An agent is given a rule only when the ledger, as it is now, holds at    *)
(* least two logic failures of the rule's signature (the agent's workspace  *)
(* and role, one verify exit): through the index, the draft, the proposal   *)
(* and the decision, each of which happened over an earlier state of a file *)
(* that is cut and repaired by hand.                                        *)
AdviceIsEarned == \A g \in Groups : Advice(g) # {} => Cardinality(Failures(g)) >= 2

(* A decision stands: the idle pass, which drafts the same candidates again *)
(* from the same lines, never brings a decided proposal back.               *)
DecisionsStand ==
  \A p \in DOMAIN fate : p \in DOMAIN fate' /\ fate[p] \in {"pending", fate'[p]}

(* A rule that is approved was cited and unexpired when the button was      *)
(* pressed, however long before that the card had been sent.                *)
ActivationIsCurrent ==
  \A p \in DOMAIN fate :
     (p.kind = "rule" /\ fate[p] = "pending" /\ fate'[p] = "approved")
       => p \notin lapsed /\ \A c \in p.cites : Validates(c)

(* No card reopens finished work: the card of a run that failed stays       *)
(* pending when its retry is refused, and may be pressed when a later run   *)
(* has passed.                                                              *)
DoneStaysDone ==
  row \in {"done", "archived"} => row' \in {"done", "archived"}

(* Once the file is readable and no longer cut, every failure that is in it *)
(* twice with one signature has been put to the operator, with every line   *)
(* that shows it.                                                           *)
RepeatsAreProposed ==
  (<>[]Readable) =>
    \A g \in Groups :
      []<>(Cardinality(Failures(g)) >= 2 =>
             [kind |-> "rule", group |-> g,
              cites |-> {Citation(i) : i \in Failures(g)}] \in DOMAIN fate)

(* What the operator decided, and what a run achieved, is not undone by a   *)
(* pass, a card or a button that comes later.                               *)
DecisionsHold ==
  [][DecisionsStand /\ ActivationIsCurrent /\ DoneStaysDone]_<<fate, row>>
=============================================================================
