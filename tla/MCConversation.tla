-------------------------- MODULE MCConversation --------------------------
(***************************************************************************)
(* Instances for TLC of what stands between the operator and the board:    *)
(* requests, buttons and completion notices, the reading of a message, the *)
(* planner, attachments, the taste brief, artifacts and their report,      *)
(* progress cards, the standstill digest, proposals, memory and the file   *)
(* index.  They share no state here, so one run takes each in turn: `part` *)
(* says which of them moves, and the others stay in one of their initial   *)
(* states.                                                                 *)
(***************************************************************************)
EXTENDS MCPlanner, MCBrain, Telegram, Intake, Attachments, Brief, Artifacts,
        Cards, Standstill, Learning, FileIndex

CONSTANTS
  c1, c2,                 \* chats
  w1, w2, w3, gone,       \* tasks, and one that is not on the board
  dir, inner, note, link  \* what may be under the root of the index

VARIABLE part

MCSays(says, thin, external, length, about) ==
  [says |-> says, thin |-> thin, external |-> external, length |-> length,
   about |-> about]
MCUtterances ==
  {MCSays("make", "", FALSE, 2, FALSE), MCSays("make", "", TRUE, 1, FALSE),
   MCSays("make", "category", FALSE, 1, FALSE), MCSays("more", "", FALSE, 2, TRUE),
   MCSays("more", "category", FALSE, 1, FALSE),
   MCSays("stop", "", FALSE, 1, FALSE), MCSays("asks", "", FALSE, 1, FALSE)}

MCMail(files, words, large) == [files |-> files, words |-> words, large |-> large]
MCMails ==
  {MCMail(1, "none", FALSE), MCMail(1, "request", FALSE), MCMail(0, "request", FALSE),
   MCMail(0, "slash", FALSE), MCMail(1, "none", TRUE)}

MCWork(promises, references, kept, good) ==
  [brief |-> "own", promises |-> promises, references |-> references,
   sections |-> good, kept |-> kept, page |-> TRUE, good |-> good]
MCOutcomes ==
  {MCWork(2, 1, 2, TRUE), MCWork(2, 1, 0, FALSE), MCWork(1, 0, 1, TRUE),
   [NoWork EXCEPT !.page = TRUE, !.good = TRUE]}

MCViewers == <<c1, c2>>
MCWaitsOn == (w1 :> <<>>) @@ (w2 :> <<w1>>) @@ (w3 :> <<w2, gone>>)
MCEntries == {dir, note, link}
MCAbove == (dir :> Root) @@ (note :> dir) @@ (link :> dir)

MCVars == <<part, phoneVars, vars, intakeVars, attachmentVars, briefVars,
           artifactVars, cardVars, standVars, learnVars, brainVars,
           indexVars>>

MCInit ==
  /\ part \in {"phone", "plan", "intake", "mail", "brief", "run", "card",
              "digest", "lessons", "outcomes", "memory", "index"}
  /\ part = "plan" \/ (part # "plan" /\ source = "operator" /\ parents = NoLinks)
  /\ taste = "absent"
  /\ \/ part = "brief" /\ disk \in SUBSET {"brief", "page"} \ {{"page"}}
     \/ part # "brief" /\ named = FALSE /\ disk = {}
  /\ PhoneInit /\ Init /\ IntakeInit /\ AttachmentsInit /\ BriefInit
  /\ ArtifactsInit /\ CardsInit /\ StandInit /\ LearnInit /\ BrainInit
  /\ FileIndexInit

PhonePart ==
  /\ part = "phone" /\ PhoneNext
  /\ UNCHANGED <<part, vars, intakeVars, attachmentVars, briefVars,
                artifactVars, cardVars, standVars, learnVars, brainVars,
                indexVars>>
PlanPart ==
  /\ part = "plan" /\ Next
  /\ UNCHANGED <<part, phoneVars, intakeVars, attachmentVars, briefVars,
                artifactVars, cardVars, standVars, learnVars, brainVars,
                indexVars>>
IntakePart ==
  /\ part = "intake" /\ IntakeNext
  /\ UNCHANGED <<part, phoneVars, vars, attachmentVars, briefVars,
                artifactVars, cardVars, standVars, learnVars, brainVars,
                indexVars>>
MailPart ==
  /\ part = "mail" /\ AttachmentsNext
  /\ UNCHANGED <<part, phoneVars, vars, intakeVars, briefVars,
                artifactVars, cardVars, standVars, learnVars, brainVars,
                indexVars>>
BriefPart ==
  /\ part = "brief" /\ BriefNext
  /\ UNCHANGED <<part, phoneVars, vars, intakeVars, attachmentVars,
                artifactVars, cardVars, standVars, learnVars, brainVars,
                indexVars>>
RunPart ==
  /\ part = "run" /\ ArtifactsNext
  /\ UNCHANGED <<part, phoneVars, vars, intakeVars, attachmentVars,
                briefVars, cardVars, standVars, learnVars, brainVars,
                indexVars>>
CardPart ==
  /\ part = "card" /\ CardsNext
  /\ UNCHANGED <<part, phoneVars, vars, intakeVars, attachmentVars,
                briefVars, artifactVars, standVars, learnVars, brainVars,
                indexVars>>
DigestPart ==
  /\ part = "digest" /\ StandNext
  /\ UNCHANGED <<part, phoneVars, vars, intakeVars, attachmentVars,
                briefVars, artifactVars, cardVars, learnVars, brainVars,
                indexVars>>
LessonsPart ==
  /\ part = "lessons" /\ LessonNext
  /\ UNCHANGED <<part, phoneVars, vars, intakeVars, attachmentVars,
                briefVars, artifactVars, cardVars, standVars, brainVars,
                indexVars>>
OutcomesPart ==
  /\ part = "outcomes" /\ OutcomeNext
  /\ UNCHANGED <<part, phoneVars, vars, intakeVars, attachmentVars,
                briefVars, artifactVars, cardVars, standVars, brainVars,
                indexVars>>
MemoryPart ==
  /\ part = "memory" /\ BrainNext
  /\ UNCHANGED <<part, phoneVars, vars, intakeVars, attachmentVars,
                briefVars, artifactVars, cardVars, standVars, learnVars,
                indexVars>>
IndexPart ==
  /\ part = "index" /\ FileIndexNext
  /\ UNCHANGED <<part, phoneVars, vars, intakeVars, attachmentVars,
                briefVars, artifactVars, cardVars, standVars, learnVars,
                brainVars>>

MCNext ==
  \/ PhonePart \/ PlanPart \/ IntakePart \/ MailPart
  \/ BriefPart \/ RunPart \/ CardPart \/ DigestPart
  \/ LessonsPart \/ OutcomesPart \/ MemoryPart \/ IndexPart

(* The fairness of each component, for the behaviours in which it moves. *)
MCFairness ==
  /\ WF_phoneVars(part = "phone" /\ Daemon)
  /\ WF_vars(part = "plan" /\ Next)
  /\ WF_attachmentVars(part = "mail" /\ AttachmentStep)
  /\ WF_cardVars(part = "card" /\ PublishProgress)
  /\ WF_standVars(part = "digest" /\ PublishStandstill)
  /\ WF_standVars(part = "digest" /\ HourGoesBy)
  /\ WF_learnVars(part = "lessons" /\ LearningPass)
  /\ WF_brainVars(part = "memory" /\ PhoneSteps)
  /\ WF_brainVars(part = "memory" /\ WriterSteps)
  /\ WF_indexVars(part = "index" /\ AgentStep)
  /\ WF_indexVars(part = "index" /\ LoadStep)

MCSpec == MCInit /\ [][MCNext]_MCVars /\ MCFairness

(* Every variable of these components has its type. *)
ConversationTypeOK ==
  /\ PhoneTypeOK /\ TypeOK /\ IntakeTypeOK /\ AttachmentsTypeOK /\ BriefTypeOK
  /\ ArtifactsTypeOK /\ CardsTypeOK /\ StandTypeOK /\ LearnTypeOK /\ BrainTypeOK
  /\ FileIndexTypeOK

(* Updates and polls that come twice double nothing: a file goes to one     *)
(* request, a task has one card per chat and one more for every poll that   *)
(* died between sending and recording it.                                   *)
DeliveredOnce == AttachedOnce /\ OneCardPerChat

(* The liveness properties, each in the behaviours in which its component   *)
(* moves.  What the operator asked for starts, as a task or as a graph.     *)
MCRequestsStart ==
  /\ part = "phone" => EveryStartStarts
  /\ part = "plan"  => RequestStarts

(* No message blocks the mailbox: each is answered, whatever polls failed. *)
MCMessagesAreAnswered ==
  /\ part = "mail"   => EveryMailIsAnswered
  /\ part = "memory" => EveryNoteIsHandled

(* The chats come to know how things stand: every finished run, the end of  *)
(* every task they follow, a board that is stuck.                           *)
MCChatsAreTold ==
  /\ part = "phone"  => EveryRunIsTold
  /\ part = "card"   => CardsComeToRest
  /\ part = "digest" => StandstillIsHeard

(* The passes over files catch up with them: the idle pass with the ledger, *)
(* the dashboard with the index.                                            *)
MCPassesCatchUp ==
  /\ part = "lessons" => RepeatsAreProposed
  /\ part = "index"   => LastIndexIsShown
=============================================================================
