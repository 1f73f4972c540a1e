------------------------------- MODULE Intake -------------------------------
(***************************************************************************)
(* What the control plane makes of a message that is no command:           *)
(* _converse and _act_on of src/src/telegram_control.py, the readings of   *)
(* src/src/interpreter.py and the chat turns of src/src/board.py.          *)
(*                                                                         *)
(* A message is a record of what the word lists see in it.  The model may  *)
(* reply anything, or not at all.  Lengths of texts are in units of what   *)
(* the tests below compare.  No caller passes interpret a classifier.      *)
(* Definitions marked "variant" belong to no specification; each is the    *)
(* definition it precedes with a plausible defect.                         *)
(***************************************************************************)
EXTENDS Integers, FiniteSets, Sequences

CONSTANTS
  Utterances,  \* what the operator may say
  Completer,   \* a model is configured
  Home, Away,  \* the default workspace and another one
  MaxSaid,     \* bound on messages
  MaxDropouts  \* bound on crashes and transport failures

Intents == {"build", "refine", "ask", "chat", "stop", "unclear"}

(* says: "nothing", an exact "stop" or "hello", "stops" that opens with    *)
(* the word, "more" for an opener of refinements, "asks", or "make";       *)
(* about: the message answers the card of the task done earlier, in Away.  *)
ASSUME IntakeAssumption ==
  /\ Utterances \subseteq
       [says : {"nothing", "stop", "hello", "stops", "more", "asks", "make"},
        thin : {"", "category", "vague"}, external : BOOLEAN,
        length : 0..2, about : BOOLEAN]
  /\ \A u \in Utterances : (u.length = 0) <=> (u.says = "nothing")
  /\ Completer \in BOOLEAN /\ Home # Away
  /\ MaxSaid \in Nat /\ MaxDropouts \in Nat

VARIABLES
  spoken,    \* the operator's messages, in order
  settled,  \* Telegram has dropped those up to this one
  hand,     \* the message in hand, 0 for none
  again,    \* messages handled, in part at least, before a dropout
  turn,     \* where its handling stands
  turns,    \* triai_chat_turns: numbers of messages, 0 for a reply
  history,  \* the turns the message is read against
  made,     \* the tasks created
  asked,    \* the requests staged for the operator's confirmation
  places,   \* the workspaces of the policy
  dropouts

intakeVars == <<spoken, settled, hand, again, turn, turns, history,
                made, asked, places, dropouts>>

Reading(intent, brief, question, external) ==
  [intent |-> intent, brief |-> brief, question |-> question, external |-> external]

IntakeInit ==
  /\ spoken = <<>> /\ settled = 0 /\ hand = 0 /\ again = {} /\ turn = "idle"
  /\ turns = <<>> /\ history = <<>>
  /\ made = <<>> /\ asked = <<>> /\ places = {Home, Away} /\ dropouts = 0

-----------------------------------------------------------------------------
(* interpreter *)

IsObvious(u) == u.says \in {"stop", "hello"}

ReadWithoutModel(u, context) ==
  CASE u.says = "nothing"           -> Reading("unclear", 0, TRUE, u.external)
    [] u.says \in {"stop", "stops"} -> Reading("stop", 0, FALSE, u.external)
    [] u.says = "hello"             -> Reading("chat", 0, FALSE, u.external)
    [] u.says = "more" /\ context # <<>> ->
         Reading("refine", u.length, FALSE, u.external)
    [] u.says = "asks"              -> Reading("ask", 0, FALSE, u.external)
    [] OTHER -> Reading("build", u.length, u.thin # "", u.external)

Builds == {"build", "refine"}

(* Variant: the model's brief is taken as it is. *)
BriefAsGiven(u, reply) == reply.brief

(* A brief shorter than what was said is a summary. *)
BriefKept(u, reply) == IF reply.brief < u.length THEN u.length ELSE reply.brief

(* Variant: the model decides whether there is anything to ask. *)
AsksAsTold(u, reply) == reply.question

AsksIfThin(u, reply) == reply.question \/ u.thin = "category"

(* Variant: the model decides whether it goes outside. *)
AsJudged(u, reply) == reply.external

RaisedOnly(u, reply) == reply.external \/ u.external

ParseModelReply(u, reply) ==
  Reading(reply.intent,
          IF reply.intent \in Builds THEN BriefKept(u, reply) ELSE 0,
          AsksIfThin(u, reply), RaisedOnly(u, reply))

Replies == [intent : Intents, brief : 0..2, question : BOOLEAN, external : BOOLEAN]

(* A model that fails, or whose reply cannot be trusted, leaves the rules. *)
Interpretations(u, context) ==
  {ReadWithoutModel(u, context)} \cup
  (IF Completer /\ ~IsObvious(u)
   THEN {ParseModelReply(u, reply) : reply \in Replies} ELSE {})

-----------------------------------------------------------------------------
(* The operator, and the daemon's fetch of the next message *)

Says(u) ==
  /\ Len(spoken) < MaxSaid /\ spoken' = Append(spoken, u)
  /\ UNCHANGED <<settled, hand, again, turn, turns, history, made, asked,
                 places, dropouts>>

Takes ==
  /\ turn = "idle" /\ hand < Len(spoken)
  /\ settled' = hand /\ hand' = hand + 1 /\ turn' = "read"
  /\ UNCHANGED <<spoken, again, turns, history, made, asked, places, dropouts>>

(* Variant: the message is recorded first. *)
ReadAfterIt == history' = Append(turns, hand)

ReadBeforeIt == history' = turns

RecordsTurn ==
  /\ turn = "read" /\ turn' = "interpret"
  /\ ReadBeforeIt /\ turns' = Append(turns, hand)
  /\ UNCHANGED <<spoken, settled, hand, again, made, asked, places, dropouts>>

-----------------------------------------------------------------------------
(* _act_on, for a reading g of the message in hand u *)

Talks(g) == g.intent \in {"chat", "ask", "unclear"}
            \/ (g.question /\ g.intent # "stop")

ToWork(g) == ~Talks(g) /\ g.intent # "stop"

Replied(g) == Talks(g) /\ UNCHANGED <<made, asked>>

(* _stop withdraws whatever waits for a confirmation. *)
Stopped(g) ==
  /\ g.intent = "stop"
  /\ asked' = [k \in DOMAIN asked |-> [asked[k] EXCEPT !.open = FALSE]]
  /\ UNCHANGED made

(* Variant: a follow-up starts where requests start. *)
AtHome(u) == Home

(* A follow-up belongs in the workspace of the task it revises, as long as *)
(* the policy has it.                                                      *)
WorkspaceFor(u) == IF u.about /\ Away \in places THEN Away ELSE Home

Work(u, g) == [of |-> hand, at |-> WorkspaceFor(u), brief |-> g.brief,
               parent |-> u.about, split |-> FALSE]

Staged(u, g) ==
  /\ ToWork(g) /\ g.external
  /\ asked' = Append(asked, [work |-> Work(u, g), open |-> TRUE])
  /\ UNCHANGED made

(* _fanout may split a request that is no follow-up, or leave it to one. *)
MaySplit(u) == {FALSE, ~u.about}

(* _start_now, unless the request was split. *)
Started(u, g) ==
  /\ ToWork(g) /\ ~g.external
  /\ \E split \in MaySplit(u) :
       made' = Append(made, [Work(u, g) EXCEPT !.split = split])
  /\ UNCHANGED asked

(* The reading, which may take long, and what follows from it.  Nothing is  *)
(* written before the reading ends, so a dropout inside it has the effect   *)
(* of one before it.                                                        *)
Interprets ==
  /\ turn = "interpret" /\ turn' = "reply"
  /\ LET u == spoken[hand] IN
       \E g \in Interpretations(u, history) :
         Replied(g) \/ Stopped(g) \/ Staged(u, g) \/ Started(u, g)
  /\ UNCHANGED <<spoken, settled, hand, again, turns, history, places, dropouts>>

(* The context is the handler's own. *)
Forgets == history' = <<>>

SendsReply ==
  /\ turn = "reply" /\ turn' = "idle"
  /\ turns' = Append(turns, 0) /\ Forgets
  /\ UNCHANGED <<spoken, settled, hand, again, made, asked, places, dropouts>>

(* The poll fails or the daemon is restarted, perhaps with another policy: *)
(* what Telegram has not dropped is delivered again.                       *)
DropsOut ==
  /\ dropouts < MaxDropouts /\ dropouts' = dropouts + 1
  /\ again' = again \cup {k \in 1..hand : k > settled}
  /\ hand' = settled /\ turn' = "idle" /\ Forgets
  /\ places' \in {places, {Home}}
  /\ UNCHANGED <<spoken, settled, turns, made, asked>>

IntakeNext ==
  \/ \E u \in Utterances : Says(u)
  \/ Takes \/ RecordsTurn \/ Interprets \/ SendsReply \/ DropsOut

IntakeSpec == IntakeInit /\ [][IntakeNext]_intakeVars

-----------------------------------------------------------------------------
IntakeTypeOK ==
  /\ spoken \in Seq(Utterances) /\ Len(spoken) <= MaxSaid
  /\ settled \in 0..hand /\ hand \in 0..Len(spoken) /\ again \subseteq 1..Len(spoken)
  /\ turn \in {"idle", "read", "interpret", "reply"}
  /\ \A k \in DOMAIN turns : turns[k] \in 0..Len(spoken)
  /\ \A k \in DOMAIN history : history[k] \in 0..Len(spoken)
  /\ \A k \in DOMAIN made : made[k].of \in 1..Len(spoken)
  /\ places \in {{Home}, {Home, Away}} /\ dropouts \in 0..MaxDropouts

(* "Send, spend and publish still stop and ask": whatever the model makes  *)
(* of a message that names one of them, no task starts from it.            *)
ExternalIsAsked == \A k \in DOMAIN made : ~spoken[made[k].of].external

(* A bare category ("build a website") is asked about, never guessed at,   *)
(* unless the rules take it for a change to what came before ("fix site"), *)
(* and a greeting or a stop word starts nothing.                           *)
CategoryIsAsked ==
  \A k \in DOMAIN made :
    LET u == spoken[made[k].of]
    IN  (u.thin = "category" => u.says = "more") /\ ~IsObvious(u)

(* "A brief may expand a thin request. It may never summarise a specified  *)
(* one": what the agent, or the operator who must confirm, is given is no  *)
(* shorter than what was said.                                             *)
WordsAreKept ==
  /\ \A k \in DOMAIN made : made[k].brief >= spoken[made[k].of].length
  /\ \A k \in DOMAIN asked : asked[k].work.brief >= spoken[asked[k].work.of].length

(* A follow-up is one task, or one request, in the workspace of the task   *)
(* it revises; only a policy that lost that workspace moves it.            *)
FollowUpStays ==
  \A k \in DOMAIN made :
    made[k].parent => ~made[k].split /\ (made[k].at = Away \/ Away \notin places)

(* "Read against the history as it stood before this message": a message   *)
(* is in its own context only when it was delivered again.                 *)
ReadInContext ==
  (turn = "interpret" /\ hand \notin again)
    => \A k \in DOMAIN history : history[k] # hand

(* What no reading of the model may change: that what goes outside is asked *)
(* about, that the words are kept, and where a follow-up belongs.           *)
ModelIsHeld == ExternalIsAsked /\ WordsAreKept /\ FollowUpStays

(* A message is read for what it is, and against what came before it. *)
ReadAsMeant == CategoryIsAsked /\ ReadInContext
=============================================================================
