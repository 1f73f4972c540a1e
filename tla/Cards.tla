-------------------------------- MODULE Cards --------------------------------
(***************************************************************************)
(* The message that follows a task while it runs: publish_progress of      *)
(* src/src/interfaces/telegram_daemon.py, the phases of                    *)
(* src/src/progress_card.py and the table triai_progress_cards of          *)
(* src/src/board.py, which remembers one message per task and chat.        *)
(*                                                                         *)
(* One task, several chats: cards of two tasks share nothing but the order *)
(* they are drawn in.  Sending and remembering are two steps, and a poll   *)
(* that fails or a daemon that dies may end between them.  Definitions     *)
(* marked "variant" belong to no specification; each is the definition it  *)
(* precedes with a plausible defect.                                       *)
(***************************************************************************)
EXTENDS Integers, FiniteSets, SequencesExt

CONSTANTS
  Viewers,    \* the authorized chats, in the order they are served
  Blank,      \* no card in hand
  MaxTurns,   \* bound on runs of the task
  MaxMishaps  \* bound on failed requests and dead daemons

(* The columns of a row, and what a page shows.                             *)
Phases == {"ready", "agent_active", "blocked", "done", "failed", "cancelled"}
CardRows == [msg : Nat, phase : Phases, turn : Nat, closed : BOOLEAN]
Pages    == [phase : Phases, turn : Nat, closed : BOOLEAN]

(* A daemon without an authorized chat does not start.                      *)
ASSUME CardsAssumption ==
  /\ {MaxTurns, MaxMishaps} \subseteq Nat
  /\ Viewers \in Seq(ToSet(Viewers)) /\ Viewers # <<>>
  /\ Blank \notin CardRows \cup Pages

VARIABLES
  carded,   \* tasks.status
  cardTurn, \* the latest run
  rows,     \* triai_progress_cards: for each chat [msg, phase, closed], or Blank
  onCard,   \* for each chat the phases its messages show, in order sent
  viewer,   \* how many chats this poll has served
  doing,    \* "open", "edit" or "idle"
  drawn,    \* the card rendered and not sent yet
  landed,   \* the message that reached Telegram and is not recorded yet
  mishaps

cardBoard == <<carded, cardTurn>>
poster    == <<viewer, doing, drawn, landed>>
cardVars  == <<cardBoard, rows, onCard, poster, mishaps>>

CardsInit ==
  /\ carded = "ready" /\ cardTurn = 0
  /\ rows = [c \in ToSet(Viewers) |-> Blank]
  /\ onCard = [c \in ToSet(Viewers) |-> <<>>]
  /\ viewer = 0 /\ doing = "idle" /\ drawn = Blank /\ landed = 0
  /\ mishaps = 0

-----------------------------------------------------------------------------
(* The task: claims with their run rows, the ends of runs, retries *)

Final == {"done", "failed", "cancelled"}   \* TERMINAL_PHASES

TurnStarts ==
  /\ carded = "ready" /\ cardTurn < MaxTurns
  /\ carded' = "running" /\ cardTurn' = cardTurn + 1
  /\ UNCHANGED <<rows, onCard, poster, mishaps>>

TurnEnds ==
  /\ carded = "running"
  /\ carded' \in {"done", "cancelled", "blocked", "ready"}
  /\ UNCHANGED <<cardTurn, rows, onCard, poster, mishaps>>

TurnIsRetried ==
  /\ carded = "blocked"
  /\ carded' = "ready"
  /\ UNCHANGED <<cardTurn, rows, onCard, poster, mishaps>>

(* progress_card.phase_for: a run is recorded as running with its claim. *)
PhaseFor == IF carded = "running" THEN "agent_active" ELSE carded

-----------------------------------------------------------------------------
(* publish_progress *)

Chat == Viewers[viewer + 1]

(* A poll serves every chat, opening first and editing second. *)
PollBegins ==
  /\ doing = "idle"
  /\ doing' = "open" /\ viewer' = 0
  /\ UNCHANGED <<cardBoard, rows, onCard, drawn, landed, mishaps>>

(* Variant: a card belongs to a run; the next run has none yet. *)
UncardedRun(c) == carded = "running" /\ (rows[c] # Blank => rows[c].turn # cardTurn)

(* running_tasks_without_cards *)
Uncarded(c) == carded = "running" /\ rows[c] = Blank

(* pending_progress over open_progress_cards *)
Moved(c) == rows[c] # Blank /\ ~rows[c].closed /\ PhaseFor # rows[c].phase

(* What the page of this chat shows now, rendered before anything is sent. *)
Draws ==
  /\ doing \in {"open", "edit"} /\ drawn = Blank
  /\ IF doing = "open" THEN Uncarded(Chat) ELSE Moved(Chat)
  /\ drawn' = [phase |-> PhaseFor, turn |-> cardTurn, closed |-> PhaseFor \in Final]
  /\ UNCHANGED <<cardBoard, rows, onCard, viewer, doing, landed, mishaps>>

OnwardFrom(step) ==
  CASE step = "open"                           -> doing' = "edit" /\ UNCHANGED viewer
    [] step = "edit" /\ viewer + 1 < Len(Viewers) -> doing' = "open" /\ viewer' = viewer + 1
    [] OTHER                                   -> doing' = "idle" /\ viewer' = 0

(* Nothing to open, or nothing to edit. *)
Proceeds ==
  /\ doing \in {"open", "edit"} /\ drawn = Blank
  /\ ~(IF doing = "open" THEN Uncarded(Chat) ELSE Moved(Chat))
  /\ OnwardFrom(doing)
  /\ UNCHANGED <<cardBoard, rows, onCard, drawn, landed, mishaps>>

(* send_message *)
Opens ==
  /\ doing = "open" /\ drawn # Blank /\ landed = 0
  /\ onCard' = [onCard EXCEPT ![Chat] = Append(@, drawn.phase)]
  /\ landed' = Len(onCard[Chat]) + 1
  /\ UNCHANGED <<cardBoard, rows, viewer, doing, drawn, mishaps>>

(* start_progress: INSERT OR IGNORE, always open, whatever the phase *)
Recorded ==
  /\ doing = "open" /\ landed # 0
  /\ rows' = [rows EXCEPT ![Chat] =
                [msg |-> landed, phase |-> drawn.phase, turn |-> drawn.turn,
                 closed |-> FALSE]]
  /\ drawn' = Blank /\ landed' = 0
  /\ OnwardFrom(doing)
  /\ UNCHANGED <<cardBoard, onCard, mishaps>>

(* edit_message, then advance_progress_card: the edit is to be read before  *)
(* the row moves on.                                                        *)
EditsCard ==
  /\ doing = "edit" /\ drawn # Blank /\ landed = 0
  /\ onCard' = [onCard EXCEPT ![Chat][rows[Chat].msg] = drawn.phase]
  /\ landed' = rows[Chat].msg
  /\ UNCHANGED <<cardBoard, rows, viewer, doing, drawn, mishaps>>

(* Variant: the row is closed by the first edit. *)
AdvancedShut ==
  rows' = [rows EXCEPT ![Chat].phase = drawn.phase, ![Chat].closed = TRUE]

AdvancedTo ==
  rows' = [rows EXCEPT ![Chat].phase = drawn.phase, ![Chat].closed = drawn.closed]

Advances ==
  /\ doing = "edit" /\ landed # 0
  /\ AdvancedTo
  /\ drawn' = Blank /\ landed' = 0
  /\ OnwardFrom(doing)
  /\ UNCHANGED <<cardBoard, onCard, mishaps>>

(* A card that cannot be sent ends the poll, and so does the end of the     *)
(* daemon; what was sent and not recorded stays on the phone.               *)
PollDies ==
  /\ doing # "idle" /\ mishaps < MaxMishaps
  /\ mishaps' = mishaps + 1
  /\ doing' = "idle" /\ viewer' = 0 /\ drawn' = Blank /\ landed' = 0
  /\ UNCHANGED <<cardBoard, rows, onCard>>

(* An edit that fails is left to the next poll; the chats after this one    *)
(* are served.                                                              *)
EditFails ==
  /\ doing = "edit" /\ drawn # Blank /\ landed = 0 /\ mishaps < MaxMishaps
  /\ mishaps' = mishaps + 1
  /\ drawn' = Blank
  /\ OnwardFrom("edit")
  /\ UNCHANGED <<cardBoard, rows, onCard, landed>>

PublishProgress ==
  PollBegins \/ Draws \/ Proceeds \/ Opens \/ Recorded \/ EditsCard \/ Advances

CardsNext ==
  \/ TurnStarts \/ TurnEnds \/ TurnIsRetried
  \/ PublishProgress \/ PollDies \/ EditFails

CardsFairness == WF_cardVars(PublishProgress)

CardsSpec == CardsInit /\ [][CardsNext]_cardVars /\ CardsFairness

-----------------------------------------------------------------------------
CardsTypeOK ==
  /\ carded \in {"ready", "running", "blocked"} \cup Final
  /\ cardTurn \in 0..MaxTurns
  /\ \A c \in ToSet(Viewers) :
       rows[c] # Blank => rows[c].msg \in DOMAIN onCard[c] /\ rows[c].turn \in 1..cardTurn
  /\ doing \in {"open", "edit", "idle"} /\ viewer \in 0..(Len(Viewers) - 1)
  /\ (landed # 0) => (drawn # Blank)
  /\ mishaps \in 0..MaxMishaps

(* "One message per task per chat": a chat has as many messages about a     *)
(* task as polls died between sending a card and recording it, and one,     *)
(* over all of the task's runs and retries.                                 *)
OneCardPerChat ==
  \A c \in ToSet(Viewers) : Len(onCard[c]) <= 1 + mishaps

(* The last message of a chat that followed the task comes to show how the  *)
(* task ended, whatever happened to the polls before; once it is closed it  *)
(* is never edited again, so it must have been closed at the right phase.   *)
CardsComeToRest ==
  \A s \in Final :
    (<>[](carded = s)) =>
      \A c \in ToSet(Viewers) :
        <>[](rows[c] = Blank \/ (rows[c].closed /\ onCard[c][rows[c].msg] = s))
=============================================================================
