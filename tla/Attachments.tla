----------------------------- MODULE Attachments -----------------------------
(***************************************************************************)
(* Files sent to the bot: src/src/attachments.py and the intake of         *)
(* src/src/interfaces/telegram_daemon.py (poll_once, _store_attachments,   *)
(* _claim_pending).  A file is downloaded into pending/ and moved to       *)
(* claimed/ by the next message that has words.                            *)
(*                                                                         *)
(* One chat.  A poll that fails before its last update is answered leaves  *)
(* the offset where it was, and Telegram delivers its updates again.       *)
(* Definitions marked "variant" belong to no specification; each is the    *)
(* definition it precedes with a plausible defect.                         *)
(***************************************************************************)
EXTENDS Integers, FiniteSets, SequencesExt

CONSTANTS
  Mails,       \* the messages the chat may send
  MaxMails,    \* bound on messages sent
  MaxDrops     \* bound on failed downloads, sends and moves

ASSUME AttachmentsAssumption == {MaxMails, MaxDrops} \subseteq Nat

(* What a message may be: words make a request, "slash" is a board query.  *)
MailKinds == [files : 0..1, words : {"none", "request", "slash"}, large : BOOLEAN]

ASSUME MailsAssumption == Mails \subseteq MailKinds

VARIABLES
  sent,      \* the messages sent, in order: their positions are update ids
  offset,    \* the last update Telegram need not deliver again
  mail,      \* the update in hand, 0 between polls
  step,      \* what comes next for it
  onDisk,    \* the copies: each [of, place, moves], numbered as stored
  fresh,     \* the copy this delivery stored, 0 if none
  offered,   \* the copies the request in hand names
  requests,  \* the copies each staged request names, in order of staging
  promised,  \* copies the chat was told are held for its next request
  drops

attachmentVars ==
  <<sent, offset, mail, step, onDisk, fresh, offered, requests, promised, drops>>
inHand == <<mail, step, fresh, offered>>

AttachmentsInit ==
  /\ sent = <<>> /\ offset = 0 /\ mail = 0 /\ step = "poll"
  /\ onDisk = <<>> /\ fresh = 0 /\ offered = {} /\ requests = <<>>
  /\ promised = {} /\ drops = 0

FilesIn(place) == {i \in 1..Len(onDisk) : onDisk[i].place = place}
Mail == sent[mail]

Sends ==
  /\ Len(sent) < MaxMails
  /\ \E m \in Mails : sent' = Append(sent, m)
  /\ UNCHANGED <<offset, inHand, onDisk, requests, promised, drops>>

-----------------------------------------------------------------------------
(* poll_once *)

(* After the step in hand: the next update of the batch, or the end of the *)
(* poll, which alone moves the offset.                                     *)
AnsweredTo(last) ==
  /\ fresh' = 0 /\ offered' = {}
  /\ \/ /\ mail < Len(sent) /\ mail' = mail + 1 /\ step' = "store"
        /\ UNCHANGED offset
     \/ mail' = 0 /\ step' = "poll" /\ offset' = last

(* Variant: the offset is the last update_id, not the one after it. *)
OffByOne == AnsweredTo(mail - 1)

Answered == AnsweredTo(mail)

PollOpens ==
  /\ step = "poll" /\ offset < Len(sent)
  /\ mail' = offset + 1 /\ step' = "store"
  /\ UNCHANGED <<sent, offset, fresh, offered, onDisk, requests, promised, drops>>

(* A send that fails ends the poll; run_forever backs off and polls again. *)
PollDrops ==
  /\ step \in {"note", "hold", "reply"} /\ drops < MaxDrops
  /\ drops' = drops + 1
  /\ mail' = 0 /\ step' = "poll" /\ fresh' = 0 /\ offered' = {}
  /\ UNCHANGED <<sent, offset, onDisk, requests, promised>>

(* _store_attachments: a free name in pending/ for each file.  A file over *)
(* the limit, or whose download fails, is only reported.                   *)
Stored ==
  onDisk' = Append(onDisk, [of |-> mail, place |-> "pending"])

Stores ==
  /\ step = "store" /\ Mail.files = 1 /\ ~Mail.large
  /\ Stored /\ fresh' = Len(onDisk) + 1
  /\ step' = IF Mail.words = "none" THEN "hold" ELSE "claim"
  /\ UNCHANGED <<sent, offset, mail, offered, requests, promised, drops>>

CannotStore ==
  /\ step = "store" /\ Mail.files = 1
  /\ \/ Mail.large /\ UNCHANGED drops
     \/ drops < MaxDrops /\ drops' = drops + 1
  /\ step' = "note"
  /\ UNCHANGED <<sent, offset, mail, fresh, offered, onDisk, requests, promised>>

NothingToStore ==
  /\ step = "store" /\ Mail.files = 0
  /\ step' = "claim"
  /\ UNCHANGED <<sent, offset, mail, fresh, offered, onDisk, requests, promised, drops>>

NotesProblem ==
  /\ step = "note"
  /\ step' = IF Mail.words = "none" THEN "hold" ELSE "claim"
  /\ UNCHANGED <<sent, offset, mail, fresh, offered, onDisk, requests, promised, drops>>

(* _held_notice: "Held for your next request". *)
Holds ==
  /\ step = "hold"
  /\ promised' = promised \cup ({fresh} \ {0})
  /\ Answered
  /\ UNCHANGED <<sent, onDisk, requests, drops>>

-----------------------------------------------------------------------------
(* _claim_pending and the request *)

(* Variant: the files are listed and left where they are. *)
LeftThere(copies) == UNCHANGED onDisk

MovedOut(copies) ==
  onDisk' = [i \in 1..Len(onDisk) |->
               [onDisk[i] EXCEPT !.place = IF i \in copies THEN "claimed" ELSE @]]

(* Everything in pending/ is moved before the message is looked at; a file *)
(* that cannot be moved stays and is not named.                            *)
ClaimsFiles ==
  /\ step = "claim"
  /\ \E stuck \in {s \in SUBSET FilesIn("pending") : Cardinality(s) + drops <= MaxDrops} :
       LET copies == FilesIn("pending") \ stuck IN
       /\ MovedOut(copies)
       /\ offered' = IF Mail.words = "request" THEN copies ELSE {}
       /\ drops' = drops + Cardinality(stuck)
  /\ step' = "handle"
  /\ UNCHANGED <<sent, offset, mail, fresh, requests, promised>>

(* The handler stages a request with the paths, or answers a query. *)
HandlesMail ==
  /\ step = "handle"
  /\ requests' = IF Mail.words = "request" THEN Append(requests, offered) ELSE requests
  /\ step' = "reply"
  /\ UNCHANGED <<sent, offset, mail, fresh, offered, onDisk, promised, drops>>

RepliesTo ==
  /\ step = "reply"
  /\ Answered
  /\ UNCHANGED <<sent, onDisk, requests, promised, drops>>

AttachmentStep ==
  PollOpens \/ Stores \/ CannotStore \/ NothingToStore \/ NotesProblem
    \/ Holds \/ ClaimsFiles \/ HandlesMail \/ RepliesTo

AttachmentsNext == Sends \/ PollDrops \/ AttachmentStep
AttachmentsSpec ==
  AttachmentsInit /\ [][AttachmentsNext]_attachmentVars /\ WF_attachmentVars(AttachmentStep)

-----------------------------------------------------------------------------

AttachmentsTypeOK ==
  /\ sent \in Seq(Mails) /\ Len(sent) <= MaxMails
  /\ offset \in 0..Len(sent) /\ mail \in 0..Len(sent)
  /\ step \in {"poll", "store", "note", "hold", "claim", "handle", "reply"}
  /\ onDisk \in Seq([of : 1..Len(sent), place : {"pending", "claimed"}])
  /\ fresh \in 0..Len(onDisk) /\ offered \subseteq 1..Len(onDisk)
  /\ requests \in Seq(SUBSET (1..Len(onDisk)))
  /\ promised \subseteq 1..Len(onDisk)
  /\ drops \in 0..MaxDrops

(* A copy reaches one request at most, and a request names only paths that *)
(* exist: a listed path "went out that way" once, pointing into pending/.  *)
AttachedOnce ==
  /\ \A i \in 1..Len(requests) : requests[i] \subseteq FilesIn("claimed")
  /\ \A i, j \in 1..Len(requests) : i # j => requests[i] \cap requests[j] = {}

(* Every message is answered in the end, whatever polls fail before it is. *)
EveryMailIsAnswered == \A u \in 1..MaxMails : Len(sent) >= u ~> offset >= u

=============================================================================
