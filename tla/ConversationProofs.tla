------------------------- MODULE ConversationProofs -------------------------
(***************************************************************************)
(* Theorems about what stands between the operator and the board: files    *)
(* and cards, the bar a brief sets, the report of a run, proposals and     *)
(* advice, the file index, memory and the standstill digest; and that      *)
(* every variable of these components, of Telegram, Planner and Intake     *)
(* keeps its type.                                                         *)
(***************************************************************************)
EXTENDS MCConversation, TelegramProofs, PlannerProofs, IntakeProofs, Foundations

-----------------------------------------------------------------------------
(* Attachments.  A request in hand holds copies no staged request has: they *)
(* were in pending/ when it claimed them, and what is staged was claimed.   *)

Copy == [of : 1..Len(sent), place : {"pending", "claimed"}]

HandHolds ==
  /\ step = "poll" <=> mail = 0
  /\ step \notin {"handle", "reply"} => offered = {}
  /\ offered \subseteq FilesIn("claimed")
  /\ step = "handle" => \A i \in 1..Len(requests) : requests[i] \cap offered = {}

MailHolds == AttachmentsTypeOK /\ HandHolds /\ AttachedOnce

(* The facts about types that the steps use. *)
LEMMA MailTypes ==
  ASSUME AttachmentsTypeOK
  PROVE  /\ sent \in Seq(Mails) /\ Len(sent) \in Nat /\ Len(sent) <= MaxMails
         /\ offset \in 0..Len(sent) /\ mail \in 0..Len(sent)
         /\ step \in {"poll", "store", "note", "hold", "claim", "handle", "reply"}
         /\ onDisk \in Seq(Copy) /\ Len(onDisk) \in Nat
         /\ fresh \in 0..Len(onDisk) /\ offered \subseteq 1..Len(onDisk)
         /\ requests \in Seq(SUBSET (1..Len(onDisk))) /\ Len(requests) \in Nat
         /\ promised \subseteq 1..Len(onDisk)
         /\ drops \in 0..MaxDrops /\ drops \in Nat /\ MaxDrops \in Nat /\ MaxMails \in Nat
<1>1. MaxDrops \in Nat /\ MaxMails \in Nat
  BY AttachmentsAssumption DEF AttachmentsAssumption
<1>2. sent \in Seq(Mails) /\ onDisk \in Seq(Copy) /\ requests \in Seq(SUBSET (1..Len(onDisk)))
  BY DEF AttachmentsTypeOK, Copy
<1>3. Len(sent) \in Nat /\ Len(onDisk) \in Nat /\ Len(requests) \in Nat
  BY ONLY <1>2
<1> QED
  BY <1>1, <1>2, <1>3 DEF AttachmentsTypeOK

LEMMA MailStep == MailHolds /\ [AttachmentsNext]_attachmentVars => MailHolds'
<1> SUFFICES ASSUME MailHolds, [AttachmentsNext]_attachmentVars PROVE MailHolds'
  OBVIOUS
<1> USE DEF MailHolds, inHand
<1>0. /\ sent \in Seq(Mails) /\ Len(sent) \in Nat /\ Len(sent) <= MaxMails
      /\ offset \in 0..Len(sent) /\ mail \in 0..Len(sent)
      /\ step \in {"poll", "store", "note", "hold", "claim", "handle", "reply"}
      /\ onDisk \in Seq(Copy) /\ Len(onDisk) \in Nat
      /\ fresh \in 0..Len(onDisk) /\ offered \subseteq 1..Len(onDisk)
      /\ requests \in Seq(SUBSET (1..Len(onDisk))) /\ Len(requests) \in Nat
      /\ promised \subseteq 1..Len(onDisk)
      /\ drops \in 0..MaxDrops /\ drops \in Nat /\ MaxDrops \in Nat /\ MaxMails \in Nat
  BY MailTypes
<1>1. CASE Sends
  <2>1. PICK m \in Mails : sent' = Append(sent, m)
    BY <1>1 DEF Sends
  <2>2. /\ sent' \in Seq(Mails) /\ Len(sent') = Len(sent) + 1 /\ Len(sent) < MaxMails
        /\ UNCHANGED <<offset, mail, step, fresh, offered, onDisk, requests, promised, drops>>
    BY <1>0, <1>1, <2>1, SeqGrows DEF Sends
  <2>3. onDisk' \in Seq([of : 1..Len(sent'), place : {"pending", "claimed"}])
    <3>1. Copy \subseteq [of : 1..Len(sent'), place : {"pending", "claimed"}]
      BY <1>0, <2>2 DEF Copy
    <3> QED
      BY ONLY <1>0, <2>2, <3>1, SeqOfMore
  <2>4. AttachmentsTypeOK'
    BY <1>0, <2>2, <2>3 DEF AttachmentsTypeOK
  <2> QED
    BY <2>2, <2>4 DEF HandHolds, AttachedOnce, FilesIn
<1>2. ASSUME NEW update \in 0..Len(sent), AnsweredTo(update), step \in {"hold", "reply"},
             promised' \subseteq 1..Len(onDisk),
             UNCHANGED <<sent, onDisk, requests, drops>>
      PROVE  MailHolds'
  <2>1. /\ mail' \in 0..Len(sent) /\ offset' \in 0..Len(sent) /\ step' \in {"store", "poll"}
        /\ (step' = "poll" <=> mail' = 0) /\ fresh' = 0 /\ offered' = {}
    BY <1>0, <1>2 DEF AnsweredTo
  <2>2. AttachmentsTypeOK'
    BY <1>0, <1>2, <2>1 DEF AttachmentsTypeOK, Copy
  <2> QED
    BY <1>2, <2>1, <2>2 DEF HandHolds, AttachedOnce, FilesIn
<1>3. CASE PollOpens
  BY <1>0, <1>3 DEF PollOpens, AttachmentsTypeOK, HandHolds, AttachedOnce, FilesIn
<1>4. CASE PollDrops
  BY <1>0, <1>4 DEF PollDrops, AttachmentsTypeOK, HandHolds, AttachedOnce, FilesIn
<1>5. CASE CannotStore
  BY <1>0, <1>5 DEF CannotStore, AttachmentsTypeOK, HandHolds, AttachedOnce, FilesIn
<1>6. CASE NothingToStore
  BY <1>0, <1>6 DEF NothingToStore, AttachmentsTypeOK, HandHolds, AttachedOnce, FilesIn
<1>7. CASE NotesProblem
  BY <1>0, <1>7 DEF NotesProblem, AttachmentsTypeOK, HandHolds, AttachedOnce, FilesIn
<1>8. CASE Stores
  <2> DEFINE copy == [of |-> mail, place |-> "pending"]
  <2>1. /\ copy \in Copy /\ onDisk' = Append(onDisk, copy) /\ fresh' = Len(onDisk) + 1
        /\ step = "store" /\ step' \in {"hold", "claim"} /\ copy.place = "pending"
        /\ UNCHANGED <<sent, offset, mail, offered, requests, promised, drops>>
    BY <1>0, <1>8 DEF Stores, Stored, HandHolds, Copy
  <2> HIDE DEF copy
  <2>2. /\ onDisk' \in Seq(Copy) /\ Len(onDisk') = Len(onDisk) + 1
        /\ \A i \in 1..Len(onDisk) : onDisk'[i] = onDisk[i]
        /\ onDisk'[Len(onDisk) + 1] = copy
    BY ONLY <1>0, <2>1, SeqGrows
  <2>3. requests \in Seq(SUBSET (1..Len(onDisk')))
    <3>1. SUBSET (1..Len(onDisk)) \subseteq SUBSET (1..Len(onDisk'))
      BY <1>0, <2>2
    <3> QED
      BY ONLY <1>0, <3>1, SeqOfMore
  <2>4. AttachmentsTypeOK'
    BY <1>0, <2>1, <2>2, <2>3 DEF AttachmentsTypeOK, Copy
  <2>5. FilesIn("claimed") \subseteq FilesIn("claimed")'
    BY <1>0, <2>2 DEF FilesIn
  <2> QED
    BY <2>1, <2>4, <2>5 DEF HandHolds, AttachedOnce
<1>9. CASE ClaimsFiles
  <2>1. PICK stuck \in SUBSET FilesIn("pending") :
          /\ Cardinality(stuck) + drops <= MaxDrops
          /\ MovedOut(FilesIn("pending") \ stuck)
          /\ offered' = IF Mail.words = "request" THEN FilesIn("pending") \ stuck ELSE {}
          /\ drops' = drops + Cardinality(stuck)
    BY <1>9 DEF ClaimsFiles
  <2> DEFINE copies == FilesIn("pending") \ stuck
  <2>2. /\ step = "claim" /\ step' = "handle"
        /\ UNCHANGED <<sent, offset, mail, fresh, requests, promised>>
    BY <1>9 DEF ClaimsFiles
  <2>3. Cardinality(stuck) \in Nat
    <3>1. IsFiniteSet(1..Len(onDisk)) /\ stuck \subseteq 1..Len(onDisk)
      BY <1>0, FS_Interval DEF FilesIn
    <3> QED
      BY <3>1, FS_Subset, FS_CardinalityType
  <2>4. drops' \in 0..MaxDrops
    BY <1>0, <2>1, <2>3
  <2>5. /\ onDisk' \in Seq(Copy) /\ Len(onDisk') = Len(onDisk)
        /\ \A i \in 1..Len(onDisk) :
             onDisk'[i].place = IF i \in copies THEN "claimed" ELSE onDisk[i].place
    <3>1. \A i \in 1..Len(onDisk) : onDisk[i] \in Copy
      BY <1>0, SeqHolds
    <3>2. onDisk' = [i \in 1..Len(onDisk) |->
                       [onDisk[i] EXCEPT !.place = IF i \in copies THEN "claimed" ELSE @]]
      BY <2>1 DEF MovedOut
    <3>3. \A i \in 1..Len(onDisk) :
            /\ onDisk'[i] \in Copy
            /\ onDisk'[i].place = IF i \in copies THEN "claimed" ELSE onDisk[i].place
      BY <3>1, <3>2 DEF Copy
    <3>4. onDisk' \in [1..Len(onDisk) -> Copy]
      BY <3>2, <3>3
    <3> QED
      BY ONLY <1>0, <3>3, <3>4, SeqMade
  <2>6. copies \subseteq 1..Len(onDisk) /\ offered' \in {copies, {}}
    BY <2>1 DEF FilesIn
  <2>7. AttachmentsTypeOK'
    BY <1>0, <2>2, <2>4, <2>5, <2>6 DEF AttachmentsTypeOK, Copy
  <2>8. FilesIn("claimed")' = FilesIn("claimed") \cup copies
    BY <2>5, <2>6 DEF FilesIn
  <2>9. FilesIn("claimed") \cap copies = {}
    BY DEF FilesIn
  <2> HIDE DEF copies
  <2>10. AttachedOnce'
    BY <2>2, <2>8 DEF AttachedOnce
  <2>11. HandHolds'
    BY <2>2, <2>6, <2>8, <2>9 DEF HandHolds, AttachedOnce
  <2> QED
    BY <2>7, <2>10, <2>11
<1>10. CASE HandlesMail
  <2>1. /\ step = "handle" /\ step' = "reply"
        /\ requests' \in {Append(requests, offered), requests}
        /\ UNCHANGED <<sent, offset, mail, fresh, offered, onDisk, promised, drops>>
    BY <1>10 DEF HandlesMail
  <2>2. /\ Append(requests, offered) \in Seq(SUBSET (1..Len(onDisk)))
        /\ Len(Append(requests, offered)) = Len(requests) + 1
        /\ \A i \in 1..Len(requests) : Append(requests, offered)[i] = requests[i]
        /\ Append(requests, offered)[Len(requests) + 1] = offered
        /\ \A i \in 1..Len(Append(requests, offered)) :
             i \in 1..Len(requests) \/ i = Len(requests) + 1
    BY ONLY <1>0, SeqGrows, offered \in SUBSET (1..Len(onDisk))
  <2>3. AttachmentsTypeOK'
    BY <1>0, <2>1, <2>2 DEF AttachmentsTypeOK, Copy
  <2>4. FilesIn("claimed")' = FilesIn("claimed")
    BY <2>1 DEF FilesIn
  <2>5. AttachedOnce'
    <3>1. CASE requests' = requests
      BY <2>4, <3>1 DEF AttachedOnce
    <3>2. CASE requests' = Append(requests, offered)
      BY <2>1, <2>2, <2>4, <3>2 DEF AttachedOnce, HandHolds
    <3> QED
      BY <2>1, <3>1, <3>2
  <2> QED
    BY <2>1, <2>3, <2>4, <2>5 DEF HandHolds
<1>11. CASE Holds
  BY <1>0, <1>2, <1>11 DEF Holds, Answered
<1>12. CASE RepliesTo
  BY <1>0, <1>2, <1>12 DEF RepliesTo, Answered
<1>13. CASE UNCHANGED attachmentVars
  BY <1>13 DEF attachmentVars, AttachmentsTypeOK, HandHolds, AttachedOnce, FilesIn
<1> QED
  BY <1>1, <1>3, <1>4, <1>5, <1>6, <1>7, <1>8, <1>9, <1>10, <1>11, <1>12, <1>13
     DEF AttachmentsNext, AttachmentStep

LEMMA MailStarts == AttachmentsInit => MailHolds
<1> SUFFICES ASSUME AttachmentsInit PROVE MailHolds
  OBVIOUS
<1>1. AttachmentsTypeOK
  BY AttachmentsAssumption DEF AttachmentsInit, AttachmentsTypeOK, AttachmentsAssumption
<1> QED
  BY <1>1 DEF AttachmentsInit, MailHolds, HandHolds, AttachedOnce, FilesIn

-----------------------------------------------------------------------------
(* Cards.  A chat has a message more than its polls died only while its     *)
(* table remembers one, or is about to.                                     *)

Served == ToSet(Viewers)

(* The message that was sent to c and is not in the table yet. *)
Loose(c) == doing = "open" /\ landed # 0 /\ c = Chat

Numbered ==
  \A c \in Served :
    Len(onCard[c]) <= mishaps + (IF rows[c] # Blank \/ Loose(c) THEN 1 ELSE 0)

(* The card in hand: opened for a chat that has none, edited for one that has. *)
PageInHand ==
  /\ doing = "idle" => drawn = Blank
  /\ landed # 0 => drawn # Blank
  /\ (doing = "open" /\ drawn # Blank) => rows[Chat] = Blank /\ drawn.turn \in 1..cardTurn
  /\ (doing = "open" /\ landed # 0) => landed = Len(onCard[Chat])
  /\ (doing = "edit" /\ drawn # Blank) => rows[Chat] # Blank

CardTypes ==
  /\ carded \in {"ready", "running", "blocked"} \cup Final
  /\ cardTurn \in 0..MaxTurns /\ (carded = "running" => cardTurn # 0)
  /\ rows \in [Served -> CardRows \cup {Blank}]
  /\ onCard \in [Served -> Seq(Phases)]
  /\ \A c \in Served :
       rows[c] # Blank => rows[c].msg \in 1..Len(onCard[c]) /\ rows[c].turn \in 1..cardTurn
  /\ doing \in {"open", "edit", "idle"} /\ viewer \in 0..(Len(Viewers) - 1)
  /\ drawn \in Pages \cup {Blank} /\ landed \in Nat
  /\ mishaps \in 0..MaxMishaps

CardsHold == CardTypes /\ PageInHand /\ Numbered

LEMMA ChatIsServed ==
  ASSUME viewer \in 0..(Len(Viewers) - 1)
  PROVE  Chat \in Served
  BY CardsAssumption DEF CardsAssumption, Chat, Served

LEMMA OnwardGoes ==
  ASSUME NEW half \in {"open", "edit"}, viewer \in 0..(Len(Viewers) - 1), OnwardFrom(half)
  PROVE  /\ doing' \in {"open", "edit", "idle"} /\ viewer' \in 0..(Len(Viewers) - 1)
         /\ half = "open" => doing' = "edit" /\ viewer' = viewer
<1>1. Len(Viewers) \in Nat \ {0}
  BY CardsAssumption DEF CardsAssumption
<1> QED
  BY <1>1 DEF OnwardFrom

LEMMA CardsStep == CardsHold /\ [CardsNext]_cardVars => CardsHold'
<1> SUFFICES ASSUME CardsHold, [CardsNext]_cardVars PROVE CardsHold'
  OBVIOUS
<1> USE DEF CardsHold, cardBoard, poster
<1>0. /\ Blank \notin CardRows /\ Blank \notin Pages
      /\ Len(Viewers) \in Nat \ {0} /\ MaxTurns \in Nat /\ MaxMishaps \in Nat
      /\ Chat \in Served
  BY CardsAssumption, ChatIsServed DEF CardsAssumption, CardTypes
<1>t. CardTypes /\ PageInHand /\ Numbered
  OBVIOUS
<1>1. CASE TurnStarts
  BY <1>0, <1>1 DEF TurnStarts, CardTypes, PageInHand, Numbered, Loose, Chat
<1>2. CASE TurnEnds
  BY <1>2 DEF TurnEnds, CardTypes, PageInHand, Numbered, Loose, Chat, Final
<1>3. CASE TurnIsRetried
  BY <1>3 DEF TurnIsRetried, CardTypes, PageInHand, Numbered, Loose, Chat
<1>4. CASE PollBegins
  <2>1. landed = 0
    BY <1>4 DEF PollBegins, PageInHand
  <2> QED
    BY <1>0, <1>4, <2>1 DEF PollBegins, CardTypes, PageInHand, Numbered, Loose
<1>5. CASE Draws
  <2>1. /\ doing \in {"open", "edit"} /\ drawn = Blank /\ landed = 0
        /\ doing = "open" => carded = "running" /\ rows[Chat] = Blank
        /\ doing = "edit" => rows[Chat] # Blank
        /\ drawn' = [phase |-> PhaseFor, turn |-> cardTurn, closed |-> PhaseFor \in Final]
        /\ UNCHANGED <<carded, cardTurn, rows, onCard, viewer, doing, landed, mishaps>>
    BY <1>5 DEF Draws, Uncarded, Moved, PageInHand
  <2>2. PhaseFor \in Phases
    BY DEF PhaseFor, CardTypes, Phases, Final
  <2>3. drawn' \in Pages /\ drawn'.turn = cardTurn
    BY <2>1, <2>2 DEF Pages, CardTypes
  <2>4. CardTypes'
    BY <2>1, <2>3 DEF CardTypes
  <2>5. PageInHand'
    BY <1>0, <2>1, <2>3 DEF PageInHand, Chat, CardTypes
  <2>6. Numbered'
    BY <2>1 DEF Numbered, Loose, Chat
  <2> QED
    BY <2>4, <2>5, <2>6
<1>6. CASE Proceeds
  <2>1. /\ doing \in {"open", "edit"} /\ drawn = Blank /\ landed = 0 /\ OnwardFrom(doing)
        /\ UNCHANGED <<carded, cardTurn, rows, onCard, drawn, landed, mishaps>>
    BY <1>6 DEF Proceeds, PageInHand
  <2>2. doing' \in {"open", "edit", "idle"} /\ viewer' \in 0..(Len(Viewers) - 1)
    BY <2>1, OnwardGoes DEF CardTypes
  <2> QED
    BY <2>1, <2>2 DEF CardTypes, PageInHand, Numbered, Loose
<1>7. CASE Opens
  <2> DEFINE c == Chat
             was == onCard[c]
  <2>1. /\ doing = "open" /\ drawn # Blank /\ landed = 0
        /\ onCard' = [onCard EXCEPT ![c] = Append(was, drawn.phase)]
        /\ landed' = Len(was) + 1
        /\ UNCHANGED <<carded, cardTurn, rows, viewer, doing, drawn, mishaps>>
    BY <1>7 DEF Opens
  <2>2. c \in Served /\ was \in Seq(Phases) /\ drawn.phase \in Phases /\ c' = c
    BY <1>0, <2>1 DEF CardTypes, Pages, Chat
  <2>3. /\ Append(was, drawn.phase) \in Seq(Phases) /\ Len(was) \in Nat
        /\ Len(Append(was, drawn.phase)) = Len(was) + 1
    BY ONLY <2>2, SeqGrows
  <2>4. onCard' \in [Served -> Seq(Phases)] /\ onCard'[c] = Append(was, drawn.phase)
    BY <2>1, <2>2, <2>3 DEF CardTypes
  <2>5. rows[c] = Blank /\ \A d \in Served \ {c} : onCard'[d] = onCard[d]
    BY <2>1 DEF PageInHand, CardTypes
  <2>6. CardTypes'
    BY <2>1, <2>3, <2>4, <2>5 DEF CardTypes
  <2>7. PageInHand'
    BY <2>1, <2>2, <2>3, <2>4 DEF PageInHand, Chat
  <2>8. Numbered'
    <3>1. Len(was) <= mishaps
      BY <2>1, <2>2, <2>3, <2>5 DEF Numbered, Loose, CardTypes
    <3>2. Loose(c)'
      BY <2>1, <2>2, <2>3 DEF Loose
    <3>3. mishaps' = mishaps /\ mishaps \in Nat
      BY <1>0, <2>1 DEF CardTypes
    <3>4. Len(onCard'[c]) <= mishaps' + 1
      BY <2>3, <2>4, <3>1, <3>3
    <3>5. ASSUME NEW d \in Served, d # c
          PROVE  Len(onCard'[d]) <= mishaps' + (IF rows'[d] # Blank THEN 1 ELSE 0)
      BY <2>1, <2>5, <3>5 DEF Numbered, Loose
    <3>6. ASSUME NEW d \in Served
          PROVE  Len(onCard'[d])
                   <= mishaps' + (IF rows'[d] # Blank
                                       \/ (doing' = "open" /\ landed' # 0 /\ d = Chat')
                                    THEN 1 ELSE 0)
      <4>1. CASE d = c
        BY <2>2, <3>2, <3>4, <4>1 DEF Loose
      <4>2. CASE d # c
        BY <2>2, <3>5, <4>2
      <4> QED
        BY <4>1, <4>2
    <3> QED
      BY <3>6 DEF Numbered, Loose
  <2> QED
    BY <2>6, <2>7, <2>8
<1>8. CASE Recorded
  <2> DEFINE c == Chat
             entry == [msg |-> landed, phase |-> drawn.phase, turn |-> drawn.turn,
                     closed |-> FALSE]
  <2>1. /\ doing = "open" /\ landed # 0 /\ drawn # Blank
        /\ rows' = [rows EXCEPT ![c] = entry]
        /\ drawn' = Blank /\ landed' = 0 /\ OnwardFrom(doing)
        /\ UNCHANGED <<carded, cardTurn, onCard, mishaps>>
    BY <1>8 DEF Recorded, PageInHand
  <2>2. doing' = "edit" /\ viewer' = viewer
    BY <2>1, OnwardGoes DEF CardTypes
  <2>3. /\ c \in Served /\ entry \in CardRows /\ entry # Blank
        /\ entry.msg \in 1..Len(onCard[c]) /\ entry.turn \in 1..cardTurn
    <3>1. drawn \in Pages /\ landed \in Nat /\ drawn.turn \in 1..cardTurn
      BY <2>1 DEF CardTypes, PageInHand
    <3>2. entry \in CardRows
      BY <3>1 DEF CardRows, Pages
    <3>3. landed = Len(onCard[c])
      BY <2>1 DEF PageInHand
    <3>4. entry.msg = landed /\ entry.turn = drawn.turn
      OBVIOUS
    <3>5. landed \in 1..Len(onCard[c])
      BY <2>1, <3>1, <3>3
    <3> QED
      BY <1>0, <3>1, <3>2, <3>4, <3>5
  <2>4. /\ rows' \in [Served -> CardRows \cup {Blank}] /\ rows'[c] = entry
        /\ \A d \in Served \ {c} : rows'[d] = rows[d]
    BY <2>1, <2>3 DEF CardTypes
  <2> HIDE DEF entry
  <2>5. CardTypes'
    BY <2>1, <2>2, <2>3, <2>4 DEF CardTypes
  <2>6. PageInHand'
    BY <2>1, <2>2 DEF PageInHand
  <2>7. Numbered'
    <3>1. ASSUME NEW d \in Served
          PROVE  Len(onCard[d]) <= mishaps + (IF rows'[d] # Blank THEN 1 ELSE 0)
      <4>1. CASE d = c
        BY <1>t, <2>1, <2>3, <2>4, <4>1 DEF Numbered, Loose
      <4>2. CASE d # c
        BY <1>t, <2>4, <4>2 DEF Numbered, Loose
      <4> QED
        BY <4>1, <4>2
    <3> QED
      BY <2>1, <3>1 DEF Numbered, Loose
  <2> QED
    BY <2>5, <2>6, <2>7
<1>9. CASE EditsCard
  <2> DEFINE c == Chat
             was == onCard[c]
             now == [was EXCEPT ![rows[c].msg] = drawn.phase]
  <2>1. /\ doing = "edit" /\ drawn # Blank /\ landed = 0
        /\ onCard' = [onCard EXCEPT ![c] = now]
        /\ landed' = rows[c].msg
        /\ UNCHANGED <<carded, cardTurn, rows, viewer, doing, drawn, mishaps>>
    BY <1>9 DEF EditsCard
  <2>2. /\ c \in Served /\ was \in Seq(Phases) /\ drawn.phase \in Phases
        /\ rows[c].msg \in 1..Len(was)
    BY <1>0, <2>1 DEF CardTypes, Pages, PageInHand
  <2>3. now \in Seq(Phases) /\ Len(now) = Len(was)
    BY <2>2
  <2>4. /\ onCard' \in [Served -> Seq(Phases)]
        /\ \A d \in Served : Len(onCard'[d]) = Len(onCard[d])
    BY <2>1, <2>2, <2>3 DEF CardTypes
  <2> HIDE DEF now
  <2>5. CardTypes'
    BY <2>1, <2>2, <2>4 DEF CardTypes
  <2>6. PageInHand'
    BY <2>1 DEF PageInHand, Chat
  <2>7. Numbered'
    BY <2>1, <2>4 DEF Numbered, Loose
  <2> QED
    BY <2>5, <2>6, <2>7
<1>10. CASE Advances
  <2> DEFINE c == Chat
             entry == [rows[c] EXCEPT !.phase = drawn.phase, !.closed = drawn.closed]
  <2>1. /\ doing = "edit" /\ landed # 0 /\ drawn # Blank
        /\ rows' = [rows EXCEPT ![c] = entry]
        /\ drawn' = Blank /\ landed' = 0 /\ OnwardFrom(doing)
        /\ UNCHANGED <<carded, cardTurn, onCard, mishaps>>
    BY <1>10 DEF Advances, AdvancedTo, PageInHand
  <2>2. doing' \in {"open", "edit", "idle"} /\ viewer' \in 0..(Len(Viewers) - 1)
    BY <2>1, OnwardGoes DEF CardTypes
  <2>3. /\ c \in Served /\ rows[c] \in CardRows /\ rows[c] # Blank
        /\ entry \in CardRows /\ entry.msg = rows[c].msg /\ entry.turn = rows[c].turn
    BY <1>0, <2>1 DEF CardTypes, PageInHand, CardRows, Pages
  <2>4. /\ rows' \in [Served -> CardRows \cup {Blank}] /\ rows'[c] = entry
        /\ \A d \in Served \ {c} : rows'[d] = rows[d]
    BY <2>1, <2>3 DEF CardTypes
  <2> HIDE DEF entry
  <2>5. CardTypes'
    BY <2>1, <2>2, <2>3, <2>4 DEF CardTypes
  <2>6. PageInHand'
    BY <2>1 DEF PageInHand
  <2>7. \A d \in Served : rows'[d] # Blank <=> rows[d] # Blank
    BY <1>0, <2>3, <2>4
  <2>8. Numbered'
    BY <2>1, <2>7 DEF Numbered, Loose
  <2> QED
    BY <2>5, <2>6, <2>8
<1>11. CASE PollDies
  <2>1. /\ mishaps' = mishaps + 1 /\ mishaps < MaxMishaps
        /\ doing' = "idle" /\ viewer' = 0 /\ drawn' = Blank /\ landed' = 0
        /\ UNCHANGED <<carded, cardTurn, rows, onCard>>
    BY <1>11 DEF PollDies
  <2>2. CardTypes' /\ PageInHand'
    BY <1>0, <2>1 DEF CardTypes, PageInHand
  <2>3. ASSUME NEW c \in Served
        PROVE  Len(onCard[c]) <= mishaps + 1 + (IF rows[c] # Blank THEN 1 ELSE 0)
    <3>1. Len(onCard[c]) \in Nat /\ mishaps \in Nat
      BY DEF CardTypes
    <3> QED
      BY <3>1 DEF Numbered
  <2>4. Numbered'
    BY <2>1, <2>3 DEF Numbered, Loose
  <2> QED
    BY <2>2, <2>4
<1>12. CASE EditFails
  <2>1. /\ doing = "edit" /\ landed = 0 /\ mishaps < MaxMishaps /\ mishaps' = mishaps + 1
        /\ drawn' = Blank /\ OnwardFrom("edit")
        /\ UNCHANGED <<carded, cardTurn, rows, onCard, landed>>
    BY <1>12 DEF EditFails
  <2>2. doing' \in {"open", "edit", "idle"} /\ viewer' \in 0..(Len(Viewers) - 1)
    BY <2>1, OnwardGoes DEF CardTypes
  <2>3. CardTypes' /\ PageInHand'
    BY <1>0, <2>1, <2>2 DEF CardTypes, PageInHand
  <2>4. ASSUME NEW c \in Served
        PROVE  Len(onCard[c]) <= mishaps + 1 + (IF rows[c] # Blank THEN 1 ELSE 0)
    <3>1. Len(onCard[c]) \in Nat /\ mishaps \in Nat
      BY DEF CardTypes
    <3> QED
      BY <3>1 DEF Numbered
  <2>5. Numbered'
    BY <2>1, <2>4 DEF Numbered, Loose
  <2> QED
    BY <2>3, <2>5
<1>13. CASE UNCHANGED cardVars
  BY <1>13 DEF cardVars, CardTypes, PageInHand, Numbered, Loose, Chat
<1> QED
  BY <1>1, <1>2, <1>3, <1>4, <1>5, <1>6, <1>7, <1>8, <1>9, <1>10, <1>11, <1>12, <1>13
     DEF CardsNext, PublishProgress

LEMMA CardsStart == CardsInit => CardsHold
<1> SUFFICES ASSUME CardsInit PROVE CardsHold
  OBVIOUS
<1>1. Len(Viewers) \in Nat \ {0} /\ MaxTurns \in Nat /\ MaxMishaps \in Nat
  BY CardsAssumption DEF CardsAssumption
<1>2. CardTypes
  BY <1>1 DEF CardsInit, CardTypes, Served
<1>3. \A c \in Served : onCard[c] = <<>>
  BY DEF CardsInit, Served
<1> QED
  BY <1>2, <1>3 DEF CardsInit, CardsHold, PageInHand, Numbered, Loose

(* DeliveredOnce for any number of messages, files, chats and runs, and     *)
(* whichever polls fail or die: a file is part of one request, and a chat   *)
(* has one card of a task and one more for every poll that died over it.    *)
THEOREM NothingIsDoubled == AttachmentsSpec /\ CardsSpec => []DeliveredOnce
<1>1. MailHolds /\ CardsHold => DeliveredOnce
  <2>1. CardsHold => OneCardPerChat
    <3> SUFFICES ASSUME CardsHold, NEW c \in Served PROVE Len(onCard[c]) <= 1 + mishaps
      BY DEF OneCardPerChat, Served
    <3>1. Len(onCard[c]) \in Nat /\ mishaps \in Nat
      BY DEF CardsHold, CardTypes
    <3> QED
      BY <3>1 DEF CardsHold, Numbered
  <2> QED
    BY <2>1 DEF MailHolds, DeliveredOnce
<1> QED
  BY <1>1, MailStarts, MailStep, CardsStart, CardsStep, PTL DEF AttachmentsSpec, CardsSpec

-----------------------------------------------------------------------------
(* Briefs.  While no attempt has been accepted the disk is as it was before *)
(* the first: what was no repair then is none now.                          *)

Standards == [promises : Nat, references : Nat, enabled : BOOLEAN]
Instructions   == [standard : Standards, required : BOOLEAN, reasons : SUBSET Findings]
Attempt == [toldAgent : Instructions, work : AllWork,
            verdict : {"accepted", "rejected", "failed"}, findings : SUBSET Findings]

BriefTypes ==
  /\ taste \in {"absent", "lenient", "off", "broken"}
  /\ rewrites \in 0..MaxRewrites /\ named \in BOOLEAN
  /\ disk \subseteq {"brief", "page"} /\ turnOf \in {"idle", "agent", "verify"}
  /\ toldAgent \in Instructions /\ work \in AllWork
  /\ logs \in Seq(Attempt) /\ Len(logs) <= MaxAttempts
  /\ turnOf # "idle" => Len(logs) < MaxAttempts
  /\ \A k \in 1..Len(logs) : (logs[k].verdict = "rejected") <=> (logs[k].findings # {})

NoneAccepted == \A k \in 1..Len(logs) : logs[k].verdict # "accepted"

SameDisk ==
  /\ turnOf # "idle" => NoneAccepted
  /\ (turnOf # "idle" /\ toldAgent.required) => ~IsRepair
  /\ NoneAccepted => \A k \in 1..Len(logs) : logs[k].toldAgent.required => ~IsRepair

BriefHolds == BriefTypes /\ SameDisk /\ AttemptsAreFair

(* What the checker finds is what the standard asks for: nothing, exactly   *)
(* when the work meets it.                                                  *)
LEMMA FoundIsMissed ==
  ASSUME work \in AllWork, toldAgent \in Instructions, toldAgent.required
  PROVE  Found = {} <=> Meets(work, toldAgent.standard)
<1> DEFINE s == toldAgent.standard
<1>1. /\ work.brief \in {"none", "own"} /\ work.promises \in Nat /\ work.references \in Nat
      /\ work.kept \in Nat /\ work.page \in BOOLEAN /\ work.good \in BOOLEAN
      /\ work.sections \in BOOLEAN
  BY DEF AllWork
<1>2. s.promises \in Nat /\ s.references \in Nat
  BY DEF Instructions, Standards
<1>3. Found = CheckWork(Collected, s)
  BY DEF Found, FromSnapshot
<1>4. CASE work.brief = "own"
  <2>1. Collected = work
    BY <1>4 DEF Collected
  <2>2. CheckWork(work, s)
          = (CheckBrief(work, s)
               \cup (IF work.promises > 0 /\ work.kept < Lesser(s.promises, work.promises)
                     THEN {"promises not kept"} ELSE {}))
            \cup (IF work.page /\ ~work.good THEN {"below the floor"} ELSE {})
    BY <1>4 DEF CheckWork
  <2>3. CheckWork(work, s) = {} <=>
          /\ CheckBrief(work, s) = {}
          /\ ~(work.promises > 0 /\ work.kept < Lesser(s.promises, work.promises))
          /\ ~(work.page /\ ~work.good)
    BY <2>2
  <2>4. CheckBrief(work, s) = {} <=>
          /\ ~(work.promises < s.promises) /\ ~(work.references < s.references)
          /\ work.sections
    BY DEF CheckBrief
  <2> HIDE DEF s
  <2>5. (work.promises >= s.promises)
          => (~(work.promises > 0 /\ work.kept < Lesser(s.promises, work.promises))
                <=> work.kept >= s.promises)
    BY ONLY <1>1, <1>2 DEF Lesser
  <2>6. /\ ~(work.promises < s.promises) <=> work.promises >= s.promises
        /\ ~(work.references < s.references) <=> work.references >= s.references
    BY ONLY <1>1, <1>2
  <2>7. Meets(work, s) <=>
          /\ work.promises >= s.promises /\ work.references >= s.references
          /\ work.sections /\ work.kept >= s.promises /\ (work.page => work.good)
    BY <1>4 DEF Meets
  <2>8. Found = {} <=> Meets(work, s)
    BY <1>3, <2>1, <2>3, <2>4, <2>5, <2>6, <2>7
  <2> QED
    BY <2>8 DEF s
<1>5. CASE work.brief = "none"
  <2>1. Collected.brief \in {"none", "old"}
    BY <1>5 DEF Collected, AllWork
  <2>2. CheckWork(Collected, s) # {}
    BY <2>1 DEF CheckWork
  <2>3. ~Meets(work, s)
    BY <1>5 DEF Meets
  <2> QED
    BY <1>3, <2>2, <2>3
<1> QED
  BY <1>1, <1>4, <1>5

LEMMA FindingsOnly == Found \subseteq Findings
  BY DEF Found, CheckWork, CheckBrief, Findings

(* The complaints a new attempt is told are those of the last rejection,    *)
(* which is the last attempt if that was rejected.                          *)
LEMMA ReasonsAreTheLast ==
  ASSUME BriefTypes
  PROVE  /\ PreviousRejection \subseteq Findings
         /\ (logs # <<>> /\ logs[Len(logs)].verdict = "rejected")
               => PreviousRejection = logs[Len(logs)].findings
<1> DEFINE rejected == {k \in 1..Len(logs) : logs[k].findings # {}}
<1>1. logs \in Seq(Attempt) /\ Len(logs) \in Nat /\ DOMAIN logs = 1..Len(logs)
  BY DEF BriefTypes
<1>2. PreviousRejection
        = IF rejected = {} THEN {} ELSE logs[LastRejected(rejected)].findings
  BY <1>1 DEF PreviousRejection
<1>3. ASSUME logs # <<>>, logs[Len(logs)].verdict = "rejected"
      PROVE  rejected # {} /\ LastRejected(rejected) = Len(logs)
  <2>1. Len(logs) \in 1..Len(logs)
    BY <1>1, <1>3
  <2>2. Len(logs) \in rejected
    BY <1>3, <2>1 DEF BriefTypes
  <2>3. \A k \in rejected : k \in Nat /\ k <= Len(logs)
    BY <1>1
  <2> HIDE DEF rejected
  <2>4. \A j \in rejected : j <= Len(logs)
    BY <2>3
  <2>5. \A k \in rejected : (\A j \in rejected : j <= k) => k = Len(logs)
    BY <1>1, <2>2, <2>3
  <2> QED
    BY <2>2, <2>4, <2>5 DEF LastRejected, LatestOf
<1>4. rejected # {} => LastRejected(rejected) \in rejected
  <2> SUFFICES ASSUME rejected # {} PROVE LastRejected(rejected) \in rejected
    OBVIOUS
  <2>1. rejected \subseteq 0..Len(logs)
    BY <1>1
  <2> HIDE DEF rejected
  <2>2. Max(rejected) \in rejected /\ \A j \in rejected : j <= Max(rejected)
    BY <1>1, <2>1, GreatestOf
  <2> QED
    BY <2>2 DEF LastRejected, LatestOf
<1>5. \A k \in 1..Len(logs) : logs[k].findings \subseteq Findings
  <2>1. \A k \in 1..Len(logs) : logs[k] \in Attempt
    BY ONLY <1>1, SeqHolds
  <2> QED
    BY <2>1 DEF Attempt
<1>6. PreviousRejection \subseteq Findings
  BY <1>2, <1>4, <1>5
<1> QED
  BY <1>2, <1>3, <1>6

LEMMA BriefStep == BriefHolds /\ [BriefNext]_briefVars => BriefHolds'
<1> SUFFICES ASSUME BriefHolds, [BriefNext]_briefVars PROVE BriefHolds'
  OBVIOUS
<1> USE DEF BriefHolds, AttemptsAreFair
<1>0. /\ logs \in Seq(Attempt) /\ Len(logs) \in Nat /\ DOMAIN logs = 1..Len(logs)
      /\ MaxRewrites \in Nat /\ MaxAttempts \in Nat /\ Outcomes \subseteq AllWork
      /\ logs # <<>> => Len(logs) \in 1..Len(logs)
  BY BriefAssumption DEF BriefTypes, BriefAssumption
<1>1. CASE OperatorRewrites
  <2>1. /\ taste' \in {"absent", "lenient", "off", "broken"} /\ rewrites' \in 0..MaxRewrites
        /\ UNCHANGED <<named, disk, turnOf, toldAgent, work, logs>>
    BY <1>0, <1>1 DEF OperatorRewrites, BriefTypes
  <2> QED
    BY <2>1 DEF BriefTypes, SameDisk, NoneAccepted, IsRepair, JudgedAsTold, ToldWhy, RetryIsHeld
<1>2. CASE Starts
  <2>1. /\ turnOf = "idle" /\ Len(logs) < MaxAttempts /\ NoneAccepted
        /\ toldAgent' = [standard |-> Load, required |-> AppliesTo(Load),
                         reasons |-> PreviousRejection]
        /\ turnOf' = "agent"
        /\ UNCHANGED <<taste, rewrites, named, disk, work, logs>>
    BY <1>0, <1>2 DEF Starts, BriefFor, NoneAccepted
  <2>2. Load \in Standards
    BY DEF Load, Standard, Standards, Default, BriefTypes
  <2>3. AppliesTo(Load) \in BOOLEAN /\ (AppliesTo(Load) <=> Load.enabled /\ ~IsRepair)
    BY <2>2 DEF AppliesTo, Standards
  <2>4. PreviousRejection \subseteq Findings
    BY ReasonsAreTheLast
  <2>5. /\ toldAgent' \in Instructions /\ toldAgent'.standard = Load
        /\ toldAgent'.required = AppliesTo(Load) /\ toldAgent'.reasons = PreviousRejection
    BY <2>1, <2>2, <2>3, <2>4 DEF Instructions
  <2>6. BriefTypes'
    BY <2>1, <2>5 DEF BriefTypes
  <2>7. SameDisk'
    BY <2>1, <2>3, <2>5 DEF SameDisk, NoneAccepted, IsRepair
  <2>8. JudgedAsTold'
    BY <2>1 DEF JudgedAsTold, Meets
  <2>9. ToldWhy'
    BY <2>1, <2>5, ReasonsAreTheLast DEF ToldWhy
  <2>10. RetryIsHeld'
    BY <1>0, <2>1, <2>3, <2>5 DEF RetryIsHeld, SameDisk
  <2> QED
    BY <2>6, <2>7, <2>8, <2>9, <2>10
<1>3. CASE AgentWorks
  <2>1. /\ turnOf = "agent" /\ turnOf' = "verify" /\ work' \in AllWork
        /\ UNCHANGED <<taste, rewrites, named, disk, toldAgent, logs>>
    BY <1>0, <1>3 DEF AgentWorks
  <2> QED
    BY <2>1 DEF BriefTypes, SameDisk, NoneAccepted, IsRepair, JudgedAsTold, ToldWhy, RetryIsHeld
<1>4. ASSUME NEW verdict \in {"accepted", "rejected", "failed"}, NEW findings \in SUBSET Findings,
             turnOf = "verify", Ends(verdict, findings),
             verdict = "rejected" <=> findings # {},
             verdict = "rejected"
               => toldAgent.required /\ ~Meets(work, toldAgent.standard),
             verdict = "accepted" /\ toldAgent.required => Meets(work, toldAgent.standard),
             verdict # "accepted" => disk' = disk, disk' \subseteq {"brief", "page"}
      PROVE  BriefHolds'
  <2> DEFINE attempt == [toldAgent |-> toldAgent, work |-> work, verdict |-> verdict,
                         findings |-> findings]
  <2>1. /\ logs' = Append(logs, attempt) /\ turnOf' = "idle"
        /\ toldAgent' = Untold /\ work' = NoWork
        /\ UNCHANGED <<taste, rewrites, named>>
    BY <1>4 DEF Ends
  <2>2. /\ attempt \in Attempt /\ attempt.toldAgent = toldAgent /\ attempt.work = work
        /\ attempt.verdict = verdict /\ attempt.findings = findings
    BY <1>4 DEF Attempt, BriefTypes
  <2> HIDE DEF attempt
  <2>3. /\ logs' \in Seq(Attempt) /\ Len(logs') = Len(logs) + 1
        /\ \A k \in 1..Len(logs) : logs'[k] = logs[k]
        /\ logs'[Len(logs) + 1] = attempt
        /\ \A k \in 1..Len(logs') : k \in 1..Len(logs) \/ k = Len(logs) + 1
        /\ DOMAIN logs' = 1..Len(logs')
    BY ONLY <1>0, <2>1, <2>2, SeqGrows
  <2>4. Untold \in Instructions /\ NoWork \in AllWork
    BY DEF Untold, NoWork, AllWork, Instructions, Standards, Default, Standard
  <2>5. BriefTypes'
    BY <1>0, <1>4, <2>1, <2>2, <2>3, <2>4 DEF BriefTypes
  <2>6. NoneAccepted' => NoneAccepted /\ disk' = disk
    BY <1>0, <1>4, <2>2, <2>3 DEF NoneAccepted
  <2>7. SameDisk'
    <3>1. ASSUME NoneAccepted', NEW k \in 1..Len(logs'), logs'[k].toldAgent.required
          PROVE  ~IsRepair'
      <4>1. ~IsRepair
        BY <1>4, <2>2, <2>3, <2>6, <3>1 DEF SameDisk
      <4> QED
        BY <2>1, <2>6, <3>1, <4>1 DEF IsRepair
    <3> QED
      BY <2>1, <3>1 DEF SameDisk
  <2>8. JudgedAsTold'
    <3>1. ASSUME NEW k \in 1..Len(logs')
          PROVE  /\ logs'[k].verdict = "rejected"
                      => logs'[k].toldAgent.required
                         /\ ~Meets(logs'[k].work, logs'[k].toldAgent.standard)
                 /\ (logs'[k].verdict = "accepted" /\ logs'[k].toldAgent.required)
                      => Meets(logs'[k].work, logs'[k].toldAgent.standard)
      <4>1. CASE k \in 1..Len(logs)
        BY <1>0, <2>3, <4>1 DEF JudgedAsTold
      <4>2. CASE k = Len(logs) + 1
        BY <1>4, <2>2, <2>3, <4>2
      <4> QED
        BY <2>3, <4>1, <4>2
    <3> QED
      BY <2>3, <3>1 DEF JudgedAsTold, Meets
  <2>9. ToldWhy' /\ RetryIsHeld'
    BY <2>1 DEF ToldWhy, RetryIsHeld
  <2> QED
    BY <2>5, <2>7, <2>8, <2>9
<1>5. ASSUME turnOf = "verify" PROVE toldAgent.required =>
             (Found = {} <=> Meets(work, toldAgent.standard))
  BY FoundIsMissed DEF BriefTypes
<1>6. CASE TasteRejects
  <2>1. turnOf = "verify" /\ Found # {} /\ Ends("rejected", Found) /\ disk' = disk
    BY <1>6 DEF TasteRejects, IsReverted
  <2>2. toldAgent.required
    BY <2>1 DEF Found
  <2>3. ~Meets(work, toldAgent.standard)
    BY <1>5, <2>1, <2>2
  <2>4. disk' \subseteq {"brief", "page"} /\ Found \in SUBSET Findings
    BY <2>1, FindingsOnly DEF BriefTypes
  <2> QED
    BY <1>4, <2>1, <2>2, <2>3, <2>4
<1>7. CASE FailsOtherwise
  <2>1. turnOf = "verify" /\ Ends("failed", {}) /\ disk' = disk
    BY <1>7 DEF FailsOtherwise, IsReverted
  <2>2. disk' \subseteq {"brief", "page"} /\ {} \in SUBSET Findings
    BY <2>1 DEF BriefTypes
  <2> QED
    BY <1>4, <2>1, <2>2
<1>8. CASE Accepted
  <2>1. turnOf = "verify" /\ Found = {} /\ Ends("accepted", {}) /\ disk' = disk
    BY <1>8 DEF Accepted
  <2>2. disk' \subseteq {"brief", "page"} /\ {} \in SUBSET Findings
    BY <2>1 DEF BriefTypes
  <2> QED
    BY <1>4, <1>5, <2>1, <2>2
<1>9. CASE UNCHANGED briefVars
  BY <1>9 DEF briefVars, BriefTypes, SameDisk, NoneAccepted, IsRepair, JudgedAsTold, Meets,
              ToldWhy, RetryIsHeld
<1> QED
  BY <1>1, <1>2, <1>3, <1>6, <1>7, <1>8, <1>9 DEF BriefNext

LEMMA BriefHoldsFirst == BriefInit => BriefHolds
<1> SUFFICES ASSUME BriefInit PROVE BriefHolds
  OBVIOUS
<1>1. logs = <<>> /\ Len(logs) = 0 /\ logs \in Seq(Attempt) /\ turnOf = "idle"
  BY DEF BriefInit
<1>2. Untold \in Instructions /\ NoWork \in AllWork
  BY DEF Untold, NoWork, AllWork, Instructions, Standards, Default, Standard
<1>3. BriefTypes
  BY <1>1, <1>2, BriefAssumption DEF BriefInit, BriefTypes, BriefAssumption
<1> QED
  BY <1>1, <1>3 DEF BriefHolds, SameDisk, AttemptsAreFair, JudgedAsTold, ToldWhy, RetryIsHeld

(* AttemptsAreFair for any number of attempts, any work and any edits of    *)
(* taste.json: taste rejects what misses the standard its agent was told    *)
(* and nothing else, the next attempt is told why, and is held to a brief   *)
(* if the one before it was.                                                *)
THEOREM BarIsHeld == BriefSpec => []AttemptsAreFair
<1>1. BriefHolds => AttemptsAreFair
  BY DEF BriefHolds
<1> QED
  BY BriefHoldsFirst, <1>1, BriefStep, PTL DEF BriefSpec

-----------------------------------------------------------------------------
(* Artifacts.  What was observed is what the agent did, what the verify     *)
(* command left of it is kept before the tree is reverted, and only a pass  *)
(* records anything.                                                        *)

DidAnything(f) == f \in Files /\ did[f] # "nothing"

RunTypes ==
  /\ ArtifactsTypeOK
  /\ did \in [Files -> {"nothing", "wrote", "deleted"}]
  /\ left \subseteq Files

InPhase ==
  /\ outcome = "open" => card = Unsent
  /\ outcome = "done" => phase \in {"record", "relocate", "over", "dead"}
  /\ outcome = "failed" => phase = "over"
  /\ phase \in {"record", "relocate"} => outcome = "done"
  /\ phase = "agent" => observed = {}
  /\ outcome # "done" => DOMAIN records = {}
  /\ phase \in {"agent", "stopped", "verify"} => left = {}
  /\ phase \in {"verify", "keep"} => observed = Changed(did)
  /\ phase = "keep" => \A f \in left : did[f] = "wrote" /\ lies[f] = "here"
  /\ phase \in {"revert", "fail"} => left \ missed \subseteq keeps

Credited ==
  /\ \A o \in observed : DidAnything(o[1])
  /\ \A f \in DOMAIN records : DidAnything(f)
  /\ outcome = "failed" => left \ missed \subseteq keeps
  /\ RejectionsAreShown

RunHolds == RunTypes /\ InPhase /\ Credited

LEMMA RunStep == RunHolds /\ [ArtifactsNext]_artifactVars => RunHolds'
<1> SUFFICES ASSUME RunHolds, [ArtifactsNext]_artifactVars PROVE RunHolds'
  OBVIOUS
<1> USE DEF RunHolds, runVars
<1>1. CASE AgentStops
  <2>1. PICK what \in [Files -> {"nothing", "wrote", "deleted"}] :
          /\ did' = what
          /\ lies' = [f \in Files |-> CASE what[f] = "wrote"   -> "here"
                                        [] what[f] = "deleted" -> "gone"
                                        [] OTHER               -> lies[f]]
    BY <1>1 DEF AgentStops
  <2>2. lies' \in [Files -> {"here", "filed", "gone"}]
    BY <2>1 DEF RunTypes, ArtifactsTypeOK
  <2>3. /\ phase = "agent" /\ phase' = "stopped"
        /\ UNCHANGED <<left, observed, keeps, missed, outcome, records, card>>
    BY <1>1 DEF AgentStops
  <2>4. observed = {} /\ outcome = "open" /\ DOMAIN records = {} /\ left = {} /\ card = Unsent
    BY <2>3 DEF InPhase, RunTypes, ArtifactsTypeOK
  <2> QED
    BY <2>1, <2>2, <2>3, <2>4
       DEF RunTypes, ArtifactsTypeOK, InPhase, Credited, RejectionsAreShown
<1>2. CASE TurnFails
  BY <1>2 DEF TurnFails, RunTypes, ArtifactsTypeOK, InPhase, Credited, DidAnything,
              RejectionsAreShown
<1>3. CASE Observes
  <2>1. /\ observed' = Changed(did) /\ phase = "stopped" /\ phase' \in {"verify", "revert"}
        /\ UNCHANGED <<did, left, lies, keeps, missed, outcome, records, card>>
    BY <1>3 DEF Observes, Porcelain
  <2>2. \A o \in Changed(did) : DidAnything(o[1])
    BY DEF Changed, DidAnything
  <2> QED
    BY <2>1, <2>2 DEF RunTypes, ArtifactsTypeOK, InPhase, Credited, DidAnything,
                      RejectionsAreShown, Changed
<1>4. ASSUME NEW passed \in BOOLEAN, Verifies(passed) PROVE RunHolds'
  <2>1. PICK after \in [Files -> {"here", "filed", "gone"}] :
          /\ lies' = after
          /\ left' = {f \in Files : did[f] = "wrote" /\ after[f] = "here"}
    BY <1>4 DEF Verifies
  <2>2. /\ phase = "verify" /\ phase' \in {"complete", "keep"}
        /\ UNCHANGED <<did, observed, keeps, missed, outcome, records, card>>
    BY <1>4 DEF Verifies
  <2>3. outcome = "open"
    BY <2>2 DEF InPhase, RunTypes, ArtifactsTypeOK
  <2>4. RunTypes'
    BY <2>1, <2>2 DEF RunTypes, ArtifactsTypeOK
  <2>5. InPhase'
    BY <2>1, <2>2, <2>3 DEF InPhase, Changed
  <2> QED
    BY <2>2, <2>3, <2>4, <2>5 DEF Credited, DidAnything, RejectionsAreShown
<1>5. CASE Completes
  <2>1. outcome = "open"
    BY <1>5 DEF Completes, InPhase, RunTypes, ArtifactsTypeOK
  <2> QED
    BY <1>5, <2>1 DEF Completes, RunTypes, ArtifactsTypeOK, InPhase, Credited, DidAnything,
                      RejectionsAreShown
<1>6. CASE RecordsArtifacts
  <2>1. /\ phase = "record" /\ phase' = "relocate" /\ outcome = "done"
        /\ records' = [f \in {o[1] : o \in observed} |-> f]
        /\ UNCHANGED <<did, left, lies, observed, keeps, missed, outcome, card>>
    BY <1>6 DEF RecordsArtifacts, InPhase
  <2>2. \A f \in DOMAIN records' : DidAnything(f)
    BY <2>1 DEF Credited
  <2>3. DOMAIN records' \subseteq Files
    BY <2>2 DEF DidAnything
  <2> QED
    BY <2>1, <2>2, <2>3 DEF RunTypes, ArtifactsTypeOK, InPhase, Credited, DidAnything,
                            RejectionsAreShown
<1>7. CASE Relocates
  <2>1. /\ phase = "relocate" /\ phase' = "over" /\ outcome = "done"
        /\ DOMAIN records' = DOMAIN records
        /\ UNCHANGED <<did, left, lies, observed, keeps, missed, outcome, card>>
    BY <1>7 DEF Relocates, InPhase
  <2> QED
    BY <2>1 DEF RunTypes, ArtifactsTypeOK, InPhase, Credited, DidAnything, RejectionsAreShown
<1>8. CASE Keeps
  <2>1. /\ phase = "keep" /\ phase' = "revert"
        /\ missed' \subseteq {f \in {o[1] : o \in observed} : lies[f] = "here"}
        /\ keeps' = {f \in {o[1] : o \in observed} : lies[f] = "here"} \ missed'
        /\ UNCHANGED <<did, left, lies, observed, outcome, records, card>>
        /\ UNCHANGED <<did, left, lies, observed, outcome, records, card>>
    BY <1>8 DEF Keeps
  <2>2. outcome = "open" /\ observed = Changed(did)
    BY <2>1 DEF InPhase, RunTypes, ArtifactsTypeOK
  <2>3. \A f \in left : f \in {o[1] : o \in observed} /\ lies[f] = "here"
    <3> SUFFICES ASSUME NEW f \in left PROVE f \in {o[1] : o \in observed} /\ lies[f] = "here"
      OBVIOUS
    <3>1. f \in Files /\ did[f] # "nothing" /\ lies[f] = "here"
      BY <2>1 DEF InPhase, RunTypes
    <3>2. <<f, did[f]>> \in observed /\ <<f, did[f]>>[1] = f
      BY <2>2, <3>1 DEF Changed
    <3> QED
      BY <3>1, <3>2
  <2>4. left \ missed' \subseteq keeps' /\ keeps' \subseteq Files /\ missed' \subseteq Files
    BY <2>1, <2>3 DEF Credited, DidAnything
  <2> QED
    BY <2>1, <2>2, <2>4 DEF RunTypes, ArtifactsTypeOK, InPhase, Credited, DidAnything,
                            RejectionsAreShown
<1>9. CASE Reverts
  <2>1. /\ phase = "revert" /\ phase' = "fail"
        /\ lies' \in [Files -> {"here", "filed", "gone"}]
        /\ UNCHANGED <<did, left, observed, keeps, missed, outcome, records, card>>
    BY <1>9 DEF Reverts
  <2> QED
    BY <2>1 DEF RunTypes, ArtifactsTypeOK, InPhase, Credited, DidAnything, RejectionsAreShown
<1>10. CASE SettlesFailed
  <2>1. outcome = "open"
    BY <1>10 DEF SettlesFailed, InPhase, RunTypes, ArtifactsTypeOK
  <2> QED
    BY <1>10, <2>1 DEF SettlesFailed, RunTypes, ArtifactsTypeOK, InPhase, Credited, DidAnything,
                       RejectionsAreShown
<1>11. CASE WorkerDies
  BY <1>11 DEF WorkerDies, RunTypes, ArtifactsTypeOK, InPhase, Credited, DidAnything,
               RejectionsAreShown
<1>12. CASE ShowsCard
  <2>1. /\ outcome # "open" /\ card' = IF DOMAIN records # {} THEN DOMAIN records ELSE keeps
        /\ UNCHANGED <<phase, did, left, lies, observed, keeps, missed, outcome, records>>
    BY <1>12 DEF ShowsCard
  <2>2. card' \subseteq Files
    BY <2>1 DEF RunTypes, ArtifactsTypeOK
  <2>3. (card' # Unsent /\ outcome = "failed") => left \ missed' \subseteq card'
    BY <2>1 DEF InPhase, Credited
  <2> QED
    BY <2>1, <2>2, <2>3 DEF RunTypes, ArtifactsTypeOK, InPhase, Credited, DidAnything,
                            RejectionsAreShown, Changed
<1>13. CASE UNCHANGED artifactVars
  BY <1>13 DEF artifactVars, RunTypes, ArtifactsTypeOK, InPhase, Credited, DidAnything,
               RejectionsAreShown, Changed
<1> QED
  BY <1>1, <1>2, <1>3, <1>4, <1>5, <1>6, <1>7, <1>8, <1>9, <1>10, <1>11, <1>12, <1>13
     DEF ArtifactsNext

LEMMA RunHoldsFirst == ArtifactsInit => RunHolds
  BY ArtifactsAssumption
     DEF ArtifactsInit, ArtifactsAssumption, RunHolds, RunTypes, ArtifactsTypeOK, InPhase,
         Credited, RejectionsAreShown

(* ReportIsTrue for any files, any work and any verify command: a run is    *)
(* credited with its agent's files only, and a rejected one is announced    *)
(* with all that was there to keep.                                         *)
THEOREM ReportsAreTrue == ArtifactsSpec => []ReportIsTrue
<1>1. RunHolds => ReportIsTrue
  BY DEF RunHolds, Credited, DidAnything, ReportIsTrue, CreditedToAgent
<1> QED
  BY RunHoldsFirst, <1>1, RunStep, PTL DEF ArtifactsSpec

-----------------------------------------------------------------------------
(* Proposals and advice.  A rule rests on two lines of its group: what a    *)
(* pass drafts, the operator decides and an agent is told keeps them, and   *)
(* they are compared with the file again each time.                         *)

LedgerLines == {Broken} \cup (Groups \cup {Other}) \X (1..recorded)

Rests(p) ==
  p.kind = "rule" =>
    \E c, d \in p.cites :
      /\ c.at # d.at
      /\ c.line # Broken /\ d.line # Broken
      /\ c.line[1] = p.group /\ d.line[1] = p.group

FileHolds == recorded \in Nat /\ ledger \in Seq(LedgerLines)

IndexHolds ==
  \A c \in events : c.line # Broken /\ \A d \in events : c.at = d.at => c = d

RulesRest == (\A d \in drafts : Rests(d)) /\ (\A p \in DOMAIN fate : Rests(p))

LessonsHold == FileHolds /\ IndexHolds /\ RulesRest

LEMMA TwoOfMany ==
  ASSUME NEW S, Cardinality(S) >= 2
  PROVE  \E c, d \in S : c # d
<1>1. Cardinality({}) = 0
  BY FS_EmptySet
<1>2. S # {}
  BY <1>1
<1>3. PICK c \in S : TRUE
  BY <1>2
<1>4. Cardinality({c}) = 1
  BY FS_Singleton
<1>5. S # {c}
  BY <1>4
<1> QED
  BY <1>3, <1>5

LEMMA TwoAreTwo ==
  ASSUME NEW S, IsFiniteSet(S), NEW i \in S, NEW j \in S, i # j
  PROVE  Cardinality(S) >= 2
<1>1. IsFiniteSet({i}) /\ Cardinality({i}) = 1
  BY FS_Singleton
<1>2. Cardinality({i} \cup {j}) = 2
  BY <1>1, FS_AddElement
<1>3. Cardinality({i} \cup {j}) <= Cardinality(S)
  BY FS_Subset, {i} \cup {j} \in SUBSET S
<1>4. Cardinality(S) \in Nat
  BY FS_CardinalityType
<1> QED
  BY <1>2, <1>3, <1>4

(* What happens to a proposal that is there. *)
LEMMA FateOfProposals ==
  ASSUME NEW p, Created(p)
  PROVE  /\ DOMAIN fate' = DOMAIN fate \cup {p}
         /\ \A q \in DOMAIN fate : fate'[q] = fate[q]
  BY DEF Created

LEMMA DraftsRest ==
  ASSUME LessonsHold
  PROVE  \A d \in Proposed : Rests(d)
<1> DEFINE valid == {c \in events : Validates(c)}
<1> SUFFICES ASSUME NEW g \in GroupsWith(valid, 2) PROVE Rests(Candidate(g, valid))
  BY DEF Proposed
<1> DEFINE cites == {c \in valid : c.line[1] = g}
<1>1. PICK c, d \in cites : c # d
  BY TwoOfMany DEF GroupsWith
<1>2. /\ c.at # d.at /\ c.line # Broken /\ d.line # Broken
      /\ c.line[1] = g /\ d.line[1] = g
  BY <1>1 DEF LessonsHold, IndexHolds
<1>3. Candidate(g, valid).cites = cites /\ Candidate(g, valid).group = g
  BY DEF Candidate
<1> HIDE DEF cites, valid
<1> QED
  BY <1>1, <1>2, <1>3 DEF Rests

LEMMA LessonsStep == LessonsHold /\ [LearnNext]_learnVars => LessonsHold'
<1> SUFFICES ASSUME LessonsHold, [LearnNext]_learnVars PROVE LessonsHold'
  OBVIOUS
<1> USE DEF LessonsHold, fileVars, passVars, boardLVars, taskVars
<1>0. /\ recorded \in Nat /\ ledger \in Seq(LedgerLines) /\ Len(ledger) \in Nat
      /\ IndexHolds /\ RulesRest
  BY DEF FileHolds
<1>1. ASSUME UNCHANGED <<recorded, ledger, events, drafts>>,
             NEW p, DOMAIN fate' = DOMAIN fate \cup {p}, Rests(p)
      PROVE  LessonsHold'
  BY <1>0, <1>1 DEF FileHolds, IndexHolds, RulesRest, LedgerLines, Rests
<1>2. ASSUME UNCHANGED <<recorded, ledger, events, drafts>>, DOMAIN fate' = DOMAIN fate
      PROVE  LessonsHold'
  BY <1>0, <1>2 DEF FileHolds, IndexHolds, RulesRest, LedgerLines, Rests
<1>3. ASSUME NEW g \in Groups \cup {Other}, NEW separator \in BOOLEAN, Records(g, separator)
      PROVE  LessonsHold'
  <2>1. recorded' = recorded + 1 /\ UNCHANGED <<events, drafts, fate>>
    BY <1>3 DEF Records
  <2> DEFINE Grown == {Broken} \cup (Groups \cup {Other}) \X (1..(recorded + 1))
             more == IF separator THEN <<Broken, Broken>> ELSE <<<<g, recorded + 1>>>>
  <2>2. LedgerLines \subseteq Grown /\ LedgerLines' = Grown
    BY <1>0, <2>1 DEF LedgerLines
  <2>3. ledger \in Seq(Grown)
    BY ONLY <1>0, <2>2, SeqOfMore
  <2>4. Broken \in Grown /\ <<g, recorded + 1>> \in Grown
    BY <1>0
  <2> HIDE DEF Grown
  <2>5. more \in Seq(Grown)
    BY ONLY <2>4, separator \in BOOLEAN
  <2>6. ledger' = ledger \o more
    BY <1>3 DEF Records
  <2> HIDE DEF more
  <2>7. ledger' \in Seq(Grown)
    BY ONLY <2>3, <2>5, <2>6
  <2>8. FileHolds'
    BY <1>0, <2>1, <2>2, <2>7 DEF FileHolds
  <2> QED
    BY <1>0, <2>1, <2>8 DEF IndexHolds, RulesRest, Rests
<1>4. CASE Rotates
  <2>1. PICK from \in DOMAIN ledger : \E to \in from..Len(ledger) :
          ledger' = SubSeq(ledger, 1, from - 1) \o SubSeq(ledger, to + 1, Len(ledger))
    BY <1>4 DEF Rotates
  <2>2. UNCHANGED <<recorded, events, drafts, fate>>
    BY <1>4 DEF Rotates
  <2>3. PICK to \in from..Len(ledger) :
          ledger' = SubSeq(ledger, 1, from - 1) \o SubSeq(ledger, to + 1, Len(ledger))
    BY <2>1
  <2>4. DOMAIN ledger = 1..Len(ledger)
    BY <1>0
  <2>5. /\ SubSeq(ledger, 1, from - 1) \in Seq(LedgerLines)
        /\ SubSeq(ledger, to + 1, Len(ledger)) \in Seq(LedgerLines)
    BY ONLY <1>0, <2>4
  <2>6. ledger' \in Seq(LedgerLines)
    BY ONLY <2>3, <2>5
  <2>7. FileHolds'
    BY <1>0, <2>2, <2>6 DEF FileHolds, LedgerLines
  <2> QED
    BY <1>0, <2>2, <2>7 DEF IndexHolds, RulesRest, Rests
<1>5. CASE Syncs
  <2>1. /\ events' = {Citation(i) : i \in DOMAIN ledger} /\ Readable
        /\ UNCHANGED <<recorded, ledger, drafts, fate>>
    BY <1>5 DEF Syncs
  <2>2. IndexHolds'
    BY <2>1 DEF IndexHolds, Citation, Readable
  <2> QED
    BY <1>0, <2>1, <2>2 DEF FileHolds, LedgerLines, RulesRest, Rests
<1>6. CASE Proposes
  BY <1>0, <1>6, DraftsRest DEF Proposes, FileHolds, LedgerLines, IndexHolds, RulesRest, Rests
<1>7. CASE Persists
  <2>1. PICK d \in drafts :
          \/ Created(d) /\ drafts' = drafts \ {d}
          \/ drafts' = {} /\ UNCHANGED fate
    BY <1>7 DEF Persists
  <2>2. UNCHANGED <<recorded, ledger, events>>
    BY <1>7 DEF Persists
  <2>3. DOMAIN fate' \subseteq DOMAIN fate \cup {d} /\ drafts' \subseteq drafts /\ Rests(d)
    BY <1>0, <2>1, FateOfProposals DEF RulesRest
  <2> QED
    BY <1>0, <2>2, <2>3 DEF FileHolds, LedgerLines, IndexHolds, RulesRest, Rests
<1>8. CASE EndsPass
  BY <1>2, <1>8 DEF EndsPass
<1>9. CASE RunStarts
  BY <1>2, <1>9 DEF RunStarts
<1>10. ASSUME NEW o \in {"passed", "failed"}, RunEnds(o)
       PROVE  LessonsHold'
  <2>1. Rests(OutcomeOf(run, o))
    BY DEF Rests, OutcomeOf
  <2> QED
    BY <1>1, <1>10, <2>1, FateOfProposals DEF RunEnds
<1>11. ASSUME NEW p \in DOMAIN fate, Operates \/ ApprovesRule(p) \/ Lapses(p)
              \/ ApprovesArchive(p) \/ ApprovesRetry(p)
       PROVE  LessonsHold'
  BY <1>2, <1>11 DEF Operates, ApprovesRule, Lapses, ApprovesArchive, ApprovesRetry,
                     Announces, Rejects, Decides
<1>12. CASE Operates
  BY <1>2, <1>12 DEF Operates, Announces, Rejects, Decides
<1>13. CASE UNCHANGED learnVars
  BY <1>2, <1>13 DEF learnVars
<1> QED
  BY <1>3, <1>4, <1>5, <1>6, <1>7, <1>8, <1>9, <1>10, <1>11, <1>12, <1>13
     DEF LearnNext, LessonNext, OutcomeNext, LearningPass

(* AdviceIsEarned for any groups, chats and bounds: whatever is cut out of  *)
(* the ledger between a draft, its decision and its use, an agent is told   *)
(* of a rule only while two failures of its own group stand in the file.    *)
THEOREM AdviceRestsOnFailures == LearnSpec => []AdviceIsEarned
<1>1. LearnInit => LessonsHold
  BY DEF LearnInit, LessonsHold, FileHolds, IndexHolds, RulesRest
<1>2. LessonsHold => AdviceIsEarned
  <2> SUFFICES ASSUME LessonsHold, NEW g \in Groups, NEW p \in Advice(g)
               PROVE  Cardinality(Failures(g)) >= 2
    BY DEF AdviceIsEarned
  <2>1. /\ p \in DOMAIN fate /\ p.kind = "rule" /\ p.group = g
        /\ \A c \in p.cites : Validates(c)
    BY DEF Advice
  <2>2. PICK c, d \in p.cites :
          /\ c.at # d.at /\ c.line # Broken /\ d.line # Broken
          /\ c.line[1] = g /\ d.line[1] = g
    BY <2>1 DEF LessonsHold, RulesRest, Rests
  <2>3. c.at \in Failures(g) /\ d.at \in Failures(g)
    BY <2>1, <2>2 DEF Failures, Validates
  <2>4. IsFiniteSet(Failures(g))
    <3>1. DOMAIN ledger = 1..Len(ledger) /\ Len(ledger) \in Nat
      BY DEF LessonsHold, FileHolds
    <3>2. IsFiniteSet(1..Len(ledger))
      BY <3>1, FS_Interval
    <3> QED
      BY <3>1, <3>2, FS_Subset, Failures(g) \in SUBSET (1..Len(ledger)) DEF Failures
  <2> QED
    BY <2>2, <2>3, <2>4, TwoAreTwo
<1> QED
  BY <1>1, <1>2, LessonsStep, PTL DEF LearnSpec

(* DecisionsHold for any groups, chats and bounds: no pass, card or button  *)
(* undoes a decision, activates a rule that has lapsed or drifted, or       *)
(* reopens a task that is done.                                             *)
THEOREM DecisionsAreKept == LearnSpec => DecisionsHold
<1> DEFINE Held == DecisionsStand /\ ActivationIsCurrent /\ DoneStaysDone
<1>1. ASSUME [LearnNext]_learnVars PROVE [Held]_<<fate, row>>
  <2> USE DEF fileVars, passVars, boardLVars, taskVars
  <2>1. ASSUME NEW p, Created(p), row \notin {"done", "archived"} \/ row' = row
        PROVE  Held
    BY <2>1, FateOfProposals DEF DecisionsStand, ActivationIsCurrent, DoneStaysDone
  <2>2. ASSUME NEW p \in DOMAIN fate, Rejects(p) PROVE Held
    BY <2>2 DEF Rejects, Decides, DecisionsStand, ActivationIsCurrent, DoneStaysDone
  <2>3. ASSUME NEW p \in DOMAIN fate, ApprovesRule(p) PROVE Held
    BY <2>3 DEF ApprovesRule, Decides, DecisionsStand, ActivationIsCurrent, DoneStaysDone
  <2>4. ASSUME NEW p \in DOMAIN fate, ApprovesArchive(p) PROVE Held
    BY <2>4 DEF ApprovesArchive, Decides, DecisionsStand, ActivationIsCurrent, DoneStaysDone
  <2>5. ASSUME NEW p \in DOMAIN fate, ApprovesRetry(p) PROVE Held
    BY <2>5 DEF ApprovesRetry, Decides, DecisionsStand, ActivationIsCurrent, DoneStaysDone
  <2>6. CASE RunStarts
    BY <2>6 DEF RunStarts, DecisionsStand, ActivationIsCurrent, DoneStaysDone
  <2>7. CASE \E o \in {"passed", "failed"} : RunEnds(o)
    BY <2>1, <2>7 DEF RunEnds
  <2>8. CASE Persists
    <3>1. row' = row /\ (UNCHANGED fate \/ \E d \in drafts : Created(d))
      BY <2>8 DEF Persists
    <3> QED
      BY <2>1, <3>1
  <2>9. CASE Operates
    BY <2>2, <2>9 DEF Operates, Announces
  <2>10. CASE UNCHANGED <<fate, row>>
    BY <2>10
  <2> QED
    BY <1>1, <2>2, <2>3, <2>4, <2>5, <2>6, <2>7, <2>8, <2>9, <2>10
       DEF LearnNext, LessonNext, OutcomeNext, LearningPass, Records, Rotates, Syncs, Proposes,
           EndsPass, Lapses, learnVars
<1> QED
  BY <1>1, PTL DEF LearnSpec, DecisionsHold

-----------------------------------------------------------------------------
(* The file index.  While nothing went wrong, a scan has found or still has *)
(* to visit whatever has been in its folders since it began; and a count is *)
(* that of the edition it is numbered with, wherever it has got to.         *)

Scanned ==
  /\ steady \subseteq present /\ present \subseteq Entries /\ toVisit \subseteq Entries
  /\ found \subseteq Entries \cup {Root}
  /\ \A e \in toVisit \cup found : e # Root => Above[e] \in found
  /\ indexing = "index" => toVisit = {}
  /\ (indexing \in {"scan", "index"} /\ ~flawed) =>
       \A e \in steady \ Skipped : Above[e] \in found => e \in found \cup toVisit

Editions == [items : SUBSET (Entries \cup {Root}), steady : SUBSET Entries,
             status : {"indexed", "partial"}]

CountOf(k) == Cardinality(editions[k].items)

LastCount(n, count) == n <= Len(editions) /\ (n # 0 /\ n = Len(editions) => count = CountOf(n))

Counted ==
  /\ editions \in Seq(Editions)
  /\ indexing = "summary" => Len(editions) # 0 /\ editions[Len(editions)].items = found
  /\ summary.of \in 0..Len(editions)
  /\ summary.of # 0 => summary.count = CountOf(summary.of)

Shown ==
  /\ DOMAIN loading = {"at", "sig", "read", "count", "spoilt"}
  /\ loading.at # "idle" => Len(editions) # 0 /\ loading.sig[1] \in 1..Len(editions)
  /\ loading.at = "compare" =>
       /\ loading.read.of \in 0..Len(editions)
       /\ loading.read.of # 0 => loading.read.count = CountOf(loading.read.of)
  /\ (loading.at = "keep" /\ ~loading.spoilt) => LastCount(loading.sig[1], loading.count)
  /\ cache.sig[1] \in 0..Len(editions)
  /\ ~cache.spoilt => LastCount(cache.sig[1], cache.count)

IndexHeld == Scanned /\ Counted /\ Shown /\ IndexedIsWhole

LEMMA IndexTypes ==
  ASSUME Counted
  PROVE  editions \in Seq(Editions) /\ Len(editions) \in Nat
  BY DEF Counted

(* Nothing that is known of the editions changes when they do not. *)
LEMMA SameEditions ==
  ASSUME IndexHeld, UNCHANGED <<editions, summary, cache, loading>>,
         indexing' # "summary" \/ (indexing' = indexing /\ found' = found)
  PROVE  Counted' /\ Shown' /\ IndexedIsWhole'
  BY DEF IndexHeld, Counted, Shown, IndexedIsWhole, LastCount, CountOf

(* Nor of the folders, when only the dashboard moves. *)
LEMMA SameFolders ==
  ASSUME IndexHeld, UNCHANGED <<folderVars, agentVars, filesVars>>
  PROVE  Scanned' /\ Counted' /\ IndexedIsWhole'
  BY DEF IndexHeld, Scanned, Counted, IndexedIsWhole, CountOf, folderVars, agentVars, filesVars

LEMMA ScanStep ==
  ASSUME IndexHeld,
         FolderMoves \/ AgentDies \/ ScanBegins \/ VisitsOne \/ ScanEnds
  PROVE  IndexHeld'
<1> USE DEF IndexHeld, folderVars, agentVars, filesVars, viewVars
<1>0. /\ Root \notin Entries /\ Above \in [Entries -> Folders \cup {Root}]
      /\ Scanned
  BY FileIndexAssumption DEF FileIndexAssumption
<1>1. CASE FolderMoves
  <2>1. /\ UNCHANGED <<indexing, toVisit, found, flawed, editions, summary, cache, loading>>
        /\ \E e \in Entries : EntryGoes(e) \/ EntryComes(e) \/ FolderLocks(e)
    BY <1>1 DEF FolderMoves
  <2>2. /\ steady' \subseteq steady /\ steady' \subseteq present' /\ present' \subseteq Entries
    BY <1>0, <2>1 DEF EntryGoes, EntryComes, FolderLocks, Scanned
  <2>3. Scanned'
    BY <1>0, <2>1, <2>2 DEF Scanned
  <2> QED
    BY <2>1, <2>3, SameEditions
<1>2. CASE AgentDies
  <2>1. Scanned'
    BY <1>0, <1>2 DEF AgentDies, Scanned
  <2> QED
    BY <1>2, <2>1, SameEditions DEF AgentDies
<1>3. CASE ScanBegins
  <2>1. Scanned'
    BY <1>0, <1>3 DEF ScanBegins, Scanned, Within
  <2> QED
    BY <1>3, <2>1, SameEditions DEF ScanBegins
<1>4. CASE VisitsOne
  <2>1. PICK e \in Entries : VisitsGone(e) \/ VisitsSkipped(e) \/ VisitsLocked(e) \/ VisitsKept(e)
    BY <1>4 DEF VisitsOne
  <2>2. /\ indexing = "scan" /\ e \in toVisit
        /\ UNCHANGED <<present, steady, indexing, editions, summary, cache, loading>>
    BY <2>1 DEF VisitsGone, VisitsSkipped, VisitsLocked, VisitsKept, Visits
  <2>3. CASE VisitsGone(e) \/ VisitsLocked(e)
    BY <1>0, <2>2, <2>3, SameEditions
       DEF VisitsGone, VisitsLocked, LeftWithDiagnostic, Scanned
  <2>4. CASE VisitsSkipped(e)
    BY <1>0, <2>2, <2>4, SameEditions DEF VisitsSkipped, Scanned
  <2>5. CASE VisitsKept(e)
    <3>1. /\ e \in present \ Skipped /\ found' = found \cup {e} /\ flawed' = flawed
          /\ toVisit' = (toVisit \ {e}) \cup (IF e \in Folders THEN Within(e) ELSE {})
      BY <2>5 DEF VisitsKept
    <3>2. \A x \in Within(e) : x \in present /\ x \in Entries /\ Above[x] = e
      BY <1>0 DEF Within, Scanned
    <3>3. \A x \in steady : Above[x] = e => e \in Folders /\ x \in Within(e)
      BY <1>0 DEF Within, Scanned
    <3>4. Scanned'
      BY <1>0, <2>2, <3>1, <3>2, <3>3 DEF Scanned
    <3> QED
      BY <2>2, <3>4, SameEditions
  <2> QED
    BY <2>1, <2>3, <2>4, <2>5
<1>5. CASE ScanEnds
  <2>1. Scanned'
    BY <1>0, <1>5 DEF ScanEnds, Scanned
  <2> QED
    BY <1>5, <2>1, SameEditions DEF ScanEnds
<1> QED
  BY <1>1, <1>2, <1>3, <1>4, <1>5

LEMMA WriteStep ==
  ASSUME IndexHeld, WritesIndex \/ WritesSummary
  PROVE  IndexHeld'
<1> USE DEF IndexHeld, folderVars, agentVars, filesVars, viewVars
<1>0. editions \in Seq(Editions) /\ Len(editions) \in Nat
  BY IndexTypes
<1>1. CASE WritesIndex
  <2> DEFINE ed == [items |-> found, steady |-> steady,
                    status |-> IF flawed THEN "partial" ELSE "indexed"]
  <2>1. /\ indexing = "index" /\ indexing' = "summary" /\ editions' = Append(editions, ed)
        /\ UNCHANGED <<present, toVisit, found, flawed, steady, summary, cache, loading>>
    BY <1>1 DEF WritesIndex
  <2>2. ed \in Editions
    BY DEF Editions, Scanned
  <2>3. ed.items = found /\ ed.steady = steady /\ (ed.status = "indexed" => ~flawed)
    OBVIOUS
  <2> HIDE DEF ed
  <2>4. /\ editions' \in Seq(Editions) /\ Len(editions') = Len(editions) + 1
        /\ \A k \in 1..Len(editions) : editions'[k] = editions[k]
        /\ editions'[Len(editions) + 1] = ed
        /\ \A k \in 1..Len(editions') : k \in 1..Len(editions) \/ k = Len(editions) + 1
    BY ONLY <1>0, <2>1, <2>2, SeqGrows
  <2>5. Scanned'
    BY <2>1 DEF Scanned
  <2>6. Counted'
    BY <1>0, <2>1, <2>3, <2>4 DEF Counted, CountOf
  <2>7. Shown'
    BY <1>0, <2>1, <2>4 DEF Shown, LastCount, CountOf
  <2>8. \A e \in ed.items \ {Root} : Above[e] \in ed.items
    BY <2>3 DEF Scanned
  <2>9. ed.status = "indexed" =>
          \A e \in ed.steady \ Skipped : Above[e] \in ed.items => e \in ed.items
    BY <2>1, <2>3 DEF Scanned
  <2>10. IndexedIsWhole'
    BY <2>4, <2>8, <2>9 DEF IndexedIsWhole
  <2> QED
    BY <2>5, <2>6, <2>7, <2>10
<1>2. CASE WritesSummary
  <2>1. /\ indexing = "summary" /\ indexing' = "idle"
        /\ summary' = [of |-> Len(editions), count |-> Cardinality(found)]
        /\ UNCHANGED <<present, toVisit, found, flawed, steady, editions, cache, loading>>
    BY <1>2 DEF WritesSummary
  <2>2. Scanned' /\ IndexedIsWhole'
    BY <2>1 DEF Scanned, IndexedIsWhole
  <2>3. Counted'
    BY <1>0, <2>1 DEF Counted, CountOf
  <2>4. Shown'
    BY <2>1 DEF Shown, LastCount, CountOf
  <2> QED
    BY <2>2, <2>3, <2>4
<1> QED
  BY <1>1, <1>2

LEMMA LoadHolds ==
  ASSUME IndexHeld, LoadStep \/ FileReadFails
  PROVE  IndexHeld'
<1> USE DEF IndexHeld, folderVars, agentVars, filesVars
<1>0. editions \in Seq(Editions) /\ Len(editions) \in Nat /\ Counted /\ Shown
  BY IndexTypes
<1>1. UNCHANGED <<folderVars, agentVars, filesVars>>
  BY DEF LoadStep, FileReadFails, LoadBegins, ReadsSummary, TakesSummary, RefusesSummary,
         ReadsIndex, KeepsLoad, Loads
<1>2. UNCHANGED <<editions, summary>>
  BY <1>1
<1> SUFFICES Shown'
  BY <1>1, SameFolders
<1>3. CASE LoadBegins
  BY <1>0, <1>2, <1>3
     DEF LoadBegins, Loads, NoLoad, NoSummary, Signature, Counted, Shown, LastCount, CountOf
<1>4. CASE ReadsSummary
  BY <1>0, <1>2, <1>4 DEF ReadsSummary, Loads, Counted, Shown, LastCount, CountOf
<1>5. CASE TakesSummary
  BY <1>0, <1>2, <1>5 DEF TakesSummary, OfThisIndex, Loads, Shown, LastCount, CountOf
<1>6. CASE RefusesSummary
  BY <1>0, <1>2, <1>6 DEF RefusesSummary, Loads, Shown, LastCount, CountOf
<1>7. CASE ReadsIndex
  BY <1>0, <1>2, <1>7 DEF ReadsIndex, Loads, Shown, LastCount, CountOf
<1>8. CASE FileReadFails
  BY <1>0, <1>2, <1>8 DEF FileReadFails, Loads, Shown, LastCount, CountOf
<1>9. CASE KeepsLoad
  BY <1>0, <1>2, <1>9 DEF KeepsLoad, NoLoad, Shown, LastCount, CountOf
<1> QED
  BY <1>1, <1>3, <1>4, <1>5, <1>6, <1>7, <1>8, <1>9 DEF LoadStep

LEMMA IndexHeldFirst == FileIndexInit => IndexHeld
<1> SUFFICES ASSUME FileIndexInit PROVE IndexHeld
  OBVIOUS
<1>1. Scanned
  BY DEF FileIndexInit, Scanned
<1>2. editions = <<>> /\ editions \in Seq(Editions) /\ Len(editions) = 0
  BY DEF FileIndexInit
<1>3. Counted /\ Shown /\ IndexedIsWhole
  BY <1>2 DEF FileIndexInit, Counted, Shown, IndexedIsWhole, NoLoad, NoSummary, LastCount
<1> QED
  BY <1>1, <1>3 DEF IndexHeld

LEMMA IndexHeldStep == IndexHeld /\ [FileIndexNext]_indexVars => IndexHeld'
<1> SUFFICES ASSUME IndexHeld, [FileIndexNext]_indexVars PROVE IndexHeld'
  OBVIOUS
<1>1. CASE UNCHANGED indexVars
  <2>1. UNCHANGED <<folderVars, agentVars, filesVars, viewVars>>
    BY <1>1 DEF indexVars
  <2>2. UNCHANGED <<editions, summary, cache, loading, indexing, found>>
    BY <2>1 DEF agentVars, filesVars, viewVars
  <2> QED
    BY <2>1, <2>2, SameFolders, SameEditions DEF IndexHeld
<1>2. CASE FileIndexNext
  BY <1>2, ScanStep, WriteStep, LoadHolds DEF FileIndexNext, AgentStep
<1> QED
  BY <1>1, <1>2

(* IndexIsTrue for any folders, links, locks and bounds: an edition that    *)
(* says "indexed" lists all that stood still under what it lists, and what  *)
(* the dashboard shows for the files as they are is the last edition's.     *)
THEOREM IndexTellsTheTruth == FileIndexSpec => []IndexIsTrue
<1>1. IndexHeld => IndexIsTrue
  <2> SUFFICES ASSUME IndexHeld PROVE ShownIsCurrent
    BY DEF IndexIsTrue, IndexHeld
  <2>1. Len(editions) \in Nat
    BY IndexTypes DEF IndexHeld
  <2> QED
    BY <2>1 DEF IndexHeld, Shown, LastCount, CountOf, ShownIsCurrent, Signature
<1> QED
  BY IndexHeldFirst, IndexHeldStep, <1>1, PTL DEF FileIndexSpec

-----------------------------------------------------------------------------
(* Memory.  The open transaction knows whether its item is new, and what    *)
(* the control plane has read is kept, but for the note in hand.            *)

WriterHolds ==
  tx = NoTx \/ /\ tx.by \in Writers /\ tx.item \in Memories \ Refused
               /\ tx.made = (tx.item \notin items)

NoteInHand ==
  /\ poll # "ended" => \A k \in 1..(reading - 1) : messages[k] \in items
  /\ poll = "polls" => reading = 0 \/ messages[reading] \in items
  /\ poll = "handles" =>
       /\ reading # 0
       /\ wants["chat"] \in {messages[reading], Nothing}
       /\ wants["chat"] = Nothing => messages[reading] \in items

StoreHolds == BrainTypeOK /\ IsFiniteSet(items) /\ WriterHolds /\ FoundOnce

MemoryHolds == StoreHolds /\ NoteInHand /\ DroppedIsKept

LEMMA MemoryTypes ==
  ASSUME BrainTypeOK
  PROVE  /\ Nothing \notin Memories /\ MaxSlips \in Nat /\ MaxNotes \in Nat
         /\ items \subseteq Memories /\ edges \subseteq items \X items \X items
         /\ fts \in [Memories -> Nat] /\ inbox \in [Memories -> Nat]
         /\ tx \in [by : Writers \cup {"nobody"}, item : Memories \cup {Nothing}, made : BOOLEAN]
         /\ wants \in [Writers -> Memories \cup {Nothing}]
         /\ messages \in Seq(Notes) /\ Len(messages) \in Nat /\ Len(messages) <= MaxNotes
         /\ \A k \in 1..Len(messages) : messages[k] \in Notes
         /\ reading \in Nat /\ reading <= Len(messages)
         /\ dropped \in Nat /\ dropped <= reading
         /\ poll \in {"polls", "handles", "ended"}
         /\ slips \in 0..MaxSlips /\ slips \in Nat
<1>1. Nothing \notin Memories /\ MaxSlips \in Nat /\ MaxNotes \in Nat
  BY BrainAssumption DEF BrainAssumption
<1>2. messages \in Seq(Notes) /\ Len(messages) \in Nat
  BY DEF BrainTypeOK
<1>3. \A k \in 1..Len(messages) : messages[k] \in Notes
  BY ONLY <1>2, SeqHolds
<1> QED
  BY <1>1, <1>2, <1>3 DEF BrainTypeOK

(* What the store holds stays when only writers and notes move. *)
LEMMA StoreStays ==
  ASSUME MemoryHolds, UNCHANGED storeVars, BrainTypeOK', WriterHolds', NoteInHand',
         UNCHANGED messages, dropped' <= reading, poll = "polls" \/ dropped' = dropped
  PROVE  MemoryHolds'
<1>1. dropped' = dropped \/ (poll = "polls" /\ dropped' \in Nat /\ reading \in Nat)
  BY MemoryTypes DEF MemoryHolds, StoreHolds, BrainTypeOK
<1>2. \A k \in 1..dropped' : messages[k] \in items
  BY <1>1, MemoryTypes DEF MemoryHolds, StoreHolds, NoteInHand, DroppedIsKept
<1> QED
  BY <1>2 DEF MemoryHolds, StoreHolds, storeVars, FoundOnce, DroppedIsKept

LEMMA MemoryStep == MemoryHolds /\ [BrainNext]_brainVars => MemoryHolds'
<1> SUFFICES ASSUME MemoryHolds, [BrainNext]_brainVars PROVE MemoryHolds'
  OBVIOUS
<1> USE DEF storeVars, mailVars
<1>h. /\ BrainTypeOK /\ WriterHolds /\ NoteInHand /\ FoundOnce /\ DroppedIsKept
      /\ IsFiniteSet(items)
  BY DEF MemoryHolds, StoreHolds
<1>0. /\ Nothing \notin Memories /\ MaxSlips \in Nat /\ MaxNotes \in Nat
      /\ items \subseteq Memories /\ edges \subseteq items \X items \X items
      /\ fts \in [Memories -> Nat] /\ inbox \in [Memories -> Nat]
      /\ tx \in [by : Writers \cup {"nobody"}, item : Memories \cup {Nothing}, made : BOOLEAN]
      /\ wants \in [Writers -> Memories \cup {Nothing}]
      /\ messages \in Seq(Notes) /\ Len(messages) \in Nat /\ Len(messages) <= MaxNotes
      /\ \A k \in 1..Len(messages) : messages[k] \in Notes
      /\ reading \in Nat /\ reading <= Len(messages)
      /\ dropped \in Nat /\ dropped <= reading
      /\ poll \in {"polls", "handles", "ended"}
      /\ slips \in 0..MaxSlips /\ slips \in Nat
  BY <1>h, MemoryTypes
<1>s. NoTx \in [by : Writers \cup {"nobody"}, item : Memories \cup {Nothing}, made : BOOLEAN]
  BY DEF NoTx
<1>1. ASSUME NEW w \in Writers, Captures(w) PROVE MemoryHolds'
  <2>1. /\ wants[w] \in Memories \ Refused
        /\ tx' = [by |-> w, item |-> wants[w], made |-> wants[w] \notin items]
        /\ UNCHANGED <<items, fts, inbox, edges, wants, messages, dropped, reading, poll, slips>>
    BY <1>0, <1>1 DEF Captures
  <2>2. BrainTypeOK' /\ WriterHolds'
    BY <1>0, <2>1 DEF BrainTypeOK, WriterHolds
  <2>3. NoteInHand'
    BY <1>h, <2>1 DEF NoteInHand
  <2> QED
    BY <1>0, <2>1, <2>2, <2>3, StoreStays
<1>2. ASSUME NEW w \in Writers, Commits(w) PROVE MemoryHolds'
  <2>1. /\ tx.by = w /\ wants[w] = tx.item
        /\ items' = items \cup {tx.item}
        /\ fts' = (IF tx.made THEN [fts EXCEPT ![tx.item] = @ + 1] ELSE fts)
        /\ inbox' = [inbox EXCEPT ![tx.item] = @ + 1]
        /\ tx' = NoTx /\ wants' = [wants EXCEPT ![w] = Nothing]
        /\ UNCHANGED <<edges, messages, dropped, reading, poll, slips>>
    BY <1>2 DEF Commits, Indexed, Wants
  <2>2. tx.item \in Memories \ Refused /\ tx.made = (tx.item \notin items)
    <3>1. tx # NoTx
      BY <2>1 DEF NoTx, Writers
    <3> QED
      BY <1>h, <3>1 DEF WriterHolds
  <2>3. fts' \in [Memories -> Nat] /\ inbox' \in [Memories -> Nat]
    BY <1>0, <2>1, <2>2
  <2>4. edges' \subseteq items' \X items' \X items'
    BY <1>0, <2>1
  <2>5. BrainTypeOK'
    BY <1>0, <1>s, <2>1, <2>2, <2>3, <2>4 DEF BrainTypeOK
  <2>6. FoundOnce'
    BY <1>h, <1>0, <2>1, <2>2 DEF FoundOnce
  <2>7. NoteInHand'
    BY <1>h, <1>0, <2>1 DEF NoteInHand, Writers
  <2>8. IsFiniteSet(items') /\ WriterHolds' /\ DroppedIsKept'
    BY <1>h, <2>1, <2>2, FS_AddElement DEF WriterHolds, DroppedIsKept
  <2> QED
    BY <2>5, <2>6, <2>7, <2>8 DEF MemoryHolds, StoreHolds
<1>3. ASSUME NEW a \in Memories, NEW b \in Memories, NEW e \in Memories, Links(a, b, e)
      PROVE  MemoryHolds'
  <2>1. /\ edges' = {<<a, b, e>>} /\ {a, b, e} \subseteq items
        /\ UNCHANGED <<items, fts, inbox, tx, wants, messages, dropped, reading, poll, slips>>
    BY <1>3 DEF Links, AllKnown
  <2>2. BrainTypeOK'
    BY <1>0, <2>1 DEF BrainTypeOK
  <2> QED
    BY <1>h, <2>1, <2>2 DEF MemoryHolds, StoreHolds, WriterHolds, NoteInHand, FoundOnce,
                            DroppedIsKept
<1>4. ASSUME NEW w \in {"worker", "indexer"}, NEW i \in Memories \cup {Nothing}, Wants(w, i),
             UNCHANGED <<items, fts, inbox, edges, tx, messages, dropped, reading, poll, slips>>
      PROVE  MemoryHolds'
  <2>1. wants' \in [Writers -> Memories \cup {Nothing}] /\ wants'["chat"] = wants["chat"]
    BY <1>0, <1>4 DEF Wants, Writers
  <2>2. BrainTypeOK'
    BY <1>0, <1>4, <2>1 DEF BrainTypeOK
  <2> QED
    BY <1>h, <1>4, <2>1, <2>2
       DEF MemoryHolds, StoreHolds, WriterHolds, NoteInHand, FoundOnce, DroppedIsKept
<1>5. ASSUME NEW r \in RunNotes, RunEndsFor(r) PROVE MemoryHolds'
  BY <1>4, <1>5 DEF RunEndsFor, Memories
<1>6. ASSUME NEW f \in ScanFacts, ScanFinishes(f) PROVE MemoryHolds'
  BY <1>4, <1>6 DEF ScanFinishes, Memories
<1>7. CASE NotRemembered
  BY <1>4, <1>7 DEF NotRemembered
<1>8. ASSUME NEW n \in Notes, OperatorSays(n) PROVE MemoryHolds'
  <2>1. /\ Len(messages) < MaxNotes /\ messages' = Append(messages, n)
        /\ UNCHANGED <<items, fts, inbox, edges, tx, wants, dropped, reading, poll, slips>>
    BY <1>8 DEF OperatorSays
  <2>2. /\ messages' \in Seq(Notes) /\ Len(messages') = Len(messages) + 1
        /\ \A k \in 1..Len(messages) : messages'[k] = messages[k]
    BY ONLY <1>0, <2>1, SeqGrows, n \in Notes
  <2>3. BrainTypeOK'
    BY <1>0, <2>1, <2>2 DEF BrainTypeOK
  <2>4. NoteInHand' /\ DroppedIsKept'
    BY <1>h, <1>0, <2>1, <2>2 DEF NoteInHand, DroppedIsKept
  <2> QED
    BY <1>h, <2>1, <2>3, <2>4 DEF MemoryHolds, StoreHolds, WriterHolds, FoundOnce
<1>9. CASE Polls
  <2>1. /\ poll = "polls" /\ dropped' = reading /\ reading < Len(messages)
        /\ reading' = reading + 1 /\ poll' = "handles"
        /\ wants' = [wants EXCEPT !["chat"] = messages[reading + 1]]
        /\ UNCHANGED <<items, fts, inbox, edges, tx, messages, slips>>
    BY <1>9 DEF Polls, Wants
  <2>2. /\ wants' \in [Writers -> Memories \cup {Nothing}]
        /\ wants'["chat"] = messages[reading + 1]
    BY <1>0, <2>1 DEF Writers, Memories
  <2>3. BrainTypeOK'
    BY <1>0, <2>1, <2>2 DEF BrainTypeOK
  <2>4. messages[reading + 1] # Nothing
    BY <1>0, <2>1 DEF Memories
  <2>5. \A k \in 1..reading : messages[k] \in items
    BY <1>h, <1>0, <2>1 DEF NoteInHand
  <2>6. NoteInHand'
    BY <1>0, <2>1, <2>2, <2>4, <2>5 DEF NoteInHand
  <2> QED
    BY <1>h, <1>0, <2>1, <2>3, <2>6, StoreStays DEF WriterHolds
<1>10. CASE Answers
  BY <1>h, <1>0, <1>10 DEF Answers, MemoryHolds, StoreHolds, BrainTypeOK, WriterHolds, FoundOnce,
                           NoteInHand, DroppedIsKept
<1>11. ASSUME poll' = "ended", Wants("chat", Nothing), slips' \in 0..MaxSlips,
              UNCHANGED <<items, fts, inbox, edges, messages, dropped, reading>>,
              tx' \in {tx, NoTx}
       PROVE  MemoryHolds'
  <2>1. wants' \in [Writers -> Memories \cup {Nothing}]
    BY <1>0, <1>11 DEF Wants
  <2>2. BrainTypeOK'
    BY <1>0, <1>s, <1>11, <2>1 DEF BrainTypeOK
  <2>3. NoteInHand' /\ WriterHolds'
    BY <1>h, <1>11 DEF NoteInHand, WriterHolds
  <2> QED
    BY <1>0, <1>11, <2>2, <2>3, StoreStays
<1>12. CASE RefusesNote
  BY <1>0, <1>11, <1>12 DEF RefusesNote, Uncaught
<1>13. CASE Relaunched
  BY <1>h, <1>0, <1>13 DEF Relaunched, MemoryHolds, StoreHolds, BrainTypeOK, WriterHolds,
                           FoundOnce, NoteInHand, DroppedIsKept
<1>14. ASSUME NEW w \in Writers, TimesOut(w) PROVE MemoryHolds'
  <2>1. /\ slips' \in 0..MaxSlips /\ Wants(w, Nothing)
        /\ UNCHANGED <<items, fts, inbox, edges, tx, messages>>
        /\ IF w = "chat" THEN poll' = "ended" /\ UNCHANGED <<dropped, reading>>
                         ELSE UNCHANGED <<dropped, reading, poll>>
    BY <1>0, <1>14 DEF TimesOut, Uncaught
  <2>2. CASE w = "chat"
    BY <1>11, <2>1, <2>2
  <2>3. CASE w # "chat"
    <3>1. wants' \in [Writers -> Memories \cup {Nothing}] /\ wants'["chat"] = wants["chat"]
      BY <1>0, <2>1, <2>3 DEF Wants, Writers
    <3>2. BrainTypeOK'
      BY <1>0, <2>1, <2>3, <3>1 DEF BrainTypeOK
    <3> QED
      BY <1>h, <2>1, <2>3, <3>1, <3>2
         DEF MemoryHolds, StoreHolds, WriterHolds, NoteInHand, FoundOnce, DroppedIsKept
  <2> QED
    BY <2>2, <2>3
<1>15. ASSUME NEW w \in Writers, Dies(w) PROVE MemoryHolds'
  <2>1. /\ slips' \in 0..MaxSlips /\ Wants(w, Nothing) /\ tx' \in {tx, NoTx}
        /\ UNCHANGED <<items, fts, inbox, edges, messages, dropped, reading>>
        /\ IF w = "chat" THEN poll' = "ended" ELSE UNCHANGED poll
    BY <1>0, <1>15 DEF Dies, RolledBack
  <2>2. CASE w = "chat"
    BY <1>11, <2>1, <2>2
  <2>3. CASE w # "chat"
    <3>1. wants' \in [Writers -> Memories \cup {Nothing}] /\ wants'["chat"] = wants["chat"]
      BY <1>0, <2>1, <2>3 DEF Wants, Writers
    <3>2. BrainTypeOK'
      BY <1>0, <1>s, <2>1, <2>3, <3>1 DEF BrainTypeOK
    <3>3. WriterHolds'
      BY <1>h, <2>1 DEF WriterHolds
    <3> QED
      BY <1>h, <2>1, <2>3, <3>1, <3>2, <3>3
         DEF MemoryHolds, StoreHolds, NoteInHand, FoundOnce, DroppedIsKept
  <2> QED
    BY <2>2, <2>3
<1>16. CASE UNCHANGED brainVars
  BY <1>h, <1>16 DEF brainVars, MemoryHolds, StoreHolds, BrainTypeOK, WriterHolds, FoundOnce,
                     NoteInHand, DroppedIsKept
<1> QED
  BY <1>1, <1>2, <1>3, <1>5, <1>6, <1>7, <1>8, <1>9, <1>10, <1>12, <1>13, <1>14, <1>15, <1>16
     DEF BrainNext, WriterSteps, PhoneSteps

LEMMA MemoryStarts == BrainInit => MemoryHolds
<1> SUFFICES ASSUME BrainInit PROVE MemoryHolds
  OBVIOUS
<1>1. BrainTypeOK
  BY BrainAssumption DEF BrainInit, BrainTypeOK, BrainAssumption, NoTx
<1> QED
  BY <1>1, FS_EmptySet DEF BrainInit, MemoryHolds, StoreHolds, WriterHolds, FoundOnce, NoteInHand,
                           DroppedIsKept

(* Recall.  A pack is made line by line, and so is the length of its text.  *)

Lines == Memories \X Int
Packs == [lines : Seq(Lines), used : Int, cut : BOOLEAN]
EmptyPack == [lines |-> <<>>, used |-> 0, cut |-> FALSE]

LengthOf(lines) ==
  CHOOSE length : length = [k \in 0..Len(lines) |->
                              IF k = 0 THEN 0 ELSE length[k - 1] + lines[k][2]]

PackOf(hits, budget) ==
  CHOOSE pack : pack = [k \in 0..Len(hits) |->
                          IF k = 0 THEN EmptyPack ELSE Packed(pack[k - 1], hits[k], budget)]

LEMMA WrittenIs ==
  ASSUME NEW lines
  PROVE  Written(lines) = LengthOf(lines)[Len(lines)]
                            + (IF lines = <<>> THEN 0 ELSE Len(lines) - 1)
  BY DEF Written, LengthOf

LEMMA ContextPackIs ==
  ASSUME NEW hits, NEW budget
  PROVE  ContextPack(hits, budget) = PackOf(hits, budget)[Len(hits)]
  BY DEF ContextPack, PackOf, EmptyPack

LEMMA LengthIsMade ==
  ASSUME NEW lines, lines \in Seq(Lines)
  PROVE  /\ LengthOf(lines)[0] = 0
         /\ \A k \in 1..Len(lines) : LengthOf(lines)[k] = LengthOf(lines)[k - 1] + lines[k][2]
         /\ \A k \in 0..Len(lines) : LengthOf(lines)[k] \in Int
<1> DEFINE length == LengthOf(lines)
<1>n. PICK n \in Nat : n = Len(lines)
  OBVIOUS
<1>1. \A k \in 1..n : lines[k] \in Lines
  BY <1>n
<1>2. \A k \in 1..n : lines[k][2] \in Int
  BY <1>1 DEF Lines
<1>3. PICK S : S = Int
  OBVIOUS
<1>4. PICK F \in [(1..n) \X S -> S] : \A k \in 1..n, l \in Int : F[<<k, l>>] = l + lines[k][2]
  <2> DEFINE F == [kl \in (1..n) \X Int |-> kl[2] + lines[kl[1]][2]]
  <2>1. F \in [(1..n) \X Int -> Int]
    BY <1>2
  <2>2. \A k \in 1..n, l \in Int : F[<<k, l>>] = l + lines[k][2]
    OBVIOUS
  <2> HIDE DEF F
  <2> QED
    BY <1>3, <2>1, <2>2
<1>5. PICK g \in [0..n -> Int] : g[0] = 0 /\ \A k \in 1..n : g[k] = F[<<k, g[k - 1]>>]
  <2>1. PICK start \in S : start = 0
    BY <1>3
  <2>2. \E g \in [0..n -> S] : g[0] = start /\ \A k \in 1..n : g[k] = F[<<k, g[k - 1]>>]
    BY ONLY n \in Nat, start \in S, F \in [(1..n) \X S -> S], StepByStep
  <2> QED
    BY <1>3, <2>1, <2>2
<1>6. g = [k \in 0..n |-> IF k = 0 THEN 0 ELSE g[k - 1] + lines[k][2]]
  <2>1. \A k \in 1..n : k - 1 \in 0..n /\ g[k - 1] \in Int
    BY <1>5
  <2>2. \A k \in 1..n : g[k] = g[k - 1] + lines[k][2]
    BY <1>4, <1>5, <2>1
  <2> QED
    BY <1>5, <2>2
<1>7. length = [k \in 0..n |-> IF k = 0 THEN 0 ELSE length[k - 1] + lines[k][2]]
  BY <1>6, <1>n DEF LengthOf
<1> HIDE DEF length
<1> DEFINE T == {k \in Nat : k <= n => length[k] \in Int}
<1>8. 0 \in T
  BY <1>7
<1>9. ASSUME NEW k \in Nat, k \in T PROVE k + 1 \in T
  <2> SUFFICES ASSUME k + 1 <= n PROVE length[k + 1] \in Int
    OBVIOUS
  <2>1. k <= n /\ k + 1 \in 1..n /\ k + 1 \in 0..n /\ (k + 1) - 1 = k /\ k + 1 # 0
    OBVIOUS
  <2>2. length[k] \in Int /\ lines[k + 1][2] \in Int
    BY <1>2, <1>9, <2>1
  <2>3. length[k + 1] = length[k] + lines[k + 1][2]
    BY <1>7, <2>1
  <2> QED
    BY <2>2, <2>3
<1>10. \A k \in Nat : k \in T
  <2> HIDE DEF T
  <2> QED
    BY <1>8, <1>9, EveryNumber
<1>11. length[0] = 0 /\ \A k \in 1..n : length[k] = length[k - 1] + lines[k][2]
  <2>1. 0 \in 0..n /\ \A k \in 1..n : k \in 0..n /\ k # 0
    OBVIOUS
  <2> QED
    BY ONLY <1>7, <2>1
<1>12. \A k \in 0..n : length[k] \in Int
  BY <1>10
<1> QED
  BY <1>11, <1>12, <1>n DEF length

LEMMA WrittenGrows ==
  ASSUME NEW lines, lines \in Seq(Lines), NEW line \in Lines
  PROVE  /\ Written(lines) \in Int
         /\ Written(Append(lines, line))
              = Written(lines) + line[2] + (IF lines = <<>> THEN 0 ELSE 1)
<1> DEFINE more == Append(lines, line)
           A == LengthOf(lines)
           B == LengthOf(more)
<1>1. /\ more \in Seq(Lines) /\ Len(more) = Len(lines) + 1 /\ Len(lines) \in Nat
      /\ \A i \in 1..Len(lines) : more[i] = lines[i]
      /\ more[Len(lines) + 1] = line
  BY SeqGrows
<1>2. lines = <<>> <=> Len(lines) = 0
  OBVIOUS
<1>3. more # <<>>
  BY <1>1
<1> HIDE DEF more
<1>4. PICK n \in Nat : n = Len(lines)
  BY <1>1
<1>5. /\ A[0] = 0 /\ B[0] = 0
      /\ \A k \in 1..n : A[k] = A[k - 1] + lines[k][2] /\ lines[k] = more[k]
      /\ \A k \in 1..(n + 1) : B[k] = B[k - 1] + more[k][2]
      /\ \A k \in 0..n : A[k] \in Int
  BY <1>1, <1>4, LengthIsMade
<1> HIDE DEF A, B
<1> DEFINE T == {k \in Nat : k <= n => A[k] = B[k]}
<1>6. 0 \in T
  BY <1>5
<1>7. ASSUME NEW k \in Nat, k \in T PROVE k + 1 \in T
  <2> SUFFICES ASSUME k + 1 <= n PROVE A[k + 1] = B[k + 1]
    OBVIOUS
  <2>1. k <= n /\ k + 1 \in 1..n /\ k + 1 \in 1..(n + 1) /\ (k + 1) - 1 = k
    OBVIOUS
  <2> QED
    BY <1>5, <1>7, <2>1
<1>8. A[n] = B[n] /\ A[n] \in Int
  <2>1. n \in T
    <3> HIDE DEF T
    <3> QED
      BY <1>6, <1>7, EveryNumber
  <2> QED
    BY <1>5, <2>1
<1>9. B[n + 1] = A[n] + line[2]
  BY <1>1, <1>4, <1>5, <1>8
<1>10. /\ Written(lines) = A[n] + (IF n = 0 THEN 0 ELSE n - 1)
       /\ Written(more) = B[n + 1] + (n + 1) - 1
  BY <1>1, <1>2, <1>3, <1>4, WrittenIs DEF A, B
<1>11. line[2] \in Int
  BY DEF Lines
<1>12. Written(lines) \in Int /\ Written(more) = Written(lines) + line[2] + (IF n = 0 THEN 0 ELSE 1)
  BY <1>8, <1>9, <1>10, <1>11
<1> QED
  BY <1>2, <1>4, <1>12 DEF more

Fits(pack, budget) == Written(pack.lines) = pack.used /\ pack.used <= budget

WholeLine(hit) == <<hit, LineFrame + BodyLength[hit]>>

(* What is left out marks the pack as cut, and what is cut stays cut.       *)
LEMMA PackGrows ==
  ASSUME NEW pack \in Packs, NEW hit \in Memories, NEW budget \in Nat
  PROVE  LET more == Packed(pack, hit, budget) IN
         /\ more \in Packs
         /\ Fits(pack, budget) => Fits(more, budget)
         /\ ~more.cut => ~pack.cut /\ more.lines = Append(pack.lines, WholeLine(hit))
<1> DEFINE room == Room(pack, budget)
           whole == LineFrame + BodyLength[hit] <= room
           size == IF whole THEN LineFrame + BodyLength[hit] ELSE room
           first == pack.lines = <<>>
           line == <<hit, size>>
           more == [lines |-> Append(pack.lines, line),
                    used |-> pack.used + size + (IF first THEN 0 ELSE 1), cut |-> ~whole]
<1>1. /\ pack.lines \in Seq(Lines) /\ pack.used \in Int /\ pack.cut \in BOOLEAN
      /\ LineFrame \in Nat /\ BodyLength[hit] \in Nat
  BY BrainAssumption DEF Packs, BrainAssumption
<1>2. room \in Int /\ room = budget - pack.used - (IF first THEN 0 ELSE 1)
  BY <1>1 DEF Room
<1>3. size \in Int /\ size <= room /\ (whole => size = LineFrame + BodyLength[hit])
  <2> HIDE DEF room
  <2> QED
    BY <1>1, <1>2
<1>4. Packed(pack, hit, budget) \in {pack, [pack EXCEPT !.cut = TRUE], more}
  BY DEF Packed
<1>5. line \in Lines /\ line[2] = size
  BY <1>3 DEF Lines
<1>6. pack.cut => Packed(pack, hit, budget) = pack
  BY DEF Packed
<1>7. CASE Packed(pack, hit, budget) = pack /\ pack.cut
  BY <1>7
<1>8. CASE Packed(pack, hit, budget) = [pack EXCEPT !.cut = TRUE]
  BY <1>8 DEF Packs, Fits
<1>9. CASE Packed(pack, hit, budget) = more /\ ~pack.cut
  <2>1. whole \in BOOLEAN /\ (whole => line = WholeLine(hit))
    BY <1>3 DEF WholeLine
  <2> HIDE DEF whole, size, line, room, first
  <2>2. more.lines = Append(pack.lines, line) /\ more.cut = ~whole
        /\ more.used = pack.used + size + (IF first THEN 0 ELSE 1)
    OBVIOUS
  <2>3. Append(pack.lines, line) \in Seq(Lines)
    BY <1>1, <1>5, SeqGrows
  <2>4. more \in Packs
    BY <1>1, <1>3, <2>1, <2>3 DEF Packs
  <2>5. ASSUME Fits(pack, budget) PROVE Fits(more, budget)
    <3>1. Written(more.lines) = Written(pack.lines) + size + (IF first THEN 0 ELSE 1)
      BY <1>1, <1>5, <2>2, WrittenGrows DEF first
    <3>2. more.used <= budget
      BY <1>1, <1>2, <1>3, <2>2
    <3> QED
      BY <2>2, <2>5, <3>1, <3>2 DEF Fits
  <2> QED
    BY <1>9, <2>1, <2>2, <2>4, <2>5
<1> QED
  BY <1>4, <1>6, <1>7, <1>8, <1>9 DEF Packed

LEMMA PackIsMade ==
  ASSUME NEW hits, hits \in Seq(Memories), NEW budget \in Nat
  PROVE  /\ PackOf(hits, budget)[0] = EmptyPack
         /\ \A k \in 1..Len(hits) :
              PackOf(hits, budget)[k] = Packed(PackOf(hits, budget)[k - 1], hits[k], budget)
         /\ \A k \in 0..Len(hits) : PackOf(hits, budget)[k] \in Packs
<1> DEFINE pack == PackOf(hits, budget)
<1>n. PICK n \in Nat : n = Len(hits)
  OBVIOUS
<1>1. \A k \in 1..n : hits[k] \in Memories
  BY <1>n
<1>2. EmptyPack \in Packs
  BY DEF EmptyPack, Packs
<1>3. \A k \in 1..n, p \in Packs : Packed(p, hits[k], budget) \in Packs
  BY <1>1, PackGrows
<1>s. PICK S : S = Packs
  OBVIOUS
<1>4. PICK F \in [(1..n) \X S -> S] :
        \A k \in 1..n, p \in Packs : F[<<k, p>>] = Packed(p, hits[k], budget)
  <2> DEFINE F == [kp \in (1..n) \X Packs |-> Packed(kp[2], hits[kp[1]], budget)]
  <2>1. F \in [(1..n) \X Packs -> Packs]
    BY <1>3
  <2>2. \A k \in 1..n, p \in Packs : F[<<k, p>>] = Packed(p, hits[k], budget)
    OBVIOUS
  <2> HIDE DEF F
  <2> QED
    BY <1>s, <2>1, <2>2
<1>5. PICK g \in [0..n -> Packs] : g[0] = EmptyPack /\ \A k \in 1..n : g[k] = F[<<k, g[k - 1]>>]
  <2>1. PICK start \in S : start = EmptyPack
    BY <1>s, <1>2
  <2>2. \E g \in [0..n -> S] : g[0] = start /\ \A k \in 1..n : g[k] = F[<<k, g[k - 1]>>]
    BY ONLY n \in Nat, start \in S, F \in [(1..n) \X S -> S], StepByStep
  <2> QED
    BY <1>s, <2>1, <2>2
<1>6. g = [k \in 0..n |-> IF k = 0 THEN EmptyPack ELSE Packed(g[k - 1], hits[k], budget)]
  <2>1. \A k \in 1..n : k - 1 \in 0..n /\ g[k - 1] \in Packs
    BY <1>5
  <2>2. \A k \in 1..n : g[k] = Packed(g[k - 1], hits[k], budget)
    BY <1>4, <1>5, <2>1
  <2> QED
    BY <1>5, <2>2
<1>7. pack = [k \in 0..n |-> IF k = 0 THEN EmptyPack ELSE Packed(pack[k - 1], hits[k], budget)]
  BY <1>6, <1>n DEF PackOf
<1> HIDE DEF pack
<1>8. pack[0] = EmptyPack /\ \A k \in 1..n : pack[k] = Packed(pack[k - 1], hits[k], budget)
  <2>1. 0 \in 0..n /\ \A k \in 1..n : k \in 0..n /\ k # 0
    OBVIOUS
  <2> QED
    BY ONLY <1>7, <2>1
<1> DEFINE T == {k \in Nat : k <= n => pack[k] \in Packs}
<1>9. 0 \in T
  BY <1>2, <1>8
<1>10. ASSUME NEW k \in Nat, k \in T PROVE k + 1 \in T
  <2> SUFFICES ASSUME k + 1 <= n PROVE pack[k + 1] \in Packs
    OBVIOUS
  <2>1. k <= n /\ k + 1 \in 1..n /\ (k + 1) - 1 = k
    OBVIOUS
  <2>2. pack[k] \in Packs /\ pack[k + 1] = Packed(pack[k], hits[k + 1], budget)
    BY <1>8, <1>10, <2>1
  <2> QED
    BY <1>3, <2>1, <2>2
<1>11. \A k \in Nat : k \in T
  <2> HIDE DEF T
  <2> QED
    BY <1>9, <1>10, EveryNumber
<1>12. \A k \in 0..n : pack[k] \in Packs
  BY <1>11
<1> QED
  BY <1>8, <1>12, <1>n DEF pack

LEMMA PacksFit ==
  ASSUME NEW hits, hits \in Seq(Memories), NEW budget \in Nat
  PROVE  LET pack == ContextPack(hits, budget) IN
         /\ Written(pack.lines) <= budget
         /\ ~pack.cut => /\ Len(pack.lines) = Len(hits)
                         /\ \A k \in DOMAIN hits : pack.lines[k] = WholeLine(hits[k])
<1> DEFINE pack == PackOf(hits, budget)
           Whole(k) == /\ Len(pack[k].lines) = k
                       /\ \A j \in 1..k : pack[k].lines[j] = WholeLine(hits[j])
           T == {k \in Nat : k <= Len(hits) =>
                               Fits(pack[k], budget) /\ (~pack[k].cut => Whole(k))}
<1>n. Len(hits) \in Nat /\ DOMAIN hits = 1..Len(hits) /\ \A k \in 1..Len(hits) : hits[k] \in Memories
  OBVIOUS
<1>1. /\ pack[0] = EmptyPack
      /\ \A k \in 1..Len(hits) : pack[k] = Packed(pack[k - 1], hits[k], budget)
      /\ \A k \in 0..Len(hits) : pack[k] \in Packs
  BY PackIsMade
<1>2. Written(<<>>) = 0
  <2>1. <<>> \in Seq(Lines) /\ Len(<<>>) = 0
    OBVIOUS
  <2>2. LengthOf(<<>>)[0] = 0
    BY <2>1, LengthIsMade
  <2> QED
    BY <2>1, <2>2, WrittenIs
<1> HIDE DEF pack
<1>3. 0 \in T
  BY <1>1, <1>2 DEF EmptyPack, Fits
<1>4. ASSUME NEW k \in Nat, k \in T PROVE k + 1 \in T
  <2> SUFFICES ASSUME k + 1 <= Len(hits)
               PROVE  Fits(pack[k + 1], budget) /\ (~pack[k + 1].cut => Whole(k + 1))
    OBVIOUS
  <2>1. k <= Len(hits) /\ k + 1 \in 1..Len(hits) /\ (k + 1) - 1 = k /\ k \in 0..Len(hits)
    BY <1>n
  <2>2. /\ pack[k] \in Packs /\ hits[k + 1] \in Memories
        /\ pack[k + 1] = Packed(pack[k], hits[k + 1], budget)
        /\ Fits(pack[k], budget) /\ (~pack[k].cut => Whole(k))
    BY <1>n, <1>1, <1>4, <2>1
  <2>3. /\ Fits(pack[k + 1], budget)
        /\ ~pack[k + 1].cut =>
             ~pack[k].cut /\ pack[k + 1].lines = Append(pack[k].lines, WholeLine(hits[k + 1]))
    <3>1. PICK p \in Packs : p = pack[k]
      BY <2>2
    <3>2. PICK hit \in Memories : hit = hits[k + 1]
      BY <2>2
    <3>3. LET more == Packed(p, hit, budget) IN
          /\ Fits(p, budget) => Fits(more, budget)
          /\ ~more.cut => ~p.cut /\ more.lines = Append(p.lines, WholeLine(hit))
      BY PackGrows
    <3> QED
      BY <2>2, <3>1, <3>2, <3>3
  <2>4. ASSUME ~pack[k + 1].cut PROVE Whole(k + 1)
    <3>1. /\ Whole(k) /\ pack[k + 1].lines = Append(pack[k].lines, WholeLine(hits[k + 1]))
          /\ pack[k].lines \in Seq(Lines) /\ WholeLine(hits[k + 1]) \in Lines
      <4>1. WholeLine(hits[k + 1]) \in Lines
        BY <2>2, BrainAssumption DEF Lines, WholeLine, BrainAssumption
      <4>2. pack[k].lines \in Seq(Lines)
        BY <2>2 DEF Packs
      <4>3. Whole(k) /\ pack[k + 1].lines = Append(pack[k].lines, WholeLine(hits[k + 1]))
        BY <2>2, <2>3, <2>4
      <4> QED
        BY <4>1, <4>2, <4>3
    <3>2. /\ Len(pack[k + 1].lines) = k + 1
          /\ \A j \in 1..k : pack[k + 1].lines[j] = pack[k].lines[j]
          /\ pack[k + 1].lines[k + 1] = WholeLine(hits[k + 1])
      BY <3>1, SeqGrows
    <3> QED
      BY <3>1, <3>2
  <2> QED
    BY <2>3, <2>4
<1>5. Len(hits) \in T
  <2> HIDE DEF T
  <2> QED
    BY <1>n, <1>3, <1>4, EveryNumber
<1>6. pack[Len(hits)] = ContextPack(hits, budget)
  BY ContextPackIs DEF pack
<1>7. pack[Len(hits)].used \in Int
  BY <1>n, <1>1 DEF Packs
<1> QED
  BY <1>n, <1>5, <1>6, <1>7 DEF Fits

(* MemoryIsWhole for any memories, writers' slips and budgets: search finds *)
(* what was kept once and nothing else, a note that is no longer delivered  *)
(* was kept, and a recall fits its budget or says that it was cut.          *)
THEOREM NothingKeptIsLost == BrainSpec => []MemoryIsWhole
<1>1. MemoryHolds => MemoryIsWhole
  <2> SUFFICES ASSUME MemoryHolds PROVE PackFits
    BY DEF MemoryHolds, StoreHolds, MemoryIsWhole
  <2> SUFFICES ASSUME NEW s \in SUBSET items, NEW hits \in SetToSeqs(s), NEW budget \in Budgets
               PROVE  LET pack == ContextPack(hits, budget) IN
                      /\ Written(pack.lines) <= budget
                      /\ ~pack.cut => /\ Len(pack.lines) = Len(hits)
                                      /\ \A k \in DOMAIN hits :
                                           pack.lines[k] = WholeLine(hits[k])
    BY DEF PackFits, WholeLine
  <2>1. s \subseteq Memories /\ Cardinality(s) \in Nat
    BY FS_Subset, FS_CardinalityType DEF MemoryHolds, StoreHolds, BrainTypeOK
  <2>2. hits \in [1..Cardinality(s) -> s]
    BY DEF SetToSeqs
  <2>3. hits \in Seq(Memories)
    <3>1. hits \in [1..Cardinality(s) -> Memories]
      BY <2>1, <2>2
    <3> QED
      BY ONLY <2>1, <3>1, SeqMade
  <2>4. budget \in Nat
    BY BrainAssumption DEF BrainAssumption
  <2> QED
    BY <2>3, <2>4, PacksFit
<1> QED
  BY <1>1, MemoryStarts, MemoryStep, PTL DEF BrainSpec

-----------------------------------------------------------------------------
(* The standstill digest.  A dead end stays one, so what is held stays      *)
(* held; and what is not "todo" has only ancestors that are done, among     *)
(* which no walk finds a dead end.                                          *)

Statuses == Settled \cup Waiting \cup {"running"}
Walks == Seq(Awaited) \X SUBSET (Works \cup Awaited)

DeadIn(s, p) == p \notin Works \/ s[p] = "cancelled"

NextOf(walk) ==
  IF Head(walk[1]) \in walk[2] THEN <<Tail(walk[1]), walk[2]>>
  ELSE <<Tail(walk[1]) \o WaitsOn[Head(walk[1])], walk[2] \cup {Head(walk[1])}>>

OverIn(s, walk) ==
  walk[1] = <<>> \/ (Head(walk[1]) \notin walk[2] /\ DeadIn(s, Head(walk[1])))

FoundIn(s, walk) ==
  IF walk[1] = <<>> THEN Silence
  ELSE <<Head(walk[1]), IF Head(walk[1]) \in Works THEN s[Head(walk[1])] ELSE "missing">>

(* HeldBy, on a board whose tasks have the statuses s.                      *)
HeldIn(s) ==
  CHOOSE held : held = [walk \in Walks |-> IF OverIn(s, walk) THEN FoundIn(s, walk)
                                           ELSE held[NextOf(walk)]]

LEMMA WalkIs ==
  ASSUME NEW queue, NEW seen, queue \in Seq(Awaited), seen \in SUBSET (Works \cup Awaited)
  PROVE  <<queue, seen>> \in Walks
  BY DEF Walks

LEMMA WalksNear ==
  ASSUME NEW s, NEW walk \in Walks, ~OverIn(s, walk)
  PROVE  /\ NextOf(walk) \in Walks
         /\ Cardinality(Works \ NextOf(walk)[2]) < Cardinality(Works \ walk[2])
            \/ (/\ Cardinality(Works \ NextOf(walk)[2]) = Cardinality(Works \ walk[2])
                /\ Len(NextOf(walk)[1]) < Len(walk[1]))
<1> DEFINE queue == walk[1]
           seen == walk[2]
           p == Head(queue)
<1>1. queue \in Seq(Awaited) /\ seen \in SUBSET (Works \cup Awaited) /\ queue # <<>>
  BY DEF Walks, OverIn
<1>2. /\ p \in Awaited /\ Tail(queue) \in Seq(Awaited)
      /\ Len(queue) \in Nat /\ Len(Tail(queue)) = Len(queue) - 1
  BY <1>1
<1>3. CASE p \in seen
  <2>1. NextOf(walk) = <<Tail(queue), seen>>
    BY <1>3 DEF NextOf
  <2>2. NextOf(walk)[1] = Tail(queue) /\ NextOf(walk)[2] = seen
    BY <2>1
  <2>3. NextOf(walk) \in Walks
    BY ONLY <1>1, <1>2, <2>1, WalkIs
  <2> QED
    BY <1>2, <2>2, <2>3
<1>4. CASE p \notin seen
  <2>1. NextOf(walk) = <<Tail(queue) \o WaitsOn[p], seen \cup {p}>>
    BY <1>4 DEF NextOf
  <2>2. p \in Works
    BY <1>1, <1>4 DEF OverIn, DeadIn
  <2>3. WaitsOn[p] \in Seq(Awaited)
    <3>1. WaitsOn[p] \in Seq(ToSet(WaitsOn[p]))
      BY <2>2, StandstillAssumption DEF StandstillAssumption
    <3>2. ToSet(WaitsOn[p]) \subseteq Awaited
      BY <2>2 DEF Awaited
    <3> QED
      BY ONLY <3>1, <3>2, SeqOfMore
  <2>4. Tail(queue) \o WaitsOn[p] \in Seq(Awaited)
    <3> HIDE DEF queue, p
    <3> QED
      BY ONLY <1>2, <2>3
  <2>5. IsFiniteSet(Works \ seen)
    BY StandstillAssumption, FS_Subset, Works \ seen \in SUBSET Works DEF StandstillAssumption
  <2>6. Cardinality((Works \ seen) \ {p}) = Cardinality(Works \ seen) - 1
    BY <1>4, <2>2, <2>5, FS_RemoveElement
  <2>7. Cardinality(Works \ seen) \in Nat
    BY <2>5, FS_CardinalityType
  <2>8. Works \ (seen \cup {p}) = (Works \ seen) \ {p}
    OBVIOUS
  <2>9. NextOf(walk)[2] = seen \cup {p}
    BY <2>1
  <2>10. seen \cup {p} \in SUBSET (Works \cup Awaited)
    BY <1>1, <1>2
  <2>11. NextOf(walk) \in Walks
    BY ONLY <2>1, <2>4, <2>10, WalkIs
  <2>12. Cardinality(Works \ (seen \cup {p})) < Cardinality(Works \ seen)
    BY <2>6, <2>7, <2>8
  <2> QED
    BY <2>9, <2>11, <2>12
<1> QED
  BY <1>3, <1>4

LEMMA HeldIsFound ==
  ASSUME NEW s
  PROVE  HeldIn(s) = [walk \in Walks |-> IF OverIn(s, walk) THEN FoundIn(s, walk)
                                         ELSE HeldIn(s)[NextOf(walk)]]
<1>d. PICK D : D = Walks
  OBVIOUS
<1>1. PICK m \in [D -> Nat] : \A walk \in Walks : m[walk] = Cardinality(Works \ walk[2])
  <2>1. ASSUME NEW walk \in Walks PROVE Cardinality(Works \ walk[2]) \in Nat
    BY StandstillAssumption, FS_Subset, FS_CardinalityType, Works \ walk[2] \in SUBSET Works
       DEF StandstillAssumption
  <2> QED
    BY <1>d, <2>1, [walk \in Walks |-> Cardinality(Works \ walk[2])] \in [Walks -> Nat]
<1>2. PICK l \in [D -> Nat] : \A walk \in Walks : l[walk] = Len(walk[1])
  <2>1. ASSUME NEW walk \in Walks PROVE Len(walk[1]) \in Nat
    BY DEF Walks
  <2> QED
    BY <1>d, <2>1, [walk \in Walks |-> Len(walk[1])] \in [Walks -> Nat]
<1>3. PICK Stop \in SUBSET D : Stop = {walk \in Walks : OverIn(s, walk)}
  BY <1>d
<1>4. PICK V : \A walk \in Walks : FoundIn(s, walk) \in V
  <2> DEFINE V == {FoundIn(s, walk) : walk \in Walks}
  <2>1. \A walk \in Walks : FoundIn(s, walk) \in V
    OBVIOUS
  <2> HIDE DEF V
  <2> QED
    BY <2>1
<1>5. PICK out \in [D -> V] : \A walk \in Walks : out[walk] = FoundIn(s, walk)
  BY <1>d, <1>4, [walk \in Walks |-> FoundIn(s, walk)] \in [Walks -> V]
<1>6. PICK onward \in [D -> D] : \A walk \in Walks \ Stop : onward[walk] = NextOf(walk)
  <2> DEFINE o == [walk \in Walks |-> IF walk \in Stop THEN walk ELSE NextOf(walk)]
  <2>1. \A walk \in Walks \ Stop : NextOf(walk) \in Walks
    BY <1>3, WalksNear
  <2>2. o \in [Walks -> Walks] /\ \A walk \in Walks \ Stop : o[walk] = NextOf(walk)
    BY <2>1
  <2> HIDE DEF o
  <2> QED
    BY <1>d, <2>2
<1>7. \A walk \in Walks \ Stop :
        LET next == onward[walk] IN
        m[next] < m[walk] \/ (m[next] = m[walk] /\ l[next] < l[walk])
  <2> SUFFICES ASSUME NEW walk \in Walks \ Stop
               PROVE  LET next == NextOf(walk) IN
                      m[next] < m[walk] \/ (m[next] = m[walk] /\ l[next] < l[walk])
    BY <1>6
  <2>1. ~OverIn(s, walk)
    BY <1>3
  <2> QED
    BY <1>1, <1>2, <2>1, WalksNear
<1>8. PICK f : IsEnd(D, Stop, V, out, onward, f)
  <2>1. IsWalk(D, m, l, Stop, V, out, onward)
    BY <1>d, <1>7 DEF IsWalk
  <2> QED
    BY <2>1, WalkEnds
<1>9. f = [walk \in Walks |-> IF OverIn(s, walk) THEN FoundIn(s, walk) ELSE f[NextOf(walk)]]
  <2>1. \A walk \in Walks :
          f[walk] = IF OverIn(s, walk) THEN FoundIn(s, walk) ELSE f[NextOf(walk)]
    BY <1>d, <1>3, <1>5, <1>6, <1>8 DEF IsEnd
  <2> QED
    BY <1>d, <1>8, <2>1 DEF IsEnd
<1> QED
  BY <1>9 DEF HeldIn

(* What is so where a walk is over, and before where it is so, is always so. *)
LEMMA WalksComeToAnEnd ==
  ASSUME NEW s, NEW T,
         \A walk \in Walks : (OverIn(s, walk) \/ NextOf(walk) \in T) => walk \in T
  PROVE  \A walk \in Walks : walk \in T
<1>1. PICK m \in [Walks -> Nat] : \A walk \in Walks : m[walk] = Cardinality(Works \ walk[2])
  <2>1. ASSUME NEW walk \in Walks PROVE Cardinality(Works \ walk[2]) \in Nat
    BY StandstillAssumption, FS_Subset, FS_CardinalityType, Works \ walk[2] \in SUBSET Works
       DEF StandstillAssumption
  <2> QED
    BY <2>1, [walk \in Walks |-> Cardinality(Works \ walk[2])] \in [Walks -> Nat]
<1>2. PICK l \in [Walks -> Nat] : \A walk \in Walks : l[walk] = Len(walk[1])
  <2>1. ASSUME NEW walk \in Walks PROVE Len(walk[1]) \in Nat
    BY DEF Walks
  <2> QED
    BY <2>1, [walk \in Walks |-> Len(walk[1])] \in [Walks -> Nat]
<1>3. ASSUME NEW walk \in Walks,
             \A y \in Walks : (m[y] < m[walk] \/ (m[y] = m[walk] /\ l[y] < l[walk])) => y \in T
      PROVE  walk \in T
  <2>1. CASE OverIn(s, walk)
    BY <2>1
  <2>2. CASE ~OverIn(s, walk)
    <3>1. NextOf(walk) \in Walks
      BY <2>2, WalksNear
    <3>2. LET y == NextOf(walk) IN m[y] < m[walk] \/ (m[y] = m[walk] /\ l[y] < l[walk])
      BY <1>1, <1>2, <2>2, <3>1, WalksNear
    <3> QED
      BY <1>3, <3>1, <3>2
  <2> QED
    BY <2>1, <2>2
<1>4. PICK D : D = Walks
  OBVIOUS
<1> QED
  <2>1. m \in [D -> Nat] /\ l \in [D -> Nat]
    BY <1>4
  <2>2. \A x \in D :
          (\A y \in D : (m[y] < m[x] \/ (m[y] = m[x] /\ l[y] < l[x])) => y \in T) => x \in T
    BY <1>3, <1>4
  <2>3. \A x \in D : x \in T
    BY ONLY <2>1, <2>2, ByMeasures
  <2> QED
    BY <1>4, <2>3

IsHeld(h, s) ==
  \A walk \in Walks : h[walk] = IF OverIn(s, walk) THEN FoundIn(s, walk) ELSE h[NextOf(walk)]

LEMMA HeldByIs ==
  ASSUME state \in [Works -> Statuses]
  PROVE  IsHeld(HeldBy, state)
<1> DEFINE Body(h, walk) ==
             IF walk[1] = <<>> THEN Silence
             ELSE IF Head(walk[1]) \in walk[2] THEN h[<<Tail(walk[1]), walk[2]>>]
             ELSE IF DeadEnd(Head(walk[1])) THEN <<Head(walk[1]), StatusOf(Head(walk[1]))>>
             ELSE h[<<Tail(walk[1]) \o WaitsOn[Head(walk[1])], walk[2] \cup {Head(walk[1])}>>]
<1>1. \A p : DeadEnd(p) <=> DeadIn(state, p)
  BY DEF DeadEnd, StatusOf, DeadIn, Statuses, Settled, Waiting
<1>2. ASSUME NEW h, NEW walk \in Walks
      PROVE  Body(h, walk) = IF OverIn(state, walk) THEN FoundIn(state, walk) ELSE h[NextOf(walk)]
  BY <1>1 DEF OverIn, FoundIn, NextOf, StatusOf
<1>3. HeldIn(state) = [walk \in Walks |-> Body(HeldIn(state), walk)]
  <2> HIDE DEF Body
  <2>1. HeldIn(state) = [walk \in Walks |-> IF OverIn(state, walk) THEN FoundIn(state, walk)
                                            ELSE HeldIn(state)[NextOf(walk)]]
    BY HeldIsFound
  <2>2. \A walk \in Walks : HeldIn(state)[walk] = Body(HeldIn(state), walk)
    BY <1>2, <2>1
  <2>3. HeldIn(state) = [walk \in Walks |-> HeldIn(state)[walk]]
    BY <2>1
  <2> QED
    BY ONLY <2>2, <2>3
<1>4. HeldBy = [walk \in Walks |-> Body(HeldBy, walk)]
  BY <1>3 DEF HeldBy, Walks
<1>5. \A walk \in Walks : HeldBy[walk] = Body(HeldBy, walk)
  <2> HIDE DEF Body
  <2> QED
    BY <1>4
<1> QED
  <2> HIDE DEF Body
  <2> QED
    BY <1>2, <1>5 DEF IsHeld

LEMMA HeldStays ==
  ASSUME NEW s, NEW t, NEW h, NEW i, IsHeld(h, s), IsHeld(i, t),
         \A p : DeadIn(s, p) => DeadIn(t, p)
  PROVE  \A walk \in Walks : h[walk] # Silence => i[walk] # Silence
<1> DEFINE T == {walk \in Walks : h[walk] # Silence => i[walk] # Silence}
<1>1. ASSUME NEW walk \in Walks, OverIn(s, walk) \/ NextOf(walk) \in T
      PROVE  walk \in T
  <2>1. CASE walk[1] = <<>>
    BY <2>1 DEF IsHeld, OverIn, FoundIn
  <2>2. CASE walk[1] # <<>> /\ OverIn(t, walk)
    <3>1. Head(walk[1]) \in Awaited
      BY <2>2 DEF Walks
    <3>2. i[walk] = <<Head(walk[1]), IF Head(walk[1]) \in Works THEN t[Head(walk[1])] ELSE "missing">>
      BY <2>2 DEF IsHeld, FoundIn
    <3>3. i[walk] \in Awaited \X {"cancelled", "missing"}
      BY <2>2, <3>1, <3>2 DEF OverIn, DeadIn
    <3> QED
      BY <3>3, StandstillAssumption DEF StandstillAssumption
  <2>3. CASE walk[1] # <<>> /\ ~OverIn(t, walk)
    <3>1. ~OverIn(s, walk)
      BY <2>3 DEF OverIn
    <3>2. h[walk] = h[NextOf(walk)] /\ i[walk] = i[NextOf(walk)]
      BY <2>3, <3>1 DEF IsHeld
    <3> QED
      BY <1>1, <3>1, <3>2
  <2> QED
    BY <2>1, <2>2, <2>3
<1> QED
  <2> HIDE DEF T
  <2>1. \A walk \in Walks : walk \in T
    BY <1>1, WalksComeToAnEnd
  <2> QED
    BY <2>1 DEF T

(* A task that has left "todo" has parents that are all done. *)
Begun(s) ==
  \A w \in Works : s[w] # "todo" => \A p \in ToSet(WaitsOn[w]) : p \in Works /\ s[p] = "done"

LEMMA DoneHoldsNothing ==
  ASSUME NEW s, NEW h, IsHeld(h, s), Begun(s)
  PROVE  \A walk \in Walks : (\A p \in ToSet(walk[1]) : p \in Works /\ s[p] = "done")
                               => h[walk] = Silence
<1> DEFINE Done(queue) == \A p \in ToSet(queue) : p \in Works /\ s[p] = "done"
           T == {walk \in Walks : Done(walk[1]) => h[walk] = Silence}
<1>1. ASSUME NEW walk \in Walks, OverIn(s, walk) \/ NextOf(walk) \in T
      PROVE  walk \in T
  <2> SUFFICES ASSUME Done(walk[1]) PROVE h[walk] = Silence
    OBVIOUS
  <2>1. CASE walk[1] = <<>>
    BY <2>1 DEF IsHeld, OverIn, FoundIn
  <2>2. CASE walk[1] # <<>>
    <3> DEFINE q == walk[1]
               p == Head(q)
    <3>1. /\ q \in Seq(Awaited) /\ Tail(q) \in Seq(Awaited)
          /\ p \in ToSet(q) /\ ToSet(Tail(q)) \subseteq ToSet(q)
      BY <2>2 DEF Walks, ToSet
    <3>2. p \in Works /\ s[p] = "done"
      BY <3>1
    <3>3. ~OverIn(s, walk)
      BY <2>2, <3>2 DEF OverIn, DeadIn
    <3>4. Done(NextOf(walk)[1])
      <4>1. NextOf(walk)[1] \in {Tail(q), Tail(q) \o WaitsOn[p]}
        BY DEF NextOf
      <4>2. Done(Tail(q)) /\ Done(WaitsOn[p])
        BY <3>1, <3>2 DEF Begun
      <4>3. WaitsOn[p] \in Seq(ToSet(WaitsOn[p]))
        BY <3>2, StandstillAssumption DEF StandstillAssumption
      <4>4. ToSet(Tail(q) \o WaitsOn[p]) = ToSet(Tail(q)) \cup ToSet(WaitsOn[p])
        <5>1. PICK a, b : a = Tail(q) /\ b = WaitsOn[p]
          OBVIOUS
        <5>2. PICK A, B : a \in Seq(A) /\ b \in Seq(B)
          BY ONLY <3>1, <4>3, <5>1
        <5>3. ToSet(a \o b) = ToSet(a) \cup ToSet(b)
          BY ONLY <5>2, SeqJoined
        <5> QED
          BY ONLY <5>1, <5>3
      <4> QED
        BY <4>1, <4>2, <4>4
    <3>5. h[walk] = h[NextOf(walk)]
      BY <3>3 DEF IsHeld
    <3> QED
      BY <1>1, <3>3, <3>4, <3>5
  <2> QED
    BY <2>1, <2>2
<1> QED
  <2> HIDE DEF T
  <2>1. \A walk \in Walks : walk \in T
    BY <1>1, WalksComeToAnEnd
  <2> QED
    BY <2>1 DEF T

(* Cancelled and missing is for good, and done too. *)
BoardHolds == state \in [Works -> Statuses] /\ Begun(state)

LEMMA BoardStep ==
  ASSUME BoardHolds, [StandNext]_standVars
  PROVE  /\ BoardHolds'
         /\ \A p : DeadIn(state, p) => DeadIn(state', p)
<1> USE DEF BoardHolds
<1>1. ASSUME NEW s \in [Works -> Statuses], state' = Promoted(s),
             \A w \in Works : state[w] = "done" => s[w] = "done",
             \A w \in Works : state[w] = "cancelled" => s[w] = "cancelled",
             \A w \in Works : state[w] = "todo" => s[w] = "todo"
      PROVE  /\ BoardHolds'
             /\ \A p : DeadIn(state, p) => DeadIn(state', p)
  <2>1. state' \in [Works -> Statuses]
    BY <1>1 DEF Promoted, Statuses, Settled, Waiting
  <2>2. \A w \in Works : state[w] = "done" => state'[w] = "done"
    BY <1>1 DEF Promoted
  <2>3. \A w \in Works : s[w] = "done" => state'[w] = "done"
    BY <1>1 DEF Promoted
  <2>4. \A p : DeadIn(state, p) => DeadIn(state', p)
    BY <1>1 DEF Promoted, DeadIn
  <2>5. ASSUME NEW w \in Works, state'[w] # "todo", NEW p \in ToSet(WaitsOn[w])
        PROVE  p \in Works /\ state'[p] = "done"
    <3>1. CASE state[w] # "todo"
      BY <2>2, <2>5, <3>1 DEF Begun
    <3>2. CASE state[w] = "todo"
      BY <1>1, <2>3, <2>5, <3>2 DEF Promoted
    <3> QED
      BY <3>1, <3>2
  <2> QED
    BY <2>1, <2>4, <2>5 DEF Begun
<1>2. ASSUME NEW w \in Works, Claimed(w)
      PROVE  /\ BoardHolds'
             /\ \A p : DeadIn(state, p) => DeadIn(state', p)
  <2>1. state[w] = "ready" /\ state' = [state EXCEPT ![w] = "running"]
    BY <1>2 DEF Claimed
  <2>2. state' \in [Works -> Statuses]
    BY <2>1 DEF Statuses
  <2>3. \A v \in Works : /\ state[v] = "done" => state'[v] = "done"
                         /\ state[v] = "cancelled" => state'[v] = "cancelled"
                         /\ state'[v] # "todo" => state[v] # "todo"
    BY <2>1
  <2> QED
    BY <2>2, <2>3 DEF Begun, DeadIn
<1>3. ASSUME NEW w \in Works, NEW status \in {"done", "blocked", "cancelled"}, EndsAs(w, status)
      PROVE  /\ BoardHolds'
             /\ \A p : DeadIn(state, p) => DeadIn(state', p)
  <2>1. state[w] = "running" /\ state' = Promoted([state EXCEPT ![w] = status])
    BY <1>3 DEF EndsAs
  <2>2. [state EXCEPT ![w] = status] \in [Works -> Statuses]
    BY DEF Statuses, Settled, Waiting
  <2> QED
    BY <1>1, <2>1, <2>2
<1>4. ASSUME NEW w \in Works, Retried(w)
      PROVE  /\ BoardHolds'
             /\ \A p : DeadIn(state, p) => DeadIn(state', p)
  <2>1. state[w] = "blocked" /\ state' = Promoted([state EXCEPT ![w] = "todo"])
    BY <1>4 DEF Retried
  <2>2. [state EXCEPT ![w] = "todo"] \in [Works -> Statuses]
    BY DEF Statuses, Settled, Waiting
  <2> QED
    BY <1>1, <2>1, <2>2
<1>5. CASE UNCHANGED state
  BY <1>5 DEF Begun
<1>6. (PublishStandstill \/ TellFails \/ HourGoesBy \/ UNCHANGED standVars) => UNCHANGED state
  BY DEF PublishStandstill, ReadsBoard, Tells, Remembers, TellFails, HourGoesBy, standVars, workVars
<1> QED
  BY <1>2, <1>3, <1>4, <1>5, <1>6 DEF StandNext

(* StrandedNeverRuns for any board and any links, cyclic ones included: a   *)
(* task the digest says can never run stays stranded and is never claimed.  *)
THEOREM StrandedStaysStranded == StandSpec => StrandedNeverRuns
<1>1. StandInit => BoardHolds
  BY StandstillAssumption
     DEF StandInit, BoardHolds, Begun, Statuses, Settled, Waiting, StandstillAssumption, ToSet
<1>2. BoardHolds => IsHeld(HeldBy, state)
  BY HeldByIs DEF BoardHolds
<1>3. BoardHolds /\ [StandNext]_standVars => BoardHolds'
  BY BoardStep
<1>4. (BoardHolds => IsHeld(HeldBy, state))'
  BY <1>2, PTL
<1>5. ASSUME BoardHolds, [StandNext]_standVars
      PROVE  \A w \in Stranded : (state'[w] # "running") /\ (w \in Stranded')
  <2> SUFFICES ASSUME NEW w \in Stranded
               PROVE  state'[w] # "running" /\ w \in Stranded'
    OBVIOUS
  <2> DEFINE walk == <<WaitsOn[w], {w}>>
  <2>1. w \in Works /\ HeldBy[walk] # Silence
    BY DEF Stranded, Holding
  <2>2. walk \in Walks
    <3>1. WaitsOn[w] \in Seq(ToSet(WaitsOn[w])) /\ ToSet(WaitsOn[w]) \subseteq Awaited
      BY <2>1, StandstillAssumption DEF StandstillAssumption, Awaited
    <3>2. WaitsOn[w] \in Seq(Awaited)
      BY ONLY <3>1, SeqOfMore
    <3> QED
      BY <2>1, <3>2, WalkIs
  <2> HIDE DEF walk
  <2>3. IsHeld(HeldBy, state) /\ IsHeld(HeldBy', state') /\ BoardHolds'
    BY <1>2, <1>4, <1>3, <1>5 DEF IsHeld
  <2>4. HeldBy'[walk] # Silence
    BY <1>5, <2>1, <2>2, <2>3, BoardStep, HeldStays
  <2>5. state'[w] = "todo"
    BY <2>1, <2>2, <2>3, <2>4, DoneHoldsNothing DEF BoardHolds, Begun, walk
  <2> QED
    BY <2>1, <2>4, <2>5 DEF Stranded, Holding, Waiting, walk
<1>6. BoardHolds /\ [StandNext]_standVars
        => [\A w \in Stranded : (state'[w] # "running") /\ (w \in Stranded')]_state
  BY <1>5
<1> QED
  BY <1>1, <1>3, <1>6, PTL DEF StandSpec, StrandedNeverRuns

-----------------------------------------------------------------------------
(* Types.  Each component's variables keep theirs; what an invariant above  *)
(* already holds of them is taken from it.                                  *)

LEMMA BriefTyped == BriefHolds => BriefTypeOK
<1> SUFFICES ASSUME BriefHolds PROVE BriefTypeOK
  OBVIOUS
<1>1. BriefTypes /\ logs \in Seq(Attempt) /\ DOMAIN logs = 1..Len(logs)
  BY DEF BriefHolds, BriefTypes
<1>2. \A k \in DOMAIN logs : logs[k] \in Attempt
  BY <1>1
<1>3. \A k \in DOMAIN logs : logs[k].verdict \in {"accepted", "rejected", "failed"}
  BY <1>2 DEF Attempt
<1>4. toldAgent.required \in BOOLEAN /\ toldAgent.reasons \subseteq Findings
  BY <1>1 DEF BriefTypes, Instructions
<1> QED
  BY <1>1, <1>3, <1>4 DEF BriefTypes, BriefTypeOK

LEMMA CardsTyped == CardsHold => CardsTypeOK
<1> SUFFICES ASSUME CardsHold PROVE CardsTypeOK
  OBVIOUS
<1>1. \A c \in Served : DOMAIN onCard[c] = 1..Len(onCard[c])
  BY DEF CardsHold, CardTypes
<1> QED
  BY <1>1 DEF CardsHold, CardTypes, PageInHand, CardsTypeOK, Served

(* The reading of a message. *)
IntakeTyped ==
  /\ IntakeInv
  /\ Len(spoken) <= MaxSaid /\ again \subseteq 1..Len(spoken)
  /\ turn \in {"idle", "read", "interpret", "reply"}
  /\ turns \in Seq(0..Len(spoken)) /\ history \in Seq(0..Len(spoken))
  /\ places \in {{Home}, {Home, Away}} /\ dropouts \in 0..MaxDropouts

LEMMA IntakeBounds == MaxSaid \in Nat /\ MaxDropouts \in Nat
  BY IntakeAssumption, Zenon DEF IntakeAssumption

LEMMA IntakeTypedStarts == IntakeInit => IntakeTyped
<1> SUFFICES ASSUME IntakeInit PROVE IntakeTyped
  OBVIOUS
<1>1. IntakeInv
  BY IntakeInvStarts
<1>2. spoken = <<>> /\ Len(spoken) = 0 /\ turns = <<>> /\ history = <<>> /\ dropouts = 0
  BY DEF IntakeInit
<1>3. again = {} /\ turn = "idle" /\ places = {Home, Away}
  BY DEF IntakeInit
<1> QED
  BY <1>1, <1>2, <1>3, IntakeBounds DEF IntakeTyped

LEMMA IntakeTypedStep == IntakeTyped /\ [IntakeNext]_intakeVars => IntakeTyped'
<1> SUFFICES ASSUME IntakeTyped, [IntakeNext]_intakeVars PROVE IntakeTyped'
  OBVIOUS
<1>0. /\ spoken \in Seq(Utterances) /\ Len(spoken) \in Nat
      /\ turns \in Seq(0..Len(spoken)) /\ history \in Seq(0..Len(spoken))
      /\ hand \in 0..Len(spoken) /\ settled \in 0..hand
      /\ MaxSaid \in Nat /\ MaxDropouts \in Nat
  BY IntakeBounds DEF IntakeTyped, IntakeInv, InHand
<1>1. IntakeInv'
  BY InterpretsKeeps, OthersKeep DEF IntakeTyped, IntakeNext
<1>2. ASSUME NEW u \in Utterances, Says(u) PROVE IntakeTyped'
  <2>1. /\ Len(spoken) < MaxSaid /\ spoken' = Append(spoken, u)
        /\ UNCHANGED <<again, turn, turns, history, places, dropouts>>
    BY <1>2 DEF Says
  <2>2. Len(spoken') = Len(spoken) + 1
    BY ONLY <1>0, <2>1, SeqGrows
  <2>3. 0..Len(spoken) \subseteq 0..Len(spoken')
    BY ONLY <1>0, <2>2
  <2>4. turns \in Seq(0..Len(spoken')) /\ history \in Seq(0..Len(spoken'))
    BY ONLY <1>0, <2>3, SeqOfMore
  <2> QED
    BY <1>0, <1>1, <2>1, <2>2, <2>4 DEF IntakeTyped
<1>3. CASE Takes \/ Interprets \/ UNCHANGED intakeVars
  <2>1. /\ turn' \in {"idle", "read", "interpret", "reply"}
        /\ UNCHANGED <<spoken, again, turns, history, places, dropouts>>
    BY <1>3 DEF Takes, Interprets, intakeVars, IntakeTyped
  <2> QED
    BY <1>1, <2>1 DEF IntakeTyped
<1>4. CASE RecordsTurn
  <2>1. /\ turn' = "interpret" /\ history' = turns /\ turns' = Append(turns, hand)
        /\ UNCHANGED <<spoken, again, places, dropouts>>
    BY <1>4 DEF RecordsTurn, ReadBeforeIt
  <2>2. turns' \in Seq(0..Len(spoken))
    BY ONLY <1>0, <2>1, SeqGrows
  <2> QED
    BY <1>0, <1>1, <2>1, <2>2 DEF IntakeTyped
<1>5. CASE SendsReply
  <2>1. /\ turn' = "idle" /\ history' = <<>> /\ turns' = Append(turns, 0)
        /\ UNCHANGED <<spoken, again, places, dropouts>>
    BY <1>5 DEF SendsReply, Forgets
  <2>2. 0 \in 0..Len(spoken)
    BY <1>0
  <2>3. turns' \in Seq(0..Len(spoken)) /\ history' \in Seq(0..Len(spoken))
    BY ONLY <1>0, <2>1, <2>2, SeqGrows
  <2> QED
    BY <1>0, <1>1, <2>1, <2>3 DEF IntakeTyped
<1>6. CASE DropsOut
  <2>1. /\ turn' = "idle" /\ history' = <<>> /\ dropouts < MaxDropouts
        /\ dropouts' = dropouts + 1 /\ places' \in {places, {Home}}
        /\ again' = again \cup {k \in 1..hand : k > settled}
        /\ UNCHANGED <<spoken, turns>>
    BY <1>6 DEF DropsOut, Forgets
  <2>2. {k \in 1..hand : k > settled} \subseteq 1..Len(spoken)
    BY <1>0
  <2>3. again' \subseteq 1..Len(spoken)
    BY <2>1, <2>2 DEF IntakeTyped
  <2>4. history' \in Seq(0..Len(spoken))
    BY <2>1
  <2> QED
    BY <1>0, <1>1, <2>1, <2>3, <2>4 DEF IntakeTyped
<1> QED
  BY <1>2, <1>3, <1>4, <1>5, <1>6 DEF IntakeNext

LEMMA IntakeTypedIs == IntakeTyped => IntakeTypeOK
<1> SUFFICES ASSUME IntakeTyped PROVE IntakeTypeOK
  OBVIOUS
<1>1. /\ \A k \in DOMAIN turns : turns[k] \in 0..Len(spoken)
      /\ \A k \in DOMAIN history : history[k] \in 0..Len(spoken)
  BY DEF IntakeTyped
<1>2. \A k \in DOMAIN made : made[k].of \in 1..Len(spoken)
  BY DEF IntakeTyped, IntakeInv, AllFaithful, Faithful
<1> QED
  BY <1>1, <1>2 DEF IntakeTyped, IntakeInv, InHand, IntakeTypeOK

(* The digest. *)
StandTyped ==
  /\ BoardHolds
  /\ idleFor = Silence \/ idleFor \in 0..MaxQuiet
  /\ since \in 0..RepeatAfter /\ spaced \in [Readers -> 0..RepeatAfter]
  /\ toTell \in Seq(Readers) /\ (toTell # <<>> => saying # Silence)
  /\ refusals \in 0..MaxRefusals

LEMMA DigestBounds ==
  /\ RepeatAfter \in Nat /\ MaxQuiet \in Nat /\ MaxRefusals \in Nat
  /\ IsFiniteSet(Readers)
  BY StandstillAssumption DEF StandstillAssumption

LEMMA CappedHours ==
  ASSUME NEW n \in Nat, NEW t \in 0..n
  PROVE  Min({t + 1, n}) \in 0..n
<1>1. {t + 1, n} \subseteq Nat /\ {t + 1, n} # {}
  OBVIOUS
<1>2. Min({t + 1, n}) \in {t + 1, n} /\ \A m \in {t + 1, n} : Min({t + 1, n}) <= m
  BY ONLY <1>1, LeastOf
<1> QED
  BY <1>1, <1>2

LEMMA StandTypedStarts == StandInit => StandTyped
<1> SUFFICES ASSUME StandInit PROVE StandTyped
  OBVIOUS
<1>1. BoardHolds
  BY StandstillAssumption
     DEF StandInit, BoardHolds, Begun, Statuses, Settled, Waiting, StandstillAssumption, ToSet
<1> QED
  BY <1>1, DigestBounds DEF StandInit, StandTyped

LEMMA StandTypedStep == StandTyped /\ [StandNext]_standVars => StandTyped'
<1> SUFFICES ASSUME StandTyped, [StandNext]_standVars PROVE StandTyped'
  OBVIOUS
<1> USE DEF workVars, toldVars
<1>0. BoardHolds'
  BY BoardStep DEF StandTyped
<1>1. ASSUME NEW w \in Works, Claimed(w) \/ Retried(w) PROVE StandTyped'
  BY <1>0, <1>1 DEF Claimed, Retried, StandTyped
<1>2. ASSUME NEW w \in Works, NEW status \in {"done", "blocked", "cancelled"}, EndsAs(w, status)
      PROVE  StandTyped'
  BY <1>0, <1>2, DigestBounds DEF EndsAs, StandTyped
<1>3. CASE ReadsBoard
  <2>1. /\ toTell' = SetToSeq(Readers) /\ saying' # Silence
        /\ UNCHANGED <<idleFor, since, spaced, refusals>>
    BY <1>3 DEF ReadsBoard
  <2>2. toTell' \in Seq(Readers)
    BY <2>1, DigestBounds, SetAsSeq
  <2> QED
    BY <1>0, <2>1, <2>2 DEF StandTyped
<1>4. CASE Tells
  <2>1. /\ toTell # <<>> /\ toTell' = Tail(toTell)
        /\ spaced' = [spaced EXCEPT ![Head(toTell)] = 0]
        /\ UNCHANGED <<idleFor, since, saying, refusals>>
    BY <1>4 DEF Tells
  <2>2. toTell' \in Seq(Readers) /\ Head(toTell) \in Readers
    BY <2>1 DEF StandTyped
  <2>3. spaced' \in [Readers -> 0..RepeatAfter]
    BY <2>1, DigestBounds DEF StandTyped
  <2> QED
    BY <1>0, <2>1, <2>2, <2>3 DEF StandTyped
<1>5. CASE Remembers
  BY <1>0, <1>5, DigestBounds DEF Remembers, StandTyped
<1>6. CASE TellFails
  <2>1. /\ toTell' = <<>> /\ refusals < MaxRefusals /\ refusals' = refusals + 1
        /\ UNCHANGED <<idleFor, since, spaced>>
    BY <1>6 DEF TellFails
  <2>2. toTell' \in Seq(Readers) /\ refusals' \in 0..MaxRefusals
    BY <2>1, DigestBounds DEF StandTyped
  <2> QED
    BY <1>0, <2>1, <2>2 DEF StandTyped
<1>7. CASE HourGoesBy
  <2>1. /\ idleFor' = IF idleFor = Silence THEN idleFor ELSE Min({idleFor + 1, MaxQuiet})
        /\ since' = Min({since + 1, RepeatAfter})
        /\ spaced' = [c \in Readers |-> Min({spaced[c] + 1, RepeatAfter})]
        /\ UNCHANGED <<toTell, saying, refusals>>
    BY <1>7 DEF HourGoesBy
  <2>2. idleFor' = Silence \/ idleFor' \in 0..MaxQuiet
    BY <2>1, DigestBounds, CappedHours DEF StandTyped
  <2>3. since' \in 0..RepeatAfter
    BY <2>1, DigestBounds, CappedHours DEF StandTyped
  <2>4. \A c \in Readers : Min({spaced[c] + 1, RepeatAfter}) \in 0..RepeatAfter
    BY DigestBounds, CappedHours DEF StandTyped
  <2> QED
    BY <1>0, <2>1, <2>2, <2>3, <2>4 DEF StandTyped
<1>8. CASE UNCHANGED standVars
  BY <1>0, <1>8 DEF standVars, StandTyped
<1> QED
  BY <1>1, <1>2, <1>3, <1>4, <1>5, <1>6, <1>7, <1>8 DEF StandNext, PublishStandstill

LEMMA StandTypedIs == StandTyped => StandTypeOK
<1> SUFFICES ASSUME StandTyped PROVE StandTypeOK
  OBVIOUS
<1>1. ToSet(toTell) \subseteq Readers
  BY DEF StandTyped, ToSet
<1> QED
  BY <1>1 DEF StandTyped, BoardHolds, Statuses, StandTypeOK

(* Proposals. *)
Fates == {"pending", "approved", "rejected", "expired"}

LearnTyped ==
  /\ LessonsHold /\ recorded <= MaxRecords /\ rotations \in 0..MaxRotations
  /\ pass \in {"idle", "propose", "persist"}
  /\ \A p \in DOMAIN fate : fate[p] \in Fates
  /\ lapsed \subseteq DOMAIN fate /\ told \subseteq (DOMAIN fate) \X Chats
  /\ row \in {"ready", "running", "done", "blocked", "archived"}

LEMMA LearnTypedStarts == LearnInit => LearnTyped
  BY LearningAssumption
     DEF LearningAssumption, LearnInit, LearnTyped, LessonsHold, FileHolds, IndexHolds, RulesRest

LEMMA LearnTypedStep == LearnTyped /\ [LearnNext]_learnVars => LearnTyped'
<1> SUFFICES ASSUME LearnTyped, [LearnNext]_learnVars PROVE LearnTyped'
  OBVIOUS
<1> USE DEF fileVars, passVars, boardLVars, taskVars
<1>0. LessonsHold'
  BY LessonsStep DEF LearnTyped
<1>1. recorded \in Nat /\ MaxRecords \in Nat /\ MaxRotations \in Nat
  BY LearningAssumption DEF LearningAssumption, LearnTyped, LessonsHold, FileHolds
<1>2. ASSUME NEW p, Created(p), UNCHANGED <<recorded, rotations, lapsed, told>>,
             pass' \in {"idle", "propose", "persist"},
             row' \in {"ready", "running", "done", "blocked", "archived"}
      PROVE  LearnTyped'
  <2>1. \A q \in DOMAIN fate' : fate'[q] \in Fates
    BY <1>2 DEF Created, LearnTyped, Fates
  <2>2. DOMAIN fate \subseteq DOMAIN fate'
    BY <1>2, FateOfProposals
  <2>3. lapsed' \subseteq DOMAIN fate' /\ told' \subseteq (DOMAIN fate') \X Chats
    BY <1>2, <2>2 DEF LearnTyped
  <2> QED
    BY <1>0, <1>2, <2>1, <2>3 DEF LearnTyped
<1>3. ASSUME NEW p \in DOMAIN fate, NEW verdict \in Fates, Decides(p, verdict),
             row' \in {"ready", "running", "done", "blocked", "archived"}
      PROVE  LearnTyped'
  BY <1>0, <1>3 DEF Decides, LearnTyped
<1>4. ASSUME NEW g, NEW separator \in BOOLEAN, Records(g, separator) PROVE LearnTyped'
  <2>1. /\ recorded' <= MaxRecords
        /\ UNCHANGED <<rotations, pass, fate, lapsed, told, row>>
    BY <1>1, <1>4 DEF Records
  <2> QED
    BY <1>0, <2>1 DEF LearnTyped
<1>5. CASE Rotates
  <2>1. /\ rotations' = rotations + 1 /\ rotations < MaxRotations
        /\ UNCHANGED <<recorded, pass, fate, lapsed, told, row>>
    BY <1>5 DEF Rotates
  <2>2. rotations' \in 0..MaxRotations
    BY <1>1, <2>1 DEF LearnTyped
  <2> QED
    BY <1>0, <2>1, <2>2 DEF LearnTyped
<1>6. CASE Syncs \/ Proposes \/ EndsPass
  BY <1>0, <1>6 DEF Syncs, Proposes, EndsPass, LearnTyped
<1>7. CASE Persists
  <2>1. /\ UNCHANGED <<recorded, rotations, lapsed, told, row>>
        /\ pass' \in {"idle", "propose", "persist"}
        /\ UNCHANGED fate \/ \E d \in drafts : Created(d)
    BY <1>7 DEF Persists, LearnTyped
  <2>2. CASE UNCHANGED fate
    BY <1>0, <2>1, <2>2 DEF LearnTyped
  <2>3. CASE \E d \in drafts : Created(d)
    BY <1>2, <2>1, <2>3 DEF LearnTyped
  <2> QED
    BY <2>1, <2>2, <2>3
<1>8. CASE Operates
  <2>1. ASSUME NEW p \in DOMAIN fate, NEW chat \in Chats, Announces(p, chat) PROVE LearnTyped'
    BY <1>0, <2>1 DEF Announces, LearnTyped
  <2>2. ASSUME NEW p \in DOMAIN fate, Rejects(p) PROVE LearnTyped'
    BY <1>3, <2>2 DEF Rejects, Fates, LearnTyped
  <2> QED
    BY <1>8, <2>1, <2>2 DEF Operates
<1>9. ASSUME NEW p \in DOMAIN fate, ApprovesRule(p) PROVE LearnTyped'
  <2>1. row' = row
        /\ (Decides(p, "approved") \/ Decides(p, "expired"))
    BY <1>9 DEF ApprovesRule
  <2> QED
    BY <1>3, <2>1 DEF Fates, LearnTyped
<1>10. ASSUME NEW p \in DOMAIN fate, Lapses(p) PROVE LearnTyped'
  BY <1>0, <1>10 DEF Lapses, LearnTyped
<1>11. CASE RunStarts
  BY <1>0, <1>11 DEF RunStarts, LearnTyped
<1>12. ASSUME NEW o \in {"passed", "failed"}, RunEnds(o) PROVE LearnTyped'
  BY <1>2, <1>12 DEF RunEnds, LearnTyped
<1>13. ASSUME NEW p \in DOMAIN fate, ApprovesArchive(p) \/ ApprovesRetry(p) PROVE LearnTyped'
  BY <1>3, <1>13 DEF ApprovesArchive, ApprovesRetry, Fates
<1>14. CASE UNCHANGED learnVars
  BY <1>0, <1>14 DEF learnVars, LearnTyped
<1> QED
  BY <1>4, <1>5, <1>6, <1>7, <1>8, <1>9, <1>10, <1>11, <1>12, <1>13, <1>14
     DEF LearnNext, LessonNext, OutcomeNext, LearningPass

LEMMA LearnTypedIs == LearnTyped => LearnTypeOK
<1> SUFFICES ASSUME LearnTyped PROVE LearnTypeOK
  OBVIOUS
<1>1. \A i \in DOMAIN ledger : ledger[i] \in LedgerLines
  BY DEF LearnTyped, LessonsHold, FileHolds
<1>2. recorded \in 0..MaxRecords
  BY LearningAssumption DEF LearningAssumption, LearnTyped, LessonsHold, FileHolds
<1> QED
  BY <1>1, <1>2 DEF LedgerLines, LearnTyped, Fates, LearnTypeOK

(* The file index. *)
IndexTyped ==
  /\ IndexHeld
  /\ locked \subseteq Folders /\ moves \in 0..MaxMoves
  /\ indexing \in {"idle", "scan", "index", "summary"} /\ scans \in 0..MaxScans
  /\ flawed \in BOOLEAN
  /\ loading.at \in {"idle", "summary", "compare", "index", "keep"}
  /\ readFaults \in 0..MaxReadFaults

LEMMA IndexTypedStep == IndexTyped /\ [FileIndexNext]_indexVars => IndexTyped'
<1> SUFFICES ASSUME IndexTyped, [FileIndexNext]_indexVars PROVE IndexTyped'
  OBVIOUS
<1> USE DEF folderVars, agentVars, filesVars, viewVars
<1>0. IndexHeld'
  BY IndexHeldStep DEF IndexTyped
<1>1. MaxMoves \in Nat /\ MaxScans \in Nat /\ MaxReadFaults \in Nat
  BY FileIndexAssumption DEF FileIndexAssumption
<1>2. CASE FolderMoves
  <2>1. /\ UNCHANGED <<indexing, scans, flawed, loading, readFaults>>
        /\ moves < MaxMoves /\ moves' = moves + 1
        /\ \E e \in Entries : EntryGoes(e) \/ EntryComes(e) \/ FolderLocks(e)
    BY <1>2 DEF FolderMoves
  <2>2. locked' \subseteq Folders
    BY <2>1 DEF EntryGoes, EntryComes, FolderLocks, IndexTyped
  <2>3. moves' \in 0..MaxMoves
    BY <1>1, <2>1 DEF IndexTyped
  <2> QED
    BY <1>0, <2>1, <2>2, <2>3 DEF IndexTyped
<1>3. CASE AgentDies
  BY <1>0, <1>3 DEF AgentDies, IndexTyped
<1>4. CASE ScanBegins
  <2>1. /\ UNCHANGED <<locked, moves, loading, readFaults>>
        /\ scans < MaxScans /\ scans' = scans + 1 /\ indexing' = "scan" /\ flawed' = FALSE
    BY <1>4 DEF ScanBegins
  <2>2. scans' \in 0..MaxScans
    BY <1>1, <2>1 DEF IndexTyped
  <2> QED
    BY <1>0, <2>1, <2>2 DEF IndexTyped
<1>5. CASE VisitsOne
  <2>1. /\ UNCHANGED <<locked, moves, indexing, scans, loading, readFaults>>
        /\ flawed' \in {TRUE, flawed}
    BY <1>5 DEF VisitsOne, VisitsGone, VisitsSkipped, VisitsLocked, VisitsKept, Visits,
                LeftWithDiagnostic
  <2> QED
    BY <1>0, <2>1 DEF IndexTyped
<1>6. CASE ScanEnds \/ WritesIndex \/ WritesSummary
  <2>1. /\ UNCHANGED <<locked, moves, scans, flawed, loading, readFaults>>
        /\ indexing' \in {"index", "summary", "idle"}
    BY <1>6 DEF ScanEnds, WritesIndex, WritesSummary
  <2> QED
    BY <1>0, <2>1 DEF IndexTyped
<1>7. CASE LoadStep \/ FileReadFails
  <2>1. UNCHANGED <<locked, moves, indexing, scans, flawed>>
    BY <1>7 DEF LoadStep, FileReadFails, LoadBegins, ReadsSummary, TakesSummary,
                RefusesSummary, ReadsIndex, KeepsLoad, Loads
  <2>2. loading'.at \in {"idle", "summary", "compare", "index", "keep"}
    <3>1. DOMAIN loading = {"at", "sig", "read", "count", "spoilt"}
      BY DEF IndexTyped, IndexHeld, Shown
    <3>2. CASE LoadBegins
      <4> DEFINE begun == [NoLoad EXCEPT !.at = "summary", !.sig = Signature]
      <4>1. begun.at = "summary" /\ "at" \in DOMAIN begun
        BY DEF NoLoad
      <4>2. loading' = [begun EXCEPT !.at = @]
        BY <3>2 DEF LoadBegins, Loads
      <4> HIDE DEF begun
      <4> QED
        BY <4>1, <4>2
    <3>8. CASE KeepsLoad
      BY <3>8 DEF KeepsLoad, NoLoad
    <3>3. CASE ReadsSummary
      BY <3>1, <3>3 DEF ReadsSummary, Loads
    <3>4. CASE TakesSummary
      BY <3>1, <3>4 DEF TakesSummary, Loads
    <3>5. CASE RefusesSummary
      BY <3>1, <3>5 DEF RefusesSummary, Loads
    <3>6. CASE ReadsIndex
      BY <3>1, <3>6 DEF ReadsIndex, Loads
    <3>7. CASE FileReadFails
      BY <3>1, <3>7 DEF FileReadFails, Loads
    <3> QED
      BY <1>7, <3>2, <3>3, <3>4, <3>5, <3>6, <3>7, <3>8 DEF LoadStep
  <2>3. readFaults' \in 0..MaxReadFaults
    <3>1. \/ UNCHANGED readFaults
          \/ readFaults < MaxReadFaults /\ readFaults' = readFaults + 1
      BY <1>7 DEF LoadStep, FileReadFails, LoadBegins, ReadsSummary, TakesSummary,
                  RefusesSummary, ReadsIndex, KeepsLoad
    <3> QED
      BY <1>1, <3>1 DEF IndexTyped
  <2> QED
    BY <1>0, <2>1, <2>2, <2>3 DEF IndexTyped
<1>8. CASE UNCHANGED indexVars
  BY <1>0, <1>8 DEF indexVars, IndexTyped
<1> QED
  BY <1>2, <1>3, <1>4, <1>5, <1>6, <1>7, <1>8 DEF FileIndexNext, AgentStep

LEMMA IndexTypedStarts == FileIndexInit => IndexTyped
<1> SUFFICES ASSUME FileIndexInit PROVE IndexTyped
  OBVIOUS
<1>1. IndexHeld
  BY IndexHeldFirst
<1>2. loading.at = "idle" /\ indexing = "idle" /\ flawed = FALSE /\ locked = {}
  BY DEF FileIndexInit, NoLoad
<1>3. moves \in 0..MaxMoves /\ scans \in 0..MaxScans /\ readFaults \in 0..MaxReadFaults
  BY FileIndexAssumption DEF FileIndexAssumption, FileIndexInit
<1> QED
  BY <1>1, <1>2, <1>3 DEF IndexTyped

LEMMA IndexTypedIs == IndexTyped => FileIndexTypeOK
  BY DEF IndexTyped, IndexHeld, Scanned, Counted, Editions, FileIndexTypeOK

(* All components together: whichever moves, it takes a step of its own,    *)
(* and the others stay as they are.                                         *)
AllTyped ==
  /\ PhoneInv /\ TypeOK /\ IntakeTyped /\ MailHolds /\ BriefHolds /\ RunHolds
  /\ CardsHold /\ StandTyped /\ LearnTyped /\ MemoryHolds /\ IndexTyped

LEMMA PartsMove ==
  [MCNext]_MCVars =>
    /\ [PhoneNext]_phoneVars /\ [Next]_vars /\ [IntakeNext]_intakeVars
    /\ [AttachmentsNext]_attachmentVars /\ [BriefNext]_briefVars
    /\ [ArtifactsNext]_artifactVars /\ [CardsNext]_cardVars /\ [StandNext]_standVars
    /\ [LearnNext]_learnVars /\ [BrainNext]_brainVars /\ [FileIndexNext]_indexVars
  BY DEF MCNext, MCVars, PhonePart, PlanPart, IntakePart, MailPart, BriefPart, RunPart,
         CardPart, DigestPart, LessonsPart, OutcomesPart, MemoryPart, IndexPart, LearnNext

(* Every variable of these components has its type, whatever the bounds.    *)
THEOREM ConversationTypes == MCSpec => []ConversationTypeOK
<1>1. MCInit => AllTyped
  BY PhoneInvStarts, PlanStarts, IntakeTypedStarts, MailStarts, BriefHoldsFirst, RunHoldsFirst,
     CardsStart, StandTypedStarts, LearnTypedStarts, MemoryStarts, IndexTypedStarts
     DEF MCInit, AllTyped
<1>2. AllTyped /\ [MCNext]_MCVars => AllTyped'
  <2> SUFFICES ASSUME AllTyped, [MCNext]_MCVars PROVE AllTyped'
    OBVIOUS
  <2>1. PhoneInv' /\ TypeOK' /\ IntakeTyped'
    BY PartsMove, InvStep, PlanStep, IntakeTypedStep DEF AllTyped
  <2>2. MailHolds' /\ BriefHolds' /\ RunHolds' /\ CardsHold'
    BY PartsMove, MailStep, BriefStep, RunStep, CardsStep DEF AllTyped
  <2>3. StandTyped' /\ LearnTyped' /\ MemoryHolds' /\ IndexTyped'
    BY PartsMove, StandTypedStep, LearnTypedStep, MemoryStep, IndexTypedStep DEF AllTyped
  <2> QED
    BY <2>1, <2>2, <2>3 DEF AllTyped
<1>3. AllTyped => ConversationTypeOK
  <2> SUFFICES ASSUME AllTyped PROVE ConversationTypeOK
    OBVIOUS
  <2>1. PhoneTypeOK /\ TypeOK /\ IntakeTypeOK /\ AttachmentsTypeOK
    BY IntakeTypedIs DEF AllTyped, PhoneInv, MailHolds
  <2>2. BriefTypeOK /\ ArtifactsTypeOK /\ CardsTypeOK
    BY BriefTyped, CardsTyped DEF AllTyped, RunHolds, RunTypes
  <2>3. StandTypeOK /\ LearnTypeOK /\ BrainTypeOK /\ FileIndexTypeOK
    BY StandTypedIs, LearnTypedIs, IndexTypedIs DEF AllTyped, MemoryHolds, StoreHolds
  <2> QED
    BY <2>1, <2>2, <2>3 DEF ConversationTypeOK
<1> QED
  BY <1>1, <1>2, <1>3, PTL DEF MCSpec

=============================================================================
