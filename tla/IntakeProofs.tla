---------------------------- MODULE IntakeProofs ----------------------------
(***************************************************************************)
(* Theorems about Intake: for every set of messages and whatever the model *)
(* replies, nothing that goes outside starts from a reading, no words are  *)
(* lost on the way to the agent, a follow-up stays where its task is, and  *)
(* a message is read for what it is and against what came before it.       *)
(***************************************************************************)
EXTENDS Intake, TLAPS

Readings == [intent : Intents, brief : 0..2, question : BOOLEAN, external : BOOLEAN]

WorkKinds == [of : Nat, at : {Home, Away}, brief : 0..2, parent : BOOLEAN, split : BOOLEAN]

(* What a task or a staged request owes to the message it comes from. *)
Faithful(w) ==
  /\ w.of \in 1..Len(spoken)
  /\ w.brief >= spoken[w.of].length
  /\ w.parent => ~w.split /\ (w.at = Away \/ Away \notin places)

(* A message in hand has been spoken. *)
InHand ==
  /\ spoken \in Seq(Utterances)
  /\ hand \in 0..Len(spoken) /\ settled \in 0..hand
  /\ turn # "idle" => hand # 0

AllFaithful ==
  /\ made \in Seq(WorkKinds)
  /\ \A k \in DOMAIN made : Faithful(made[k]) /\ ~spoken[made[k].of].external

AllReadable ==
  /\ asked \in Seq([work : WorkKinds, open : BOOLEAN])
  /\ \A k \in DOMAIN asked : Faithful(asked[k].work)

IntakeInv == InHand /\ places \subseteq {Home, Away} /\ AllFaithful /\ AllReadable

-----------------------------------------------------------------------------
LEMMA UtteranceFacts ==
  /\ Home # Away
  /\ \A u \in Utterances :
       /\ u.external \in BOOLEAN /\ u.about \in BOOLEAN /\ u.length \in 0..2
       /\ u.says = "nothing" => u.length = 0
  BY IntakeAssumption DEF IntakeAssumption

LEMMA ReadingFields ==
  ASSUME NEW i, NEW b, NEW q, NEW e
  PROVE  /\ Reading(i, b, q, e).intent = i /\ Reading(i, b, q, e).brief = b
         /\ Reading(i, b, q, e).question = q /\ Reading(i, b, q, e).external = e
         /\ i \in Intents /\ b \in 0..2 /\ q \in BOOLEAN /\ e \in BOOLEAN
              => Reading(i, b, q, e) \in Readings
  BY DEF Reading, Readings

(* A reading is never less careful than the rules: it keeps what makes the  *)
(* message external, and what is read as work keeps its words.              *)
LEMMA ReadingKeeps ==
  ASSUME NEW u \in Utterances, NEW context, NEW g \in Interpretations(u, context)
  PROVE  /\ g \in Readings
         /\ u.external => g.external
         /\ ToWork(g) => g.brief >= u.length
<1>1. PICK i \in Intents, b \in 0..2, q \in BOOLEAN, e \in BOOLEAN :
        /\ g = Reading(i, b, q, e) /\ (u.external => e)
        /\ i \in Builds => b >= u.length
  <2>1. CASE g = ReadWithoutModel(u, context)
    <3>1. 0 \in 0..2 /\ u.length \in 0..2 /\ u.external \in BOOLEAN
          /\ (u.thin # "") \in BOOLEAN /\ TRUE \in BOOLEAN /\ FALSE \in BOOLEAN
      BY UtteranceFacts
    <3>2. \/ g = Reading("unclear", 0, TRUE, u.external)
          \/ g = Reading("stop", 0, FALSE, u.external)
          \/ g = Reading("chat", 0, FALSE, u.external)
          \/ g = Reading("ask", 0, FALSE, u.external)
          \/ g = Reading("refine", u.length, FALSE, u.external)
          \/ g = Reading("build", u.length, u.thin # "", u.external)
      BY <2>1 DEF ReadWithoutModel
    <3>3. u.length >= u.length
      BY <3>1
    <3> QED
      BY <3>1, <3>2, <3>3, Zenon DEF Intents, Builds
  <2>2. CASE \E reply \in Replies : g = ParseModelReply(u, reply)
    <3>1. PICK reply \in Replies : g = ParseModelReply(u, reply)
      BY <2>2
    <3>2. /\ reply.intent \in Intents /\ reply.brief \in 0..2
          /\ reply.question \in BOOLEAN /\ reply.external \in BOOLEAN
      BY DEF Replies
    <3>3. BriefKept(u, reply) \in 0..2 /\ BriefKept(u, reply) >= u.length
      BY <3>2, UtteranceFacts DEF BriefKept
    <3>4. AsksIfThin(u, reply) \in BOOLEAN /\ RaisedOnly(u, reply) \in BOOLEAN
          /\ (u.external => RaisedOnly(u, reply))
      BY <3>2, UtteranceFacts, Zenon DEF AsksIfThin, RaisedOnly
    <3> DEFINE b == IF reply.intent \in Builds THEN BriefKept(u, reply) ELSE 0
    <3>5. b \in 0..2 /\ (reply.intent \in Builds => b >= u.length)
      BY <3>3
    <3>6. g = Reading(reply.intent, b, AsksIfThin(u, reply), RaisedOnly(u, reply))
      BY <3>1 DEF ParseModelReply
    <3> HIDE DEF b
    <3> QED
      BY <3>2, <3>4, <3>5, <3>6, Zenon
  <2> QED
    BY <2>1, <2>2, Zenon DEF Interpretations
<1>2. g \in Readings /\ g.intent = i /\ g.brief = b /\ g.external = e
  BY <1>1, ReadingFields
<1>3. ToWork(g) => i \in Builds
  BY <1>2 DEF ToWork, Talks, Intents, Builds
<1> QED
  BY <1>1, <1>2, <1>3, Zenon

(* What a reading of the message in hand makes of it keeps all of that. *)
LEMMA WorkIsFaithful ==
  ASSUME IntakeInv, hand # 0, NEW g \in Readings, g.brief >= spoken[hand].length,
         NEW split \in MaySplit(spoken[hand])
  PROVE  LET w == [Work(spoken[hand], g) EXCEPT !.split = split]
         IN  w \in WorkKinds /\ Faithful(w) /\ w.of = hand
<1> DEFINE u == spoken[hand]
           w == [Work(u, g) EXCEPT !.split = split]
<1>1. u \in Utterances /\ hand \in 1..Len(spoken) /\ u.about \in BOOLEAN
  BY UtteranceFacts DEF IntakeInv, InHand
<1>2. split \in BOOLEAN /\ (u.about => ~split)
  BY <1>1 DEF MaySplit
<1>3. WorkspaceFor(u) \in {Home, Away}
      /\ (u.about => WorkspaceFor(u) = Away \/ Away \notin places)
  BY DEF WorkspaceFor
<1>4. w = [of |-> hand, at |-> WorkspaceFor(u), brief |-> g.brief,
           parent |-> u.about, split |-> split]
  BY DEF Work
<1>5. g.brief \in 0..2
  BY DEF Readings
<1>6. w.of = hand /\ w.brief = g.brief /\ w.parent = u.about /\ w.split = split
      /\ w.at = WorkspaceFor(u)
  BY <1>4
<1>7. w \in WorkKinds
  BY <1>1, <1>2, <1>3, <1>4, <1>5 DEF WorkKinds
<1>8. Faithful(w)
  BY <1>1, <1>2, <1>3, <1>6 DEF Faithful
<1> QED
  BY <1>6, <1>7, <1>8

-----------------------------------------------------------------------------
LEMMA IntakeInvStarts == IntakeInit => IntakeInv
  BY DEF IntakeInit, IntakeInv, InHand, AllFaithful, AllReadable

(* Only Interprets creates or stages anything, from the message in hand. *)
LEMMA InterpretsKeeps == ASSUME IntakeInv, Interprets PROVE IntakeInv'
<1> DEFINE u == spoken[hand]
<1>1. /\ hand # 0 /\ u \in Utterances
      /\ UNCHANGED <<spoken, settled, hand, places>>
  BY DEF IntakeInv, InHand, Interprets
<1>2. InHand' /\ places' \subseteq {Home, Away}
  BY <1>1 DEF IntakeInv, InHand
<1>3. PICK g \in Interpretations(u, history) :
        Replied(g) \/ Stopped(g) \/ Staged(u, g) \/ Started(u, g)
  BY DEF Interprets
<1>4. g \in Readings /\ (u.external => g.external) /\ (ToWork(g) => g.brief >= u.length)
  BY <1>1, <1>3, ReadingKeeps
<1>5. \A w : Faithful(w)' <=> Faithful(w)
  BY <1>1 DEF Faithful
<1>6. CASE Replied(g)
  BY <1>1, <1>2, <1>5, <1>6 DEF Replied, IntakeInv, AllFaithful, AllReadable
<1>7. CASE Stopped(g)
  <2>1. AllFaithful'
    BY <1>1, <1>5, <1>7 DEF Stopped, IntakeInv, AllFaithful
  <2>2. asked' \in Seq([work : WorkKinds, open : BOOLEAN])
        /\ DOMAIN asked' = DOMAIN asked
        /\ \A k \in DOMAIN asked : asked'[k].work = asked[k].work
    <3>1. asked' = [k \in DOMAIN asked |-> [asked[k] EXCEPT !.open = FALSE]]
      BY <1>7 DEF Stopped
    <3> DEFINE Requests == [work : WorkKinds, open : BOOLEAN]
    <3>0. asked \in Seq(Requests)
      BY DEF IntakeInv, AllReadable
    <3> HIDE DEF Requests
    <3>2. Len(asked) \in Nat /\ DOMAIN asked = 1..Len(asked)
          /\ \A k \in DOMAIN asked : asked[k] \in Requests
      BY <3>0
    <3> USE DEF Requests
    <3>3. \A k \in DOMAIN asked :
            /\ [asked[k] EXCEPT !.open = FALSE] \in [work : WorkKinds, open : BOOLEAN]
            /\ [asked[k] EXCEPT !.open = FALSE].work = asked[k].work
      BY <3>2
    <3> QED
      BY <3>1, <3>2, <3>3
  <2> QED
    BY <1>2, <1>5, <2>1, <2>2 DEF IntakeInv, AllReadable
<1>8. CASE Staged(u, g)
  <2> DEFINE w == Work(u, g)
  <2>1. w \in WorkKinds /\ Faithful(w)
    <3>1. FALSE \in MaySplit(u) /\ [Work(u, g) EXCEPT !.split = FALSE] = Work(u, g)
      <4>1. Work(u, g).split = FALSE
        BY DEF Work
      <4>2. [Work(u, g) EXCEPT !.split = FALSE] = Work(u, g)
        BY <4>1 DEF Work
      <4> QED
        BY <4>2, Zenon DEF MaySplit
    <3> QED
      BY <1>1, <1>4, <1>8, <3>1, WorkIsFaithful DEF Staged
  <2>2. asked' = Append(asked, [work |-> w, open |-> TRUE]) /\ made' = made
    BY <1>8 DEF Staged
  <2> HIDE DEF w
  <2>3. AllReadable'
    BY <1>5, <2>1, <2>2 DEF IntakeInv, AllReadable
  <2>4. AllFaithful'
    BY <1>1, <1>5, <2>2 DEF IntakeInv, AllFaithful
  <2> QED
    BY <1>2, <2>3, <2>4 DEF IntakeInv
<1>9. CASE Started(u, g)
  <2>1. PICK split \in MaySplit(u) :
          made' = Append(made, [Work(u, g) EXCEPT !.split = split])
    BY <1>9 DEF Started
  <2> DEFINE w == [Work(u, g) EXCEPT !.split = split]
  <2>2. w \in WorkKinds /\ Faithful(w) /\ w.of = hand
    BY <1>1, <1>4, <1>9, WorkIsFaithful DEF Started
  <2>3. ~u.external /\ asked' = asked
    BY <1>4, <1>9 DEF Started
  <2> HIDE DEF w
  <2>4. AllFaithful'
    BY <1>1, <1>5, <2>1, <2>2, <2>3 DEF IntakeInv, AllFaithful, w
  <2>5. AllReadable'
    BY <1>5, <2>3 DEF IntakeInv, AllReadable
  <2> QED
    BY <1>2, <2>4, <2>5 DEF IntakeInv
<1> QED
  BY <1>3, <1>6, <1>7, <1>8, <1>9

(* The other steps create nothing; a policy may lose the other workspace.  *)
LEMMA OthersKeep ==
  ASSUME IntakeInv, [(\E u \in Utterances : Says(u)) \/ Takes \/ RecordsTurn
                \/ SendsReply \/ DropsOut]_intakeVars
  PROVE  IntakeInv'
<1>1. CASE \E u \in Utterances : Says(u)
  <2>1. PICK u \in Utterances : spoken' = Append(spoken, u)
                                /\ UNCHANGED <<settled, hand, turn, made, asked, places>>
    BY <1>1 DEF Says
  <2>2. \A w : Faithful(w) => Faithful(w)' /\ spoken'[w.of] = spoken[w.of]
    BY <2>1 DEF Faithful, IntakeInv, InHand
  <2>3. InHand'
    BY <2>1 DEF IntakeInv, InHand
  <2> QED
    BY <2>1, <2>2, <2>3 DEF IntakeInv, AllFaithful, AllReadable
<1>2. CASE Takes \/ RecordsTurn \/ SendsReply \/ UNCHANGED intakeVars
  <2>1. UNCHANGED <<spoken, made, asked, places>>
    BY <1>2 DEF Takes, RecordsTurn, SendsReply, intakeVars
  <2>2. InHand'
    BY <1>2 DEF Takes, RecordsTurn, SendsReply, intakeVars, IntakeInv, InHand
  <2> QED
    BY <2>1, <2>2 DEF IntakeInv, AllFaithful, AllReadable, Faithful
<1>3. CASE DropsOut
  <2>1. /\ UNCHANGED <<spoken, made, asked>>
        /\ places' \subseteq {Home, Away} /\ (Away \notin places => Away \notin places')
    BY <1>3, UtteranceFacts DEF DropsOut, IntakeInv
  <2>2. InHand'
    BY <1>3 DEF DropsOut, IntakeInv, InHand
  <2>3. \A w : Faithful(w) => Faithful(w)'
    BY <2>1 DEF Faithful
  <2> QED
    BY <2>1, <2>2, <2>3 DEF IntakeInv, AllFaithful, AllReadable
<1> QED
  BY <1>1, <1>2, <1>3

LEMMA IntakeInductive == IntakeSpec => []IntakeInv
<1>1. IntakeInv /\ [IntakeNext]_intakeVars => IntakeInv'
  BY InterpretsKeeps, OthersKeep DEF IntakeNext
<1> QED
  BY <1>1, IntakeInvStarts, PTL DEF IntakeSpec

-----------------------------------------------------------------------------
(* What a message is read for *)

(* What work may start from. *)
Askable(u) == (u.thin = "category" => u.says = "more") /\ ~IsObvious(u)

(* The chat turns are replies and messages handled so far, or handled once  *)
(* before a dropout; those before the message in hand are its context.      *)
Before(seq, most) ==
  \A k \in DOMAIN seq : seq[k] \in again \/ seq[k] <= most

InContext ==
  /\ turns \in Seq(Nat) /\ history \in Seq(Nat)
  /\ again \subseteq 1..Len(spoken)
  /\ turn \in {"idle", "read", "interpret", "reply"}
  /\ Before(turns, hand)
  /\ turn = "read" => Before(turns, hand - 1)
  /\ turn = "interpret" => Before(history, hand - 1)

ContextInv == IntakeInv /\ InContext /\ CategoryIsAsked

LEMMA ReadingAsks ==
  ASSUME NEW u \in Utterances, NEW context, NEW g \in Interpretations(u, context), ToWork(g)
  PROVE  Askable(u)
<1>1. CASE g = ReadWithoutModel(u, context)
  <2>1. \/ g = Reading("refine", u.length, FALSE, u.external) /\ u.says = "more"
        \/ /\ g = Reading("build", u.length, u.thin # "", u.external)
           /\ u.says \notin {"stop", "stops", "hello"}
    <3>1. \A b, q, e : ~ToWork(Reading("unclear", b, q, e))
                       /\ ~ToWork(Reading("stop", b, q, e))
                       /\ ~ToWork(Reading("chat", b, q, e))
                       /\ ~ToWork(Reading("ask", b, q, e))
      BY ReadingFields DEF ToWork, Talks
    <3>2. \/ g = Reading("unclear", 0, TRUE, u.external)
          \/ g = Reading("stop", 0, FALSE, u.external)
          \/ g = Reading("chat", 0, FALSE, u.external)
          \/ g = Reading("ask", 0, FALSE, u.external)
          \/ g = Reading("refine", u.length, FALSE, u.external) /\ u.says = "more"
          \/ /\ g = Reading("build", u.length, u.thin # "", u.external)
             /\ u.says \notin {"stop", "stops", "hello"}
      BY <1>1 DEF ReadWithoutModel
    <3> QED
      BY <3>1, <3>2, Zenon
  <2>2. ASSUME g = Reading("build", u.length, u.thin # "", u.external)
        PROVE  u.thin = ""
    <3>1. PICK i, b, q, e : g = Reading(i, b, q, e) /\ (~q => u.thin = "") /\ i = "build"
      BY <2>2, Zenon
    <3>2. g.question = q /\ g.intent = i
      <4>1. g = Reading(i, b, q, e)
        BY <3>1, Zenon
      <4> QED
        BY ONLY <4>1, ReadingFields
    <3>3. ~g.question
      BY <3>1, <3>2, Zenon DEF ToWork, Talks
    <3> QED
      BY <3>1, <3>2, <3>3, Zenon
  <2> QED
    BY <2>1, <2>2 DEF Askable, IsObvious
<1>2. CASE ~IsObvious(u) /\ \E reply \in Replies : g = ParseModelReply(u, reply)
  <2>1. PICK reply \in Replies : g = ParseModelReply(u, reply)
    BY <1>2
  <2>2. PICK i, b, q, e : g = Reading(i, b, q, e) /\ (u.thin = "category" => q)
    <3> DEFINE b == IF reply.intent \in Builds THEN BriefKept(u, reply) ELSE 0
    <3>1. g = Reading(reply.intent, b, AsksIfThin(u, reply), RaisedOnly(u, reply))
      BY <2>1 DEF ParseModelReply
    <3>2. u.thin = "category" => AsksIfThin(u, reply)
      BY Zenon DEF AsksIfThin
    <3> HIDE DEF b
    <3> QED
      BY <3>1, <3>2, Zenon
  <2>3. g.question = q
    BY <2>2, ReadingFields
  <2>4. u.thin # "category"
    BY <2>2, <2>3, Zenon DEF ToWork, Talks
  <2> QED
    BY <1>2, <2>4 DEF Askable
<1> QED
  BY <1>1, <1>2, Zenon DEF Interpretations

LEMMA AskedStep == ASSUME ContextInv, [IntakeNext]_intakeVars PROVE CategoryIsAsked'
<1>1. /\ spoken \in Seq(Utterances) /\ made \in Seq(WorkKinds)
      /\ \A k \in DOMAIN made : made[k].of \in 1..Len(spoken)
      /\ \A k \in DOMAIN made : Askable(spoken[made[k].of])
  BY DEF ContextInv, IntakeInv, InHand, AllFaithful, Faithful, CategoryIsAsked, Askable
<1>2. SUFFICES \A k \in DOMAIN made' : Askable(spoken'[made'[k].of])
  BY DEF CategoryIsAsked, Askable, IsObvious
<1>3. CASE UNCHANGED <<made, spoken>>
  BY <1>1, <1>3
<1>4. CASE UNCHANGED made /\ \E u \in Utterances : spoken' = Append(spoken, u)
  BY <1>1, <1>4
<1>5. CASE Interprets
  <2> DEFINE u == spoken[hand]
  <2>1. u \in Utterances /\ hand \in 1..Len(spoken) /\ spoken' = spoken
    BY <1>5 DEF ContextInv, IntakeInv, InHand, Interprets
  <2>2. PICK g \in Interpretations(u, history) :
          Replied(g) \/ Stopped(g) \/ Staged(u, g) \/ Started(u, g)
    BY <1>5 DEF Interprets
  <2>3. CASE Replied(g) \/ Stopped(g) \/ Staged(u, g)
    BY <1>3, <2>1, <2>3 DEF Replied, Stopped, Staged
  <2>4. CASE Started(u, g)
    <3>1. PICK split \in MaySplit(u) :
            made' = Append(made, [Work(u, g) EXCEPT !.split = split])
      BY <2>4 DEF Started
    <3> DEFINE w == [Work(u, g) EXCEPT !.split = split]
    <3>2. w.of = hand
      BY DEF Work
    <3>3. Askable(u)
      BY <2>1, <2>2, <2>4, ReadingAsks DEF Started
    <3> HIDE DEF w
    <3>4. \A k \in DOMAIN made' : (k \in DOMAIN made /\ made'[k] = made[k]) \/ made'[k] = w
      BY <1>1, <3>1 DEF w
    <3> QED
      BY <1>1, <2>1, <3>2, <3>3, <3>4
  <2> QED
    BY <2>2, <2>3, <2>4
<1> QED
  BY <1>3, <1>4, <1>5 DEF IntakeNext, Says, Takes, RecordsTurn, SendsReply, DropsOut,
     intakeVars

(* One more turn. *)
LEMMA TurnAdded ==
  ASSUME turns \in Seq(Nat), NEW n \in Nat, NEW most \in Int, Before(turns, most), n <= most,
         turns' = Append(turns, n), again' = again
  PROVE  /\ turns' \in Seq(Nat)
         /\ \A k \in DOMAIN turns' : turns'[k] \in again' \/ turns'[k] <= most
<1>1. \A k \in DOMAIN turns' : (k \in DOMAIN turns /\ turns'[k] = turns[k]) \/ turns'[k] = n
  OBVIOUS
<1> QED
  BY <1>1 DEF Before

LEMMA ContextStep == ASSUME ContextInv, [IntakeNext]_intakeVars PROVE InContext'
<1>1. /\ InContext
      /\ spoken \in Seq(Utterances) /\ Len(spoken) \in Nat
      /\ hand \in 0..Len(spoken) /\ settled \in 0..hand
      /\ \A k \in DOMAIN turns : turns[k] \in Nat
  BY DEF ContextInv, IntakeInv, InHand, InContext
<1>2. CASE \E u \in Utterances : Says(u)
  <2>1. /\ Len(spoken') = Len(spoken) + 1
        /\ UNCHANGED <<turns, history, again, turn, hand>>
    BY <1>1, <1>2 DEF Says
  <2> QED
    BY <1>1, <2>1 DEF InContext, Before
<1>3. CASE Takes
  <2>1. /\ hand' = hand + 1 /\ turn' = "read"
        /\ UNCHANGED <<turns, history, again, spoken>>
    BY <1>3 DEF Takes
  <2> QED
    BY <1>1, <2>1 DEF InContext, Before
<1>4. CASE RecordsTurn
  <2>1. /\ history' = turns /\ turn' = "interpret" /\ turn = "read"
        /\ turns' = Append(turns, hand)
        /\ UNCHANGED <<again, spoken, hand>>
    BY <1>4 DEF RecordsTurn, ReadBeforeIt
  <2>2. /\ turns' \in Seq(Nat)
        /\ \A k \in DOMAIN turns' : turns'[k] \in again' \/ turns'[k] <= hand
    <3>1. turns \in Seq(Nat) /\ Before(turns, hand) /\ hand \in Nat
      BY <1>1 DEF InContext
    <3> QED
      BY ONLY <2>1, <3>1, TurnAdded
  <2> QED
    BY <1>1, <2>1, <2>2 DEF InContext, Before
<1>5. CASE Interprets \/ UNCHANGED intakeVars
  BY <1>1, <1>5 DEF InContext, Before, Interprets, intakeVars
<1>6. CASE SendsReply
  <2>1. /\ history' = <<>> /\ turn' = "idle"
        /\ turns' = Append(turns, 0)
        /\ UNCHANGED <<again, spoken, hand>>
    BY <1>6 DEF SendsReply, Forgets
  <2>2. /\ turns' \in Seq(Nat)
        /\ \A k \in DOMAIN turns' : turns'[k] \in again' \/ turns'[k] <= hand
    <3>1. turns \in Seq(Nat) /\ Before(turns, hand) /\ hand \in Nat
      BY <1>1 DEF InContext
    <3> QED
      BY ONLY <2>1, <3>1, TurnAdded
  <2> QED
    BY <1>1, <2>1, <2>2 DEF InContext, Before
<1>7. CASE DropsOut
  <2>1. /\ again' = again \cup {k \in 1..hand : k > settled}
        /\ hand' = settled /\ turn' = "idle" /\ history' = <<>>
        /\ UNCHANGED <<turns, spoken>>
    BY <1>7 DEF DropsOut, Forgets
  <2>2. again' \subseteq 1..Len(spoken)
    <3>1. again \subseteq 1..Len(spoken) /\ 1..hand \subseteq 1..Len(spoken)
      BY <1>1 DEF InContext
    <3> QED
      BY <2>1, <3>1
  <2>3. \A k \in DOMAIN turns : turns[k] \in again' \/ turns[k] <= settled
    BY <1>1, <2>1 DEF InContext, Before
  <2> QED
    BY <1>1, <2>1, <2>2, <2>3 DEF InContext, Before
<1> QED
  BY <1>2, <1>3, <1>4, <1>5, <1>6, <1>7 DEF IntakeNext

-----------------------------------------------------------------------------
(* "Send, spend and publish still stop and ask": whatever the model makes  *)
(* of a message that names one of them, no task starts from it.            *)
THEOREM NothingExternalStarts == IntakeSpec => []ExternalIsAsked
<1>1. IntakeInv => ExternalIsAsked
  BY DEF IntakeInv, AllFaithful, ExternalIsAsked
<1> QED
  BY <1>1, IntakeInductive, PTL

(* What the agent, or the operator who must confirm, is given is no shorter *)
(* than what was said.                                                      *)
THEOREM NoWordIsLost == IntakeSpec => []WordsAreKept
<1>1. IntakeInv => WordsAreKept
  BY DEF IntakeInv, AllFaithful, AllReadable, Faithful, WordsAreKept
<1> QED
  BY <1>1, IntakeInductive, PTL

(* A follow-up is one task in the workspace of the task it revises, as long *)
(* as the policy has that workspace.                                        *)
THEOREM FollowUpsStay == IntakeSpec => []FollowUpStays
<1>1. IntakeInv => FollowUpStays
  BY DEF IntakeInv, AllFaithful, Faithful, FollowUpStays
<1> QED
  BY <1>1, IntakeInductive, PTL

(* What the model replies changes none of the three. *)
THEOREM TheModelIsHeld == IntakeSpec => []ModelIsHeld
  BY NothingExternalStarts, NoWordIsLost, FollowUpsStay, PTL DEF ModelIsHeld

(* A bare category is asked about and a greeting or a stop word starts      *)
(* nothing, whatever the model replies; and a message is in its own context *)
(* only when it was delivered again (_converse).                            *)
THEOREM MessagesAreReadAsMeant == IntakeSpec => []ReadAsMeant
<1>1. IntakeInit => ContextInv
  BY IntakeInvStarts DEF IntakeInit, ContextInv, InContext, Before, CategoryIsAsked
<1>2. ContextInv /\ [IntakeNext]_intakeVars => ContextInv'
  BY InterpretsKeeps, OthersKeep, AskedStep, ContextStep DEF IntakeNext, ContextInv
<1>3. ContextInv => ReadAsMeant
  <2> SUFFICES ASSUME ContextInv, turn = "interpret", hand \notin again, NEW k \in DOMAIN history
               PROVE  history[k] # hand
    BY DEF ContextInv, ReadAsMeant, ReadInContext
  <2>1. history[k] \in again \/ history[k] <= hand - 1
    BY DEF ContextInv, InContext, Before
  <2>2. hand \in Nat
    BY DEF ContextInv, IntakeInv, InHand
  <2> QED
    BY <2>1, <2>2
<1> QED
  BY <1>1, <1>2, <1>3, PTL DEF IntakeSpec
=============================================================================
