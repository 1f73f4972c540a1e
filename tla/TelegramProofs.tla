--------------------------- MODULE TelegramProofs ---------------------------
(***************************************************************************)
(* Theorems about Telegram: its types, that a staged request takes effect  *)
(* at most once, that no failure makes Telegram forget a request that was  *)
(* not staged, and that nothing is repeated but after a failure.           *)
(***************************************************************************)
EXTENDS Telegram, Foundations, FiniteSetTheorems, TLAPS

Staging == Gated \cup {"start"}

(* The update u is on the board, if it is one that must be. *)
IsStaged(u) == updates[u].kind \in Staging =>
               \E a \in DOMAIN actions : actions[a].from = u

(* How far the daemon is: what lies below its offset, and what it has       *)
(* handled of the response in hand, is staged.                              *)
Progress ==
  /\ \A u \in 1..acked : IsStaged(u)
  /\ \A u \in 1..pollOffset - 1 : IsStaged(u)
  /\ polling \in {"handle", "start", "stop", "reply"} => \A u \in 1..inPage - 1 : IsStaged(u)
  /\ polling \in {"start", "stop", "reply"} => IsStaged(inPage)
  /\ polling \in {"publish", "announce", "record"} => \A u \in 1..last : IsStaged(u)

(* What the board and Telegram's log keep for ever. *)
Kept ==
  /\ DOMAIN actions \subseteq DOMAIN actions'
  /\ \A a \in DOMAIN actions : actions'[a].from = actions[a].from
  /\ DOMAIN updates \subseteq DOMAIN updates'
  /\ \A u \in DOMAIN updates : updates'[u] = updates[u]

PhoneInv == PhoneTypeOK /\ StartedOnce /\ Progress

-----------------------------------------------------------------------------
USE DEF Gated, Named

(* What a sequence over a set is made of. *)
LEMMA MemberOfSeq ==
  ASSUME NEW S, NEW seq \in Seq(S), NEW i \in DOMAIN seq
  PROVE  seq[i] \in S
  OBVIOUS

(* Writing one row of the table. *)
LEMMA ReplaceRow ==
  ASSUME NEW old \in Seq(Action), NEW a \in DOMAIN old, NEW row \in Action
  PROVE  LET new == [old EXCEPT ![a] = row] IN
         /\ new \in Seq(Action)
         /\ Len(new) = Len(old)
         /\ new[a] = row
         /\ \A b \in DOMAIN old \ {a} : new[b] = old[b]
  OBVIOUS

(* The two updates of a row leave everything but the row's state, lapse and *)
(* count alone.                                                             *)
LEMMA MarkKeepsType ==
  ASSUME actions \in Seq(Action), NEW a,
         NEW state \in {"confirmed", "expired"}, NEW n \in {0, 1},
         a \in DOMAIN actions => n = 0 \/ actions[a].started = 0,
         MarkAction(a, state, n)
  PROVE  /\ actions' \in Seq(Action)
         /\ Len(actions') = Len(actions)
         /\ \A b \in DOMAIN actions : actions'[b].from = actions[b].from
         /\ \A b \in DOMAIN actions \ {a} : actions'[b] = actions[b]
         /\ a \in DOMAIN actions => /\ actions'[a].state = state
                                    /\ actions'[a].started = actions[a].started + n
<1> DEFINE new == Marked(actions[a], state, n)
<1>1. actions' = [actions EXCEPT ![a] = new]
  BY DEF MarkAction
<1>2. ASSUME a \in DOMAIN actions
      PROVE  /\ new \in Action
             /\ new.from = actions[a].from
             /\ new.state = state
             /\ new.started = actions[a].started + n
  <2>1. actions[a] \in Action
    BY <1>2
  <2>2. actions[a].started + n \in 0..1
    BY <1>2, <2>1 DEF Action
  <2> QED
    BY <2>1, <2>2 DEF Action, Marked
<1> HIDE DEF new
<1>3. CASE a \in DOMAIN actions
  BY <1>1, <1>2, <1>3
<1>4. CASE a \notin DOMAIN actions
  <2>1. actions' = actions
    BY <1>1, <1>4
  <2> QED
    BY <1>4, <2>1
<1> QED
  BY <1>3, <1>4

(* confirm_pending_action starts nothing twice. *)
LEMMA ConfirmKeeps ==
  ASSUME actions \in Seq(Action), StartedOnce, NEW a,
         tasks \in Seq({"ready", "done", "blocked", "cancelled"}),
         ConfirmPendingAction(a)
  PROVE  /\ actions' \in Seq(Action)
         /\ Len(actions') = Len(actions)
         /\ \A b \in DOMAIN actions : actions'[b].from = actions[b].from
         /\ StartedOnce'
         /\ tasks' \in Seq({"ready", "done", "blocked", "cancelled"})
         /\ Len(tasks) <= Len(tasks')
<1>1. CASE UNCHANGED <<actions, tasks>>
  BY <1>1 DEF StartedOnce
<1>2. ASSUME a \in DOMAIN actions, actions[a].state = "pending"
      PROVE  actions[a].started = 0
  BY <1>2 DEF StartedOnce
<1>3. ASSUME MarkAction(a, "expired", 0), UNCHANGED tasks,
             a \in DOMAIN actions => actions[a].state = "pending"
      PROVE  /\ actions' \in Seq(Action)
             /\ Len(actions') = Len(actions)
             /\ \A b \in DOMAIN actions : actions'[b].from = actions[b].from
             /\ StartedOnce'
  <2>1. /\ actions' \in Seq(Action)
        /\ Len(actions') = Len(actions)
        /\ \A b \in DOMAIN actions : actions'[b].from = actions[b].from
        /\ \A b \in DOMAIN actions \ {a} : actions'[b] = actions[b]
        /\ a \in DOMAIN actions => /\ actions'[a].state = "expired"
                                   /\ actions'[a].started = actions[a].started + 0
    BY <1>3, MarkKeepsType
  <2> QED
    BY <1>2, <1>3, <2>1 DEF StartedOnce
<1>4. ASSUME NEW n \in {0, 1}, MarkAction(a, "confirmed", n),
             a \in DOMAIN actions => actions[a].state = "pending"
      PROVE  /\ actions' \in Seq(Action)
             /\ Len(actions') = Len(actions)
             /\ \A b \in DOMAIN actions : actions'[b].from = actions[b].from
             /\ StartedOnce'
  <2>1. /\ actions' \in Seq(Action)
        /\ Len(actions') = Len(actions)
        /\ \A b \in DOMAIN actions : actions'[b].from = actions[b].from
        /\ \A b \in DOMAIN actions \ {a} : actions'[b] = actions[b]
        /\ a \in DOMAIN actions => /\ actions'[a].state = "confirmed"
                                   /\ actions'[a].started = actions[a].started + n
    BY <1>2, <1>4, MarkKeepsType
  <2> QED
    BY <1>2, <1>4, <2>1 DEF StartedOnce
<1>5. CASE actions[a].state = "pending" /\ actions[a].lapsed
  BY <1>3, <1>5 DEF ConfirmPendingAction
<1>6. CASE actions[a].state = "pending" /\ ~actions[a].lapsed
  <2>1. StartAction(a)
    BY <1>6 DEF ConfirmPendingAction
  <2>2. \E n \in {0, 1} : MarkAction(a, "confirmed", n)
    BY <2>1 DEF StartAction
  <2>3. /\ tasks' \in Seq({"ready", "done", "blocked", "cancelled"})
        /\ Len(tasks) <= Len(tasks')
    BY <2>1 DEF StartAction, Retryable
  <2> QED
    BY <1>4, <1>6, <2>2, <2>3
<1> QED
  BY <1>1, <1>5, <1>6 DEF ConfirmPendingAction

(* create_pending_action adds a row and touches no other. *)
LEMMA StageKeeps ==
  ASSUME actions \in Seq(Action), StartedOnce, inPage \in 1..MaxUpdates,
         NEW kind \in Staging, NEW task \in Nat, Stage(kind, task)
  PROVE  /\ actions' \in Seq(Action)
         /\ Len(actions') = Len(actions) + 1
         /\ \A b \in DOMAIN actions : actions'[b] = actions[b]
         /\ actions'[Len(actions')].from = inPage
         /\ StartedOnce'
<1> DEFINE new == NewAction(inPage, kind, task)
<1>1. /\ new \in Action
      /\ new.from = inPage
      /\ new.started = 0
  BY DEF NewAction, Action, Staging
<1>2. actions' = Append(actions, new)
  BY DEF Stage
<1> HIDE DEF new
<1>3. /\ actions' \in Seq(Action)
      /\ Len(actions') = Len(actions) + 1
      /\ \A b \in DOMAIN actions : actions'[b] = actions[b]
      /\ actions'[Len(actions) + 1] = new
  BY <1>1, <1>2
<1> QED
  BY <1>1, <1>3 DEF StartedOnce

(* cancel_pending_action and the clock touch one column of one row. *)
LEMMA CancelKeeps ==
  ASSUME actions \in Seq(Action), StartedOnce, NEW a, CancelPendingAction(a)
  PROVE  /\ actions' \in Seq(Action)
         /\ Len(actions') = Len(actions)
         /\ \A b \in DOMAIN actions : actions'[b].from = actions[b].from
         /\ StartedOnce'
<1>1. CASE a \notin DOMAIN actions
  <2>1. actions' = actions
    BY <1>1 DEF CancelPendingAction
  <2> QED
    BY <2>1 DEF StartedOnce
<1>2. CASE a \in DOMAIN actions
  <2> DEFINE state == IF actions[a].state = "pending" THEN "cancelled"
                                                      ELSE actions[a].state
             new == [actions[a] EXCEPT !.state = state]
  <2>1. actions' = [actions EXCEPT ![a] = new]
    BY DEF CancelPendingAction
  <2>2. actions[a] \in Action
    BY <1>2
  <2>3. /\ new \in Action
        /\ new.from = actions[a].from
        /\ new.started = actions[a].started
        /\ new.state # "confirmed" => actions[a].state # "confirmed"
    BY <2>2 DEF Action
  <2> HIDE DEF new
  <2>4. /\ actions' \in Seq(Action)
        /\ Len(actions') = Len(actions)
        /\ actions'[a] = new
        /\ \A b \in DOMAIN actions \ {a} : actions'[b] = actions[b]
    BY <1>2, <2>1, <2>3
  <2> QED
    BY <1>2, <2>3, <2>4 DEF StartedOnce
<1> QED
  BY <1>1, <1>2

LEMMA LapseKeeps ==
  ASSUME actions \in Seq(Action), StartedOnce, NEW a, a \in DOMAIN actions,
         LapseAction(a)
  PROVE  /\ actions' \in Seq(Action)
         /\ Len(actions') = Len(actions)
         /\ \A b \in DOMAIN actions : actions'[b].from = actions[b].from
         /\ StartedOnce'
<1> DEFINE new == [actions[a] EXCEPT !.lapsed = TRUE]
<1>1. actions' = [actions EXCEPT ![a] = new]
  BY DEF LapseAction
<1>2. actions[a] \in Action
  OBVIOUS
<1>3. /\ new \in Action
      /\ new.from = actions[a].from
      /\ new.started = actions[a].started
      /\ new.state = actions[a].state
  BY <1>2 DEF Action
<1> HIDE DEF new
<1>4. /\ actions' \in Seq(Action)
      /\ Len(actions') = Len(actions)
      /\ actions'[a] = new
      /\ \A b \in DOMAIN actions \ {a} : actions'[b] = actions[b]
  <2>1. LET r == [actions EXCEPT ![a] = new] IN
        /\ r \in Seq(Action)
        /\ Len(r) = Len(actions)
        /\ r[a] = new
        /\ \A b \in DOMAIN actions \ {a} : r[b] = actions[b]
    BY <1>3, ReplaceRow
  <2> QED
    BY ONLY <1>1, <2>1
<1> QED
  BY <1>3, <1>4 DEF StartedOnce

-----------------------------------------------------------------------------
(* What a step leaves behind on the board and in Telegram's log *)

RowsKept ==
  /\ actions' \in Seq(Action)
  /\ Len(actions) <= Len(actions')
  /\ \A a \in DOMAIN actions : actions'[a].from = actions[a].from
  /\ StartedOnce'
  /\ tasks' \in Seq({"ready", "done", "blocked", "cancelled"})
  /\ Len(tasks) <= Len(tasks')

LEMMA HandKeepsRows == ASSUME PhoneTypeOK, StartedOnce, Handle PROVE RowsKept
<1> USE DEF PhoneTypeOK
<1>1. ASSUME NEW kind, Handling(kind)
      PROVE  /\ inPage \in 1..MaxUpdates
             /\ updates[inPage].about \in Nat
  <2>1. inPage \in 1..MaxUpdates /\ inPage \in DOMAIN updates
    BY <1>1, TelegramAssumption DEF Handling, TelegramAssumption
  <2>2. updates \in Seq([kind : Kinds, about : Nat])
    OBVIOUS
  <2>3. updates[inPage] \in [kind : Kinds, about : Nat]
    BY ONLY <2>1, <2>2, MemberOfSeq
  <2> QED
    BY ONLY <2>1, <2>3
<1>2. CASE HandleGated
  <2>1. PICK kind \in Gated : Handling(kind) /\ Stage(kind, updates[inPage].about)
    BY <1>2 DEF HandleGated
  <2> QED
    BY <1>1, <1>2, <2>1, StageKeeps DEF HandleGated, RowsKept, Staging
<1>3. CASE HandleStart
  <2>1. Handling("start") /\ Stage("start", 0)
    BY <1>3 DEF HandleStart
  <2> QED
    BY <1>1, <1>3, <2>1, StageKeeps DEF HandleStart, RowsKept, Staging
<1>4. CASE StartNow
  BY <1>4, ConfirmKeeps DEF StartNow, RowsKept
<1>5. CASE HandleTap
  BY <1>5, ConfirmKeeps DEF HandleTap, RowsKept
<1>6. CASE HandleConfirm
  <2>1. CASE UNCHANGED <<actions, tasks>>
    BY <2>1 DEF RowsKept, StartedOnce
  <2>2. CASE ConfirmPendingAction(CHOOSE a \in Outstanding : TRUE)
    BY <2>2, ConfirmKeeps DEF RowsKept
  <2> QED
    BY <1>6, <2>1, <2>2 DEF HandleConfirm
<1>7. CASE HandleWithdraw
  BY <1>7, CancelKeeps DEF HandleWithdraw, RowsKept
<1>8. CASE HandleStop \/ StopDone
  BY <1>8 DEF HandleStop, StopDone, RowsKept, StartedOnce
<1>9. CASE StopOne
  BY <1>9, CancelKeeps DEF StopOne, RowsKept
<1> QED
  BY <1>2, <1>3, <1>4, <1>5, <1>6, <1>7, <1>8, <1>9 DEF Handle

LEMMA EndingKeepsTasks ==
  ASSUME PhoneTypeOK, RunFinishes
  PROVE  /\ tasks' \in Seq({"ready", "done", "blocked", "cancelled"})
         /\ Len(tasks') = Len(tasks)
<1>1. PICK t \in DOMAIN tasks, ending \in Endings :
        \E status \in After(ending) : tasks' = [tasks EXCEPT ![t] = status]
  BY DEF RunFinishes
<1>2. After(ending) \subseteq {"ready", "done", "blocked", "cancelled"}
  BY DEF After
<1>3. tasks \in Seq({"ready", "done", "blocked", "cancelled"})
  BY DEF PhoneTypeOK
<1> QED
  BY ONLY <1>1, <1>2, <1>3

LEMMA StepKeepsRows == ASSUME PhoneTypeOK, StartedOnce, [PhoneNext]_phoneVars PROVE RowsKept
<1>1. CASE Handle
  BY <1>1, HandKeepsRows
<1>2. CASE Lapse
  <2>1. PICK a \in Outstanding : LapseAction(a)
    BY <1>2 DEF Lapse
  <2>2. a \in DOMAIN actions
    BY DEF Outstanding
  <2>3. actions \in Seq(Action)
    BY DEF PhoneTypeOK
  <2> QED
    BY <1>2, <2>1, <2>2, <2>3, LapseKeeps DEF Lapse, RowsKept, PhoneTypeOK
<1>3. CASE UNCHANGED <<actions, tasks>>
  BY <1>3 DEF PhoneTypeOK, RowsKept, StartedOnce
<1>4. CASE RunFinishes
  <2>1. /\ tasks' \in Seq({"ready", "done", "blocked", "cancelled"})
        /\ Len(tasks') = Len(tasks)
    BY <1>4, EndingKeepsTasks
  <2>2. UNCHANGED actions
    BY <1>4 DEF RunFinishes
  <2>3. actions \in Seq(Action) /\ Len(tasks) \in Nat
    BY DEF PhoneTypeOK
  <2> QED
    BY <2>1, <2>2, <2>3 DEF RowsKept, StartedOnce
<1>5. ASSUME Restart \/ Poll \/ Reply \/ Publish \/ Announce \/ RecordReceipt
               \/ EndPoll \/ Faulty \/ OperatorSends \/ UNCHANGED phoneVars
      PROVE  UNCHANGED <<actions, tasks>>
  BY <1>5 DEF Restart, Poll, Reply, Publish, Announce, RecordReceipt, EndPoll,
     Faulty, PublishFails, ReplyFails, AnnounceFails, Crash, AbandonPoll,
     OperatorSends, phoneVars, requestVars
<1> QED
  BY <1>1, <1>2, <1>3, <1>4, <1>5 DEF PhoneNext, Daemon, World

LEMMA MessageSent ==
  ASSUME PhoneTypeOK, OperatorSends
  PROVE  \E m \in [kind : Kinds, about : Nat] : updates' = Append(updates, m)
<1>1. PICK kind \in Kinds : \E about \in Subjects(kind) :
        updates' = Append(updates, [kind |-> kind, about |-> about])
  BY DEF OperatorSends
<1>2. Subjects(kind) \subseteq Nat
  BY DEF Subjects, PhoneTypeOK
<1> QED
  BY <1>1, <1>2

(* A longer sequence starts with the shorter one. *)
LEMMA AppendKeeps ==
  ASSUME NEW S, NEW old \in Seq(S), NEW m \in S
  PROVE  LET new == Append(old, m) IN
         /\ DOMAIN old \subseteq DOMAIN new
         /\ \A u \in DOMAIN old : new[u] = old[u]
  OBVIOUS

LEMMA StepKeeps == ASSUME PhoneTypeOK, StartedOnce, [PhoneNext]_phoneVars PROVE Kept
<1>1. RowsKept
  BY StepKeepsRows
<1>2. \/ UNCHANGED updates
      \/ \E m \in [kind : Kinds, about : Nat] : updates' = Append(updates, m)
  BY MessageSent DEF PhoneNext, Daemon, Faulty, World, Restart, Poll, Handle, Reply, Publish,
     Announce, RecordReceipt, EndPoll, PublishFails, ReplyFails, AnnounceFails,
     Crash, AbandonPoll, Lapse, RunFinishes, phoneVars, telegramVars
<1>3. /\ DOMAIN updates \subseteq DOMAIN updates'
      /\ \A u \in DOMAIN updates : updates'[u] = updates[u]
  <2>1. updates \in Seq([kind : Kinds, about : Nat])
    BY DEF PhoneTypeOK
  <2>2. CASE UNCHANGED updates
    BY ONLY <2>2
  <2>3. ASSUME NEW m \in [kind : Kinds, about : Nat], updates' = Append(updates, m)
        PROVE  /\ DOMAIN updates \subseteq DOMAIN updates'
               /\ \A u \in DOMAIN updates : updates'[u] = updates[u]
    BY ONLY <2>1, <2>3, AppendKeeps
  <2> QED
    BY ONLY <1>2, <2>2, <2>3
<1> QED
  BY <1>1, <1>3 DEF PhoneTypeOK, Kept, RowsKept

-----------------------------------------------------------------------------
(* The types *)

LEMMA PhoneInvStarts == PhoneInit => PhoneInv
<1> SUFFICES ASSUME PhoneInit PROVE PhoneInv
  OBVIOUS
<1>1. PhoneTypeOK
  BY TelegramAssumption DEF PhoneInit, PhoneTypeOK, TelegramAssumption
<1>2. StartedOnce
  BY DEF PhoneInit, StartedOnce
<1>3. Progress
  BY DEF PhoneInit, Progress
<1> QED
  BY <1>1, <1>2, <1>3 DEF PhoneInv

(* The runs stay runs of tasks when tasks are added. *)
LEMMA RunsKeepType ==
  ASSUME NEW old \in Nat, NEW new \in Nat, old <= new,
         runs \in Seq([task : 1..old, ending : Endings])
  PROVE  runs \in Seq([task : 1..new, ending : Endings])
<1>1. [task : 1..old, ending : Endings] \subseteq [task : 1..new, ending : Endings]
  OBVIOUS
<1> QED
  BY <1>1, SeqOfMore

LEMMA HandleType == ASSUME PhoneTypeOK, RowsKept, Handle PROVE PhoneTypeOK'
<1> USE DEF PhoneTypeOK, RowsKept
<1>1. /\ UNCHANGED <<updates, acked, pollOffset, inPage, last, runs, receipts, cards,
                     sends, faults>>
      /\ polling \in {"handle", "start", "stop"}
      /\ polling' \in {"start", "stop", "reply"}
  BY DEF Handle, telegramVars, HandleGated, HandleStart, StartNow, HandleTap,
     HandleConfirm, HandleWithdraw, HandleStop, StopOne, StopDone, Handling
<1>2. todo' \subseteq IF polling' = "stop" THEN DOMAIN actions ELSE DOMAIN runs
  BY DEF Handle, HandleGated, HandleStart, StartNow, HandleTap,
     HandleConfirm, HandleWithdraw, HandleStop, StopOne, StopDone, Handling,
     Outstanding
<1>3. DOMAIN actions \subseteq DOMAIN actions'
  OBVIOUS
<1>4. runs \in Seq([task : DOMAIN tasks', ending : Endings])
  <2>1. /\ tasks \in Seq({"ready", "done", "blocked", "cancelled"})
        /\ tasks' \in Seq({"ready", "done", "blocked", "cancelled"})
        /\ Len(tasks) <= Len(tasks')
        /\ runs \in Seq([task : DOMAIN tasks, ending : Endings])
    OBVIOUS
  <2>2. /\ DOMAIN tasks = 1..Len(tasks) /\ Len(tasks) \in Nat
        /\ DOMAIN tasks' = 1..Len(tasks') /\ Len(tasks') \in Nat
    BY ONLY <2>1
  <2> QED
    BY ONLY <2>1, <2>2, RunsKeepType
<1> QED
  BY <1>1, <1>2, <1>3, <1>4

(* A card stands for a row: what is replied to was staged. *)
LEMMA CardHasRow ==
  ASSUME PhoneTypeOK, Progress, polling = "reply"
  PROVE  CardSent \/ UNCHANGED cards => cards' \subseteq DOMAIN actions
<1>1. actions \in Seq(Action) /\ cards \subseteq DOMAIN actions
  BY DEF PhoneTypeOK
<1>2. ASSUME updates[inPage].kind \in Gated PROVE Len(actions) \in DOMAIN actions
  <2>1. PICK a \in DOMAIN actions : actions[a].from = inPage
    BY <1>2 DEF Progress, IsStaged, Staging
  <2> QED
    BY ONLY <1>1, <2>1
<1>3. ASSUME CardSent PROVE cards' \subseteq DOMAIN actions
  <2>1. CASE updates[inPage].kind \in Gated
    BY <1>1, <1>2, <1>3, <2>1 DEF CardSent
  <2>2. CASE updates[inPage].kind \notin Gated
    BY <1>1, <1>3, <2>2 DEF CardSent
  <2> QED
    BY <2>1, <2>2
<1> QED
  BY <1>1, <1>3

(* The counters of notices keep their type. *)
LEMMA NoticeSent ==
  ASSUME sends \in Seq(Nat), NEW r, Sent(r)
  PROVE  sends' \in Seq(Nat) /\ Len(sends') = Len(sends)
<1>1. CASE r \in DOMAIN sends
  <2>1. sends[r] + 1 \in Nat
    BY <1>1
  <2> QED
    BY <1>1, <2>1 DEF Sent
<1>2. CASE r \notin DOMAIN sends
  <2>1. sends' = sends
    BY <1>2 DEF Sent
  <2> QED
    BY <2>1
<1> QED
  BY <1>1, <1>2

(* The types of what a finished run adds to. *)
LEMMA RunAdded ==
  ASSUME PhoneTypeOK, RunFinishes
  PROVE  /\ runs' \in Seq([task : DOMAIN tasks', ending : Endings])
         /\ Len(runs') = Len(runs) + 1
         /\ sends' \in Seq(Nat)
         /\ Len(sends') = Len(sends) + 1
<1>1. PICK t \in DOMAIN tasks, ending \in Endings :
        runs' = Append(runs, [task |-> t, ending |-> ending])
  BY DEF RunFinishes
<1>2. /\ runs \in Seq([task : DOMAIN tasks, ending : Endings])
      /\ sends \in Seq(Nat)
      /\ tasks \in Seq({"ready", "done", "blocked", "cancelled"})
  BY DEF PhoneTypeOK
<1>3. DOMAIN tasks' = DOMAIN tasks
  BY ONLY <1>2, EndingKeepsTasks, PhoneTypeOK, RunFinishes
<1>4. sends' = Append(sends, 0)
  BY DEF RunFinishes
<1> QED
  BY ONLY <1>1, <1>2, <1>3, <1>4

LEMMA PollType == ASSUME PhoneTypeOK, Poll PROVE PhoneTypeOK'
  BY DEF PhoneTypeOK, Poll, requestVars

LEMMA ReplyType == ASSUME PhoneTypeOK, Progress, Reply PROVE PhoneTypeOK'
<1>1. cards' \subseteq DOMAIN actions
  BY CardHasRow DEF Reply
<1> QED
  BY <1>1 DEF PhoneTypeOK, Reply, telegramVars, requestVars

LEMMA AbandonType ==
  ASSUME PhoneTypeOK, AbandonPoll, faults' \in 0..MaxFaults,
         cards' \subseteq DOMAIN actions,
         sends' \in Seq(Nat), Len(sends') = Len(sends)
  PROVE  PhoneTypeOK'
  BY DEF PhoneTypeOK, AbandonPoll, telegramVars, requestVars

LEMMA FaultCounted == ASSUME PhoneTypeOK, Fault PROVE faults' \in 0..MaxFaults
  BY TelegramAssumption DEF PhoneTypeOK, Fault, TelegramAssumption

LEMMA FaultyType == ASSUME PhoneTypeOK, Progress, Faulty PROVE PhoneTypeOK'
<1>1. faults' \in 0..MaxFaults
  BY FaultCounted DEF Faulty, PublishFails, ReplyFails, AnnounceFails, Crash
<1>2. sends \in Seq(Nat) /\ cards \subseteq DOMAIN actions
  BY DEF PhoneTypeOK
<1>3. CASE PublishFails
  BY <1>1, <1>2, <1>3, AbandonType DEF PublishFails
<1>4. CASE ReplyFails
  BY <1>1, <1>2, <1>4, AbandonType, CardHasRow DEF ReplyFails
<1>5. CASE AnnounceFails
  <2>1. sends' \in Seq(Nat) /\ Len(sends') = Len(sends)
    BY <1>2, <1>5, NoticeSent DEF AnnounceFails
  <2> QED
    BY <1>1, <1>2, <1>5, <2>1, AbandonType DEF AnnounceFails
<1>6. CASE Crash
  BY <1>1, <1>6 DEF Crash, PhoneTypeOK, telegramVars, requestVars
<1> QED
  BY <1>3, <1>4, <1>5, <1>6 DEF Faulty

LEMMA TypeStep == ASSUME PhoneInv, [PhoneNext]_phoneVars PROVE PhoneTypeOK'
<1>1. PhoneTypeOK /\ StartedOnce /\ Progress
  BY DEF PhoneInv
<1>2. RowsKept
  BY <1>1, StepKeepsRows
<1>3. CASE Restart
  BY <1>1, <1>3 DEF PhoneTypeOK, Restart, telegramVars, requestVars
<1>4. CASE Poll
  BY <1>1, <1>4, PollType
<1>5. CASE Handle
  BY <1>1, <1>2, <1>5, HandleType
<1>6. CASE Reply
  BY <1>1, <1>6, ReplyType
<1>7. CASE Publish
  <2>1. PendingCompletions \subseteq DOMAIN runs
    BY DEF PendingCompletions, FirstPage, Announceable
  <2> QED
    BY <1>1, <1>7, <2>1 DEF PhoneTypeOK, Publish, telegramVars, requestVars
<1>8. CASE Announce
  <2>1. sends' \in Seq(Nat) /\ Len(sends') = Len(sends)
    BY <1>1, <1>8, NoticeSent DEF Announce, PhoneTypeOK
  <2>2. todo # {}
    BY <1>8 DEF Announce, OldestWaiting
  <2> QED
    BY <1>1, <1>8, <2>1, <2>2 DEF PhoneTypeOK, Announce, telegramVars, requestVars
<1>9. CASE RecordReceipt
  BY <1>1, <1>9 DEF PhoneTypeOK, RecordReceipt, OldestWaiting, telegramVars
<1>10. CASE EndPoll
  BY <1>1, <1>10 DEF PhoneTypeOK, EndPoll, NextOffset, telegramVars, requestVars
<1>11. CASE Faulty
  BY <1>1, <1>11, FaultyType
<1>12. CASE OperatorSends
  <2>1. PICK m \in [kind : Kinds, about : Nat] : updates' = Append(updates, m)
    BY <1>1, <1>12, MessageSent
  <2>2. updates \in Seq([kind : Kinds, about : Nat]) /\ Len(updates) < MaxUpdates
    BY <1>1, <1>12 DEF PhoneTypeOK, OperatorSends
  <2>3. /\ updates' \in Seq([kind : Kinds, about : Nat])
        /\ Len(updates') = Len(updates) + 1
    BY ONLY <2>1, <2>2
  <2>4. Len(updates') <= MaxUpdates
    <3>1. Len(updates) \in Nat /\ MaxUpdates \in Nat
      BY <2>2, TelegramAssumption DEF TelegramAssumption
    <3> QED
      BY ONLY <2>2, <2>3, <3>1
  <2>5. /\ acked \in 0..Len(updates')
        /\ pollOffset \in 0..Len(updates') + 1
        /\ last \in 0..Len(updates')
    <3>1. /\ Len(updates) \in Nat
          /\ acked \in 0..Len(updates)
          /\ pollOffset \in 0..Len(updates) + 1
          /\ last \in 0..Len(updates)
      BY <1>1, <2>2 DEF PhoneTypeOK
    <3> QED
      BY ONLY <2>3, <3>1
  <2>6. UNCHANGED <<acked, polling, pollOffset, inPage, last, todo, actions, tasks, runs,
                    receipts, cards, sends, faults>>
    BY <1>12 DEF OperatorSends, daemonVars, requestVars
  <2> QED
    BY <1>1, <2>3, <2>4, <2>5, <2>6 DEF PhoneTypeOK
<1>13. CASE Lapse
  BY <1>1, <1>2, <1>13 DEF PhoneTypeOK, RowsKept, Lapse, telegramVars, daemonVars
<1>14. CASE RunFinishes
  <2>1. /\ runs' \in Seq([task : DOMAIN tasks', ending : Endings])
        /\ Len(runs') = Len(runs) + 1
        /\ sends' \in Seq(Nat)
        /\ Len(sends') = Len(sends) + 1
    BY <1>1, <1>14, RunAdded
  <2> QED
    BY <1>1, <1>2, <1>14, <2>1
       DEF PhoneTypeOK, RowsKept, RunFinishes, telegramVars, daemonVars
<1>15. CASE UNCHANGED phoneVars
  BY <1>1, <1>15 DEF PhoneTypeOK, phoneVars, telegramVars, daemonVars, requestVars
<1> QED
  BY <1>3, <1>4, <1>5, <1>6, <1>7, <1>8, <1>9, <1>10, <1>11, <1>12, <1>13,
     <1>14, <1>15 DEF PhoneNext, Daemon, World

-----------------------------------------------------------------------------
(* What is staged stays staged, and the daemon moves past nothing else *)

LEMMA StagedKept ==
  ASSUME Kept, NEW u \in DOMAIN updates, IsStaged(u)
  PROVE  IsStaged(u)'
  BY DEF Kept, IsStaged

LEMMA HandleProgress ==
  ASSUME PhoneTypeOK, Progress, Kept, StartedOnce, Handle
  PROVE  Progress'
<1>1. /\ UNCHANGED <<updates, acked, pollOffset, inPage, last>>
      /\ polling \in {"handle", "start", "stop"}
      /\ polling' \in {"start", "stop", "reply"}
  BY DEF Handle, telegramVars, HandleGated, HandleStart, StartNow, HandleTap,
     HandleConfirm, HandleWithdraw, HandleStop, StopOne, StopDone, Handling
<1>2. /\ DOMAIN updates = 1..Len(updates) /\ Len(updates) \in Nat
      /\ acked \in 0..Len(updates)
      /\ pollOffset \in 0..Len(updates) + 1
      /\ inPage \in 1..last
      /\ last \in 0..Len(updates)
  BY <1>1 DEF PhoneTypeOK
<1>3. \A u \in 1..acked : IsStaged(u)'
  BY <1>2, StagedKept DEF Progress
<1>4. \A u \in 1..pollOffset - 1 : IsStaged(u)'
  BY <1>2, StagedKept DEF Progress
<1>5. \A u \in 1..inPage - 1 : IsStaged(u)'
  BY <1>1, <1>2, StagedKept DEF Progress
<1>6. IsStaged(inPage)'
  <2>1. CASE HandleGated \/ HandleStart
    <3>1. updates[inPage] \in [kind : Kinds, about : Nat]
      <4>1. updates \in Seq([kind : Kinds, about : Nat])
        BY DEF PhoneTypeOK
      <4>2. inPage \in DOMAIN updates
        BY <1>2
      <4> QED
        BY ONLY <4>1, <4>2, MemberOfSeq
    <3>2. \E kind \in Staging, task \in Nat : Stage(kind, task)
      BY <2>1, <3>1 DEF HandleGated, HandleStart, Staging
    <3>3. actions \in Seq(Action) /\ inPage \in 1..MaxUpdates
      BY <1>2, TelegramAssumption DEF PhoneTypeOK, TelegramAssumption
    <3>4. /\ actions' \in Seq(Action)
          /\ Len(actions') = Len(actions) + 1
          /\ actions'[Len(actions')].from = inPage
      BY <3>2, <3>3, StageKeeps
    <3>5. Len(actions') \in DOMAIN actions'
      BY ONLY <3>3, <3>4
    <3> QED
      BY <1>1, <3>4, <3>5 DEF IsStaged
  <2>2. CASE polling \in {"start", "stop"}
    BY <1>1, <1>2, <2>2, StagedKept DEF Progress
  <2>3. CASE updates[inPage].kind \notin Staging
    BY <1>1, <2>3 DEF IsStaged
  <2> QED
    BY <2>1, <2>2, <2>3 DEF Handle, HandleTap, HandleConfirm, HandleWithdraw,
       HandleStop, StartNow, StopOne, StopDone, Handling, Staging
<1> QED
  BY <1>1, <1>3, <1>4, <1>5, <1>6 DEF Progress, IsStaged

LEMMA ProgressStep == ASSUME PhoneInv, [PhoneNext]_phoneVars PROVE Progress'
<1>1. PhoneTypeOK /\ StartedOnce /\ Progress
  BY DEF PhoneInv
<1>2. Kept
  BY <1>1, StepKeeps
<1>3. /\ DOMAIN updates = 1..Len(updates) /\ Len(updates) \in Nat
      /\ acked \in 0..Len(updates)
      /\ pollOffset \in 0..Len(updates) + 1
      /\ inPage \in 0..last + 1
      /\ last \in 0..Len(updates)
      /\ polling \in {"handle", "start", "stop", "reply"} => inPage \in 1..last
  BY <1>1 DEF PhoneTypeOK
<1>4. \A u \in 1..acked : IsStaged(u)'
  BY <1>1, <1>2, <1>3, StagedKept DEF Progress
<1>5. \A u \in 1..pollOffset - 1 : IsStaged(u)'
  BY <1>1, <1>2, <1>3, StagedKept DEF Progress
<1>6. ASSUME polling \in {"handle", "start", "stop", "reply"}
      PROVE  \A u \in 1..inPage - 1 : IsStaged(u)'
  BY <1>1, <1>2, <1>3, <1>6, StagedKept DEF Progress
<1>7. ASSUME polling = "reply"
      PROVE  \A u \in 1..inPage : IsStaged(u)'
  <2>1. SUFFICES ASSUME NEW u \in 1..inPage PROVE IsStaged(u)'
    OBVIOUS
  <2>2. IsStaged(u)
    <3>1. CASE u = inPage
      BY <1>1, <1>7, <3>1 DEF Progress
    <3>2. CASE u \in 1..inPage - 1
      BY <1>1, <1>7, <3>2 DEF Progress
    <3> QED
      BY <1>3, <3>1, <3>2
  <2>3. u \in DOMAIN updates
    BY <1>3, <1>7
  <2> QED
    BY <1>2, <2>2, <2>3, StagedKept
<1>8. ASSUME polling \in {"publish", "announce", "record"}
      PROVE  \A u \in 1..last : IsStaged(u)'
  BY <1>1, <1>2, <1>3, <1>8, StagedKept DEF Progress
<1>9. CASE Handle
  BY <1>1, <1>2, <1>9, HandleProgress
<1>10. CASE Restart
  BY <1>4, <1>5, <1>10 DEF Restart, Progress, telegramVars
<1>11. CASE Poll
  <2>1. \A u \in 1..acked' : IsStaged(u)'
    BY <1>3, <1>4, <1>5, <1>11 DEF Poll
  <2>2. /\ pollOffset' = pollOffset /\ acked' \in Nat
        /\ inPage' = acked' + 1
        /\ polling' \in {"handle", "publish"}
        /\ last' \in Nat
        /\ polling' = "publish" => last' <= acked'
    BY <1>3, <1>11 DEF Poll
  <2>3. inPage' - 1 = acked'
    <3>1. acked' \in Nat /\ inPage' = acked' + 1
      BY <2>2
    <3>2. \A n \in Nat : (n + 1) - 1 = n
      OBVIOUS
    <3> QED
      BY ONLY <3>1, <3>2, Zenon
  <2>4. polling' = "publish" => 1..last' \subseteq 1..acked'
    BY <2>2
  <2>5. \A u \in 1..pollOffset' - 1 : IsStaged(u)'
    BY <1>5, <2>2
  <2>6. \A u \in 1..inPage' - 1 : IsStaged(u)'
    BY <2>1, <2>3
  <2>7. polling' = "publish" => \A u \in 1..last' : IsStaged(u)'
    BY <2>1, <2>4
  <2>8. polling' \notin {"start", "stop", "reply", "announce", "record"}
    BY <2>2
  <2> QED
    BY ONLY <2>1, <2>5, <2>6, <2>7, <2>8 DEF Progress
<1>12. CASE Reply
  <2>1. /\ UNCHANGED <<acked, pollOffset, last>>
        /\ inPage' = inPage + 1
        /\ polling' = IF inPage = last THEN "publish" ELSE "handle"
    BY <1>12 DEF Reply, telegramVars
  <2>2. \A u \in 1..inPage : IsStaged(u)'
    BY <1>7, <1>12 DEF Reply
  <2> QED
    BY <1>3, <1>4, <1>5, <2>1, <2>2 DEF Progress
<1>13. CASE Publish \/ Announce \/ RecordReceipt
  BY <1>4, <1>5, <1>8, <1>13
     DEF Publish, Announce, RecordReceipt, Progress, telegramVars
<1>14. CASE EndPoll
  <2>1. \A u \in 1..pollOffset' - 1 : IsStaged(u)'
    BY <1>3, <1>5, <1>8, <1>14 DEF EndPoll, NextOffset
  <2> QED
    BY <1>4, <1>14, <2>1 DEF EndPoll, Progress, telegramVars
<1>15. CASE Faulty
  <2>1. UNCHANGED acked /\ (UNCHANGED pollOffset \/ pollOffset' = 0)
        /\ polling' \in {"poll", "down"}
    BY <1>15 DEF Faulty, PublishFails, ReplyFails, AnnounceFails, Crash,
       AbandonPoll, telegramVars
  <2> QED
    BY <1>4, <1>5, <2>1 DEF Progress
<1>16. CASE World \/ UNCHANGED phoneVars
  <2>1. UNCHANGED <<acked, pollOffset, inPage, last, polling>>
    BY <1>16 DEF World, OperatorSends, Lapse, RunFinishes, phoneVars, telegramVars,
       daemonVars
  <2>2. ASSUME polling \in {"start", "stop", "reply"} PROVE IsStaged(inPage)'
    <3>1. inPage \in DOMAIN updates /\ IsStaged(inPage)
      BY <1>1, <1>3, <2>2 DEF Progress
    <3> QED
      BY <1>2, <2>1, <3>1 DEF Kept, IsStaged
  <2> QED
    BY <1>4, <1>5, <1>6, <1>8, <2>1, <2>2 DEF Progress, IsStaged
<1> QED
  BY <1>9, <1>10, <1>11, <1>12, <1>13, <1>14, <1>15, <1>16 DEF PhoneNext, Daemon

LEMMA InvStep == ASSUME PhoneInv, [PhoneNext]_phoneVars PROVE PhoneInv'
<1>1. PhoneTypeOK'
  BY TypeStep
<1>2. StartedOnce'
  BY StepKeepsRows DEF PhoneInv, RowsKept
<1>3. Progress'
  BY ProgressStep
<1> QED
  BY <1>1, <1>2, <1>3 DEF PhoneInv

-----------------------------------------------------------------------------
(* Every repetition is paid for by a fault *)

(* The rows staged for the update u. *)
From(u) == {a \in DOMAIN actions : actions[a].from = u}

(* The daemon as it stands does not handle u again unless something fails. *)
IsPassed(u) ==
  \/ u <= acked \/ u < pollOffset
  \/ polling \in {"handle", "start", "stop", "reply"} /\ u < inPage
  \/ polling \in {"start", "stop", "reply"} /\ u = inPage
  \/ polling \in {"publish", "announce", "record"} /\ u <= last

(* A response holds only what its offset asked for. *)
InOrder ==
  /\ polling \in {"handle", "start", "stop", "reply"}
       => inPage > acked /\ inPage >= pollOffset
  /\ polling \notin {"down", "poll"} => pollOffset <= last + 1

RequestsRepaid ==
  \A u \in Nat :
    Cardinality(From(u)) <= faults + (IF IsPassed(u) THEN 1 ELSE 0)

(* The run's notice is out, and is on record or about to be. *)
Told(r) == r \in receipts \/ (polling = "record" /\ OldestWaiting(r))

NoticesRepaid ==
  /\ \A r \in DOMAIN runs : sends[r] <= faults + (IF Told(r) THEN 1 ELSE 0)
  /\ \A r \in DOMAIN runs : Told(r) => sends[r] > 0
  /\ polling \in {"announce", "record"} => todo \cap receipts = {}

RepaidInv == PhoneInv /\ InOrder /\ RequestsRepaid /\ NoticesRepaid

(* The numbers the daemon counts with. *)
LEMMA Counters ==
  ASSUME PhoneTypeOK
  PROVE  /\ acked \in Nat /\ pollOffset \in Nat /\ inPage \in Nat /\ last \in Nat
         /\ faults \in Nat /\ Len(updates) \in Nat
         /\ pollOffset <= Len(updates) + 1
  BY TelegramAssumption DEF PhoneTypeOK, TelegramAssumption

(* A fault is counted, and nothing else counts. *)
LEMMA FaultsCount ==
  ASSUME [PhoneNext]_phoneVars
  PROVE  /\ Faulty => faults' = faults + 1
         /\ ~Faulty => faults' = faults
  BY DEF PhoneNext, Daemon, Faulty, World, Restart, Poll, Handle, Reply, Publish, Announce,
     RecordReceipt, EndPoll, PublishFails, ReplyFails, AnnounceFails, Crash, Fault,
     OperatorSends, Lapse, RunFinishes, phoneVars

(* A failed poll and a dead daemon start over. *)
LEMMA FaultStartsOver ==
  ASSUME Faulty
  PROVE  /\ polling' \in {"down", "poll"}
         /\ UNCHANGED <<receipts, runs, acked, actions>>
  BY DEF Faulty, PublishFails, ReplyFails, AnnounceFails, Crash, AbandonPoll, telegramVars,
     requestVars

LEMMA InOrderStep == ASSUME PhoneInv, InOrder, [PhoneNext]_phoneVars PROVE InOrder'
<1>1. PhoneTypeOK
  BY DEF PhoneInv
<1>2. /\ acked \in Nat /\ pollOffset \in Nat /\ inPage \in Nat /\ last \in Nat
      /\ Len(updates) \in Nat /\ pollOffset <= Len(updates) + 1
  BY <1>1, Counters
<1>3. CASE Poll
  BY <1>2, <1>3 DEF Poll, InOrder
<1>4. CASE Handle
  BY <1>4 DEF InOrder, Handle, telegramVars, HandleGated, HandleStart, StartNow,
     HandleTap, HandleConfirm, HandleWithdraw, HandleStop, StopOne, StopDone, Handling
<1>5. CASE Reply
  BY <1>2, <1>5 DEF InOrder, Reply, telegramVars
<1>6. CASE Restart \/ EndPoll
  BY <1>6 DEF InOrder, Restart, EndPoll
<1>7. CASE Faulty
  BY <1>7, FaultStartsOver DEF InOrder
<1>8. CASE Publish \/ Announce \/ RecordReceipt
  BY <1>8 DEF InOrder, Publish, Announce, RecordReceipt, telegramVars
<1>9. CASE World \/ UNCHANGED phoneVars
  BY <1>9 DEF InOrder, World, OperatorSends, Lapse, RunFinishes, phoneVars,
     telegramVars, daemonVars
<1> QED
  BY <1>3, <1>4, <1>5, <1>6, <1>7, <1>8, <1>9 DEF PhoneNext, Daemon

(* Only a fault takes the daemon back to what it had passed. *)
LEMMA PassedStep ==
  ASSUME PhoneInv, InOrder, [PhoneNext]_phoneVars, ~Faulty, NEW u \in Nat, IsPassed(u)
  PROVE  IsPassed(u)'
<1>1. PhoneTypeOK
  BY DEF PhoneInv
<1>2. /\ acked \in Nat /\ pollOffset \in Nat /\ inPage \in Nat /\ last \in Nat
      /\ Len(updates) \in Nat /\ pollOffset <= Len(updates) + 1
  BY <1>1, Counters
<1>3. CASE Poll
  BY <1>2, <1>3 DEF Poll, IsPassed
<1>4. CASE Handle
  BY <1>4 DEF IsPassed, Handle, telegramVars, HandleGated, HandleStart, StartNow,
     HandleTap, HandleConfirm, HandleWithdraw, HandleStop, StopOne, StopDone, Handling
<1>5. CASE Reply
  BY <1>2, <1>5 DEF IsPassed, Reply, telegramVars
<1>6. CASE Restart
  BY <1>6 DEF IsPassed, Restart, telegramVars
<1>7. CASE EndPoll
  BY <1>2, <1>7 DEF IsPassed, InOrder, EndPoll, NextOffset, telegramVars
<1>8. CASE Publish \/ Announce \/ RecordReceipt
  BY <1>8 DEF IsPassed, Publish, Announce, RecordReceipt, telegramVars
<1>9. CASE World \/ UNCHANGED phoneVars
  BY <1>9 DEF IsPassed, World, OperatorSends, Lapse, RunFinishes, phoneVars,
     telegramVars, daemonVars
<1> QED
  BY <1>3, <1>4, <1>5, <1>6, <1>7, <1>8, <1>9 DEF PhoneNext, Daemon

LEMMA FromIsFinite ==
  ASSUME actions \in Seq(Action), NEW u
  PROVE  IsFiniteSet(From(u)) /\ Cardinality(From(u)) \in Nat
<1>1. DOMAIN actions = 1..Len(actions) /\ Len(actions) \in Nat
  OBVIOUS
<1>2. IsFiniteSet(1..Len(actions))
  BY ONLY <1>1, FS_Interval
<1>3. From(u) \subseteq 1..Len(actions)
  BY <1>1 DEF From
<1>4. IsFiniteSet(From(u))
  BY ONLY <1>2, <1>3, FS_Subset
<1> QED
  BY ONLY <1>4, FS_CardinalityType

(* Nothing but create_pending_action adds a row. *)
RowsAsWere ==
  /\ DOMAIN actions' = DOMAIN actions
  /\ \A a \in DOMAIN actions : actions'[a].from = actions[a].from

RowAdded ==
  /\ polling = "handle" /\ polling' \in {"start", "reply"} /\ UNCHANGED inPage
  /\ actions' \in Seq(Action)
  /\ Len(actions') = Len(actions) + 1
  /\ \A a \in DOMAIN actions : actions'[a] = actions[a]
  /\ actions'[Len(actions')].from = inPage

LEMMA HandAddsOne ==
  ASSUME PhoneTypeOK, StartedOnce, Handle PROVE RowsAsWere \/ RowAdded
<1> USE DEF PhoneTypeOK
<1>1. ASSUME NEW kind, Handling(kind)
      PROVE  /\ inPage \in 1..MaxUpdates
             /\ updates[inPage].about \in Nat
  <2>1. inPage \in 1..MaxUpdates /\ inPage \in DOMAIN updates
    BY <1>1, TelegramAssumption DEF Handling, TelegramAssumption
  <2>2. updates \in Seq([kind : Kinds, about : Nat])
    OBVIOUS
  <2>3. updates[inPage] \in [kind : Kinds, about : Nat]
    BY ONLY <2>1, <2>2, MemberOfSeq
  <2> QED
    BY ONLY <2>1, <2>3
<1>2. CASE HandleGated
  <2>1. PICK kind \in Gated : Handling(kind) /\ Stage(kind, updates[inPage].about)
    BY <1>2 DEF HandleGated
  <2>2. polling = "handle" /\ polling' = "reply" /\ UNCHANGED inPage
    BY <1>2, <2>1 DEF HandleGated, Handling, Handle
  <2> QED
    BY <1>1, <2>1, <2>2, StageKeeps DEF RowAdded, Staging
<1>3. CASE HandleStart
  <2>1. Handling("start") /\ Stage("start", 0)
    BY <1>3 DEF HandleStart
  <2>2. polling = "handle" /\ polling' = "start" /\ UNCHANGED inPage
    BY <1>3, <2>1 DEF HandleStart, Handling, Handle
  <2> QED
    BY <1>1, <2>1, <2>2, StageKeeps DEF RowAdded, Staging
<1>4. ASSUME \/ UNCHANGED actions
             \/ \E a : ConfirmPendingAction(a)
             \/ \E a : CancelPendingAction(a)
      PROVE  RowsAsWere
  <2>1. CASE UNCHANGED actions
    BY <2>1 DEF RowsAsWere
  <2>2. ASSUME NEW a, ConfirmPendingAction(a) \/ CancelPendingAction(a)
        PROVE  RowsAsWere
    <3>1. /\ actions \in Seq(Action) /\ actions' \in Seq(Action)
          /\ Len(actions') = Len(actions)
          /\ \A b \in DOMAIN actions : actions'[b].from = actions[b].from
      BY <2>2, ConfirmKeeps, CancelKeeps
    <3>2. DOMAIN actions' = DOMAIN actions
      BY ONLY <3>1
    <3> QED
      BY ONLY <3>1, <3>2 DEF RowsAsWere
  <2> QED
    BY <1>4, <2>1, <2>2
<1>5. CASE StartNow \/ HandleTap \/ HandleConfirm \/ HandleWithdraw \/ HandleStop
             \/ StopOne \/ StopDone
  BY <1>4, <1>5 DEF StartNow, HandleTap, HandleConfirm, HandleWithdraw, HandleStop,
     StopOne, StopDone
<1> QED
  BY <1>2, <1>3, <1>5 DEF Handle

LEMMA RowsStep ==
  ASSUME PhoneInv, [PhoneNext]_phoneVars PROVE RowsAsWere \/ RowAdded
<1>1. PhoneTypeOK /\ StartedOnce
  BY DEF PhoneInv
<1>2. CASE Handle
  BY <1>1, <1>2, HandAddsOne
<1>3. CASE Lapse
  <2>1. PICK a \in Outstanding : LapseAction(a)
    BY <1>3 DEF Lapse
  <2>2. a \in DOMAIN actions /\ actions \in Seq(Action)
    BY <1>1 DEF Outstanding, PhoneTypeOK
  <2>3. /\ actions' \in Seq(Action)
        /\ Len(actions') = Len(actions)
        /\ \A b \in DOMAIN actions : actions'[b].from = actions[b].from
    BY <1>1, <2>1, <2>2, LapseKeeps
  <2>4. DOMAIN actions' = DOMAIN actions
    BY ONLY <2>2, <2>3
  <2> QED
    BY ONLY <2>3, <2>4 DEF RowsAsWere
<1>4. ASSUME UNCHANGED actions PROVE RowsAsWere
  BY <1>4 DEF RowsAsWere
<1>5. CASE ~Handle /\ ~Lapse
  <2>1. UNCHANGED actions
    BY <1>5 DEF PhoneNext, Daemon, World, Restart, Poll, Reply, Publish, Announce,
       RecordReceipt, EndPoll, Faulty, PublishFails, ReplyFails, AnnounceFails, Crash,
       AbandonPoll, OperatorSends, RunFinishes, phoneVars, requestVars
  <2> QED
    BY <1>4, <2>1
<1> QED
  BY <1>2, <1>3, <1>5

LEMMA RequestsStep ==
  ASSUME PhoneInv, InOrder, RequestsRepaid, [PhoneNext]_phoneVars
  PROVE  RequestsRepaid'
<1>1. PhoneTypeOK /\ actions \in Seq(Action) /\ faults \in Nat
  BY Counters DEF PhoneInv, PhoneTypeOK
<1>2. SUFFICES ASSUME NEW u \in Nat
               PROVE  Cardinality(From(u)') <= faults' + (IF IsPassed(u)' THEN 1 ELSE 0)
  BY DEF RequestsRepaid
<1>3. Cardinality(From(u)) <= faults + (IF IsPassed(u) THEN 1 ELSE 0)
  BY DEF RequestsRepaid
<1>4. Cardinality(From(u)) \in Nat /\ IsFiniteSet(From(u))
  BY <1>1, FromIsFinite
<1>5. /\ Faulty => faults' = faults + 1
      /\ ~Faulty => faults' = faults
      /\ ~Faulty /\ IsPassed(u) => IsPassed(u)'
  BY FaultsCount, PassedStep
<1>6. CASE RowsAsWere
  <2>1. From(u)' = From(u)
    BY <1>6 DEF RowsAsWere, From
  <2> QED
    BY <1>1, <1>3, <1>4, <1>5, <2>1
<1>7. CASE RowAdded
  <2>1. ~Faulty
    BY <1>7, FaultStartsOver DEF RowAdded
  <2> DEFINE new == Len(actions) + 1
  <2>2. /\ DOMAIN actions' = DOMAIN actions \cup {new}
        /\ new \notin DOMAIN actions
        /\ actions'[new].from = inPage
    BY <1>1, <1>7 DEF RowAdded
  <2> HIDE DEF new
  <2>3. CASE u # inPage
    <3>1. From(u)' = From(u)
      BY <1>7, <2>2, <2>3 DEF RowAdded, From
    <3> QED
      BY <1>1, <1>3, <1>4, <1>5, <2>1, <3>1
  <2>4. CASE u = inPage
    <3>1. ~IsPassed(u) /\ IsPassed(u)'
      <4>1. acked \in Nat /\ pollOffset \in Nat /\ inPage \in Nat
        BY <1>1, Counters
      <4>2. polling = "handle" /\ polling' \in {"start", "reply"} /\ inPage' = inPage
        BY <1>7 DEF RowAdded
      <4>3. inPage > acked /\ inPage >= pollOffset
        BY <4>2 DEF InOrder
      <4> QED
        BY <2>4, <4>1, <4>2, <4>3 DEF IsPassed
    <3>2. From(u)' = From(u) \cup {new}
      BY <1>7, <2>2, <2>4 DEF RowAdded, From
    <3>3. new \notin From(u)
      BY <2>2 DEF From
    <3>4. Cardinality(From(u) \cup {new}) = Cardinality(From(u)) + 1
      BY ONLY <1>4, <3>3, FS_AddElement
    <3> QED
      BY <1>1, <1>3, <1>4, <1>5, <2>1, <3>1, <3>2, <3>4
  <2> QED
    BY <2>3, <2>4
<1> QED
  BY <1>6, <1>7, RowsStep

(* The counter of the announced run goes up, and no other changes. *)
LEMMA OneNotice ==
  ASSUME PhoneTypeOK, NEW r \in DOMAIN runs, Sent(r)
  PROVE  /\ sends'[r] = sends[r] + 1
         /\ \A q \in DOMAIN runs \ {r} : sends'[q] = sends[q]
<1>1. sends \in Seq(Nat) /\ runs \in Seq([task : DOMAIN tasks, ending : Endings])
      /\ Len(sends) = Len(runs)
  BY DEF PhoneTypeOK
<1>2. DOMAIN sends = DOMAIN runs
  BY ONLY <1>1
<1> QED
  BY <1>2 DEF Sent

(* The oldest waiting run is one. *)
LEMMA OldestIsOne ==
  ASSUME todo \subseteq Nat, NEW r, NEW q, OldestWaiting(r), OldestWaiting(q)
  PROVE  r = q
  BY DEF OldestWaiting

LEMMA NoticesStep ==
  ASSUME PhoneInv, NoticesRepaid, [PhoneNext]_phoneVars PROVE NoticesRepaid'
<1>1. /\ PhoneTypeOK
      /\ faults \in Nat
      /\ \A r \in DOMAIN runs : r \in Nat /\ sends[r] \in Nat
      /\ receipts \subseteq DOMAIN runs
  <2>1. PhoneTypeOK /\ faults \in Nat
    BY Counters DEF PhoneInv
  <2>2. /\ sends \in Seq(Nat) /\ Len(sends) = Len(runs)
        /\ runs \in Seq([task : DOMAIN tasks, ending : Endings])
        /\ receipts \subseteq DOMAIN runs
    BY <2>1 DEF PhoneTypeOK
  <2>3. \A r \in DOMAIN runs : r \in Nat /\ sends[r] \in Nat
    BY ONLY <2>2
  <2> QED
    BY ONLY <2>1, <2>2, <2>3
<1>2. /\ \A r \in DOMAIN runs : sends[r] <= faults + (IF Told(r) THEN 1 ELSE 0)
      /\ \A r \in DOMAIN runs : Told(r) => sends[r] > 0
      /\ polling \in {"announce", "record"} => todo \cap receipts = {}
  BY DEF NoticesRepaid
<1>3. polling # "stop" => todo \subseteq DOMAIN runs
  BY <1>1 DEF PhoneTypeOK
<1>4. CASE Announce
  <2>1. PICK r \in todo : OldestWaiting(r) /\ Sent(r)
    BY <1>4 DEF Announce
  <2>2. /\ polling = "announce" /\ polling' = "record"
        /\ UNCHANGED <<todo, receipts, runs, faults>>
    BY <1>4 DEF Announce, requestVars
  <2>3. r \in DOMAIN runs /\ todo \subseteq Nat /\ r \notin receipts
    BY <1>1, <1>2, <1>3, <2>1, <2>2
  <2>4. /\ sends'[r] = sends[r] + 1
        /\ \A q \in DOMAIN runs \ {r} : sends'[q] = sends[q]
    BY <1>1, <2>1, <2>3, OneNotice
  <2>5. Told(r)' /\ ~Told(r)
    BY <2>1, <2>2, <2>3 DEF Told, OldestWaiting
  <2>6. \A q \in DOMAIN runs \ {r} : Told(q)' => Told(q)
    BY <2>1, <2>2, <2>3, OldestIsOne DEF Told, OldestWaiting
  <2>7. ASSUME NEW q \in DOMAIN runs
        PROVE  /\ sends'[q] <= faults + (IF Told(q)' THEN 1 ELSE 0)
               /\ Told(q)' => sends'[q] > 0
    <3>1. sends[q] \in Nat /\ faults \in Nat
      BY <1>1
    <3>2. CASE q = r
      BY <1>2, <2>4, <2>5, <3>1, <3>2
    <3>3. CASE q # r
      <4>1. Told(q)' = Told(q)
        BY <2>2, <2>6, <3>3 DEF Told
      <4> QED
        BY <1>2, <2>4, <3>1, <3>3, <4>1
    <3> QED
      BY <3>2, <3>3
  <2> QED
    BY <1>2, <2>2, <2>7 DEF NoticesRepaid
<1>5. CASE RecordReceipt
  <2>1. PICK r \in todo : /\ OldestWaiting(r)
                          /\ receipts' = receipts \cup {r}
                          /\ todo' = todo \ {r}
    BY <1>5 DEF RecordReceipt
  <2>2. /\ polling = "record" /\ polling' = "announce"
        /\ UNCHANGED <<runs, sends, faults>>
    BY <1>5 DEF RecordReceipt
  <2>3. todo \subseteq Nat
    BY <1>1, <1>3, <2>2
  <2>4. \A q \in DOMAIN runs : Told(q)' = Told(q)
    BY <2>1, <2>2, <2>3, OldestIsOne DEF Told
  <2>5. todo' \cap receipts' = {}
    BY <1>2, <2>1, <2>2
  <2> QED
    BY <1>2, <2>2, <2>4, <2>5 DEF NoticesRepaid
<1>6. CASE Faulty
  <2>1. /\ faults' = faults + 1
        /\ polling' \in {"down", "poll"}
        /\ UNCHANGED <<receipts, runs>>
    BY <1>6, FaultsCount, FaultStartsOver
  <2>2. \A q \in DOMAIN runs : /\ sends'[q] \in {sends[q], sends[q] + 1}
                               /\ polling = "record" => sends'[q] = sends[q]
                               /\ q \in receipts => sends'[q] = sends[q]
    <3>1. CASE AnnounceFails
      <4>1. PICK r \in todo : Sent(r) \/ UNCHANGED sends
        BY <3>1 DEF AnnounceFails
      <4>2. r \in DOMAIN runs /\ r \notin receipts /\ polling = "announce"
        BY <1>2, <1>3, <3>1, <4>1 DEF AnnounceFails
      <4> QED
        BY <1>1, <4>1, <4>2, OneNotice
    <3>2. CASE PublishFails \/ ReplyFails \/ Crash
      BY <3>2 DEF PublishFails, ReplyFails, Crash
    <3> QED
      BY <1>6, <3>1, <3>2 DEF Faulty
  <2>3. \A q \in DOMAIN runs : Told(q)' = (q \in receipts)
    BY <2>1 DEF Told
  <2>4. ASSUME NEW q \in DOMAIN runs
        PROVE  /\ sends'[q] <= faults' + (IF Told(q)' THEN 1 ELSE 0)
               /\ Told(q)' => sends'[q] > 0
    <3>1. sends[q] \in Nat /\ faults \in Nat
      BY <1>1
    <3>2. CASE Told(q)
      <4>1. sends[q] <= faults + 1 /\ sends[q] > 0
        BY <1>2, <3>2
      <4>2. sends'[q] = sends[q]
        BY <2>2, <3>2 DEF Told
      <4> QED
        BY <2>1, <3>1, <4>1, <4>2
    <3>3. CASE ~Told(q)
      <4>1. sends[q] <= faults /\ ~Told(q)'
        BY <1>1, <1>2, <2>3, <3>1, <3>3 DEF Told
      <4> QED
        BY <2>1, <2>2, <3>1, <4>1
    <3> QED
      BY <3>2, <3>3
  <2> QED
    BY <2>1, <2>4 DEF NoticesRepaid
<1>7. CASE RunFinishes
  <2>1. /\ UNCHANGED <<polling, todo, receipts, faults>>
        /\ sends' = Append(sends, 0)
        /\ Len(runs') = Len(runs) + 1
    BY <1>1, <1>7, RunAdded DEF RunFinishes, daemonVars
  <2>2. /\ sends \in Seq(Nat) /\ Len(sends) = Len(runs)
        /\ runs \in Seq([task : DOMAIN tasks, ending : Endings])
        /\ runs' \in Seq([task : DOMAIN tasks', ending : Endings])
    BY <1>1, <1>7, RunAdded DEF PhoneTypeOK
  <2> DEFINE new == Len(runs) + 1
  <2>3. /\ DOMAIN runs' = DOMAIN runs \cup {new}
        /\ new \notin DOMAIN runs
        /\ sends'[new] = 0
        /\ \A q \in DOMAIN runs : sends'[q] = sends[q]
    BY ONLY <2>1, <2>2
  <2> HIDE DEF new
  <2>4. \A q \in DOMAIN runs' : Told(q)' <=> Told(q)
    BY <2>1 DEF Told, OldestWaiting
  <2>5. ~Told(new)
    BY <1>1, <1>3, <2>3 DEF Told, OldestWaiting
  <2>6. ASSUME NEW q \in DOMAIN runs'
        PROVE  /\ sends'[q] <= faults' + (IF Told(q)' THEN 1 ELSE 0)
               /\ Told(q)' => sends'[q] > 0
    <3>1. Told(q)' <=> Told(q)
      BY <2>4
    <3>2. CASE q = new
      <4>0. faults' \in Nat
        BY <1>1, <2>1
      <4>1. sends'[q] = 0
        BY <2>3, <3>2
      <4>2. ~Told(q)
        BY <2>5, <3>2, Zenon
      <4>3. ~Told(q)'
        BY <3>1, <4>2, Zenon
      <4>4. \A n \in Nat : 0 <= n + 0
        OBVIOUS
      <4> QED
        BY <4>0, <4>1, <4>3, <4>4, Zenon
    <3>3. CASE q \in DOMAIN runs
      <4>1. sends'[q] = sends[q] /\ faults' = faults
        BY <2>1, <2>3, <3>3
      <4>2. /\ sends[q] <= faults + (IF Told(q) THEN 1 ELSE 0)
            /\ Told(q) => sends[q] > 0
        BY <1>2, <3>3
      <4> QED
        BY ONLY <3>1, <4>1, <4>2
    <3> QED
      BY <2>3, <3>2, <3>3
  <2>7. polling' \in {"announce", "record"} => todo' \cap receipts' = {}
    BY <1>2, <2>1
  <2> QED
    BY <2>6, <2>7 DEF NoticesRepaid
<1>8. CASE Publish
  <2>1. /\ polling = "publish" /\ polling' = "announce"
        /\ todo' = PendingCompletions
        /\ UNCHANGED <<receipts, runs, sends, faults>>
    BY <1>8 DEF Publish, requestVars
  <2>2. todo' \cap receipts' = {}
    BY <2>1 DEF PendingCompletions, FirstPage
  <2>3. \A q \in DOMAIN runs : Told(q)' = Told(q)
    BY <2>1 DEF Told
  <2> QED
    BY <1>2, <2>1, <2>2, <2>3 DEF NoticesRepaid
<1>9. ASSUME /\ UNCHANGED <<receipts, runs, sends, faults>>
             /\ \/ UNCHANGED <<polling, todo>>
                \/ /\ polling # "record"
                   /\ polling' \notin {"announce", "record"}
      PROVE  NoticesRepaid'
  <2>1. \A q \in DOMAIN runs : Told(q)' = Told(q)
    BY <1>9 DEF Told, OldestWaiting
  <2> QED
    BY <1>2, <1>9, <2>1 DEF NoticesRepaid
<1>10. CASE Handle
  BY <1>9, <1>10 DEF Handle, HandleGated, HandleStart, StartNow, HandleTap, HandleConfirm,
     HandleWithdraw, HandleStop, StopOne, StopDone, Handling
<1>11. CASE Restart \/ Poll \/ Reply \/ EndPoll
  BY <1>9, <1>11 DEF Restart, Poll, Reply, EndPoll, requestVars
<1>12. CASE OperatorSends \/ Lapse \/ UNCHANGED phoneVars
  BY <1>9, <1>12 DEF OperatorSends, Lapse, phoneVars, requestVars, daemonVars
<1> QED
  BY <1>4, <1>5, <1>6, <1>7, <1>8, <1>10, <1>11, <1>12 DEF PhoneNext, Daemon, World

LEMMA RepaidInvStarts == PhoneInit => RepaidInv
<1> SUFFICES ASSUME PhoneInit PROVE RepaidInv
  OBVIOUS
<1>1. PhoneInv
  BY PhoneInvStarts
<1>2. InOrder
  BY DEF PhoneInit, InOrder
<1>3. RequestsRepaid
  <2>1. \A u \in Nat : From(u) = {}
    BY DEF PhoneInit, From
  <2> QED
    BY <2>1, FS_EmptySet DEF RequestsRepaid, PhoneInit
<1>4. NoticesRepaid
  BY DEF PhoneInit, NoticesRepaid, Told
<1> QED
  BY <1>1, <1>2, <1>3, <1>4 DEF RepaidInv

LEMMA RepaidIsTrue == RepaidInv => NoticesAreTrue
<1> SUFFICES ASSUME RepaidInv PROVE NoticesAreTrue
  OBVIOUS
<1>1. /\ PhoneTypeOK /\ actions \in Seq(Action) /\ faults \in Nat
      /\ receipts \subseteq DOMAIN runs
  BY Counters DEF RepaidInv, PhoneInv, PhoneTypeOK
<1>2. ReceiptMeansSent
  BY <1>1 DEF RepaidInv, NoticesRepaid, Told, ReceiptMeansSent
<1>3. \A u \in DOMAIN updates : Cardinality(From(u)) <= 1 + faults
  <2>1. DOMAIN updates \subseteq Nat
    BY <1>1 DEF PhoneTypeOK
  <2>2. \A u \in Nat : Cardinality(From(u)) \in Nat
    BY <1>1, FromIsFinite
  <2> QED
    BY <1>1, <2>1, <2>2 DEF RepaidInv, RequestsRepaid
<1>4. \A r \in DOMAIN runs : sends[r] <= 1 + faults
  <2>1. sends \in Seq(Nat) /\ Len(sends) = Len(runs)
        /\ runs \in Seq([task : DOMAIN tasks, ending : Endings])
    BY <1>1 DEF PhoneTypeOK
  <2>2. \A r \in DOMAIN runs : sends[r] \in Nat
    BY ONLY <2>1
  <2> QED
    BY <1>1, <2>2 DEF RepaidInv, NoticesRepaid
<1> QED
  BY <1>2, <1>3, <1>4 DEF NoticesAreTrue, RepeatsNeedFaults, From

-----------------------------------------------------------------------------
(* The theorems *)

LEMMA PhoneInductive == PhoneSpec => []PhoneInv
<1>1. PhoneInit => PhoneInv
  BY PhoneInvStarts
<1>2. PhoneInv /\ [PhoneNext]_phoneVars => PhoneInv'
  BY InvStep
<1> QED
  BY <1>1, <1>2, PTL DEF PhoneSpec

(* Every variable keeps its type, and the daemon stays inside the response  *)
(* it was given (poll_once).                                                *)
THEOREM PhoneTypes == PhoneSpec => []PhoneTypeOK
<1>1. PhoneInv => PhoneTypeOK
  BY DEF PhoneInv
<1> QED
  BY <1>1, PhoneInductive, PTL

(* However many messages, runs and failures there are, a staged request     *)
(* takes effect at most once, and never once withdrawn or expired           *)
(* (confirm_pending_action, cancel_pending_action).                         *)
THEOREM AtMostOnce == PhoneSpec => []StartedOnce
<1>1. PhoneInv => StartedOnce
  BY DEF PhoneInv
<1> QED
  BY <1>1, PhoneInductive, PTL

(* However many messages and failures there are, Telegram never drops an    *)
(* update whose request the daemon has not staged (poll_once, run_forever). *)
THEOREM NothingLost == PhoneSpec => []NoRequestLost
<1>1. PhoneInv => NoRequestLost
  BY DEF PhoneInv, Progress, IsStaged, Staging, NoRequestLost
<1> QED
  BY <1>1, PhoneInductive, PTL

(* A request counts exactly once, for any number of messages, faults and    *)
(* restarts of the daemon.                                                  *)
THEOREM ExactlyOnce == PhoneSpec => []HandledOnce
  BY AtMostOnce, NothingLost, PTL DEF HandledOnce

(* Nothing is repeated for free: an update is staged once more, and a run   *)
(* announced once more, only for a failure that came between, and a receipt *)
(* is never ahead of its notice, for any number of messages, runs and       *)
(* failures (poll_once, publish_completions).                               *)
THEOREM RepeatsArePaidFor == PhoneSpec => []NoticesAreTrue
<1>1. RepaidInv /\ [PhoneNext]_phoneVars => RepaidInv'
  BY InvStep, InOrderStep, RequestsStep, NoticesStep DEF RepaidInv
<1> QED
  BY <1>1, RepaidInvStarts, RepaidIsTrue, PTL DEF PhoneSpec
=============================================================================
