------------------------------ MODULE Telegram ------------------------------
(***************************************************************************)
(* The phone side of the control plane: the long-poll loop of              *)
(* interfaces/telegram_daemon.py, the routing of telegram_control.py and   *)
(* the board tables both rest on (triai_pending_actions,                   *)
(* triai_completion_notifications).                                        *)
(*                                                                         *)
(* Telegram keeps every update until a getUpdates call names a higher      *)
(* offset.  The daemon holds its offset in memory and takes the new one    *)
(* only when a whole poll has succeeded: a transport failure anywhere in   *)
(* the poll, or a restart, has the same updates delivered again.           *)
(*                                                                         *)
(* One authorized chat.  Kinds of update: "run" stands for every request   *)
(* that must be confirmed (/run, and a reading that is external), "start"  *)
(* for a reading that starts at once, "confirm" for /confirm without an    *)
(* id, "tap" for /confirm <id> and the button of a card, "withdraw" for    *)
(* its other button, "stop" for a reading that means stop.                 *)
(*                                                                         *)
(* Definitions marked "variant" belong to no specification; each is the    *)
(* definition it precedes with a plausible defect.                         *)
(***************************************************************************)
EXTENDS Naturals, Sequences, FiniteSets

CONSTANTS
  Kinds,      \* the kinds of update the operator sends
  Endings,    \* the values of task_runs.status a run may end with
  PageSize,   \* the limit of pending_completions_for_chat, 5 in the code
  MaxUpdates, \* bound on the operator's messages
  MaxFinished,    \* bound on finished runs
  MaxFaults   \* bound on transport failures and crashes

Gated == {"run", "retry"}     \* answered with a card that asks
Named == {"tap", "withdraw"}  \* about one staged action

ASSUME TelegramAssumption ==
  /\ Kinds \subseteq Gated \cup Named \cup {"start", "confirm", "stop"}
  /\ Endings \subseteq {"done", "failed", "cancelled", "timed_out",
                        "spawn_failed", "blocked"}
  /\ PageSize \in Nat \ {0}
  /\ MaxUpdates \in Nat
  /\ MaxFinished \in Nat
  /\ MaxFaults \in Nat

VARIABLES
  updates,  \* everything the operator ever sent, in order of update_id
  acked,    \* Telegram has dropped the updates up to this one
  polling,       \* where the daemon stands in poll_once
  pollOffset,   \* run_forever's offset, 0 for None
  inPage,       \* the update in hand
  last,     \* the last update of the response in hand
  todo,     \* actions still to withdraw, or runs still to announce
  actions,  \* triai_pending_actions, in order of creation
  tasks,    \* the status of every task
  runs,     \* finished runs, in order of ended_at
  receipts, \* runs with a row in triai_completion_notifications
  cards,    \* staged actions whose card reached the phone
  sends,    \* how often each run was announced
  faults    \* transport failures and crashes so far

telegramVars == <<updates, acked>>
daemonVars   == <<polling, pollOffset, inPage, last, todo>>
requestVars    == <<actions, tasks, runs, receipts>>
phoneVars == <<telegramVars, daemonVars, requestVars, cards, sends, faults>>

-----------------------------------------------------------------------------
(* The board *)

(* A staged request.  Its update says where it came from, task what a retry *)
(* is about; started counts the times it changed the board.                 *)
NewAction(u, kind, task) ==
  [from |-> u, kind |-> kind, task |-> task, state |-> "pending",
   lapsed |-> FALSE, started |-> 0]

(* pending_actions_for_chat *)
Outstanding == {a \in DOMAIN actions : /\ actions[a].state = "pending"
                                       /\ ~actions[a].lapsed}

(* create_pending_action, under a fresh random id *)
Stage(kind, task) ==
  actions' = Append(actions, NewAction(inPage, kind, task))

(* _retry_task_in_txn with the recompute_ready that follows it *)
Retryable(t) == t \in DOMAIN tasks /\ tasks[t] = "blocked"

(* confirm_pending_action: one transaction.  A lapsed request is marked     *)
(* expired, a pending one is marked confirmed even when the retry it asks   *)
(* for is refused, and any other is left alone.                             *)
Marked(action, state, n) ==
  [action EXCEPT !.state = state, !.started = @ + n]

MarkAction(a, state, n) == actions' = [actions EXCEPT ![a] = Marked(@, state, n)]

StartAction(a) ==
  \/ /\ actions[a].kind # "retry"
     /\ tasks' = Append(tasks, "ready")
     /\ MarkAction(a, "confirmed", 1)
  \/ /\ actions[a].kind = "retry"
     /\ Retryable(actions[a].task)
     /\ tasks' = [tasks EXCEPT ![actions[a].task] = "ready"]
     /\ MarkAction(a, "confirmed", 1)
  \/ /\ actions[a].kind = "retry"
     /\ ~Retryable(actions[a].task)
     /\ MarkAction(a, "confirmed", 0)
     /\ UNCHANGED tasks

(* Variant: the status of the request is not looked at. *)
ConfirmUnchecked(a) ==
  IF actions[a].lapsed
    THEN MarkAction(a, "expired", 0) /\ UNCHANGED tasks
    ELSE StartAction(a)

ConfirmPendingAction(a) ==
  IF actions[a].state # "pending"
    THEN UNCHANGED <<actions, tasks>>
    ELSE IF actions[a].lapsed
      THEN MarkAction(a, "expired", 0) /\ UNCHANGED tasks
      ELSE StartAction(a)

(* cancel_pending_action: a request that lapsed may still be withdrawn. *)
CancelPendingAction(a) ==
  actions' = [actions EXCEPT ![a].state =
                IF @ = "pending" THEN "cancelled" ELSE @]

(* pending_completions_for_chat: finished runs without a receipt, oldest    *)
(* first, one page; by the run statuses its query names.                    *)
Announceable == {r \in DOMAIN runs : runs[r].ending \in
                                       {"done", "failed", "cancelled"}}

FirstPage(S) == {r \in S : Cardinality({q \in S : q < r}) < PageSize}

(* Variant: a notice is remembered per task, not per run. *)
PendingByTask ==
  FirstPage({r \in Announceable :
               \A q \in receipts : runs[q].task # runs[r].task})

PendingCompletions == FirstPage(Announceable \ receipts)

-----------------------------------------------------------------------------
(* The daemon *)

PhoneInit ==
  /\ updates = <<>>
  /\ acked = 0
  /\ polling = "down"
  /\ pollOffset = 0
  /\ inPage = 0
  /\ last = 0
  /\ todo = {}
  /\ actions = <<>>
  /\ tasks = <<"blocked">>
  /\ runs = <<>>
  /\ receipts = {}
  /\ cards = {}
  /\ sends = <<>>
  /\ faults = 0

Restart ==
  /\ polling = "down"
  /\ polling' = "poll"
  /\ UNCHANGED <<telegramVars, pollOffset, inPage, last, todo, requestVars, cards,
                 sends, faults>>

(* get_updates: Telegram drops what lies below the offset and returns the   *)
(* rest, perhaps nothing.                                                   *)
Poll ==
  /\ polling = "poll"
  /\ acked' = IF pollOffset > acked + 1 THEN pollOffset - 1 ELSE acked
  /\ inPage' = acked' + 1
  /\ last' = Len(updates)
  /\ polling' = IF inPage' > last' THEN "publish" ELSE "handle"
  /\ UNCHANGED <<updates, pollOffset, todo, requestVars, cards, sends, faults>>

(* One update is routed; every branch ends in a reply. *)
Handling(kind) == polling = "handle" /\ updates[inPage].kind = kind

HandleGated ==
  /\ \E kind \in Gated : Handling(kind) /\ Stage(kind, updates[inPage].about)
  /\ polling' = "reply"
  /\ UNCHANGED <<tasks, todo>>

(* _start_now: the request is staged, then confirmed in a second            *)
(* transaction.                                                             *)
HandleStart ==
  /\ Handling("start")
  /\ Stage("start", 0)
  /\ polling' = "start"
  /\ UNCHANGED <<tasks, todo>>

StartNow ==
  /\ polling = "start"
  /\ ConfirmPendingAction(Len(actions))
  /\ polling' = "reply"
  /\ UNCHANGED todo

HandleTap ==
  /\ Handling("tap")
  /\ ConfirmPendingAction(updates[inPage].about)
  /\ polling' = "reply"
  /\ UNCHANGED todo

(* /confirm without an id acts only when exactly one request is waiting. *)
HandleConfirm ==
  /\ Handling("confirm")
  /\ IF Cardinality(Outstanding) = 1
       THEN ConfirmPendingAction(CHOOSE a \in Outstanding : TRUE)
       ELSE UNCHANGED <<actions, tasks>>
  /\ polling' = "reply"
  /\ UNCHANGED todo

HandleWithdraw ==
  /\ Handling("withdraw")
  /\ CancelPendingAction(updates[inPage].about)
  /\ polling' = "reply"
  /\ UNCHANGED <<tasks, todo>>

(* _stop: the waiting requests are read, then withdrawn one by one. *)
HandleStop ==
  /\ Handling("stop")
  /\ todo' = Outstanding
  /\ polling' = "stop"
  /\ UNCHANGED <<actions, tasks>>

StopOne ==
  /\ polling = "stop"
  /\ \E a \in todo : /\ \A b \in todo : a <= b
                     /\ CancelPendingAction(a)
                     /\ todo' = todo \ {a}
  /\ UNCHANGED <<polling, tasks>>

StopDone ==
  /\ polling = "stop"
  /\ todo = {}
  /\ polling' = "reply"
  /\ UNCHANGED <<actions, tasks, todo>>

Handle ==
  /\ \/ HandleGated \/ HandleStart \/ StartNow \/ HandleTap \/ HandleConfirm
     \/ HandleWithdraw \/ HandleStop \/ StopOne \/ StopDone
  /\ UNCHANGED <<telegramVars, pollOffset, inPage, last, runs, receipts, cards,
                 sends, faults>>

(* The reply to a request that waits is the card that asks about it. *)
CardSent == cards' = IF updates[inPage].kind \in Gated
                       THEN cards \cup {Len(actions)} ELSE cards

(* Variant: the loop runs one update too far. *)
ReplyPastEnd ==
  /\ polling = "reply"
  /\ CardSent
  /\ inPage' = inPage + 1
  /\ polling' = IF inPage > last THEN "publish" ELSE "handle"
  /\ UNCHANGED <<telegramVars, pollOffset, last, todo, requestVars, sends, faults>>

Reply ==
  /\ polling = "reply"
  /\ CardSent
  /\ inPage' = inPage + 1
  /\ polling' = IF inPage = last THEN "publish" ELSE "handle"
  /\ UNCHANGED <<telegramVars, pollOffset, last, todo, requestVars, sends, faults>>

(* publish_completions: a page is read; each run in it is sent, then        *)
(* recorded.  The poll ends with the new offset.                            *)
Publish ==
  /\ polling = "publish"
  /\ todo' = PendingCompletions
  /\ polling' = "announce"
  /\ UNCHANGED <<telegramVars, pollOffset, inPage, last, requestVars, cards, sends,
                 faults>>

OldestWaiting(r) == r \in todo /\ \A q \in todo : r <= q

Sent(r) == sends' = [sends EXCEPT ![r] = @ + 1]

Announce ==
  /\ polling = "announce"
  /\ \E r \in todo : OldestWaiting(r) /\ Sent(r)
  /\ polling' = "record"
  /\ UNCHANGED <<telegramVars, pollOffset, inPage, last, todo, requestVars, cards,
                 faults>>

(* record_completion_notification *)
RecordReceipt ==
  /\ polling = "record"
  /\ \E r \in todo : /\ OldestWaiting(r)
                     /\ receipts' = receipts \cup {r}
                     /\ todo' = todo \ {r}
  /\ polling' = "announce"
  /\ UNCHANGED <<telegramVars, pollOffset, inPage, last, actions, tasks, runs, cards,
                 sends, faults>>

(* Variant: the offset of the last update, not the one after it. *)
OffsetOfLast == IF last > acked THEN last ELSE pollOffset

(* An empty response leaves the offset as it is. *)
NextOffset == IF last > acked THEN last + 1 ELSE pollOffset

EndPoll ==
  /\ polling = "announce"
  /\ todo = {}
  /\ pollOffset' = NextOffset
  /\ polling' = "poll"
  /\ UNCHANGED <<telegramVars, inPage, last, todo, requestVars, cards, sends,
                 faults>>

-----------------------------------------------------------------------------
(* Faults *)

Fault == faults < MaxFaults /\ faults' = faults + 1

(* Variant: the offset moves past the response although its poll failed. *)
AbandonPollAndSkip ==
  /\ polling' = "poll"
  /\ pollOffset' = NextOffset
  /\ todo' = {}
  /\ UNCHANGED <<telegramVars, inPage, last, requestVars>>

(* A TelegramTransportError ends the poll; run_forever backs off and polls  *)
(* again with the offset it had.                                            *)
AbandonPoll ==
  /\ polling' = "poll"
  /\ todo' = {}
  /\ UNCHANGED <<telegramVars, pollOffset, inPage, last, requestVars>>

(* The cards of publish_pending and publish_progress are sent between the   *)
(* replies and the completions, and any of them may fail.                   *)
PublishFails ==
  /\ polling = "publish"
  /\ Fault
  /\ AbandonPoll
  /\ UNCHANGED <<cards, sends>>

(* A reply or a notice may reach the phone although the call fails. *)
ReplyFails ==
  /\ polling = "reply"
  /\ Fault
  /\ CardSent \/ UNCHANGED cards
  /\ AbandonPoll
  /\ UNCHANGED sends

(* Variant: a failed notice is swallowed, as a failed document upload is. *)
AnnounceFailsUnnoticed ==
  /\ polling = "announce"
  /\ Fault
  /\ \E r \in todo : OldestWaiting(r) /\ (Sent(r) \/ UNCHANGED sends)
  /\ polling' = "record"
  /\ UNCHANGED <<telegramVars, pollOffset, inPage, last, todo, requestVars, cards>>

AnnounceFails ==
  /\ polling = "announce"
  /\ Fault
  /\ \E r \in todo : OldestWaiting(r) /\ (Sent(r) \/ UNCHANGED sends)
  /\ AbandonPoll
  /\ UNCHANGED cards

(* The process dies: an exception nothing catches, a permanent API error,   *)
(* or the machine.  The supervisor starts it again without an offset.       *)
Crash ==
  /\ polling # "down"
  /\ Fault
  /\ polling' = "down"
  /\ pollOffset' = 0
  /\ todo' = {}
  /\ UNCHANGED <<telegramVars, inPage, last, requestVars, cards, sends>>

-----------------------------------------------------------------------------
(* The operator, the clock and the workers *)

(* What the operator may send now: a button needs its card, a retry a task. *)
Subjects(kind) ==
  IF kind \in Named THEN cards
  ELSE IF kind = "retry" THEN DOMAIN tasks
  ELSE {0}

OperatorSends ==
  /\ Len(updates) < MaxUpdates
  /\ \E kind \in Kinds : \E about \in Subjects(kind) :
       updates' = Append(updates, [kind |-> kind, about |-> about])
  /\ UNCHANGED <<acked, daemonVars, requestVars, cards, sends, faults>>

LapseAction(a) == actions' = [actions EXCEPT ![a].lapsed = TRUE]

(* A request waits for 15 minutes, far longer than the moment between the   *)
(* two transactions of _start_now.                                          *)
Lapse ==
  /\ polling # "start"
  /\ \E a \in Outstanding : LapseAction(a)
  /\ UNCHANGED <<telegramVars, daemonVars, tasks, runs, receipts, cards,
                 sends, faults>>

(* A run of a ready task ends; what becomes of the task is the worker's     *)
(* affair and follows the ending as far as it determines it.                *)
After(ending) ==
  CASE ending = "done"      -> {"done"}
    [] ending = "cancelled" -> {"cancelled"}
    [] ending = "blocked"   -> {"blocked"}
    [] OTHER                -> {"ready", "blocked"}

RunFinishes ==
  /\ Len(runs) < MaxFinished
  /\ \E t \in DOMAIN tasks, ending \in Endings :
       /\ tasks[t] = "ready"
       /\ \E status \in After(ending) : tasks' = [tasks EXCEPT ![t] = status]
       /\ runs' = Append(runs, [task |-> t, ending |-> ending])
  /\ sends' = Append(sends, 0)
  /\ UNCHANGED <<telegramVars, daemonVars, actions, receipts, cards, faults>>

-----------------------------------------------------------------------------
Daemon == Restart \/ Poll \/ Handle \/ Reply \/ Publish \/ Announce
            \/ RecordReceipt \/ EndPoll

Faulty == PublishFails \/ ReplyFails \/ AnnounceFails \/ Crash

World == OperatorSends \/ Lapse \/ RunFinishes

PhoneNext == Daemon \/ Faulty \/ World

PhoneSpec == PhoneInit /\ [][PhoneNext]_phoneVars

(* The daemon keeps taking steps: its calls have timeouts, a transport      *)
(* failure is retried for ever, and the supervisor restarts it.             *)
PhoneFairSpec == PhoneSpec /\ WF_phoneVars(Daemon)

-----------------------------------------------------------------------------
(* Properties *)

Action == [from : 1..MaxUpdates, kind : Gated \cup {"start"}, task : Nat,
           state : {"pending", "confirmed", "expired", "cancelled"},
           lapsed : BOOLEAN, started : 0..1]

(* Every variable has its type, and the daemon works inside the response it *)
(* was given.                                                               *)
PhoneTypeOK ==
  /\ updates \in Seq([kind : Kinds, about : Nat])
  /\ Len(updates) <= MaxUpdates
  /\ acked \in 0..Len(updates)
  /\ polling \in {"down", "poll", "handle", "start", "stop", "reply", "publish",
             "announce", "record"}
  /\ pollOffset \in 0..Len(updates) + 1
  /\ inPage \in 0..last + 1
  /\ polling \in {"handle", "start", "stop", "reply"} => inPage \in 1..last
  /\ last \in 0..Len(updates)
  /\ actions \in Seq(Action)
  /\ todo \subseteq IF polling = "stop" THEN DOMAIN actions ELSE DOMAIN runs
  /\ polling = "record" => todo # {}
  /\ tasks \in Seq({"ready", "done", "blocked", "cancelled"})
  /\ runs \in Seq([task : DOMAIN tasks, ending : Endings])
  /\ receipts \subseteq DOMAIN runs
  /\ cards \subseteq DOMAIN actions
  /\ sends \in Seq(Nat)
  /\ Len(sends) = Len(runs)
  /\ faults \in 0..MaxFaults

(* However often its confirmation is delivered, a staged request changes    *)
(* the board at most once, and one that was withdrawn or has expired never  *)
(* does (confirm_pending_action, cancel_pending_action).                    *)
StartedOnce ==
  \A a \in DOMAIN actions : /\ actions[a].started <= 1
                            /\ actions[a].state # "confirmed"
                                 => actions[a].started = 0

(* Telegram forgets a request only after the daemon has staged it: no       *)
(* failure in a poll and no restart moves the offset past unhandled updates *)
(* (poll_once and run_forever).                                             *)
NoRequestLost ==
  \A u \in 1..acked :
    updates[u].kind \in Gated \cup {"start"}
      => \E a \in DOMAIN actions : actions[a].from = u

(* Delivery is at least once, and every repetition costs a failure: a       *)
(* message is not handled twice, nor a run announced twice, by a daemon     *)
(* that lost nothing (poll_once, publish_completions).                      *)
RepeatsNeedFaults ==
  /\ \A u \in DOMAIN updates :
       Cardinality({a \in DOMAIN actions : actions[a].from = u}) <= 1 + faults
  /\ \A r \in DOMAIN runs : sends[r] <= 1 + faults

(* A receipt exists only for a notice that reached the phone                *)
(* (publish_completions sends first and records second).                    *)
ReceiptMeansSent == \A r \in receipts : sends[r] > 0

(* A request that needs confirmation changes the board only after the       *)
(* operator, having made it, confirmed it: by its id, or by a /confirm sent *)
(* after it (telegram_control.py:613-616).                                  *)
ConfirmedByOperator ==
  \A a \in DOMAIN actions :
    actions[a].kind \in Gated /\ actions[a].started > 0 =>
      \E u \in actions[a].from + 1 .. Len(updates) :
        \/ updates[u].kind = "confirm"
        \/ updates[u].kind = "tap" /\ updates[u].about = a

(* A message that starts work does start it, whatever fails in between      *)
(* (_start_now, with redelivery).                                           *)
EveryStartStarts ==
  \A u \in 1..MaxUpdates :
    (u \in DOMAIN updates /\ updates[u].kind = "start")
      ~> \E a \in DOMAIN actions : actions[a].from = u /\ actions[a].started > 0

(* The operator is told of every finished run (pending_completions_for_chat *)
(* and publish_completions).                                                *)
EveryRunIsTold == \A r \in 1..MaxFinished : r \in DOMAIN runs ~> r \in receipts

(* Over a channel that repeats and a daemon that dies, a request counts     *)
(* exactly once: it is not lost, and what was staged for it starts once.    *)
HandledOnce == StartedOnce /\ NoRequestLost

(* What is on record as told was told, and told again only for a reason. *)
NoticesAreTrue == ReceiptMeansSent /\ RepeatsNeedFaults
=============================================================================
