----------------------------- MODULE Standstill -----------------------------
(***************************************************************************)
(* The standstill digest: what src/src/standstill.py finds on the board,   *)
(* when it is worth saying, and publish_standstill of                      *)
(* src/src/interfaces/telegram_daemon.py, which says it to every chat and  *)
(* remembers in a file beside the board that it did.                       *)
(*                                                                         *)
(* Time is counted in hours since something happened, each count capped    *)
(* where the code stops telling values apart.  Definitions marked          *)
(* "variant" belong to no specification; each is the definition it         *)
(* precedes with a plausible defect.                                       *)
(***************************************************************************)
EXTENDS Integers, FiniteSets, SequencesExt

CONSTANTS
  Works,        \* the tasks of the board
  WaitsOn,      \* for each task the parents of its links, in row order
  Readers,      \* the authorized chats
  Silence,      \* stands for no message, no receipt and no run yet
  QuietFor,     \* hours without a finished run that make a stall
  RepeatAfter,  \* hours after which an unchanged digest is repeated
  MaxQuiet,     \* cap on the hours a digest can name
  MaxRefusals   \* bound on sends that fail

(* Whatever is a parent in a link, a task of the board or not. *)
Awaited == UNION {ToSet(WaitsOn[w]) : w \in Works}

ASSUME StandstillAssumption ==
  /\ IsFiniteSet(Works) /\ IsFiniteSet(Readers) /\ DOMAIN WaitsOn = Works
  /\ \A w \in Works : WaitsOn[w] \in Seq(ToSet(WaitsOn[w]))
  /\ Silence \notin Awaited \X {"cancelled", "missing"}
  /\ {QuietFor, RepeatAfter, MaxQuiet, MaxRefusals} \subseteq Nat
  /\ QuietFor <= MaxQuiet

VARIABLES
  state,    \* tasks.status
  idleFor,  \* hours since the last run ended
  memory,   \* standstill-state.json: the message last sent to every chat
  since,    \* hours since it was written
  heard,    \* for each chat the message it got last (the phone's side)
  spaced,   \* for each chat the hours since it got it
  saying,   \* the message being sent, or Silence
  toTell,   \* the chats still to be sent it
  refusals

workVars  == <<state, idleFor>>
toldVars  == <<heard, spaced>>
standVars == <<workVars, memory, since, toldVars, saying, toTell, refusals>>

Settled == {"done", "cancelled"}
Waiting == {"todo", "ready", "blocked"}

StandInit ==
  /\ state = [w \in Works |-> IF WaitsOn[w] = <<>> THEN "ready" ELSE "todo"]
  /\ idleFor = Silence
  /\ memory = Silence /\ since = 0
  /\ heard = [c \in Readers |-> Silence] /\ spaced = [c \in Readers |-> 0]
  /\ saying = Silence /\ toTell = <<>>
  /\ refusals = 0

-----------------------------------------------------------------------------
(* The board: the kernel's promotion, and the ends a run may have *)

Promoted(s) ==
  [w \in Works |->
     IF s[w] = "todo" /\ \A p \in ToSet(WaitsOn[w]) : p \in Works /\ s[p] = "done"
       THEN "ready" ELSE s[w]]

Claimed(w) ==
  /\ state[w] = "ready"
  /\ state' = [state EXCEPT ![w] = "running"]
  /\ UNCHANGED <<idleFor, memory, since, toldVars, saying, toTell, refusals>>

(* Every end of a run writes ended_at, a cancellation included. *)
EndsAs(w, status) ==
  /\ state[w] = "running"
  /\ state' = Promoted([state EXCEPT ![w] = status])
  /\ idleFor' = 0
  /\ UNCHANGED <<memory, since, toldVars, saying, toTell, refusals>>

Retried(w) ==
  /\ state[w] = "blocked"
  /\ state' = Promoted([state EXCEPT ![w] = "todo"])
  /\ UNCHANGED <<idleFor, memory, since, toldVars, saying, toTell, refusals>>

-----------------------------------------------------------------------------
(* standstill.stranded *)

StatusOf(p) == IF p \in Works THEN state[p] ELSE "missing"

(* Variant: what is blocked is taken for dead. *)
GivenUp(p) == StatusOf(p) \in {"cancelled", "blocked", "missing"}

(* DEAD_STATUSES, of which this system writes one, and no such task. *)
DeadEnd(p) == StatusOf(p) \in {"cancelled", "missing"}

(* Breadth first over the ancestors, done ones included; the first dead end *)
(* found is named.  A walk is at a queue and a set of tasks it has seen.    *)
HeldBy[walk \in Seq(Awaited) \X SUBSET (Works \cup Awaited)] ==
  LET queue == walk[1]
      seen  == walk[2]
      p     == Head(queue)
  IN  IF queue = <<>> THEN Silence
      ELSE IF p \in seen THEN HeldBy[<<Tail(queue), seen>>]
      ELSE IF DeadEnd(p) THEN <<p, StatusOf(p)>>
      ELSE HeldBy[<<Tail(queue) \o WaitsOn[p], seen \cup {p}>>]

Holding(w) == HeldBy[<<WaitsOn[w], {w}>>]

Stranded == {w \in Works : state[w] \in Waiting /\ Holding(w) # Silence}

(* standstill.stalled *)
InState(S) == {w \in Works : state[w] \in S}

Stalled ==
  /\ InState(Waiting) # {} /\ InState({"running"}) = {}
  /\ idleFor # Silence /\ idleFor >= QuietFor

(* standstill.digest: how long it has been quiet is part of the text. *)
Digest ==
  IF Stranded = {} /\ ~Stalled THEN Silence
  ELSE [held  |-> [w \in Stranded |-> Holding(w)],
        stall |-> IF Stalled THEN Cardinality(InState(Waiting)) ELSE 0,
        hours |-> IF Stalled THEN idleFor ELSE 0]

(* What a digest is about, apart from the hours. *)
Situation(m) ==
  IF m = Silence THEN Silence ELSE <<m.held, m.stall>>

(* Variant: said once, never repeated. *)
SaidOnce(m) == m # memory

(* standstill.should_send *)
ShouldSend(m) == m # memory \/ since >= RepeatAfter

-----------------------------------------------------------------------------
(* publish_standstill, at the end of every poll *)

ReadsBoard ==
  /\ saying = Silence
  /\ Digest # Silence /\ ShouldSend(Digest)
  /\ saying' = Digest
  /\ toTell' = SetToSeq(Readers)
  /\ UNCHANGED <<workVars, memory, since, toldVars, refusals>>

Tells ==
  /\ toTell # <<>>
  /\ heard' = [heard EXCEPT ![Head(toTell)] = saying]
  /\ spaced' = [spaced EXCEPT ![Head(toTell)] = 0]
  /\ toTell' = Tail(toTell)
  /\ UNCHANGED <<workVars, memory, since, saying, refusals>>

(* A send that fails, or a daemon that dies, ends the report: nothing is    *)
(* remembered of the chats that were told.                                  *)
TellFails ==
  /\ saying # Silence /\ refusals < MaxRefusals
  /\ refusals' = refusals + 1
  /\ saying' = Silence /\ toTell' = <<>>
  /\ UNCHANGED <<workVars, memory, since, toldVars>>

Remembers ==
  /\ saying # Silence /\ toTell = <<>>
  /\ memory' = saying /\ since' = 0
  /\ saying' = Silence
  /\ UNCHANGED <<workVars, toldVars, toTell, refusals>>

(* An hour passes, between two reports. *)
HourGoesBy ==
  /\ saying = Silence
  /\ idleFor' = IF idleFor = Silence THEN idleFor ELSE Min({idleFor + 1, MaxQuiet})
  /\ since' = Min({since + 1, RepeatAfter})
  /\ spaced' = [c \in Readers |-> Min({spaced[c] + 1, RepeatAfter})]
  /\ UNCHANGED <<state, memory, heard, saying, toTell, refusals>>

PublishStandstill == ReadsBoard \/ Tells \/ Remembers

StandNext ==
  \/ \E w \in Works :
       \/ Claimed(w) \/ Retried(w)
       \/ \E s \in {"done", "blocked", "cancelled"} : EndsAs(w, s)
  \/ PublishStandstill \/ TellFails \/ HourGoesBy

(* The poll loop publishes at the end of every poll, and time passes. *)
StandFairness == WF_standVars(PublishStandstill) /\ WF_standVars(HourGoesBy)

StandSpec == StandInit /\ [][StandNext]_standVars /\ StandFairness

-----------------------------------------------------------------------------
StandTypeOK ==
  /\ state \in [Works -> Settled \cup Waiting \cup {"running"}]
  /\ idleFor = Silence \/ idleFor \in 0..MaxQuiet
  /\ since \in 0..RepeatAfter
  /\ spaced \in [Readers -> 0..RepeatAfter]
  /\ ToSet(toTell) \subseteq Readers
  /\ (toTell # <<>>) => (saying # Silence)
  /\ refusals \in 0..MaxRefusals

(* What the digest says can never run never does: however the retries and   *)
(* ends of other tasks go on, no task it reports is claimed.                *)
StrandedNeverRuns ==
  [][\A w \in Stranded : (state'[w] # "running") /\ (w \in Stranded')]_state

(* When the board has come to rest in a situation that wants telling, every *)
(* chat is told that situation in the end, also after reports that reached  *)
(* only some of the chats and situations that came and went between them.   *)
StandstillIsHeard ==
  (<>[][FALSE]_state) =>
    \A c \in Readers :
      []<>((Digest = Silence) \/ (Situation(heard[c]) = Situation(Digest)))

=============================================================================
