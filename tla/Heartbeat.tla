------------------------------ MODULE Heartbeat ------------------------------
(***************************************************************************)
(* The heartbeat of a running claim: _AgentActivity,                       *)
(* _workspace_changed_since and _heartbeat_while_active of                 *)
(* src/src/worker.py, and the kernel's rule that a claim whose heartbeat   *)
(* is old is given to somebody else.                                       *)
(*                                                                         *)
(* Time counts heartbeat intervals.  The scan is reduced to the order the  *)
(* walk meets the files in and how many its budget of seconds reaches.     *)
(* Definitions marked "variant" belong to no specification; each is the    *)
(* definition it precedes with a plausible defect.                         *)
(***************************************************************************)
EXTENDS Integers, FiniteSetsExt

CONSTANTS
  Walk,        \* how many files the workspace holds, numbered in walk order
  Reach,       \* how many of them a walk examines before its deadline
  Never,       \* last_heartbeat_at is NULL
  StaleAfter,  \* intervals after which a heartbeat is stale
  MaxTime,     \* bound on the clock
  MaxLost      \* bound on beats the board refuses

ASSUME HeartbeatAssumption ==
  {Walk, Reach, StaleAfter, MaxTime, MaxLost} \subseteq Nat /\ MaxTime # 0

VARIABLES
  clock,
  stamps,    \* st_mtime of each file
  wedged,    \* the agent has hung for good
  output,    \* _AgentActivity.at
  busy,      \* whether the agent did anything in this interval
  hush,      \* intervals in a row, before this one, in which it did nothing
  seen, seenMtime,
  beat,      \* tasks.last_heartbeat_at
  lost,      \* beats the board refused
  claim      \* "held", "reclaimed" or "ended"

heartVars == <<clock, stamps, wedged, output, busy, hush, seen, seenMtime, beat, lost, claim>>

Newest(files) == Max({stamps[f] : f \in files} \cup {0})

HeartInit ==
  /\ clock = 1
  /\ stamps \in [1..Walk -> 0..1] /\ wedged = FALSE
  /\ output = 1 /\ busy = FALSE /\ hush = 0
  /\ seen = output /\ seenMtime = Newest(1..Reach \cap 1..Walk)
  /\ beat = Never /\ lost = 0 /\ claim = "held"

-----------------------------------------------------------------------------
(* The agent; work in an interval carries the time the interval ends at *)

AgentSpeaks ==
  /\ claim = "held" /\ ~wedged /\ output # clock + 1
  /\ output' = clock + 1 /\ busy' = TRUE
  /\ UNCHANGED <<clock, stamps, wedged, hush, seen, seenMtime, beat, lost, claim>>

AgentWrites ==
  /\ claim = "held" /\ ~wedged
  /\ \E f \in 1..Walk :
       stamps[f] # clock + 1 /\ stamps' = [stamps EXCEPT ![f] = clock + 1]
  /\ busy' = TRUE
  /\ UNCHANGED <<clock, wedged, output, hush, seen, seenMtime, beat, lost, claim>>

AgentWedges ==
  /\ claim = "held" /\ ~wedged /\ wedged' = TRUE
  /\ UNCHANGED <<clock, stamps, output, busy, hush, seen, seenMtime, beat, lost, claim>>

AgentFinishes ==
  /\ claim = "held" /\ ~wedged /\ claim' = "ended"
  /\ UNCHANGED <<clock, stamps, wedged, output, busy, hush, seen, seenMtime, beat, lost>>

-----------------------------------------------------------------------------
(* _workspace_changed_since: the first file newer than the mark ends the   *)
(* walk; a walk out of budget reports no change.                           *)

Newer(mark) == {f \in 1..Walk : stamps[f] > mark}

(* Variant: the newest of the files met before a cap on their number. *)
CappedAt(mark) ==
  [changed |-> Newest({f \in 1..Walk : f < Walk}) > mark,
   newest  |-> Newest({f \in 1..Walk : f < Walk})]

Scan(mark) ==
  LET hits == Newer(mark) \cap 1..Reach IN
  IF hits = {} THEN [changed |-> FALSE, newest |-> Newest(1..Walk \cap 1..Reach)]
               ELSE [changed |-> TRUE, newest |-> Newest(1..Min(hits))]

(* Variant: the thread beats on its timer. *)
OnTimer(touched) == TRUE

Progressed(touched) == output # seen \/ touched

(* One turn of _beat.  What was seen is remembered before the board is     *)
(* asked, so a refused beat is not made up for.                            *)
HeartTicks ==
  /\ claim = "held" /\ clock < MaxTime
  /\ clock' = clock + 1
  /\ hush' = IF busy THEN 0 ELSE hush + 1
  /\ busy' = FALSE
  /\ LET scan == Scan(seenMtime) IN
     IF Progressed(scan.changed)
     THEN /\ seen' = output /\ seenMtime' = Max({scan.newest, seenMtime})
          /\ \/ beat' = clock' /\ UNCHANGED lost
             \/ lost < MaxLost /\ lost' = lost + 1 /\ UNCHANGED beat
     ELSE UNCHANGED <<seen, seenMtime, beat, lost>>
  /\ UNCHANGED <<stamps, wedged, output, claim>>

(* The kernel: a heartbeat that was never made is never stale. *)
KernelReclaims ==
  /\ claim = "held" /\ beat # Never
  /\ clock - beat > StaleAfter
  /\ claim' = "reclaimed"
  /\ UNCHANGED <<clock, stamps, wedged, output, busy, hush, seen, seenMtime, beat, lost>>

HeartNext ==
  AgentSpeaks \/ AgentWrites \/ AgentWedges \/ AgentFinishes \/ HeartTicks \/ KernelReclaims

HeartSpec ==
  /\ HeartInit /\ [][HeartNext]_heartVars
  /\ WF_heartVars(HeartTicks) /\ WF_heartVars(KernelReclaims)

-----------------------------------------------------------------------------

HeartTypeOK ==
  /\ clock \in 1..MaxTime /\ stamps \in [1..Walk -> 0..MaxTime + 1]
  /\ wedged \in BOOLEAN /\ output \in 1..MaxTime + 1 /\ hush \in 0..MaxTime /\ busy \in BOOLEAN
  /\ seen <= output /\ seenMtime \in 0..MaxTime + 1
  /\ beat = Never \/ beat \in 1..MaxTime
  /\ lost \in 0..MaxLost /\ claim \in {"held", "reclaimed", "ended"}

(* "A healthy run earns no heartbeat and the kernel eventually reclaims a  *)
(* live worker mid-flight" does not happen any more: a claim is taken away *)
(* only from a run that has been silent, in output and files, for as long  *)
(* as a stale heartbeat takes, or whose beats the board refused.           *)
WorkKeepsClaim ==
  claim = "reclaimed" => hush >= StaleAfter \/ lost > 0

(* "A wedged agent stops emitting, the heartbeat stops, it goes stale, and *)
(* the kernel reclaims": if it ever beat, and there is time enough left.   *)
WedgedIsReclaimed ==
  (wedged /\ beat # Never /\ clock + StaleAfter + 2 <= MaxTime) ~> claim = "reclaimed"
=============================================================================
