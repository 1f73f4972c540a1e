------------------------------ MODULE Launches ------------------------------
(***************************************************************************)
(* daemon_supervisor.main around supervise: the state file daemons.json,   *)
(* by which a second supervisor notices the first and the operator's stop  *)
(* script finds the one to stop.                                           *)
(*                                                                         *)
(* What happens inside supervise is the module Supervisor; here a fleet    *)
(* either runs or does not.  Each supervisor process is started once.      *)
(*                                                                         *)
(* Definitions marked "variant" belong to no specification; each is the    *)
(* definition it precedes with a plausible defect.                         *)
(***************************************************************************)
EXTENDS Naturals, FiniteSets

CONSTANTS
  Supervisors, \* the supervisor processes that are ever started
  Nobody,      \* no supervisor
  MayDie       \* a supervisor may be killed, and leave its daemons running

ASSUME LaunchesAssumption ==
  /\ Nobody \notin Supervisors
  /\ MayDie \in BOOLEAN

VARIABLES
  standing, \* where each supervisor stands
  status,   \* the status in the state file
  owner,    \* the supervisor_pid in the state file
  workers,  \* supervisors whose worker daemon runs
  overlaps  \* history: the checks that were passed while another supervisor
            \* stood between its check and its write

launchVars == <<standing, status, owner, workers, overlaps>>

-----------------------------------------------------------------------------
Alive(s) == s \in Supervisors /\ standing[s] \notin {"off", "over"}

Goes(s, place) == standing' = [standing EXCEPT ![s] = place]

LaunchInit ==
  /\ standing = [s \in Supervisors |-> "off"]
  /\ status = "none"
  /\ owner = Nobody
  /\ workers = {}
  /\ overlaps = 0

(* Variant: the check asks for the worker daemon, not for its supervisor. *)
OccupiedByWorker == status = "running" /\ owner \in workers

(* What main reads before it starts: a fleet is taken to run if the file    *)
(* says so and the supervisor it names is alive.                            *)
Occupied == status = "running" /\ Alive(owner)

Refused(s) ==
  /\ standing[s] = "off"
  /\ Occupied
  /\ Goes(s, "over")
  /\ UNCHANGED <<status, owner, workers, overlaps>>

(* No lock is held between the check and the write of EntersFleet: another  *)
(* supervisor may be there already.                                         *)
Checks(s) ==
  /\ standing[s] = "off"
  /\ ~Occupied
  /\ overlaps' = overlaps + (IF \E r \in Supervisors : standing[r] = "checked" THEN 1 ELSE 0)
  /\ Goes(s, "checked")
  /\ UNCHANGED <<status, owner, workers>>

(* _write_state: every write replaces the whole file. *)
Write(s, state) == status' = state /\ owner' = s

EntersFleet(s) ==
  /\ standing[s] = "checked"
  /\ Write(s, "running")
  /\ Goes(s, "entered")
  /\ UNCHANGED <<workers, overlaps>>

(* The daemons are launched, and on_started writes the file again. *)
StartsWorkers(s) ==
  /\ standing[s] = "entered"
  /\ workers' = workers \cup {s}
  /\ Goes(s, "launched")
  /\ UNCHANGED <<status, owner, overlaps>>

(* on_started and on_change *)
PublishesOwn(s) ==
  /\ standing[s] \in {"launched", "supervising"}
  /\ Write(s, "running")
  /\ Goes(s, "supervising")
  /\ UNCHANGED <<workers, overlaps>>

(* supervise returns: asked to, or because a daemon cannot be kept alive.   *)
(* Its daemons are stopped by then.                                         *)
Returns(s) ==
  /\ standing[s] \in {"entered", "launched", "supervising"}
  /\ workers' = workers \ {s}
  /\ Goes(s, "returned")
  /\ UNCHANGED <<status, owner, overlaps>>

Closes(s) ==
  /\ standing[s] = "returned"
  /\ Write(s, "stopped")
  /\ Goes(s, "over")
  /\ UNCHANGED <<workers, overlaps>>

SupervisorDies(s) ==
  /\ MayDie
  /\ Alive(s)
  /\ Goes(s, "over")
  /\ UNCHANGED <<status, owner, workers, overlaps>>

(* The worker daemon of a dead supervisor ends by itself. *)
WorkerEnds(s) ==
  /\ standing[s] = "over"
  /\ workers' = workers \ {s}
  /\ workers' # workers
  /\ UNCHANGED <<standing, status, owner, overlaps>>

-----------------------------------------------------------------------------
Steps(s) == \/ Refused(s) \/ Checks(s) \/ EntersFleet(s) \/ StartsWorkers(s) \/ PublishesOwn(s)
            \/ Returns(s) \/ Closes(s)

LaunchNext == \E s \in Supervisors : Steps(s) \/ SupervisorDies(s) \/ WorkerEnds(s)

LaunchSpec == LaunchInit /\ [][LaunchNext]_launchVars

-----------------------------------------------------------------------------
(* Properties *)

(* Every variable has its type, and only a launched fleet has a worker.     *)
LaunchTypeOK ==
  /\ standing \in [Supervisors -> {"off", "checked", "entered", "launched",
                             "supervising", "returned", "over"}]
  /\ status \in {"none", "running", "stopped"}
  /\ owner \in Supervisors \cup {Nobody}
  /\ workers \subseteq Supervisors
  /\ overlaps \in Nat
  /\ \A s \in workers : standing[s] \in {"launched", "supervising", "over"}

(* The supervisors that start by turns keep one fleet between them, whoever *)
(* is killed and whatever is left in the file; each further fleet is paid   *)
(* for by a start that overlapped another's (the check of main, which is no *)
(* lock).                                                                   *)
OneFleet == Cardinality({s \in workers : Alive(s)}) <= 1 + overlaps

(* A fleet that a second terminal asks in vain to stop, because the state   *)
(* file does not name its supervisor (the module's docstring,               *)
(* stop_daemons.ps1), has an overlapping start to account for it.           *)
StopReaches ==
  Cardinality({s \in Supervisors : /\ standing[s] \in {"launched", "supervising"}
                                   /\ ~(status = "running" /\ owner = s)}) <= overlaps

(* The file under which a stop or a second start looks is the truth, up to  *)
(* the race between check and write: no death, stop, republication or late  *)
(* close alone makes a second fleet or hides one.                           *)
FleetIsKnown == OneFleet /\ StopReaches
=============================================================================
