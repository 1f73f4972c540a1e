----------------------------- MODULE Supervisor -----------------------------
(***************************************************************************)
(* daemon_supervisor.supervise: one process that keeps the worker daemon   *)
(* and the Telegram daemon alive, restarts them within a budget, and stops *)
(* both when the operator asks or when one of them cannot be kept alive.   *)
(*                                                                         *)
(* Time passes in periods of the supervising loop, which sleeps 0.25 s and *)
(* is otherwise fast; backoffs, uptimes and the rolling window are counted *)
(* in periods.  The times of past restarts are kept as their ages.         *)
(*                                                                         *)
(* Definitions marked "variant" belong to no specification; each is the    *)
(* definition it precedes with a plausible defect.                         *)
(***************************************************************************)
EXTENDS Naturals, Sequences, FiniteSets

CONSTANTS
  Children,    \* the supervised daemons, in the order the loop visits them
  MaxRestarts, \* RestartPolicy.max_restarts
  Window,      \* RestartPolicy.window_seconds
  Healthy,     \* RestartPolicy.healthy_seconds
  Base,        \* RestartPolicy.base_seconds
  MaxDelay,    \* RestartPolicy.max_seconds
  MaxFaults    \* bound on failed launches

Names == {Children[i] : i \in DOMAIN Children}

ASSUME SupervisorAssumption ==
  /\ Children \in Seq({"worker", "telegram"}) \ {<<>>}
  /\ \A i, j \in DOMAIN Children : Children[i] = Children[j] => i = j
  /\ {MaxRestarts, Window, Healthy, MaxFaults} \subseteq Nat
  /\ {Base, MaxDelay} \subseteq Nat \ {0}

VARIABLES
  stage,     \* where the supervisor stands
  turn,      \* the daemon it visits or launches, by its place in Children
  changed,   \* the pass in hand launched or lost a daemon
  process,   \* each daemon's process; "none" while its backoff runs
  uptime,    \* since the daemon was started, up to Healthy
  failures,  \* consecutive_failures, as far as the delay depends on it
  delay,     \* what is left until next_start_at
  restarts,  \* restart_times: the ages of the restarts in the window
  shown,     \* the pid the state file gives: this process, none, or stale
  stop,      \* the stop-request file exists
  asked,     \* the worker daemon was sent the stop signal
  again,     \* the stop in hand is that of the finally clause
  result,    \* what supervise returns, or "failed" for an exception
  forceful,  \* Popen.terminate kills (Windows) or asks again (POSIX)
  faults     \* failed launches so far

clocks == <<uptime, failures, delay, restarts>>
ending == <<asked, again, result, forceful>>
fleetVars == <<stage, turn, changed, process, clocks, shown, stop, ending, faults>>

-----------------------------------------------------------------------------
Running(c) == process[c] \in {"idle", "busy"}

SomeRun == \E c \in Names : Running(c)

(* RestartPolicy.delay_for *)
DelayFor(n) ==
  IF n = 0 THEN 0
  ELSE LET d == Base * 2^(n - 1) IN IF d < MaxDelay THEN d ELSE MaxDelay

FleetInit ==
  /\ stage = "launch"
  /\ turn = 1
  /\ changed = FALSE
  /\ process = [c \in Names |-> "none"]
  /\ uptime = [c \in Names |-> 0]
  /\ failures = [c \in Names |-> 0]
  /\ delay = [c \in Names |-> 0]
  /\ restarts = [c \in Names |-> <<>>]
  /\ shown = [c \in Names |-> "none"]
  /\ stop = FALSE
  /\ asked = FALSE
  /\ again = FALSE
  /\ result = "none"
  /\ forceful \in BOOLEAN
  /\ faults = 0

-----------------------------------------------------------------------------
(* Starting *)

Start(c) ==
  /\ process' = [process EXCEPT ![c] = "idle"]
  /\ uptime' = [uptime EXCEPT ![c] = 0]

(* The daemons are launched one after the other, then on_started publishes  *)
(* their pids.                                                              *)
Launch ==
  /\ stage = "launch"
  /\ Start(Children[turn])
  /\ IF turn < Len(Children)
       THEN turn' = turn + 1 /\ UNCHANGED <<stage, shown>>
       ELSE /\ turn' = 1
            /\ stage' = "check"
            /\ shown' = [c \in Names |-> "live"]
  /\ UNCHANGED <<changed, failures, delay, restarts, stop, ending, faults>>

Fault == faults < MaxFaults /\ faults' = faults + 1

LaunchFails ==
  /\ stage = "launch"
  /\ Fault
  /\ result' = "failed"
  /\ stage' = "finally"
  /\ UNCHANGED <<turn, changed, process, clocks, shown, stop, asked, again,
                 forceful>>

-----------------------------------------------------------------------------
(* The loop *)

(* _request_stop: the Telegram daemon has no handler and ends at once, the  *)
(* worker daemon ends before its next tick.                                 *)
Ask ==
  /\ process' = [c \in Names |->
                   IF c = "telegram" /\ Running(c) THEN "ended" ELSE process[c]]
  /\ asked' = TRUE
  /\ stage' = "wait"

SeesStop ==
  /\ stage = "check"
  /\ stop
  /\ Ask
  /\ result' = "0"
  /\ UNCHANGED <<turn, changed, clocks, shown, stop, again, forceful, faults>>

SeesNoStop ==
  /\ stage = "check"
  /\ ~stop
  /\ stage' = "visit"
  /\ turn' = 1
  /\ changed' = FALSE
  /\ UNCHANGED <<process, clocks, shown, stop, ending, faults>>

(* One daemon after the other is visited, and the pass ends. *)
VisitingChild(c) == stage = "visit" /\ c = Children[turn]

Onward ==
  /\ IF turn < Len(Children) THEN turn' = turn + 1 /\ UNCHANGED stage
                             ELSE turn' = 1 /\ stage' = "publish"
  /\ UNCHANGED <<stop, ending>>

StaysDown(c) ==
  /\ VisitingChild(c)
  /\ process[c] = "none"
  /\ delay[c] > 0
  /\ Onward
  /\ UNCHANGED <<changed, process, clocks, shown, faults>>

(* What the state file says of a process that is no longer the daemon's. *)
Outdated(c) == [shown EXCEPT ![c] = IF @ = "live" THEN "stale" ELSE @]

(* Variant: the last restart of the budget is counted but never made. *)
RestartBelowBudget(c) ==
  /\ VisitingChild(c)
  /\ process[c] = "none"
  /\ delay[c] = 0
  /\ Len(restarts[c]) < MaxRestarts
  /\ Start(c)
  /\ shown' = Outdated(c)
  /\ changed' = TRUE
  /\ Onward
  /\ UNCHANGED <<failures, delay, restarts, faults>>

Restart(c) ==
  /\ VisitingChild(c)
  /\ process[c] = "none"
  /\ delay[c] = 0
  /\ Start(c)
  /\ shown' = Outdated(c)
  /\ changed' = TRUE
  /\ Onward
  /\ UNCHANGED <<failures, delay, restarts, faults>>

RestartFails(c) ==
  /\ VisitingChild(c)
  /\ process[c] = "none"
  /\ delay[c] = 0
  /\ Fault
  /\ Ask
  /\ result' = "1"
  /\ UNCHANGED <<turn, changed, clocks, shown, stop, again, forceful>>

StaysUp(c) ==
  /\ VisitingChild(c)
  /\ Running(c)
  /\ failures' = [failures EXCEPT ![c] = IF uptime[c] >= Healthy THEN 0 ELSE @]
  /\ Onward
  /\ UNCHANGED <<changed, process, uptime, delay, restarts, shown, faults>>

Ended(c) == process[c] \in {"ended", "cut"}

(* Variant: one restart too many. *)
ExhaustedLate(c) == Len(restarts[c]) > MaxRestarts

Exhausted(c) == Len(restarts[c]) >= MaxRestarts

(* A daemon that exited on its own is scheduled for a restart *)
Counted(c) == IF DelayFor(failures[c]) = MaxDelay THEN failures[c]
                                                  ELSE failures[c] + 1

(* Variant: the restart is not entered in the record. *)
ScheduleUnrecorded(c) ==
  /\ failures' = [failures EXCEPT ![c] = Counted(c)]
  /\ delay' = [delay EXCEPT ![c] = DelayFor(Counted(c))]
  /\ process' = [process EXCEPT ![c] = "none"]
  /\ shown' = Outdated(c)
  /\ UNCHANGED <<uptime, restarts>>

Schedule(c) ==
  /\ failures' = [failures EXCEPT ![c] = Counted(c)]
  /\ restarts' = [restarts EXCEPT ![c] = Append(@, 0)]
  /\ delay' = [delay EXCEPT ![c] = DelayFor(Counted(c))]
  /\ process' = [process EXCEPT ![c] = "none"]
  /\ shown' = Outdated(c)
  /\ UNCHANGED uptime

(* Variant: only a restart is published, not the exit before it. *)
ExitUnpublished(c) ==
  /\ VisitingChild(c)
  /\ Ended(c)
  /\ ~Exhausted(c)
  /\ Schedule(c)
  /\ Onward
  /\ UNCHANGED <<changed, faults>>

SeesExit(c) ==
  /\ VisitingChild(c)
  /\ Ended(c)
  /\ ~Exhausted(c)
  /\ Schedule(c)
  /\ changed' = TRUE
  /\ Onward
  /\ UNCHANGED faults

(* ... or is beyond its budget, and the fleet is stopped. *)
AbandonsChild(c) ==
  /\ VisitingChild(c)
  /\ Ended(c)
  /\ Exhausted(c)
  /\ process' = [d \in Names |->
                   IF d = c THEN "none"
                   ELSE IF d = "telegram" /\ Running(d) THEN "ended"
                   ELSE process[d]]
  /\ shown' = Outdated(c)
  /\ asked' = TRUE
  /\ stage' = "wait"
  /\ result' = "1"
  /\ UNCHANGED <<turn, changed, clocks, stop, again, forceful, faults>>

(* on_change *)
Publish ==
  /\ stage = "publish"
  /\ shown' = IF changed
                THEN [c \in Names |-> IF process[c] = "none" THEN "none" ELSE "live"]
                ELSE shown
  /\ stage' = "sleep"
  /\ UNCHANGED <<turn, changed, process, clocks, stop, ending, faults>>

(* A restart as old as the window still counts; an older one is dropped,    *)
(* here as soon as it is too old, in the code before the next count.        *)
Older(ages) ==
  LET kept[i \in 0..Len(ages)] ==
        IF i = 0 THEN <<>>
        ELSE IF ages[i] < Window THEN Append(kept[i - 1], ages[i] + 1) ELSE kept[i - 1]
  IN  kept[Len(ages)]

Sleep ==
  /\ stage = "sleep"
  /\ stage' = "check"
  /\ uptime' = [c \in Names |-> IF Running(c) /\ uptime[c] < Healthy
                                  THEN uptime[c] + 1 ELSE uptime[c]]
  /\ delay' = [c \in Names |-> IF delay[c] > 0 THEN delay[c] - 1 ELSE 0]
  /\ restarts' = [c \in Names |-> Older(restarts[c])]
  /\ UNCHANGED <<turn, changed, process, failures, shown, stop, ending, faults>>

-----------------------------------------------------------------------------
(* Stopping: _stop_children, and the finally clause of supervise *)

(* Variant: a daemon in its backoff is waited for. *)
AllEnded ==
  /\ stage = "wait"
  /\ \A c \in Names : Ended(c)
  /\ stage' = "finally"
  /\ UNCHANGED <<turn, changed, process, clocks, shown, stop, ending, faults>>

AllStopped ==
  /\ stage = "wait"
  /\ ~SomeRun
  /\ stage' = "finally"
  /\ UNCHANGED <<turn, changed, process, clocks, shown, stop, ending, faults>>

(* What terminate makes of a process. *)
Terminated(c) == IF ~Running(c) \/ ~forceful THEN process[c]
                 ELSE IF process[c] = "busy" THEN "cut" ELSE "ended"

(* Variant: a forced stop counts as a clean one. *)
DeadlineForgiven ==
  /\ stage = "wait"
  /\ SomeRun
  /\ process' = [c \in Names |-> Terminated(c)]
  /\ stage' = "reap"
  /\ UNCHANGED <<turn, changed, clocks, shown, stop, ending, faults>>

(* The 15 seconds are over before every daemon has ended. *)
Deadline ==
  /\ stage = "wait"
  /\ SomeRun
  /\ process' = [c \in Names |-> Terminated(c)]
  /\ stage' = "reap"
  /\ result' = IF result = "0" THEN "1" ELSE result
  /\ UNCHANGED <<turn, changed, clocks, shown, stop, asked, again, forceful,
                 faults>>

(* child.wait(timeout=5) returns ... *)
Reaped ==
  /\ stage = "reap"
  /\ ~SomeRun
  /\ stage' = "finally"
  /\ UNCHANGED <<turn, changed, process, clocks, shown, stop, ending, faults>>

(* ... or raises TimeoutExpired.  *)
ReapExpires ==
  /\ stage = "reap"
  /\ SomeRun
  /\ result' = "failed"
  /\ stage' = "finally"
  /\ UNCHANGED <<turn, changed, process, clocks, shown, stop, asked, again,
                 forceful, faults>>

(* Variant: the clause closes the logs and nothing else. *)
ReturnsAtOnce ==
  /\ stage = "finally"
  /\ stage' = "returned"
  /\ UNCHANGED <<turn, changed, process, clocks, shown, stop, ending, faults>>

FinallyReturns ==
  /\ stage = "finally"
  /\ again \/ ~SomeRun
  /\ stage' = "returned"
  /\ UNCHANGED <<turn, changed, process, clocks, shown, stop, ending, faults>>

FinallyStops ==
  /\ stage = "finally"
  /\ ~again
  /\ SomeRun
  /\ Ask
  /\ again' = TRUE
  /\ UNCHANGED <<turn, changed, clocks, shown, stop, result, forceful, faults>>

-----------------------------------------------------------------------------
(* The daemons and the operator *)

Becomes(c, state) ==
  /\ process' = [process EXCEPT ![c] = state]
  /\ UNCHANGED <<stage, turn, changed, clocks, shown, stop, ending, faults>>

TickBegins == "worker" \in Names /\ process["worker"] = "idle" /\ ~asked
                /\ Becomes("worker", "busy")

TickEnds == "worker" \in Names /\ process["worker"] = "busy"
              /\ Becomes("worker", "idle")

Obeys == "worker" \in Names /\ process["worker"] = "idle" /\ asked
           /\ Becomes("worker", "ended")

(* A daemon ends by itself: an error, or a worker that quarantined its      *)
(* workspace.                                                               *)
Exits == \E c \in Names : Running(c) /\ Becomes(c, "ended")

OperatorStops ==
  /\ ~stop
  /\ stage # "returned"
  /\ stop' = TRUE
  /\ UNCHANGED <<stage, turn, changed, process, clocks, shown, ending, faults>>

-----------------------------------------------------------------------------
Visit == \E c \in Names : StaysDown(c) \/ Restart(c) \/ StaysUp(c)
                            \/ SeesExit(c) \/ AbandonsChild(c)

Supervise == Launch \/ SeesStop \/ SeesNoStop \/ Visit \/ Publish \/ Sleep
               \/ AllStopped \/ Deadline \/ Reaped \/ ReapExpires
               \/ FinallyReturns \/ FinallyStops

Failing == LaunchFails \/ \E c \in Names : RestartFails(c)

FleetNext == Supervise \/ Failing \/ TickBegins \/ TickEnds \/ Obeys \/ Exits
          \/ OperatorStops

FleetSpec == FleetInit /\ [][FleetNext]_fleetVars

(* The supervisor runs; a worker's tick ends (agents have timeouts) and an  *)
(* asked worker ends.  Nothing is assumed of crashes and the operator.      *)
FleetFairSpec == FleetSpec /\ WF_fleetVars(Supervise) /\ WF_fleetVars(TickEnds) /\ WF_fleetVars(Obeys)

-----------------------------------------------------------------------------
(* Properties *)

(* Every variable has its type; in particular no more restarts are on       *)
(* record than the budget allows.                                           *)
FleetTypeOK ==
  /\ stage \in {"launch", "check", "visit", "publish", "sleep", "wait", "reap",
             "finally", "returned"}
  /\ turn \in DOMAIN Children
  /\ changed \in BOOLEAN
  /\ process \in [Names -> {"none", "idle", "busy", "ended", "cut"}]
  /\ uptime \in [Names -> 0..Healthy]
  /\ failures \in [Names -> Nat]
  /\ delay \in [Names -> 0..MaxDelay]
  /\ restarts \in [Names -> Seq(0..Window)]
  /\ \A c \in Names : Len(restarts[c]) <= MaxRestarts
  /\ shown \in [Names -> {"none", "live", "stale"}]
  /\ {stop, asked, again, forceful} \subseteq BOOLEAN
  /\ result \in {"none", "0", "1", "failed"}
  /\ faults \in 0..MaxFaults

(* When supervise is over, by whatever way, no daemon it started is left    *)
(* running; where terminate only asks, none but a worker that has been      *)
(* asked and goes when its tick is over (_stop_children and the finally     *)
(* clause).                                                                 *)
NoneOutlive ==
  stage = "returned" =>
    \A c \in Names : Running(c) => ~forceful /\ c = "worker" /\ asked

(* The result 0 is given for nothing but a stop the operator asked for in   *)
(* which no daemon was cut short (supervise's docstring).                   *)
ZeroMeansClean ==
  stage = "returned" /\ result = "0" =>
    stop /\ \A c \in Names : process[c] # "cut"

(* Whenever the supervisor sleeps, the state file names the processes of    *)
(* the daemons and of no others (children_changed).                         *)
FileNamesDaemons ==
  stage = "sleep" => \A c \in Names :
                    shown[c] = IF process[c] = "none" THEN "none" ELSE "live"

(* A stop request is obeyed, wherever the supervisor stands, even while it  *)
(* waits for a backoff or gives up (supervise).                             *)
StopWorks == stop ~> stage = "returned"

(* A daemon that ended is running again some time later, unless the fleet   *)
(* was stopped (supervise).                                                 *)
EveryExitIsMet ==
  \A c \in Names : Ended(c) ~> (Running(c) \/ stage = "returned")

(* A daemon that keeps exiting before it was healthy is not restarted for   *)
(* ever (RestartPolicy's docstring).                                        *)
FlappingStops ==
  (/\ []<>(\E c \in Names : Ended(c))
   /\ <>[](\A c \in Names : uptime[c] < Healthy))
    => <>(stage = "returned")

(* What supervise leaves behind when it returns, and what it says of it. *)
FleetEndsCleanly == NoneOutlive /\ ZeroMeansClean

(* A stop, an exit and a flapping daemon each come to what the policy says, *)
(* whichever of them come together.                                         *)
FleetMoves == StopWorks /\ EveryExitIsMet /\ FlappingStops
=============================================================================
