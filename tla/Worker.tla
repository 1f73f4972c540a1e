------------------------------- MODULE Worker -------------------------------
(***************************************************************************)
(* The verify-gated worker (src/src/worker.py, worker_daemon.py, and the   *)
(* parts of executor.py that touch a workspace): one tick of run_once is   *)
(* release stale claims, sweep orphans, select, claim, register, precheck, *)
(* gates, agent, verify, and then complete, or restore and settle.  Every  *)
(* point where another process, the clock or the operator can get between  *)
(* two effects is a step of its own.                                       *)
(*                                                                         *)
(* A workspace is modelled by whose uncommitted files are in it.  A live   *)
(* worker's name stands for the files of the run it is executing.          *)
(***************************************************************************)
EXTENDS Board

CONSTANTS
  Daemons,              \* workers run by worker_daemon.serve: they loop, and
                        \* take the oldest ready task.  The others are started
                        \* with --once --task-id and exit after one tick
  NoTask,
  KillOnClose,          \* does an agent's process tree die with its worker?
                        \* Windows job objects: yes; start_new_session: no
  LeaseMayLapseMidTick, \* may a lease lapse between the release step of a
                        \* tick and the sweep that follows it?
  MaxDisturbances       \* bound on crashes, refused writes, failed stashes,
                        \* surviving process trees and operator edits

(* Whose files, other than a live run's: the operator's own edits, a run    *)
(* nobody will revert any more, a process that outlived its containment,    *)
(* and the uncommitted output of an accepted run.                           *)
OtherSources == {"operator", "orphan", "survivor", "delivered"}

ASSUME WorkerAssumption ==
  /\ Daemons \subseteq Workers
  /\ NoTask \notin Tasks
  /\ Workers \cap OtherSources = {}
  /\ KillOnClose \in BOOLEAN
  /\ LeaseMayLapseMidTick \in BOOLEAN
  /\ MaxDisturbances \in Nat

VARIABLES
  pc,          \* where each worker is in run_once
  task,        \* the row it has in hand
  rows,        \* the rows and pids its orphan sweep still has to look at
  verdict,     \* how the attempt failed: "logic" or "environment"
  dirt,        \* whose files make each workspace's `git status` non-empty
  survivors,   \* workspaces with a live process no worker contains
  disturbances \* how much of MaxDisturbances is used

workerVars == <<pc, task, rows, verdict>>
fsVars     == <<dirt, survivors>>
vars       == <<boardVars, workerVars, fsVars, disturbances>>

Points == {"off", "release", "snapshot", "sweep", "unclaim", "select",
           "claim", "register", "precheck", "skip", "gates", "agent", "verify",
           "complete", "restore", "inspect", "settle", "breaker",
           "quarantine", "exit"}

(* Where a worker executes a claimed row and has not given it back. *)
Working == {"register", "precheck", "skip", "gates", "agent", "verify",
            "complete", "restore", "inspect", "settle", "quarantine"}

Pids == Workers \cup {NoWorker, Gone}

TypeOK ==
  /\ BoardTypeOK
  /\ pc \in [Workers -> Points]
  /\ task \in [Workers -> Tasks \cup {NoTask}]
  /\ rows \in [Workers -> SUBSET (Tasks \X Pids)]
  /\ verdict \in [Workers -> {"none", "logic", "environment"}]
  /\ dirt \in [Workspaces -> SUBSET (Workers \cup OtherSources)]
  /\ survivors \in SUBSET Workspaces
  /\ disturbances \in 0..MaxDisturbances

Init ==
  /\ BoardInit
  /\ pc = [w \in Workers |-> "off"]
  /\ task = [w \in Workers |-> NoTask]
  /\ rows = [w \in Workers |-> {}]
  /\ verdict = [w \in Workers |-> "none"]
  /\ dirt = [ws \in Workspaces |-> {}]
  /\ survivors = {}
  /\ disturbances = 0

-----------------------------------------------------------------------------
(* Helpers *)

At(w, p)   == pc[w] = p
Goto(w, p) == pc' = [pc EXCEPT ![w] = p]
Place(w)   == WorkspaceOf[task[w]]
Home(w)    == IF w \in Daemons THEN "release" ELSE "exit"

Disturb == /\ disturbances < MaxDisturbances
           /\ disturbances' = disturbances + 1

Calm == UNCHANGED disturbances

(* The worker moves on with the row in hand; nothing outside it changes. *)
Proceed(w, p) ==
  /\ Goto(w, p)
  /\ UNCHANGED <<boardVars, task, rows, verdict, fsVars>>

(* run_once returns and the loop of its caller decides what comes next. *)
EndAttempt(w) ==
  /\ Goto(w, Home(w))
  /\ task' = [task EXCEPT ![w] = NoTask]
  /\ verdict' = [verdict EXCEPT ![w] = "none"]
  /\ UNCHANGED rows

(* The files of w's run in ws are from now on src's. *)
Relabel(w, ws, src) ==
  dirt' = IF w \in dirt[ws] THEN [dirt EXCEPT ![ws] = (@ \ {w}) \cup {src}]
                            ELSE dirt

(* The attempt goes to the restore step, charged with v. *)
FailAs(w, v) ==
  /\ verdict' = [verdict EXCEPT ![w] = v]
  /\ Goto(w, "restore")
  /\ UNCHANGED <<boardVars, task, rows>>

(* Containment could not prove the process tree gone. *)
TreeSurvives(w) ==
  /\ survivors' = survivors \cup {Place(w)}
  /\ Goto(w, "quarantine")
  /\ Disturb
  /\ UNCHANGED <<boardVars, task, rows, verdict, dirt>>

-----------------------------------------------------------------------------
(* The tick, up to the claim *)

(* daemon_supervisor or dispatcher.dispatch_one starts the process. *)
Start(w) ==
  /\ At(w, "off")
  /\ Proceed(w, "release")
  /\ Calm

ReleaseStale(w) ==
  /\ At(w, "release")
  /\ ReleaseStaleClaims
  /\ Goto(w, "snapshot")
  /\ UNCHANGED <<countVars, quarantine, task, rows, verdict, fsVars>>
  /\ Calm

(* recover_orphans reads its rows once: running, lease over, with the pid   *)
(* each row names.                                                          *)
SweepSnapshot(w) ==
  /\ At(w, "snapshot")
  /\ rows' = [rows EXCEPT ![w] = {<<t, pid[t]>> : t \in StaleTasks}]
  /\ Goto(w, "sweep")
  /\ UNCHANGED <<boardVars, task, verdict, fsVars>>
  /\ Calm

(* One row of the loop: passed over if its pid is alive; else its workspace *)
(* is stashed, or the stash fails and the row is left as it is.             *)
SweepRow(w, r) ==
  /\ At(w, "sweep")
  /\ r \in rows[w]
  /\ rows' = [rows EXCEPT ![w] = @ \ {r}]
  /\ UNCHANGED <<boardVars, verdict, survivors>>
  /\ \/ /\ r[2] \in Workers
        /\ Calm
        /\ UNCHANGED <<pc, task, dirt>>
     \/ /\ r[2] \notin Workers
        /\ dirt' = [dirt EXCEPT ![WorkspaceOf[r[1]]] = {}]
        /\ task' = [task EXCEPT ![w] = r[1]]
        /\ Goto(w, "unclaim")
        /\ Calm
     \/ /\ r[2] \notin Workers
        /\ Disturb
        /\ UNCHANGED <<pc, task, dirt>>

(* "Only now release the claim", by task id alone. *)
SweepUnclaim(w) ==
  /\ At(w, "unclaim")
  /\ ReclaimTask(task[w])
  /\ task' = [task EXCEPT ![w] = NoTask]
  /\ Goto(w, "sweep")
  /\ UNCHANGED <<countVars, quarantine, rows, verdict, fsVars>>
  /\ Calm

SweepDone(w) ==
  /\ At(w, "sweep")
  /\ rows[w] = {}
  /\ Proceed(w, "select")
  /\ Calm

(* A daemon takes the head of ready_tasks; a pinned worker, its own task.   *)
Selectable(w) ==
  IF w \in Daemons
    THEN {t \in ReadyTasks : \A u \in ReadyTasks : t <= u}
    ELSE ReadyTasks

SelectTask(w) ==
  /\ At(w, "select")
  /\ \E t \in Selectable(w) : task' = [task EXCEPT ![w] = t]
  /\ Goto(w, "claim")
  /\ UNCHANGED <<boardVars, rows, verdict, fsVars>>
  /\ Calm

(* Nothing ready, or not the pinned task. *)
SelectNone(w) ==
  /\ At(w, "select")
  /\ w \in Daemons => ReadyTasks = {}
  /\ EndAttempt(w)
  /\ UNCHANGED <<boardVars, fsVars>>
  /\ Calm

Claim(w) ==
  LET t == task[w] IN
  /\ At(w, "claim")
  /\ IF status[t] = "ready" /\ claim[t] = NoWorker
       THEN /\ ClaimTask(t, w)
            /\ Goto(w, "register")
            /\ UNCHANGED <<task, rows, verdict>>
       ELSE EndAttempt(w) /\ UNCHANGED rowVars
  /\ UNCHANGED <<countVars, quarantine, fsVars>>
  /\ Calm

(* _set_worker_pid, or, if it raises, the claim is handed back. *)
RegisterPid(w) ==
  LET t == task[w] IN
  /\ At(w, "register")
  /\ UNCHANGED <<countVars, quarantine, fsVars>>
  /\ \/ /\ pid' = [pid EXCEPT ![t] = w]
        /\ Goto(w, "precheck")
        /\ UNCHANGED <<status, claim, expired, task, rows, verdict>>
        /\ Calm
     \/ ReclaimTask(t) /\ EndAttempt(w) /\ Disturb

-----------------------------------------------------------------------------
(* execute_task *)

(* What precheck asks: board.is_quarantined, and git status --porcelain.    *)
Unseen(w)      == FALSE                     \* variant of both: the gate is gone
Quarantined(w) == Place(w) \in quarantine
Dirty(w)       == dirt[Place(w)] # {}

(* precheck: quarantine first, then the clean tree.  A quarantined task is  *)
(* blocked, a dirty workspace is a skip.                                    *)
Precheck(w) ==
  /\ At(w, "precheck")
  /\ UNCHANGED <<countVars, quarantine, fsVars>>
  /\ Calm
  /\ \/ Quarantined(w) /\ BlockTask(w, task[w]) /\ EndAttempt(w)
     \/ /\ ~Quarantined(w)
        /\ Goto(w, IF Dirty(w) THEN "skip" ELSE "gates")
        /\ UNCHANGED <<rowVars, task, rows, verdict>>

(* Variant: the claim is not handed back. *)
SkipKeepingClaim(w) ==
  /\ At(w, "skip")
  /\ EndAttempt(w)
  /\ UNCHANGED <<boardVars, fsVars>>
  /\ Calm

Skip(w) ==
  /\ At(w, "skip")
  /\ ReclaimTask(task[w])
  /\ EndAttempt(w)
  /\ UNCHANGED <<countVars, quarantine, fsVars>>
  /\ Calm

(* Verify spec, upstream artifacts and capability contract: a refusal is a  *)
(* logic failure with nothing to restore.                                   *)
Gates(w) ==
  /\ At(w, "gates")
  /\ UNCHANGED <<boardVars, task, rows, fsVars>>
  /\ Calm
  /\ \/ Goto(w, "agent") /\ UNCHANGED verdict
     \/ Goto(w, "settle") /\ verdict' = [verdict EXCEPT ![w] = "logic"]

(* The agent edits the workspace, or commits everything in it. *)
AgentWrites(w) ==
  /\ At(w, "agent")
  /\ \/ dirt' = [dirt EXCEPT ![Place(w)] = @ \cup {w}]
     \/ dirt' = [dirt EXCEPT ![Place(w)] = {}]
  /\ UNCHANGED <<boardVars, workerVars, survivors>>
  /\ Calm

(* A turn that never happened, or was served by another lane, is an         *)
(* environment failure; a missing deliverable a logic one; neither meets    *)
(* the verify command.                                                      *)
AgentEnds(w) ==
  /\ At(w, "agent")
  /\ \/ TreeSurvives(w)
     \/ /\ \E v \in {"logic", "environment"} : FailAs(w, v)
        /\ UNCHANGED fsVars
        /\ Calm
     \/ Proceed(w, "verify") /\ Calm

(* A verifier may file and commit what it accepts. *)
VerifyEnds(w) ==
  /\ At(w, "verify")
  /\ \/ TreeSurvives(w)
     \/ /\ dirt' \in {dirt, [dirt EXCEPT ![Place(w)] = {}]}
        /\ \/ \E v \in {"logic", "environment"} : FailAs(w, v)
           \/ Goto(w, "complete") /\ UNCHANGED <<boardVars, task, rows, verdict>>
        /\ UNCHANGED survivors
        /\ Calm

(* complete_task with expected_run_id.  Refused, the attempt ends with the  *)
(* board and the workspace as they are.                                     *)
Complete(w) ==
  LET t == task[w] IN
  /\ At(w, "complete")
  /\ SettleAs(w, t, "done")
  /\ Relabel(w, Place(w), IF Owns(w, t) THEN "delivered" ELSE "orphan")
  /\ EndAttempt(w)
  /\ UNCHANGED <<countVars, quarantine, survivors>>
  /\ Calm

(* executor.revert: the stash takes whatever is there, or fails. *)
Restore(w) ==
  /\ At(w, "restore")
  /\ UNCHANGED <<boardVars, task, rows, verdict, survivors>>
  /\ \/ /\ dirt' = [dirt EXCEPT ![Place(w)] = {}]
        /\ Goto(w, "inspect")
        /\ Calm
     \/ /\ Goto(w, "quarantine")
        /\ UNCHANGED dirt
        /\ Disturb

(* The post-revert assertion. *)
Inspect(w) ==
  /\ At(w, "inspect")
  /\ Proceed(w, IF Dirty(w) THEN "quarantine" ELSE "settle")
  /\ Calm

(* _board_failure's transaction: the row back to ready and the environment  *)
(* series over, if the claim is still ours; the breaker runs after it.      *)
SettleLogic(w) ==
  LET t == task[w] IN
  /\ At(w, "settle")
  /\ verdict[w] = "logic"
  /\ SettleAs(w, t, "ready")
  /\ IF Owns(w, t)
       THEN /\ envAttempts' = [envAttempts EXCEPT ![t] = 0]
            /\ waiting' = [waiting EXCEPT ![t] = FALSE]
            /\ Goto(w, "breaker")
            /\ UNCHANGED <<task, rows, verdict>>
       ELSE EndAttempt(w) /\ UNCHANGED <<envAttempts, waiting>>
  /\ UNCHANGED <<failures, quarantine, fsVars>>
  /\ Calm

Breaker(w) ==
  /\ At(w, "breaker")
  /\ RecordTaskFailure(task[w])
  /\ EndAttempt(w)
  /\ UNCHANGED <<claim, pid, expired, envAttempts, waiting, quarantine, fsVars>>
  /\ Calm

ExhaustedLate(attempts) == attempts > EnvLimit + 1   \* variant: off by one
Exhausted(attempts)     == attempts > EnvLimit

(* _environment_backoff: wait and retry, or block once the series is spent. *)
SettleEnvironment(w) ==
  LET t         == task[w]
      attempts  == envAttempts[t] + 1
      exhausted == Exhausted(attempts)
  IN
  /\ At(w, "settle")
  /\ verdict[w] = "environment"
  /\ SettleAs(w, t, IF exhausted THEN "blocked" ELSE "ready")
  /\ IF Owns(w, t) /\ ~exhausted
       THEN /\ envAttempts' = [envAttempts EXCEPT ![t] = attempts]
            /\ waiting' = [waiting EXCEPT ![t] = TRUE]
       ELSE UNCHANGED <<envAttempts, waiting>>
  /\ EndAttempt(w)
  /\ UNCHANGED <<failures, quarantine, fsVars>>
  /\ Calm

(* _quarantine_stop: the record is written and the worker stops with the    *)
(* row still running.                                                       *)
QuarantineStop(w) ==
  /\ At(w, "quarantine")
  /\ quarantine' = quarantine \cup {Place(w)}
  /\ Goto(w, "exit")
  /\ UNCHANGED <<rowVars, countVars, task, rows, verdict, fsVars>>
  /\ Calm

-----------------------------------------------------------------------------
(* Processes, time and people *)

(* The process w is gone: from the board's rows and from the rows a sweep   *)
(* has read, its pid now names nobody.                                      *)
ProcessEnds(w) ==
  /\ ForgetProcess(w)
  /\ Goto(w, "off")
  /\ task' = [task EXCEPT ![w] = NoTask]
  /\ verdict' = [verdict EXCEPT ![w] = "none"]
  /\ rows' = [s \in Workers |->
                IF s = w THEN {}
                ELSE {<<r[1], IF r[2] = w THEN Gone ELSE r[2]>> : r \in rows[s]}]
  /\ UNCHANGED <<status, expired, countVars, quarantine>>

Exit(w) ==
  /\ At(w, "exit")
  /\ ProcessEnds(w)
  /\ dirt' = [ws \in Workspaces |->
                IF w \in dirt[ws] THEN (dirt[ws] \ {w}) \cup {"orphan"}
                                  ELSE dirt[ws]]
  /\ UNCHANGED survivors
  /\ Calm

(* Killed, or stopped by an exception that leaves run_once.  The agent or   *)
(* verifier it had running goes with it only where containment says so.     *)
Crash(w) ==
  /\ pc[w] \notin {"off", "exit"}
  /\ ProcessEnds(w)
  /\ dirt' = [ws \in Workspaces |->
                IF w \in dirt[ws] THEN (dirt[ws] \ {w}) \cup {"orphan"}
                                  ELSE dirt[ws]]
  /\ survivors' = IF pc[w] \in {"agent", "verify"} /\ ~KillOnClose
                    THEN survivors \cup {Place(w)}
                    ELSE survivors
  /\ Disturb

(* claim_expires passes.  The TTL is long against the moment between        *)
(* claim_task and _set_worker_pid.                                          *)
ExpireLease(t) ==
  /\ status[t] = "running"
  /\ ~expired[t]
  /\ \A w \in Workers : At(w, "register") => task[w] # t
  /\ LeaseMayLapseMidTick \/ \A w \in Workers : ~At(w, "snapshot")
  /\ expired' = [expired EXCEPT ![t] = TRUE]
  /\ UNCHANGED <<status, claim, pid, countVars, quarantine, workerVars, fsVars>>
  /\ Calm

SurvivorWrites(ws) ==
  /\ ws \in survivors
  /\ dirt' = [dirt EXCEPT ![ws] = @ \cup {"survivor"}]
  /\ UNCHANGED <<boardVars, workerVars, survivors>>
  /\ Calm

SurvivorDies(ws) ==
  /\ ws \in survivors
  /\ survivors' = survivors \ {ws}
  /\ UNCHANGED <<boardVars, workerVars, dirt>>
  /\ Calm

OperatorEdits(ws) ==
  /\ dirt' = [dirt EXCEPT ![ws] = @ \cup {"operator"}]
  /\ Disturb
  /\ UNCHANGED <<boardVars, workerVars, survivors>>

(* The operator commits or stashes by hand what stands in a workspace where *)
(* nothing runs.                                                            *)
OperatorCleans(ws) ==
  /\ \A w \in Workers : pc[w] \in Working => Place(w) # ws
  /\ dirt' = [dirt EXCEPT ![ws] = {}]
  /\ UNCHANGED <<boardVars, workerVars, survivors>>
  /\ Calm

BoardOnly == UNCHANGED <<workerVars, fsVars, disturbances>>

BackoffEnds(t) == BackoffElapses(t) /\ BoardOnly

OperatorStep ==
  /\ \/ \E t \in Tasks : RetryTask(t) \/ CancelTask(t)
     \/ \E ws \in Workspaces : ClearQuarantine(ws)
  /\ BoardOnly

-----------------------------------------------------------------------------

(* Every step the worker's own code takes. *)
Progress(w) ==
  \/ ReleaseStale(w) \/ SweepSnapshot(w) \/ SweepUnclaim(w) \/ SweepDone(w)
  \/ \E r \in rows[w] : SweepRow(w, r)
  \/ SelectTask(w) \/ SelectNone(w) \/ Claim(w) \/ RegisterPid(w)
  \/ Precheck(w) \/ Skip(w) \/ Gates(w) \/ AgentEnds(w) \/ VerifyEnds(w)
  \/ Complete(w) \/ Restore(w) \/ Inspect(w)
  \/ SettleLogic(w) \/ Breaker(w) \/ SettleEnvironment(w)
  \/ QuarantineStop(w) \/ Exit(w)

WorkerStep(w) == Start(w) \/ Progress(w) \/ AgentWrites(w) \/ Crash(w)

WorkspaceStep(ws) == \/ SurvivorWrites(ws) \/ SurvivorDies(ws)
                     \/ OperatorEdits(ws) \/ OperatorCleans(ws)

Next ==
  \/ \E w \in Workers : WorkerStep(w)
  \/ \E t \in Tasks : ExpireLease(t) \/ BackoffEnds(t)
  \/ \E ws \in Workspaces : WorkspaceStep(ws)
  \/ OperatorStep

Spec == Init /\ [][Next]_vars

(* Agents and verifiers run under timeouts and the code around them never   *)
(* waits for anybody; daemons are restarted; time passes.  Nothing is       *)
(* assumed of crashes, survivors or the operator.                           *)
Fairness ==
  /\ \A w \in Workers : WF_vars(Progress(w))
  /\ \A w \in Daemons : WF_vars(Start(w))
  /\ \A t \in Tasks : WF_vars(ExpireLease(t)) /\ WF_vars(BackoffEnds(t))

FairSpec == Spec /\ Fairness
-----------------------------------------------------------------------------
(* Safety *)

(* No claim leaks: a row that names a live worker is the row that worker    *)
(* has in hand, on every way out of an attempt.  A leaked claim of a live   *)
(* daemon is extended for ever by release_stale_claims.                     *)
ClaimIsWorked ==
  \A t \in Tasks : claim[t] \in Workers =>
    /\ task[claim[t]] = t
    /\ pc[claim[t]] \in Working \cup {"exit"}

(* No second worker beside a live one: two workers never execute the same   *)
(* task, whatever leases lapse and whichever of them releases or sweeps.    *)
OneAgentPerTask ==
  \A w, v \in Workers :
    pc[w] \in Working /\ pc[v] \in Working /\ task[w] = task[v] => w = v

(* What an agent edits and a verifier judges started clean: neither a dead  *)
(* run's leftovers nor the output of an accepted one are among the files.   *)
RunStartsClean ==
  \A w \in Workers : pc[w] \in {"agent", "verify"} =>
    dirt[Place(w)] \cap {"orphan", "delivered"} = {}

(* No agent runs in a workspace that is under quarantine. *)
QuarantineHolds ==
  \A w \in Workers : pc[w] \in {"agent", "verify"} => Place(w) \notin quarantine

(* The breaker really stops a task: an agent runs only while the count of   *)
(* failures is below what blocks it.                                        *)
BreakerHolds ==
  \A w \in Workers : pc[w] = "agent" =>
    failures[task[w]] < FailureLimit

(* An agent is started only where and when it may be: in a clean workspace, *)
(* outside a quarantine, below the breaker's limit, whatever crashes,       *)
(* settlements cut short and retries came before.                           *)
RunStartsSound == RunStartsClean /\ QuarantineHolds /\ BreakerHolds

(* The sweep never stashes the files of a run that is being executed        *)
(* ("reverting under a running agent destroys work").                       *)
SweepSparesLiveRuns ==
  [][\A w \in Workers :
       At(w, "sweep") /\ pc'[w] = "unclaim" =>
         dirt[WorkspaceOf[task'[w]]] \cap Workers = {}]_vars

-----------------------------------------------------------------------------
(* Liveness, under FairSpec *)

(* No run stays open for ever: settled, or reclaimed from its dead worker.  *)
RunsEnd == \A t \in Tasks : status[t] = "running" ~> status[t] # "running"

(* The restart path of a quarantine: the next worker blocks the task, unless *)
(* the operator lifts the quarantine first.                                 *)
QuarantineBlocks ==
  \A t \in Tasks :
    (status[t] \in {"ready", "running"} /\ WorkspaceOf[t] \in quarantine)
      ~> (status[t] \in {"blocked", "cancelled"} \/ WorkspaceOf[t] \notin quarantine)

(* What is open is closed: a run, and a task in quarantine. *)
OpenWorkCloses == RunsEnd /\ QuarantineBlocks

(* No task is retried for ever: once the operator lets it be, it is         *)
(* accepted or comes to rest with the operator, provided that workspaces    *)
(* come to hold no files but those of a worker's own attempt (every claim   *)
(* skips a dirty workspace, and an agent that outlives its daemon may leave *)
(* it dirty for ever).                                                      *)
EveryTaskSettles ==
  (/\ <>[][~OperatorStep]_vars
   /\ <>[](\A ws \in Workspaces : dirt[ws] \subseteq Workers)) =>
    \A t \in Tasks : status[t] = "ready" ~> status[t] \in {"done", "blocked", "cancelled"}

(* A dead run's leftovers do not stay where its task is still wanted:       *)
(* "Stash what a dead worker left behind, so its workspace is usable again" *)
(* (recover_orphans).                                                       *)
OrphansAreSwept ==
  \A ws \in Workspaces :
    "orphan" \in dirt[ws] ~>
      \/ "orphan" \notin dirt[ws]
      \/ \E t \in Tasks : WorkspaceOf[t] = ws /\ status[t] = "cancelled"
-----------------------------------------------------------------------------
(* What all of this promises of a task: VerifyGate.  A run is judged by the *)
(* verifier of the worker that holds the claim, and by nothing else.        *)

Phase(t) ==
  CASE status[t] = "ready"   -> "open"
    [] status[t] = "running" -> "held"
    [] status[t] = "done"    -> "accepted"
    [] OTHER                 -> "closed"

Stage(t) ==
  IF \E w \in Workers : claim[t] = w /\ task[w] = t /\ pc[w] \in {"verify", "complete"}
    THEN IF pc[claim[t]] = "verify" THEN "judging" ELSE "passed"
    ELSE "working"

Gate == INSTANCE VerifyGate WITH
          phase  <- [t \in Tasks |-> Phase(t)],
          holder <- claim,
          stage  <- [t \in Tasks |-> Stage(t)]

(* The worker implements the gate. *)
GateSpec == Gate!Spec
=============================================================================
