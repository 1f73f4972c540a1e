# A verification of the Tri-AI control plane

TLA+ models of the Tri-AI control plane (`src/` of the repository: a task board
over the Hermes kanban kernel, verify-gated workers, and the processes around
them), model-checked with TLC and, where it matters most, proved with TLAPS.

## 1. The system

| Part | State it keeps | Operations | Talks to |
|---|---|---|---|
| Kanban kernel (Hermes, not in the repository) | `tasks`, `task_runs`, `task_events` in SQLite | `claim_task`, `reclaim_task`, `block_task`, `complete_task`, `_set_worker_pid`, `_record_task_failure`, `release_stale_claims`, `heartbeat_worker` | everything, through `board.py` |
| `board.py` | the tables `triai_quarantine`, `triai_environment_backoff`, `triai_worktrees`, `triai_proposals`, pending actions, notifications, progress cards | `create_task`, `ready_tasks`, `release_stale_claims`, `retry_task`, `cancel_task`, `abort_dead_worker_claim`, quarantine and backoff reads and writes, proposal and notification bookkeeping | kernel, workers, Telegram |
| `worker.py` | one claimed row, the log files of its run | `run_once`: release, sweep, select, claim, register, precheck, gates, agent, verify, complete or restore and settle | board, executor, ledger |
| `worker_daemon.py` | idle delay | `serve`: ticks until stopped | worker |
| `executor.py` | job objects or process groups | `precheck`, `run_agent`, `run_verify`, `terminate_tree`, `revert` | git, processes |
| `process_liveness.py` | none | `pid_alive` | the process table |
| `dispatcher.py` | a thread pool per wave | `partition_groups`, `dispatch`, `run_batch` | starts `worker.py --once --task-id` |
| `daemon_supervisor.py` | state file, restart budgets | `supervise`, `stop` | starts the daemons |
| `worktrees.py` | git worktrees and their ownership rows | `resolve_task` | git, board |
| `telegram_control.py`, `interfaces/telegram_daemon.py` | update offset, pending actions | `dispatch`, `dispatch_callback`, `poll_once`, `publish_*` | board, Telegram |
| `planner.py`, `decomposer.py` | none | `validate_graph`, `write_graph` | board |
| `standstill.py` | `standstill-state.json`: last digest sent, and when | `stranded`, `stalled`, `digest`, `should_send` | board, Telegram daemon |
| `interpreter.py`, `intake_preflight.py` | none | the reading of a message by rules and by a model | control plane |
| `attachments.py` | `pending/` and the directories of requests | download, hold, claim | Telegram daemon |
| `model_routes.py`, `lane_select.py`, `route_admission.py`, `routing_probe.py` | the route registry, `lane-state.json`, probe results | admission, pinning and the choice of a lane | control plane, worker, network |
| `taste.py` | `taste.json`, the standard set for a run | brief, snapshot, check, findings | worker, verify command |
| `ledger.py`, `proposals.py`, `memory/episodic.py`, `memory/procedural.py`, `memory/evolution.py` | ledger lines, the index of them, `triai_proposals` | record, sync, propose, decide, activate, select | worker, daemon, Telegram |
| `memory/brain.py` | items, full-text index, inbox, links | capture, link, search, context pack | worker, control plane, file index |
| `preserve.py`, `completion_report.py`, `progress_card.py` | copies of rejected output | keep, report, render | worker, Telegram daemon |
| `run_queue.py`, `assign.py` | a queue file and a ledger of passes | a night of lines; rows from lines | git, board |
| `dashboard/private_index*.py`, `dashboard/kaya_web.py` | the index file, its summary, a cache | scan, write, load | files |
| catalogues, roles, radar, beacon, other dashboards, the concurrency benchmark | none of consequence | rendering, listing, measuring | read-only |

What is hard here, and why a test would hardly reach it:

* **Leases, pids and processes.** A claim has a lease; a lease that has lapsed
  says nothing about the worker, so the release step asks the process table.
  Two workers' ticks, the clock and a dying process interleave at every line.
* **A workspace is shared state without a lock.** A run is judged by what stands
  in a git working tree that an operator, a survivor of a killed tree, a crashed
  run and an accepted run may all have written to.
* **Settlement is several steps.** The row, the breaker's count, the backoff row
  and the workspace are updated one after the other; a crash or another worker
  may come between any two.
* **Liveness across three series of retries**: the logic breaker, the
  environment backoff and the operator's retries reset one another.
* **Delivery at least once.** Telegram repeats every update of a poll that
  failed anywhere; a request, its confirmation and its withdrawal may each be
  handled again in another state of the board, and a notice is sent before the
  board knows it was.
* **Stopping.** A stop request, a backoff, an exhausted budget, a failed launch
  and the end of a tick meet in one loop without threads, and the wait for a
  process that was told to end may itself fail.
* **Graphs from a language model.** Links are read one call at a time from a
  program that may fail at any of them, and may form any graph.
* **Two stores without a common transaction.** Git and the board, Telegram and
  the board, the index and its summary, a directory and a request: each pair is
  written one after the other by a process that may end in between.
* **Files that change under their readers.** The ledger is cut and repaired,
  `taste.json` is rewritten while an agent works, a queue file is edited between
  two assignments, the registry of routes is another one after a restart.
* **Processes that do not want to end.** Children detach, hold a pipe or hang in
  the kernel; whether anything survived decides whether a run may be reverted.
* **A model's word.** What it makes of a message may be anything; what follows
  from it must not be.

What each part must guarantee:

* *worker and board*: one agent per task; a task is accepted only from the
  verdict of the run that holds it; a claim never outlives the attempt that took
  it; an agent starts only in a clean, unquarantined workspace and below the
  breaker's limit; every open run ends; every task comes to rest; nothing of a
  live run is stashed by somebody else;
* *dispatcher and worktrees*: one agent per directory among the workers of a
  wave, one worker per task, an agent only in the checkout the board has on
  record for it; `dispatch` returns;
* *executor*: nothing runs outside its container; a tree is reported gone only
  when it is; the caller always gets a result;
* *heartbeat*: a claim is taken from a silent run, and never from one that works;
* *supervisor*: one set of daemons; a crashing daemon is restarted within its
  budget and not beyond it; a stop stops everything;
* *operator controls*: an action is executed at most once, only if confirmed
  before it lapses, and never on another run than the one it was asked for;
* *notifications*: every finished run is published, and again only after a failure;
* *planner*: every real graph is accepted, in an order in which it can be written,
  and written whole or not at all; no request is dropped;
* *standstill*: what is reported as stranded never runs, and every chat comes to
  hear of the situation the board is stuck in;
* *intake*: what leaves the machine is asked about first, no word of a request is
  lost, a follow-up stays with the task it revises;
* *attachments*: a file goes to one request, and every message is answered;
* *taste*: work is judged by the standard its agent was told, and the next
  attempt is told why;
* *reports and cards*: an agent is credited with its own work only, a rejection is
  announced with what was made, a task has one message per chat that comes to
  show how it ended;
* *routes and lanes*: verified work came from an admitted model; an exhausted lane
  is not chosen while another stands; a broken harness is not held against a lane;
* *proposals*: advice rests on failures the ledger still shows; decisions stand;
  finished work is never reopened;
* *memory*: what was captured is found once; no message is dropped unkept;
* *queue*: only what is broken is retried, every line is decided, a row's gate is
  the one its prompt was written with;
* *file index*: an index that says so is whole, and the last one is shown.

## 2. The modules

| Module | What it is |
|---|---|
| `Board` | the columns of `tasks` that decide who runs what, the backoff and quarantine tables, and the updates on them |
| `Worker` | extends `Board`: worker processes, workspaces, time and the operator |
| `VerifyGate` | the abstract promise: a task is open, held, accepted or closed, and is accepted only from a holder whose own verifier passed it; `Worker` implements it |
| `Heartbeat` | the beat of a running claim: `_AgentActivity`, `_workspace_changed_since`, `_heartbeat_while_active` |
| `Execution` | one contained command: `spawn_contained`, `Containment`, `run_agent`, `run_verify`, on both kinds of platform |
| `Dispatcher` | `dispatcher.py` and `worktrees.py`: waves of workers beside a daemon on the same board |
| `Brief` | the taste gate over the attempts of one task: `taste.py` and its use in the worker |
| `Artifacts` | what a run made, from the working tree to the card: the worker, `preserve.py`, `completion_report.py` |
| `Telegram` | `interfaces/telegram_daemon.py` and `telegram_control.py` over the tables of pending actions and of notifications |
| `Intake` | the reading of a message and what follows from it: `interpreter.py`, `_converse`, `_act_on` |
| `Attachments` | `attachments.py` and the daemon's use of it |
| `Cards` | `publish_progress`, `progress_card.py` and their table |
| `Standstill` | `standstill.py` and `publish_standstill` |
| `Planner` | from a request to a graph of tasks: `decomposer.py`, `planner.py`, `_fanout` |
| `Lanes` | the registry of routes from request to run, and the choice of a lane |
| `Learning` | from a ledger line to the advice an agent is given |
| `Brain` | the memory kernel and its three writers |
| `Queue` | `run_queue.py` and `assign.py` |
| `Supervisor` | `daemon_supervisor.supervise`: restarts, budget, stop |
| `Launches` | `daemon_supervisor.main` around it: the state file and a second supervisor |
| `FileIndex` | the private index, the agent that repeats it, the dashboard's cache |
| `MCWorker`, `MCPlanner`, `MCBrain` | values of constants for TLC |
| `MCOperations`, `MCConversation` | the instances that check several components in one run (section 3) |
| `Foundations` | facts about numbers, sequences and functions that several proofs need |
| `WorkerProofs`, `TelegramProofs`, `PlannerProofs`, `IntakeProofs` | theorems about these modules |
| `FleetProofs` | theorems about `Supervisor`, `Launches` and `Execution` |
| `OperationsProofs` | theorems about `Dispatcher`, `Queue`, `Heartbeat` and `Lanes`, and the types of all of `MCOperations` |
| `ConversationProofs` | theorems about `Attachments`, `Cards`, `Brief`, `Artifacts`, `Learning`, `FileIndex`, `Brain` and `Standstill`, and the types of all of `MCConversation` |

The modules meet where the code does. A run of `Worker` is, seen closer, a
command of `Execution`, a beat of `Heartbeat`, a brief of `Brief`, a harvest of
`Artifacts`; `Dispatcher` has workers whose run is one step and looks at how they
come by their directory. `Supervisor` starts the daemons that `Worker` and
`Telegram` describe and knows of them only whether they run and whether a tick is
under way; `Launches` knows of a fleet only whether it runs. What an operator's
confirmed retry does to a row is `RetryTask` of `Board`, of which `Telegram`
keeps the status. A message that starts work is one task in `Telegram`, read in
`Intake`, split in `Planner`; its files are in `Attachments`, the model it is
given in `Lanes`. `Worker` takes the verdict that a tree survived as it comes;
`Execution` says when it is true.

Definitions marked "variant" belong to no specification. Each is the definition
next to it with a plausible defect, and shows which property would notice it.

### Board and Worker

| Variable | In the code |
|---|---|
| `status`, `pid` | `tasks.status`, `tasks.worker_pid` |
| `claim` | `tasks.claim_lock` with `tasks.current_run_id`: a claim writes both, every release clears both, and a process runs one attempt at a time, so the process names the run |
| `expired` | `claim_expires` is in the past |
| `failures` | `consecutive_failures`, saturating at the limit |
| `envAttempts`, `waiting` | a row of `triai_environment_backoff`: its `attempts`, and `eligible_at` still ahead |
| `quarantine` | the keys in `triai_quarantine` |
| `pc`, `task`, `verdict` | where a worker stands in `run_once` and `_execute_task`, the row it has in hand, and the class of the failure it is about to settle |
| `rows` | what `recover_orphans` fetched and has not looked at yet |
| `dirt` | whose files make `git status --porcelain` non-empty in a workspace |
| `survivors` | workspaces in which a process runs that nobody contains any more |

A process that has died is written `Gone` in every row and snapshot that named
it: no live process ever matches that name again.

The actions follow `run_once`: `ReleaseStale`, `SweepSnapshot`, `SweepRow`,
`SweepUnclaim`, `SweepDone`, `SelectTask` or `SelectNone`, `Claim`,
`RegisterPid`, `Precheck`, then `Skip`, or `Gates`, `AgentWrites`, `AgentEnds`,
`VerifyEnds`, and then `Complete`, or `Restore`, `Inspect` and one of
`SettleLogic` (with `Breaker` after it) and `SettleEnvironment`;
`QuarantineStop` and `Exit` end the worker. An SQLite transaction is one step;
two transactions, or a transaction and a git command, are two. `Crash` may come
at any point: it stands for a kill, a daemon stopped between ticks, an exception
that leaves `run_once`, the signal of `cancel_task`, and the kernel's own
termination of a worker whose heartbeat went stale. `ExpireLease` may come
whenever the row runs; a lease the heartbeat renews is one that has not expired
yet. `BackoffEnds`, `OperatorStep`, `OperatorEdits`, `OperatorCleans`,
`SurvivorWrites` and `SurvivorDies` are the rest of the world. `Daemons` are the
workers in `worker_daemon.serve`, which take the oldest ready task and loop; the
others are `worker.py --once --task-id`, as the dispatcher starts them.

Abstractions:

* Tasks have equal priority and are ordered by creation; every task has a verify
  command, as `create_task` demands; worktrees are resolved.
* A retried task passes through `todo` and `recompute_ready` in one step: tasks
  of the model have no parents.
* Files are abstracted to who left them. A verifier or an agent may commit
  everything, which empties `dirt`; a stash takes everything or fails.
* A claim that the kernel cannot take from a live worker is extended. The TTL is
  long against the moment between `claim_task` and `_set_worker_pid`.
* `complete_task` may also be refused because a parent was reopened; what the
  kernel does to the row then is not in the repository and is not modelled. Its
  refusal because the claim moved is.
* A pid is never reused.

### Telegram

`updates` is all the operator ever sent and `acked` how much of it Telegram has
dropped; `offset`, `at`, `last` and `todo` are the locals of `run_forever`,
`poll_once` and of the loops inside it; `actions` is `triai_pending_actions`,
`receipts` is `triai_completion_notifications`, `tasks` and `runs` are what the
board says of tasks and of finished runs. `cards` and `sends` record what
reached the phone. The daemon's actions are the parts of a poll in their order:
`Poll`, then per update one of the `Handle...` actions with the transactions it
makes (`HandleStart` stages, `StartNow` confirms; `StopOne` withdraws one action
at a time) and `Reply`; after the last, `Publish`, and per run `Announce` (send)
and `RecordReceipt`; `EndPoll` takes the new offset. `ReplyFails`, `AnnounceFails` and
`PublishFails` abandon the poll with the old offset, as `run_forever` does;
`Crash` loses the daemon's memory and `Restart` starts without an offset, as the
supervisor does. `OperatorSends`, `Lapse` (time) and `RunFinishes` are the rest of
the world. One chat is authorized. Attachments, progress cards and the standstill
notice, which the same loop publishes, have modules of their own; replies that
only read are left out.

### Supervisor and Launches

`process` is what `Popen.poll` would tell, with a worker `busy` during a tick;
`uptime`, `failures`, `delay` and `restarts` are the fields of `_Child`, with
times as ages counted in periods of the loop (0.25 s in the code); `shown` is
the state file; `stop` the stop-request file; `asked` the signal to the worker;
`again` tells the stop of the `finally` clause from the one in the loop. One
pass of the loop is `SeesStop` or `SeesNoStop`, then for each daemon `StaysUp`,
`StaysDown`, `Restart`, `RestartFails`, `SeesExit` or `AbandonsChild`, then
`Publish` and `Sleep`. `_stop_children` is `AllStopped`, or `Deadline` (terminate) with
`Reaped` or `ReapExpires` (`TimeoutExpired`). `forceful` says whether
`Popen.terminate` kills (Windows) or sends the signal a busy worker defers
(POSIX); it is chosen at the start and never changes.

`Launches` has one process per start of `main`: `Refused` or `Checks`,
`EntersFleet` (the first write), `StartsWorkers`, `PublishesOwn`, `Returns`,
`Closes`; `SupervisorDies` kills one and leaves its worker daemon, `WorkerEnds`
ends that. No lock is held between `Checks` and `EntersFleet`, so any number of
supervisors may stand there together. `overlaps` is history: it counts the checks
that were passed while another supervisor stood there, and what goes wrong with
fleets is held against that count.

### Planner

`hermes` is what Hermes recorded: links between the children and the phase of
each. `ReadLinks` and `ReadFails` are the calls of `read_links`, `SemanticEdges`
and `PhaseEdges` the two branches of `build_graph`, `NodesRefused` and
`NodesAccepted` the end of `validate_graph`'s first half. The recursive `visit`
of `_topological_order` is a stack, `path`, of nodes with the parents still to
be looked at; `VisitNext` is the outer loop, `VisitParent` a call with its three
outcomes, `Leave` a return. `WriteNode` and `WriteFails` run inside the
transaction that `Commit` ends; `FallsBack` is the `except` clause of `_fanout`.
An operator's own document (`planner.py --graph`) enters at the check. The
order in which a node lists its parents is left open; Hermes may have recorded
any links, cyclic ones included.

### Dispatcher

`jobState`, `holder` and `tries` are columns of `tasks`; `owned` is
`triai_worktrees`, `tree` what git finds at the path of each job's checkout,
`untidy` the directories and checkouts that are not clean. `wave`, `listed` and `resolved` are
the locals of `dispatch`, `standsAt` and `hand` those of each worker process.
`ListsReady` takes the snapshot, `ResolvesNext` calls `resolve_task` row by row on
rows that may have changed, `LaunchesBatch` is `run_batch` on the heads of the
groups, `JoinsAll` the join. A worker `Selects` (after the release and the sweep
of its tick, `Recovers`), `ResolvesOwn`, `Claims` with the precheck of the
directory or checkout the row names, `Dirties` it, and `Passes` or `RunFails`; the
daemon `Wakes` at any moment. A process may die wherever it may leave something
behind, between git and the board too; what its agent wrote stays, until a sweep
that still sees the row stashes it. `Withdraws`, `Edited` and `Occupies` are
others at the board, the directories and the checkouts. Jobs without a workspace
of their own share one directory. Attempts after which the kernel blocks a job
are `TryLimit`.

### Execution and Heartbeat

`root` is the command, suspended until it is contained on Windows, `exited` until
it is waited for; `alive`, `detached`, `piped` and `stuck` say what its children
do. `Creates`, `Assigns` and `Resumes` are `spawn_contained`, and any of them may
fail; `WaitEnds` and `WaitTimesOut` are the wait of an agent, or of a verify
command, whose `communicate` also waits for the pipe. `KillsTree`, `ProvesGone`,
`ProvesNothing` and `ReturnsResult` are `terminate_tree` and what follows.

In `Heartbeat` time counts heartbeat intervals. The walk of
`_workspace_changed_since` meets files in an order and reaches a number of them
before its budget of seconds ends; a beat the board refuses is not repeated.

### What surrounds a run

`Brief` has the standard of the moment (`taste`), what an attempt was told and
what it is judged by (`logs`); a page is reduced to the promises it keeps and
whether it stands above the floor, a finding to its kind, so that the cut of a
rejection after its eighth line (`rejection_block`) does not show. `Artifacts`
follows one run from the end of its agent to its card; the state of a path is what
the agent did to it and where the file lies now; a copy of a rejected file may
fail (`missed`), as may the manifest, which loses all of them. A card sent between
`complete_task` and the record of the artifacts names no files; the model has it
and no property forbids it. `Lanes` has two systems that share nothing: a route
from its request over its pin to the models that answer (`RouteSpec`), and the
choice of a lane from a tally of outcomes and the hours until benched lanes return
(`ChoiceSpec`). `Learning` follows a line of the ledger: cut or torn at any time,
read into `events`, drafted, put to the operator, decided, activated, shown to an
agent. A group is a signature, of workspace, role and verify exit, as in
`evolution._signature`; the proposals about a single run's outcome are
`OutcomeNext`. `Brain` has one writer at a time in the database; a capture is its
steps up to the commit, and each writer may die or time out.

### What surrounds a message

In `Intake` a message is what the rules can tell of it (its opening, whether it
is a bare category, whether it names something external, its length) and a
model's reply is any reading at all. `Attachments` follows files from an update
into `pending/` and from there to the request that claims them. `Cards` follows
one task in several chats: `rows` is the table, `onCard` what the phones show.
`Standstill` counts hours since something happened, each count capped where the
code stops telling values apart.

### Queue and FileIndex

`Queue` has two systems that share nothing: the nights of `run_queue.py` over one
checkout, of which the model keeps whose edits are in it and of what kind, and
`assign.py`, which turns lines of an edited file into rows. In `FileIndex`
entries come, go and are locked while the scan visits them; an edition is one
index as written, its number stands for the mtime and size that the summary and
the dashboard's cache compare.

## 3. What the runs check

| Run | Properties | Instance | Result |
|---|---|---|---|
| `OneDaemon` | `TypeOK`, `RunStartsSound` (`RunStartsClean`, `QuarantineHolds`, `BreakerHolds`), `OpenWorkCloses` (`RunsEnd`, `QuarantineBlocks`), `EveryTaskSettles`, under `FairSpec` | 1 daemon, 2 tasks in 1 workspace, 1 disturbance, failure limit 2 | holds, 136,047 states |
| `Contention` | `OneAgentPerTask` | 3 daemons, 1 task, 2 disturbances | holds, 383,292 states up to symmetry |
| `Gate` | `ClaimIsWorked`, `GateSpec` | a daemon and a pinned worker, 1 task, leases lapse at any moment | holds, 909,561 states |
| `Operations` | 14, listed below | `MCOperations` | holds, 422,250 states |
| `Conversation` | 19, listed below | `MCConversation` | holds, 420,664 states |
| `Orphans` | `OrphansAreSwept`, under `FairSpec` | 1 daemon, 1 task, 1 crash | violated |
| `SweepRace` | `SweepSparesLiveRuns` | 2 daemons, 1 task, leases lapse at any moment | violated |
| `Untold` | `EveryRunIsTold`, under `PhoneFairSpec` | runs may also end as `timed_out` | violated |
| `Replay` | `ConfirmedByOperator` | 3 messages, 1 fault | violated |
| `LinkLost` | `InputsAwaited` | 3 children in 2 phases | violated |
| `Survivors` | `ProvenGone` | a command with 2 children, not on Windows | violated |
| `Poison` | `EveryNoteIsHandled`, under `BrainFairSpec` | 2 messages, one of which memory refuses | violated |

`Operations` and `Conversation` each take several components in turn. Their
variable `part` is chosen at the start and never changes; it says which component
moves, and the others stay in one initial state. The state space is the disjoint
union of the components', not their product, and every invariant and action
property is that of the component alone. A liveness property `P` of a component
is checked as `part = "..." => P`, under the component's own fairness. The
components of one such run share no state in the code either, or only rows that
one of them writes and the other does not look at.

What a run checks is stated per component, as a conjunction of named parts, each
with its own comment in the component's module. The types of all components are
checked together, and so are the liveness properties of related components, whose
parts the two MC modules put together.

`Operations`:

| Component | Property | Its parts |
|---|---|---|
| `Supervisor` | `FleetEndsCleanly` | `NoneOutlive`, `ZeroMeansClean` |
| | `FileNamesDaemons` | |
| | `MCFleetMoves` | `StopWorks`, `EveryExitIsMet`, `FlappingStops` |
| `Launches` | `FleetIsKnown` | `OneFleet`, `StopReaches` |
| `Dispatcher` | `ApartInWaves` | |
| | `AgentIsInPlace` | `OneWorkerPerJob`, `AgentInOwnTree` |
| `Queue` | `LinesAreKept` | `OnlyBrokenIsRetried`, `FailedEditsGo`, `GateMatchesBody`, `OneLiveRow` |
| `Heartbeat` | `WorkKeepsClaim` | |
| `Lanes` | `VerifiedWasAdmitted` | |
| | `ChoiceIsSound` | `ExhaustedIsAvoided`, `HarnessIsNotTheLane` |
| `Execution` | `RunsContained` | |
| | `ProvenGone` | |
| several | `MCWorkComesBack` | `DispatchEnds`, `EveryLineIsDecided`, `WedgedIsReclaimed`, `EveryRunReturns` |
| all | `OperationsTypeOK` | `FleetTypeOK`, `LaunchTypeOK` and the types of the others |

`Conversation`:

| Component | Property | Its parts |
|---|---|---|
| `Telegram` | `HandledOnce` | `StartedOnce`, `NoRequestLost` |
| | `NoticesAreTrue` | `ReceiptMeansSent`, `RepeatsNeedFaults` |
| `Planner` | `GraphIsSound` | `ParentsFirst`, `CyclesAreReal`, `AllOrNothing` |
| | `EdgesAreSound` | `LinksKept`, `PhasesAreAccepted` |
| `Intake` | `ModelIsHeld` | `ExternalIsAsked`, `WordsAreKept`, `FollowUpStays` |
| | `ReadAsMeant` | `CategoryIsAsked`, `ReadInContext` |
| `Attachments`, `Cards` | `DeliveredOnce` | `AttachedOnce`, `OneCardPerChat` |
| `Brief` | `AttemptsAreFair` | `JudgedAsTold`, `ToldWhy`, `RetryIsHeld` |
| `Artifacts` | `ReportIsTrue` | `CreditedToAgent`, `RejectionsAreShown` |
| `Standstill` | `StrandedNeverRuns` | |
| `Learning` | `AdviceIsEarned` | |
| | `DecisionsHold` | `DecisionsStand`, `ActivationIsCurrent`, `DoneStaysDone` |
| `Brain` | `MemoryIsWhole` | `FoundOnce`, `DroppedIsKept`, `PackFits` |
| `FileIndex` | `IndexIsTrue` | `IndexedIsWhole`, `ShownIsCurrent` |
| `Telegram`, `Planner` | `MCRequestsStart` | `EveryStartStarts`, `RequestStarts` |
| `Attachments`, `Brain` | `MCMessagesAreAnswered` | `EveryMailIsAnswered`, `EveryNoteIsHandled` |
| `Telegram`, `Cards`, `Standstill` | `MCChatsAreTold` | `EveryRunIsTold`, `CardsComeToRest`, `StandstillIsHeard` |
| `Learning`, `FileIndex` | `MCPassesCatchUp` | `RepeatsAreProposed`, `LastIndexIsShown` |
| all | `ConversationTypeOK` | `PhoneTypeOK`, the planner's `TypeOK` and the types of the others |

The bounds are enough for the cases that matter.

* *Worker.* Two workers and one task already give a release, a sweep and a claim
  by one worker inside every window of the other; a second task gives the order
  of the queue and the reuse of a workspace by another task. `FailureLimit` is
  the kernel's 2 where the breaker is the question; `EnvLimit` is 1 for the
  code's 3, which only shortens the series. `MaxDisturbances` bounds crashes,
  failed registrations, failed stashes, surviving trees and operator edits;
  leases, retries, cancellations and quarantine clearances are unbounded.
* *Supervisor and Launches.* Two daemons give a pass in which one changes and the
  other does not; a budget of two restarts in a window of seven periods
  (`Window`), with a delay of at most two (`MaxDelay`), lets restarts leave the
  window and also exhaust it. That proportion, a window long against the largest
  delay (an hour against 60 s in the code), is needed for `FlappingStops`: with a
  window shorter than the delays a flapping daemon is restarted for ever. Three
  supervisors, any of which may be killed, in any order: two may overlap and the
  third meet what they left, or all three stand between check and write.
* *Dispatcher.* Two jobs of one directory and one with a worktree, a measured cap
  of two, a daemon beside them: a head waits for its group, a wave is not full,
  the daemon takes a row between its listing and its resolution. `MaxMishaps` is
  one of these: a death, a withdrawal, somebody's edit of a directory or checkout,
  a foreign directory where a checkout should go; what agents write, and tidying
  up, is unbounded. A death while the agent works leaves a dirty place that is
  swept or not. `TryLimit` is 1: a second attempt
  repeats the first.
* *Queue.* Two lines, three nights, any of them cut; one edit per line and three
  rows, so a row is archived and made again from another edition.
* *Heartbeat.* Two files, both within reach, six intervals, a beat is stale after
  two, one beat may be refused. With a `Reach` below the size of the walk
  `WorkKeepsClaim` fails where the agent writes beyond it: the 5 seconds of the
  scan (`WORKSPACE_SCAN_SECONDS`) are assumed to be enough, as the code assumes.
* *Lanes.* Two routes, two models, six registries with the admission of either
  missing; three lanes of two tiers, two hours, three ledger rows.
* *Execution.* A root and two children, of which one process may hang for good:
  one child can hold the pipe while the other detaches.
* *Telegram.* Two messages are a request and its confirmation, withdrawal or
  stop, or two requests waiting together; one fault repeats any prefix of a poll,
  with whatever was sent in between; two runs and pages of one (5 in the code)
  put a run behind the page.
* *Planner.* Three nodes have every shape that matters to the search: a diamond
  needs two paths to one node, a cycle one, two or three nodes, and the document
  may start anywhere. Rank 4 leaves an empty phase between occupied ones. To keep
  the instance small the last two phases are in order and one of the first two
  children is in phase 1; self links of two children, and links of two children
  to the outside, are left to the first child, the nodes being alike otherwise.
* *Intake.* Two messages out of seven kinds, every reply a model can give, one
  dropout, with which the policy may lose a workspace.
* *Attachments.* Three messages: files, then words, then files or words again; one
  failed send or download.
* *Brief.* Three attempts and one rewrite of `taste.json`, which is absent at
  first; the outcomes are work that meets the standard, work that keeps none of
  its promises, work with too little research and work without a brief.
* *Artifacts.* Three files: promised, committed before and with a namesake
  elsewhere, and neither. *Cards.* Two chats, two runs, one mishap.
* *Standstill.* A chain of three tasks with a parent that is not on the board, two
  chats, one refusal, a repeat after two hours.
* *Learning.* Two groups of failures, three records, one cut of the file, three
  runs. *Brain.* One note of the operator in two messages, two of runs, one of
  which is refused, one of a scan; one crash or timeout; budgets that hold some
  of the bodies and not others. *FileIndex.* A folder, a file in it and a link; two
  moves, two scans, one failed read.

### Findings

1. **Leftovers that are never swept** (`Orphans`). `run_once` releases stale
   claims first and sweeps orphans second, and the sweep reads only rows with
   `status = 'running'`. A dead worker's expired row is therefore already
   `ready` when the sweep looks; its files stay, and every later claim in that
   workspace skips. The sweep only sees a row whose lease lapses between the two
   steps, or whose release the kernel deferred.
2. **A sweep that hits a live run** (`SweepRace`). The sweep works from rows it
   read at its start and un-claims by task id alone. Another worker can release
   and re-claim such a row before the sweep reaches it; the sweep then stashes
   the live agent's files and strips its claim. The same trace breaks
   `OneAgentPerTask`, which is why `Contention` and the theorem `OneAgent`
   assume that no lease lapses between a tick's release and its sweep
   (`LeaseMayLapseMidTick = FALSE`).
3. **Runs the operator is never told of** (`Untold`). The query for completions
   lists three statuses; the worker also ends runs as `timed_out` and
   `spawn_failed`.
4. **A confirmation for something else** (`Replay`). A bare `/confirm` is
   resolved when it is handled. Handled a second time after a failed poll, it
   confirms a request that was made in between.
5. **Links lost inside a phase** (`LinkLost`). One unreadable child drops all
   links; phase order then lets nodes of one phase start together, also when
   Hermes had recorded that one needs the other.
6. **Survivors proven gone** (`Survivors`). Off Windows `terminate_tree` looks the
   process group up through the root's pid. `run_agent` has waited for the root
   by then, so the lookup fails: nothing is signalled, the second lookup's error
   counts as the proof, and children still run while the caller reverts. The
   docstring says that survival is never assumed away and that there is
   deliberately no such shortcut.
7. **A note that stops the mailbox** (`Poison`). `brain.capture` raises for a note
   that looks like a credential; nothing between it and `run_forever` catches
   that. The daemon ends, its successor is delivered the same message, and
   nothing after it is handled. `EveryNoteIsHandled` holds in `Conversation`, as
   a part of `MCMessagesAreAnswered`, where none of the operator's notes is refused.

Modelling showed more, for which there is no run of its own:

* A worker is looked at only between ticks, so the 15 seconds of a stop usually
  end in the middle of one. Where `terminate` only asks (`~forceful`),
  `child.wait` raises out of `_stop_children` and the worker outlives
  `supervise`, the one exception `NoneOutlive` makes.
* The daemons of a killed supervisor run on beside those of its successor, which
  asks only for the supervisor's pid. The state file is checked and then written
  without a lock: two supervisors that pass the check together keep two fleets, of
  which the file names one. `FleetIsKnown` is not that this cannot happen, but that
  nothing else makes a second fleet or hides one: each is paid for by an overlap.
* `dispatch` need not return. A ready job whose directory or checkout is dirty is
  listed, launched, claimed and skipped by every wave, and nothing counts the
  waves (`dispatcher.py:254-299`; `max_waves` is `None`). A worker that dies over a
  checkout leaves it so, and by finding 1 nobody sweeps it. `DispatchEnds` holds
  only for behaviours in which no ready job is left like that; with a condition on
  directories alone TLC finds the endless waves.
* A night of `run_queue.py` takes back with `git checkout -- .` what a failed line
  edited in place, not what it staged or created. `FailedEditsGo` says unstaged
  for that reason; the file's heading says that a broken attempt cannot pile onto
  the next task.
* A dispatcher and a daemon, or two dispatchers, may have agents in one directory:
  `ApartInWaves` is about the workers of one dispatcher.
* A card or a digest that reached Telegram in a poll that then failed is sent
  again, which `OneCardPerChat` counts.

### Fairness

* *Worker.* `FairSpec` assumes of a worker only that its own steps are
  eventually taken: agents and verifiers run under timeouts, and nothing in
  `worker.py` waits for another actor. Daemons are started again
  (`daemon_supervisor`), leases and backoffs run out because time passes.
  Nothing is assumed of crashes, survivors, or the operator. `EveryTaskSettles`
  is conditional on the operator eventually leaving the board alone, since
  `retry_task` may requeue a task for ever, and on workspaces eventually holding
  nobody's files but a running worker's own, since a dirty workspace makes every
  claim skip (and finding 1 keeps it dirty).
* *Dispatcher.* The dispatcher and the workers it started take steps, and a tick
  of the daemon ends, because agents have timeouts; nothing is assumed of the
  daemon's delay, of deaths or of operators. `DispatchEnds` is conditional on
  `ReadyIsTidy` from some point on: no ready job has a dirty directory or checkout
  while no agent works there. Each wave skips such a job and lists it again.
* *Execution.* The caller's own steps, and time; nothing of the processes.
  *Heartbeat.* The timer of the beat, and the kernel's look at stale claims.
* *Telegram, Attachments, Cards, Standstill.* The daemon keeps taking steps: its
  calls have timeouts, a failed poll is retried for ever, the supervisor restarts
  it. Faults are bounded; nothing is assumed of the operator.
* *Supervisor.* Its loop runs; a tick ends, because agents have timeouts; an
  idle worker that was asked to stop stops. Nothing is assumed of exits.
* *Planner.* One synchronous call, each part of which has a timeout. *Queue.* A
  night's own steps; a scheduled run may be cut, within a bound.
* *Learning.* The idle pass of `serve`, whenever a tick finds nothing to do.
  *Brain.* The control plane's steps, and the steps of whoever is writing.
  *FileIndex.* The agent's loop and the dashboard's refresh.

## 4. What is proved

Every invariant and every action property that a passing run checks is also a
theorem, and so is the refinement `GateSpec`: a run shows it on a small instance,
the theorem for every value of the constants. Only the liveness properties are
left to TLC.

The theorems assume what the modules' named assumptions say of the constants
(`BoardAssumption`, `WorkerAssumption`, `TelegramAssumption`,
`PlannerAssumption`, `IntakeAssumption`, and so on, one or two per module), which
TLC evaluates in the runs. They ask for no more than that parameters have a
type, and for a few things that are so in any installation: a board, its
readers and its jobs are finite, there is at least one chat, names that stand
for "none" (`NoWorker`, `Nil`, `Unrouted`, `Blank`, `Silence`) are not names of
anything else. Four theorems have a hypothesis of their own:

| Hypothesis | Theorems | Without it |
|---|---|---|
| `~LeaseMayLapseMidTick` | `OneAgent` | false: finding 2, run `SweepRace` |
| `Windows` | `GoneMeansGone` | false: finding 6, run `Survivors` |
| `OneWorker` | `OneDaemonStartsSound` | not promised: another worker may write in the same directory |
| `Walk <= Reach` | `WorkersAreSpared` | false: an agent that writes beyond the budget of the scan looks silent |

Each invariant is proved from a stronger one that is inductive. What each adds:

**`WorkerProofs`**: `TypeCorrect` (`TypeOK`), `NoClaimLeaks` (`ClaimIsWorked`),
`OneAgent` (`OneAgentPerTask`), `ImplementsGate` (`GateSpec`) and
`OneDaemonStartsSound` (`RunStartsSound`).
`ClaimIsWorked` is not inductive: a settlement that finds its claim gone leaves
the row as it is, and that is safe only because a row that is not running names
nobody. `IInv` adds that (`RowsAgree`) and that a worker has a row wherever it
needs one (`HasRow`). `OneAgent` rests on `LInv`: with the release immediately
before the sweep and no lease lapsing in between, a sweep finds no row
(`NothingToSweep`), so the only steps that free the row of a worker executing it
are that worker's own (`WorksOwnRow`). Most actions leave the rows and the row in
hand alone; they are treated once, as the step `Aside`. `ImplementsGate` maps
every action to a step of the gate or to a stutter: a release or a sweep is
`Release`, a death is `HolderDies`, a verdict that comes after the claim has moved
is nothing at all. `OneDaemonStartsSound` rests on `SInv`: a row that is
executed names its worker, with its pid from registration on (`Executes`); what
may be run is below the breaker's limit, and a failure still to be counted is of a
task that the count can block (`BelowLimit`); what the precheck found holds until
the verifier is done (`StartsSound`).

**`TelegramProofs`**: `PhoneTypes`, `AtMostOnce` (`StartedOnce`) and `NothingLost`
(`NoRequestLost`), together `ExactlyOnce` (`HandledOnce`), and `RepeatsArePaidFor`
(`NoticesAreTrue`). `NothingLost` needs `Progress`: everything below the offset,
and everything handled of the response in hand, is staged (`IsStaged`). Rows of
`actions` are only ever appended or marked, so what is staged stays staged
(`Kept`). `RepeatsArePaidFor` counts: what this poll has passed has at most one
row, or one receipt, more than there were faults, and what it has not passed at
most as many as there were faults (`RequestsRepaid`, `NoticesRepaid`), so that the
fault that sends the daemon back is what pays for the repetition.

**`PlannerProofs`**: `PlanTypes`, `ParentsComeFirst` (`ParentsFirst`),
`RefusedForACycle` (`CyclesAreReal`), `WholeOrNothing` (`AllOrNothing`),
`AllLinksOrNone` (`LinksKept`) and `PhaseOrderIsAccepted` (`PhasesAreAccepted`);
together `GraphsAreSound` (`GraphIsSound`) and `AllEdgesAreSound` (`EdgesAreSound`).
The invariant of the search is the usual one of a depth-first order: the path is
a simple path through unfinished nodes, each a parent of the one before
(`Simple`); every parent of a node on it is still to be looked at, finished, or
next on it (`Accounted`); nodes the outer loop has passed are finished
(`PassedOver`). A node that is left therefore has all its parents in the order,
and a node met on the path closes a cycle with the part of the path above it. For
phases, ranks fall along edges and along the path (`Falling`), which leaves no
room for a cycle.

**`IntakeProofs`**: `NothingExternalStarts` (`ExternalIsAsked`), `NoWordIsLost`
(`WordsAreKept`) and `FollowUpsStay` (`FollowUpStays`), together `TheModelIsHeld`
(`ModelIsHeld`), and `MessagesAreReadAsMeant` (`ReadAsMeant`), for any set of
messages and whatever the model replies. A reading of a message never lowers what
the rules saw of it, which is a lemma about `Interpretations`; `IntakeInv` carries
it from the reading to every task made and every request waiting. `ContextInv`
adds that no turn of the chat is of a message that has not been handled
(`InContext`).

**`FleetProofs`**. Of `Supervisor`: `NoDaemonOutlives` (`NoneOutlive`) and
`ZeroIsClean` (`ZeroMeansClean`), together `EndsAreClean` (`FleetEndsCleanly`),
from `SInv`: while the loop goes on nobody was asked, nothing has been decided and
nothing was cut; the second stop belongs to the `finally` clause; none but the
worker survives being asked. `FileIsCurrent` (`FileNamesDaemons`): in a pass that
has changed nothing so far the file is still right, and one that has changed
something writes it before it sleeps (`FInv`). `FleetTypes` bounds the delay and
the record of restarts, which takes an argument about powers of two (counted as
subsets, `PowersCount`) and about ages that only grow. Of `Launches`:
`LaunchTypes`, and `OneFleetAtATime` (`OneFleet`) and `StopFindsFleet`
(`StopReaches`), together `TheFleetIsKnown` (`FleetIsKnown`), with the race
between check and write open, from `Accounted`: the supervisors past the check are
at most one more than the overlaps, and no more than the overlaps whenever the
file would let the next one in and nobody stands between check and write. A start
without an overlap finds the second case and leads to the first; whoever the file
names, or whoever still stands before its write, is the one that is not counted
among the unnamed. Of `Execution`: `NothingRunsOutside` (`RunsContained`), on both
platforms and for any children, and `GoneMeansGone` (`ProvenGone`). Before the
root runs there are no children (`NothingYet`), on Windows it runs only inside the
job (`InJob`), and once a tree is proven gone there is no root to start another
(`CallEnded`).

**`OperationsProofs`**. Of `Dispatcher`: `OneWorker` (`OneWorkerPerJob`) and
`AgentsAreInTheirTrees` (`AgentInOwnTree`), together `AgentsAreInPlace`
(`AgentIsInPlace`), for any number of jobs, any cap and any deaths. A process at
work has the row it claimed, and the row names it (`Claimed`); a checkout that is
proven or adopted is on record before the claim, and only the end of the job's
own run removes it (`Placed`). `WavesAreApart` (`ApartInWaves`): whoever is at
work is of the wave's batch, and a batch is made of heads of different groups
(`InBatch`, `OwnHand`). `RoutesAreAdmitted` (`VerifiedWasAdmitted`): from the
confirmation on the row carries the model the registry of that moment had
admitted (`Pinned`). `ChoicesAreSound` (`ChoiceIsSound`) needs only that tallies
are counts; the rest is what `Chooses` says of three sets of lanes. `QueueIsKept`
(`LinesAreKept`): what passed on an earlier night is done for the run under way
(`EarlierAreDone`), and nothing unstaged of a line is left when its result is
recorded as failed (`QueueHolds`). `WorkersAreSpared` (`WorkKeepsClaim`): what the agent does in
an interval carries the time of its end, so the turn at that end sees it
(`BusyShows`), and a beat is no older than the agent is silent (`BeatIsFresh`).
`OperationsTypes` (`OperationsTypeOK`) for all components of the instance.

**`ConversationProofs`**. `NothingIsDoubled` (`DeliveredOnce`): a copy in hand
belongs to no request yet (`HandHolds`), and a chat has more messages than polls
died only while one of them is not on record yet (`Numbered`). `BarIsHeld`
(`AttemptsAreFair`): the disk is as it was until an attempt is accepted
(`SameDisk`). `ReportsAreTrue` (`ReportIsTrue`): what is credited was the agent's
when it was observed, although the verify command may undo or move it afterwards
(`Credited`, `InPhase`). `AdviceRestsOnFailures` (`AdviceIsEarned`): a rule rests
on two readable lines of its group from its draft on (`RulesRest`), and the
comparison at its use finds these same lines in the file; `DecisionsAreKept`
(`DecisionsHold`) is the action property beside it. `IndexTellsTheTruth`
(`IndexIsTrue`): a clean scan has found or still has to visit whatever stood still
(`Scanned`), and every count, in a file or on its way to the cache, is that of the
edition it is numbered with, unless an older reading spoilt it (`Counted`,
`Shown`). `NothingKeptIsLost` (`MemoryIsWhole`): the open transaction knows whether
its item is new, and what was read is kept but for the note in hand. A recall fits
its budget, or says that it was cut (`PackFits`), for any hits and lengths.
`StrandedStaysStranded` (`StrandedNeverRuns`): a task that has left "todo" has
parents that are all done (`Begun`), so it has no dead end above it, and a dead
end is for good. `ConversationTypes` (`ConversationTypeOK`) for all components of
the instance.

The type theorems are about `MCSpec`, where one component moves at a time
(`PartsMove`) and each keeps its own (`AllTyped`); the values the
instances give to constants are not used.

Three recursions are reasoned about without the library's induction theorems,
whose operator parameters the provers cannot instantiate: the text of a recall
(`ContextPack`, `Written`), the ages of restarts (`Older`), and the walk up the
links of a task (`HeldBy`), which ends on cyclic links too because it never enters
a task twice. `Foundations` has induction in a form with sets: a set of numbers
closed under successor is all of them (`EveryNumber`), a recursive function on
numbers is what its equation says (`StepByStep`), and a walk that enlarges its
finite set of visited places or shortens its queue comes to an end (`ByMeasures`,
`WalkEnds`), for which each is written as a function and not as a RECURSIVE
operator. No module declares one.

Only model-checked are the liveness properties (`EveryTaskSettles`,
`OpenWorkCloses`, and the properties of `Operations` and
`Conversation` whose names begin with `MC`), which are out of the prover's reach,
as is `ENABLED`; and the counterexamples of the runs that are violated.

## 5. What is not modelled

Inside the components: the wording of prompts, cards, reports and logs; schema
migrations and read-only lists of `board.py`; agent and shell selection and usage
files of `executor.py`; command lines, log rotation and a half-written state file
of the supervisor; replies that only read, chunking and documents of Telegram; node
fields other than parents and the archiving of Hermes' cards in the planner;
ranking in memory search; how a page is read for palettes, fonts and contrast;
network probes and admission reports of lanes; the dashboard's other pages. These
are formatting, configuration or reads without a state of their own.

Components without a module: failure classification (a case split over texts;
`Worker` lets a failure be of either class), capabilities and roles (policy text;
their refusals are the step `Gates`), chores, the technology radar and the
cartographer, the terminal dashboard, beacon and collectors, and the concurrency
benchmark (`Dispatcher` takes any evidence it may write). Hermes itself is not in
the repository; what the code needs of it is modelled from its use.

Assumptions a reader should know of: pids are not reused; file times and digests
tell versions apart; a walk of `Heartbeat` is fast enough; one daemon of each kind
polls Telegram; SQLite transactions are atomic and durable.

## 6. Plan

Done: every component of section 1 that has state of its own has a module, a run
and theorems; nothing that a passing run checks is without one but liveness. Left,
in this order:

1. `cancel_task` step by step (read, signal, wait, write) against a worker that
   moves on between the read and the signal.
2. A refinement from `Worker`'s run to `Execution`, which would replace the free
   verdict of a surviving tree by the executor's.
3. Abstract specifications of the mailbox (`Telegram`) and of the index
   (`FileIndex`), with the refinement as a theorem, as `GateSpec` is for `Worker`.
4. Two chats in `Telegram`, and updates that are chunked.
