------------------------------- MODULE Board -------------------------------
(***************************************************************************)
(* The task board: the columns of the `tasks` table that decide who runs   *)
(* what (src/src/board.py over the Hermes kanban kernel), the environment  *)
(* backoff table and the quarantine table.  The kernel itself is not in    *)
(* the repository; its operations are modelled from how board.py,          *)
(* worker.py and the reclaim tests use them.                               *)
(*                                                                         *)
(* A definition marked "variant" is not part of the model: it is the one   *)
(* it precedes with a plausible defect, and serves to show which property  *)
(* would notice.                                                           *)
(*                                                                         *)
(* A claim writes `claim_lock` and `current_run_id` together and every     *)
(* release clears both, so one variable, claim, stands for the pair: a     *)
(* worker process runs one attempt at a time, hence the process names the  *)
(* run.  A process that has died leaves its name in the row; the model     *)
(* writes Gone there, because no live process will ever match it.          *)
(***************************************************************************)
EXTENDS Naturals, FiniteSets

CONSTANTS
  Tasks,        \* task ids; their order is the order of creation
  Workers,      \* worker processes
  Workspaces,   \* workspace keys (board.workspace_key)
  WorkspaceOf,  \* the workspace each task is recorded against
  NoWorker,     \* SQL NULL in claim_lock, current_run_id, worker_pid
  Gone,         \* the name of a process that no longer exists
  FailureLimit, \* DEFAULT_FAILURE_LIMIT, 2 in the kernel
  EnvLimit      \* ENVIRONMENT_RETRY_LIMIT, 3 in worker.py

ASSUME BoardAssumption ==
  /\ Tasks \subseteq Nat
  /\ WorkspaceOf \in [Tasks -> Workspaces]
  /\ NoWorker \notin Workers
  /\ Gone \notin Workers
  /\ Gone # NoWorker
  /\ FailureLimit \in Nat \ {0}
  /\ EnvLimit \in Nat \ {0}

VARIABLES
  status,      \* tasks.status
  claim,       \* tasks.claim_lock and tasks.current_run_id
  pid,         \* tasks.worker_pid, NULL until the worker registers itself
  expired,     \* tasks.claim_expires has passed
  failures,    \* tasks.consecutive_failures
  envAttempts, \* triai_environment_backoff.attempts, 0 for no row
  waiting,     \* triai_environment_backoff.eligible_at is still ahead
  quarantine   \* the keys in triai_quarantine

rowVars   == <<status, claim, pid, expired>>
countVars == <<failures, envAttempts, waiting>>
boardVars == <<status, claim, pid, expired, failures, envAttempts, waiting,
               quarantine>>

Status == {"ready", "running", "done", "blocked", "cancelled"}

BoardTypeOK ==
  /\ status \in [Tasks -> Status]
  /\ claim \in [Tasks -> Workers \cup {NoWorker, Gone}]
  /\ pid \in [Tasks -> Workers \cup {NoWorker, Gone}]
  /\ expired \in [Tasks -> BOOLEAN]
  /\ failures \in [Tasks -> 0..FailureLimit]
  /\ envAttempts \in [Tasks -> 0..EnvLimit]
  /\ waiting \in [Tasks -> BOOLEAN]
  /\ quarantine \in SUBSET Workspaces

BoardInit ==
  /\ status = [t \in Tasks |-> "ready"]
  /\ claim = [t \in Tasks |-> NoWorker]
  /\ pid = [t \in Tasks |-> NoWorker]
  /\ expired = [t \in Tasks |-> FALSE]
  /\ failures = [t \in Tasks |-> 0]
  /\ envAttempts = [t \in Tasks |-> 0]
  /\ waiting = [t \in Tasks |-> FALSE]
  /\ quarantine = {}

-----------------------------------------------------------------------------
(* Reads *)

(* ready_tasks: what a worker may select now.  Every task of the model has  *)
(* a verify command, as create_task demands.                                *)
ReadyTasks == {t \in Tasks : /\ status[t] = "ready"
                             /\ claim[t] = NoWorker
                             /\ ~waiting[t]}

(* The WHERE clause every settlement carries: still running, same claim.    *)
Owns(w, t) == status[t] = "running" /\ claim[t] = w

(* The rows release_stale_claims looks at, and those it gives back: a claim *)
(* whose registered process still lives is extended instead.                *)
StaleTasks     == {t \in Tasks : status[t] = "running" /\ expired[t]}
EveryRow(S)    == S                               \* variant: liveness not asked
UnregisteredOnly(S) == {t \in S : pid[t] = NoWorker}  \* variant: the dead look alive
DeadWorkers(S) == {t \in S : pid[t] \notin Workers}

-----------------------------------------------------------------------------
(* Row updates *)

(* The row leaves `running` for s, with the claim columns cleared. *)
Unclaim(t, s) ==
  /\ status' = [status EXCEPT ![t] = s]
  /\ claim' = [claim EXCEPT ![t] = NoWorker]
  /\ pid' = [pid EXCEPT ![t] = NoWorker]
  /\ expired' = [expired EXCEPT ![t] = FALSE]

(* claim_task: atomic, one winner. *)
ClaimTask(t, w) ==
  /\ status' = [status EXCEPT ![t] = "running"]
  /\ claim' = [claim EXCEPT ![t] = w]
  /\ pid' = [pid EXCEPT ![t] = NoWorker]
  /\ expired' = [expired EXCEPT ![t] = FALSE]

(* reclaim_task: un-claim whatever run holds the task.  The callers pass no *)
(* expected run id.                                                         *)
ReclaimTask(t) ==
  IF status[t] = "running" THEN Unclaim(t, "ready") ELSE UNCHANGED rowVars

(* Variant: the update without its WHERE clause. *)
SettleUnchecked(w, t, s) == Unclaim(t, s)

(* An update under "WHERE status = 'running' AND claim_lock = ? AND         *)
(* current_run_id = ?": the row moves to s, or nothing at all happens.      *)
SettleAs(w, t, s) ==
  IF Owns(w, t) THEN Unclaim(t, s) ELSE UNCHANGED rowVars

(* block_task with expected_run_id, and a variant that requeues the task. *)
RequeueTask(w, t) == SettleAs(w, t, "ready")
BlockTask(w, t)   == SettleAs(w, t, "blocked")

(* board.release_stale_claims *)
ReleaseStaleClaims ==
  LET freed == DeadWorkers(StaleTasks) IN
  /\ status' = [t \in Tasks |-> IF t \in freed THEN "ready" ELSE status[t]]
  /\ claim' = [t \in Tasks |-> IF t \in freed THEN NoWorker ELSE claim[t]]
  /\ pid' = [t \in Tasks |-> IF t \in freed THEN NoWorker ELSE pid[t]]
  /\ expired' = [t \in Tasks |-> expired[t] /\ t \notin StaleTasks]

(* Variants: the breaker trips one failure late, or never. *)
RecordTaskFailureLate(t) ==
  /\ failures' = [failures EXCEPT ![t] = IF @ < FailureLimit THEN @ + 1 ELSE @]
  /\ status' = IF failures[t] = FailureLimit /\ status[t] = "ready"
                 THEN [status EXCEPT ![t] = "blocked"]
                 ELSE status

RecordNoFailure(t) == UNCHANGED <<failures, status>>

(* _record_task_failure: the breaker counts, and at its limit blocks a task *)
(* the failing run has just put back to ready.  The count saturates at the  *)
(* limit, beyond which nobody tells its values apart.                       *)
RecordTaskFailure(t) ==
  /\ failures' = [failures EXCEPT ![t] = IF @ < FailureLimit THEN @ + 1 ELSE @]
  /\ status' = IF failures'[t] = FailureLimit /\ status[t] = "ready"
                 THEN [status EXCEPT ![t] = "blocked"]
                 ELSE status

(* The process w ends: the rows that name it now name nobody alive. *)
ForgetProcess(w) ==
  /\ claim' = [t \in Tasks |-> IF claim[t] = w THEN Gone ELSE claim[t]]
  /\ pid' = [t \in Tasks |-> IF pid[t] = w THEN Gone ELSE pid[t]]

-----------------------------------------------------------------------------
(* What time and the operator do to the board *)

(* environment_backoff.eligible_at passes. *)
BackoffElapses(t) ==
  /\ waiting[t]
  /\ waiting' = [waiting EXCEPT ![t] = FALSE]
  /\ UNCHANGED <<rowVars, failures, envAttempts, quarantine>>

(* retry_task: requeue a blocked task.  The logic breaker is reset, the     *)
(* environment series is not.                                               *)
RetryTask(t) ==
  /\ status[t] = "blocked"
  /\ claim[t] = NoWorker
  /\ WorkspaceOf[t] \notin quarantine
  /\ status' = [status EXCEPT ![t] = "ready"]
  /\ pid' = [pid EXCEPT ![t] = NoWorker]
  /\ failures' = [failures EXCEPT ![t] = 0]
  /\ UNCHANGED <<claim, expired, envAttempts, waiting, quarantine>>

(* cancel_task and abort_dead_worker_claim, from the point where the worker *)
(* is known to be dead (cancel_task signals it first: a crash).  The        *)
(* compare-and-swap on the claim makes the read and the write one step.     *)
CancelTask(t) ==
  /\ status[t] = "running"
  /\ pid[t] = Gone
  /\ Unclaim(t, "cancelled")
  /\ UNCHANGED <<countVars, quarantine>>

(* clear_quarantine: the operator only. *)
ClearQuarantine(ws) ==
  /\ ws \in quarantine
  /\ quarantine' = quarantine \ {ws}
  /\ UNCHANGED <<rowVars, countVars>>
=============================================================================
