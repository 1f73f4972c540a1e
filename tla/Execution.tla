------------------------------ MODULE Execution ------------------------------
(***************************************************************************)
(* One command run under containment: spawn_contained, Containment,        *)
(* run_agent and run_verify of src/src/executor.py.                        *)
(*                                                                         *)
(* The command's root process may start others; a child may hold the pipe  *)
(* its parent was given, may detach itself from the process group, and may *)
(* be stuck so that no signal ends it.  On Windows a job object holds the  *)
(* root and all it starts; elsewhere a process group holds those that did  *)
(* not detach.  The worker waits for the root (the agent) or for the end   *)
(* of the pipe as well (a verify command), until a timeout.                *)
(* Definitions marked "variant" belong to no specification; each is the    *)
(* definition it precedes with a plausible defect.                         *)
(***************************************************************************)
EXTENDS Naturals, FiniteSets

CONSTANTS
  Windows,   \* IS_WINDOWS
  Offspring   \* the processes the root may start

ASSUME ExecutionAssumption == Windows \in BOOLEAN

VARIABLES
  command,   \* "agent" or "verify"
  call,      \* where spawn_contained, the wait and terminate_tree are
  root,      \* "none", "suspended", "runs", "exited" (a zombie), "reaped"
  code,      \* the root's exit status, once it has exited
  inJob,     \* the root was assigned to the job
  born,      \* children started so far
  alive,     \* children that run
  detached,  \* children that left the process group
  piped,     \* children that hold the pipe
  stuck,     \* processes no signal ends
  due,       \* the timeout has passed
  timedOut,  \* the wait ended by the timeout
  proven,    \* terminate_tree's verdict: "none", "gone" or "survived"
  said       \* the caller's result: "none" or an outcome

treeOfRun == <<root, code, inJob, born, alive, detached, piped, stuck>>
callVars  == <<command, call, due, timedOut, proven, said>>
execVars  == <<treeOfRun, callVars>>

ExecutionInit ==
  /\ command \in {"agent", "verify"} /\ call = "spawn"
  /\ root = "none" /\ code = 0 /\ inJob = FALSE
  /\ born = {} /\ alive = {} /\ detached = {} /\ piped = {} /\ stuck = {}
  /\ due = FALSE /\ timedOut = FALSE /\ proven = "none" /\ said = "none"

-----------------------------------------------------------------------------
(* What the processes do of themselves *)

RootStartsChild(c) ==
  /\ root = "runs" /\ c \notin born
  /\ born' = born \cup {c} /\ alive' = alive \cup {c} /\ piped' = piped \cup {c}
  /\ UNCHANGED <<root, code, inJob, detached, stuck, callVars>>

ChildDetaches(c) ==
  /\ c \in alive \ detached /\ detached' = detached \cup {c}
  /\ UNCHANGED <<root, code, inJob, born, alive, piped, stuck, callVars>>

ChildLetsGo(c) ==
  /\ c \in alive \cap piped /\ piped' = piped \ {c}
  /\ UNCHANGED <<root, code, inJob, born, alive, detached, stuck, callVars>>

ChildExits(c) ==
  /\ c \in alive \ stuck /\ alive' = alive \ {c} /\ piped' = piped \ {c}
  /\ UNCHANGED <<root, code, inJob, born, detached, stuck, callVars>>

GetsStuck ==
  /\ stuck = {}
  /\ \E p \in alive \cup (IF root = "runs" THEN {"root"} ELSE {}) : stuck' = {p}
  /\ UNCHANGED <<root, code, inJob, born, alive, detached, piped, callVars>>

RootExits ==
  /\ root = "runs" /\ "root" \notin stuck
  /\ root' = "exited" /\ code' \in {0, 1}
  /\ UNCHANGED <<inJob, born, alive, detached, piped, stuck, callVars>>

Processes ==
  \/ \E c \in Offspring : \/ RootStartsChild(c) \/ ChildDetaches(c)
                           \/ ChildLetsGo(c) \/ ChildExits(c)
  \/ GetsStuck \/ RootExits

TimeRunsOut ==
  /\ call = "wait" /\ ~due /\ due' = TRUE
  /\ UNCHANGED <<treeOfRun, command, call, timedOut, proven, said>>

-----------------------------------------------------------------------------
(* spawn_contained *)

Reports(outcome) == said' = outcome /\ call' = "told"

(* CreateProcess suspended; elsewhere the process starts in a session of   *)
(* its own.                                                                *)
Creates ==
  /\ call = "spawn"
  /\ IF Windows THEN root' = "suspended" /\ call' = "assign"
                ELSE root' = "runs" /\ call' = "wait"
  /\ UNCHANGED <<code, inJob, born, alive, detached, piped, stuck,
                 command, due, timedOut, proven, said>>

Assigns ==
  /\ call = "assign" /\ inJob' = TRUE /\ call' = "resume"
  /\ UNCHANGED <<root, code, born, alive, detached, piped, stuck,
                 command, due, timedOut, proven, said>>

Resumes ==
  /\ call = "resume" /\ root' = "runs" /\ call' = "wait"
  /\ UNCHANGED <<code, inJob, born, alive, detached, piped, stuck,
                 command, due, timedOut, proven, said>>

(* Variant: a root that could not be contained is let run. *)
LetGo == root' = IF root = "suspended" THEN "runs" ELSE root

(* A process that was created is killed before the error is raised. *)
PutDown == root' = IF root = "suspended" THEN "reaped" ELSE root

SpawnFails ==
  /\ call \in {"spawn", "assign", "resume"}
  /\ PutDown
  /\ Reports("spawn_error")
  /\ UNCHANGED <<code, inJob, born, alive, detached, piped, stuck,
                 command, due, timedOut, proven>>

-----------------------------------------------------------------------------
(* The wait: proc.wait for an agent, communicate for a verify command *)

Finished == root = "exited" /\ (command = "verify" => alive \cap piped = {})

WaitEnds ==
  /\ call = "wait" /\ Finished
  /\ root' = "reaped" /\ call' = "kill"
  /\ UNCHANGED <<code, inJob, born, alive, detached, piped, stuck,
                 command, due, timedOut, proven, said>>

WaitTimesOut ==
  /\ call = "wait" /\ due /\ ~Finished
  /\ timedOut' = TRUE /\ call' = "kill"
  /\ UNCHANGED <<treeOfRun, command, due, proven, said>>

-----------------------------------------------------------------------------
(* terminate_tree *)

(* Whom the kill reaches: the job, or the group of the root as long as the *)
(* root has not been reaped; os.getpgid fails for one that has been.       *)
Reached ==
  IF Windows THEN alive
  ELSE IF root = "reaped" THEN {} ELSE alive \ detached

(* Variant: the reader thread is joined without a limit. *)
Drained == call = "kill" /\ (timedOut \/ alive \cap piped = {})

(* The agent's reader is given 15 seconds to finish, and no more. *)
ReadyToKill == call = "kill"

KillsTree ==
  /\ ReadyToKill /\ call' = "prove"
  /\ alive' = (alive \ Reached) \cup (alive \cap stuck)
  /\ piped' = piped \cap alive'
  /\ root' = IF root = "runs" /\ "root" \notin stuck THEN "exited" ELSE root
  /\ UNCHANGED <<code, inJob, born, detached, stuck, command, due, timedOut, proven, said>>

(* Variant: the parent has exited, so nothing is left. *)
ParentIsGone == root \in {"exited", "reaped"}

(* Windows asks the job who is left; elsewhere the group of a process that *)
(* was waited for cannot be looked up, and that counts as gone.            *)
NoneIsLeft ==
  IF Windows THEN alive = {} /\ root \in {"exited", "reaped"}
  ELSE root \in {"exited", "reaped"}

(* An enumeration that fails is no proof. *)
ProvesGone ==
  /\ call = "prove" /\ NoneIsLeft
  /\ proven' = "gone" /\ call' = "report"
  /\ root' = "reaped"
  /\ UNCHANGED <<code, inJob, born, alive, detached, piped, stuck,
                 command, due, timedOut, said>>

ProvesNothing ==
  /\ call = "prove" /\ (Windows \/ ~NoneIsLeft)
  /\ proven' = "survived" /\ call' = "report"
  /\ UNCHANGED <<treeOfRun, command, due, timedOut, said>>

(* The result, and the end of the job, which takes its members along.      *)
ReturnsResult ==
  /\ call = "report"
  /\ Reports(CASE proven = "survived" -> "survived"
               [] timedOut            -> "timeout"
               [] code = 0            -> "passed"
               [] OTHER               -> "failed")
  /\ alive' = IF Windows THEN alive \cap stuck ELSE alive
  /\ piped' = piped \cap alive'
  /\ UNCHANGED <<root, code, inJob, born, detached, stuck, command, due, timedOut, proven>>

ContainedRun ==
  \/ Creates \/ Assigns \/ Resumes
  \/ WaitEnds \/ WaitTimesOut \/ KillsTree \/ ProvesGone \/ ProvesNothing
  \/ ReturnsResult

ExecutionNext == Processes \/ TimeRunsOut \/ SpawnFails \/ ContainedRun

ExecutionSpec == ExecutionInit /\ [][ExecutionNext]_execVars
ExecutionFairSpec ==
  ExecutionSpec /\ WF_execVars(ContainedRun) /\ WF_execVars(TimeRunsOut)

-----------------------------------------------------------------------------
ExecutionTypeOK ==
  /\ command \in {"agent", "verify"}
  /\ call \in {"spawn", "assign", "resume", "wait", "kill", "prove", "report", "told"}
  /\ root \in {"none", "suspended", "runs", "exited", "reaped"} /\ code \in {0, 1}
  /\ alive \subseteq born /\ born \subseteq Offspring
  /\ detached \subseteq born /\ piped \subseteq alive
  /\ stuck \subseteq Offspring \cup {"root"} /\ Cardinality(stuck) <= 1
  /\ {inJob, due, timedOut} \subseteq BOOLEAN
  /\ proven \in {"none", "gone", "survived"}
  /\ said \in {"none", "spawn_error", "survived", "timeout", "passed", "failed"}

(* "There is no interval in which a short-lived parent can create an       *)
(* untracked writer" and no command is reported as having run, or not run, *)
(* outside its container: on Windows whatever runs was in the job before,  *)
(* and an error of the spawn leaves nothing that runs.                     *)
RunsContained ==
  /\ (Windows /\ (root = "runs" \/ born # {})) => inJob
  /\ said = "spawn_error" => root \in {"none", "reaped"} /\ alive = {}

(* "proven_gone is False whenever survival cannot be ruled out": the       *)
(* caller may revert, verify and claim the next task only because nothing  *)
(* the command started runs any more.                                      *)
ProvenGone ==
  (proven = "gone" /\ said # "none") => (alive = {} /\ root = "reaped")

(* Whatever the processes do (hang, hold the pipe, detach, refuse to die), *)
(* the caller gets a result.                                               *)
EveryRunReturns == <>(said # "none")
=============================================================================
