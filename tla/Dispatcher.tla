---------------------------- MODULE Dispatcher ----------------------------
(***************************************************************************)
(* The parallel dispatcher (src/src/dispatcher.py) and the linked          *)
(* checkouts its tasks run in (src/src/worktrees.py): waves of workers     *)
(* over a board that a worker daemon beside it works on as well.           *)
(*                                                                         *)
(* What a worker does between its claim and its verdict is the module      *)
(* Worker; here an attempt ends in a verdict or the worker dies.  Git and  *)
(* SQLite are two stores, so resolve_task is split where a process may die *)
(* between them, and a listing is split from the resolutions that use it.  *)
(*                                                                         *)
(* Definitions marked "variant" belong to no specification; each is the    *)
(* definition it precedes with a plausible defect.                         *)
(***************************************************************************)
EXTENDS Naturals, FiniteSets, SequencesExt

CONSTANTS
  Jobs,        \* task ids; their order is ready_tasks' ORDER BY
  InTree,      \* the jobs with workspace_kind "worktree"
  Sources,     \* the directories the jobs name
  SourceOf,    \* the directory of each job
  Beside,      \* the worker daemon that serves the same board
  Nil,         \* no job, no process
  Dead,        \* the name of a process that is gone
  Evidence,    \* the runs of concurrency_results.json
  Override,    \* cap_override, 0 for none
  TryLimit,    \* failed attempts after which the kernel blocks a job
  MaxMishaps   \* bound on deaths, and on what others do to rows and directories

ASSUME DispatcherAssumption ==
  /\ Jobs \subseteq Nat
  /\ IsFiniteSet(Jobs)
  /\ InTree \subseteq Jobs
  /\ SourceOf \in [Jobs -> Sources]
  /\ Beside \notin Jobs /\ {Nil, Dead} \cap (Jobs \cup {Beside}) = {} /\ Nil # Dead
  /\ Evidence \subseteq [concurrency : Nat, completed : Nat, failed : Nat]
  /\ IsFiniteSet(Evidence) /\ Override \in Nat
  /\ TryLimit \in Nat \ {0} /\ MaxMishaps \in Nat

(* read_cap: what was measured in runs that completed work and failed none. *)
MeasuredCaps ==
  {r.concurrency : r \in {e \in Evidence :
                            e.completed > 0 /\ e.failed = 0 /\ e.concurrency > 0}}

Cap == IF Override = 0 THEN Max(MeasuredCaps) ELSE Override

(* Otherwise it raises, before anything is dispatched. *)
CapIsKnown == MeasuredCaps # {} /\ Override <= Max(MeasuredCaps)

(* The worker of a wave that was launched for job j is called j. *)
Procs == Jobs \cup {Beside}

(* The workspace key of a row whose workspace is resolved. *)
Key(j) == IF j \in InTree THEN <<"tree", j>> ELSE <<"dir", SourceOf[j]>>

(* The directories there are: what a job names, and the checkouts. *)
Source(j) == <<"dir", SourceOf[j]>>
Places == {<<"dir", s>> : s \in Sources} \cup {<<"tree", j>> : j \in InTree}

VARIABLES
  jobState, \* tasks.status
  holder,   \* tasks.claim_lock
  tries,    \* tasks.consecutive_failures
  owned,    \* the jobs in triai_worktrees, whose workspace_path is their tree
  tree,     \* what git finds at the target path of each job
  untidy,   \* the places whose `git status --porcelain` prints something
  wave,     \* where dispatch is
  listed,   \* its snapshot of the ready rows, as far as not resolved yet
  resolved, \* the jobs of this wave that have a workspace
  standsAt, \* where each worker process is
  hand,     \* the row each has in hand, as it was when it was read
  mishaps   \* how many there were

boardOf    == <<jobState, holder, tries>>
treeVars   == <<owned, tree, untidy>>
waveVars   == <<wave, listed, resolved>>
procVars   == <<standsAt, hand>>
dispatchVars == <<boardOf, treeVars, waveVars, procVars, mishaps>>

(* A row as it was read: the job, and whether its path was the tree. *)
Row(j) == [id |-> j, inTree |-> j \in owned]
NoRow  == [id |-> Nil, inTree |-> FALSE]

DispatchInit ==
  /\ jobState = [j \in Jobs |-> "ready"]
  /\ holder = [j \in Jobs |-> Nil]
  /\ tries = [j \in Jobs |-> 0]
  /\ owned = {}
  /\ tree = [j \in Jobs |-> "none"]
  /\ untidy = {}
  /\ wave = "off" /\ listed = <<>> /\ resolved = {}
  /\ standsAt = [p \in Procs |-> "idle"]
  /\ hand = [p \in Procs |-> NoRow]
  /\ mishaps = 0

-----------------------------------------------------------------------------
(* worktrees.resolve_task, for a row that may have changed since it was read *)

Listing == LET ready == {j \in Jobs : jobState[j] = "ready" /\ holder[j] = Nil}
           IN  [i \in DOMAIN SetToSortSeq(ready, <) |->
                  Row(SetToSortSeq(ready, <)[i])]

(* The recorded checkout is proven: the path of the row that was read is    *)
(* the recorded target, and git lists it on the recorded branch.            *)
Proven(r) == r.id \in owned /\ r.inTree /\ tree[r.id] = "linked"

(* Variant: whatever is found at the target is taken for the job's own. *)
AdoptsAnything(r) ==
  /\ r.id \in InTree \ owned
  /\ Source(r.id) \notin untidy
  /\ tree[r.id] # "none"

(* No record, but the target is there and is this job's linked checkout:    *)
(* an earlier run died between Git and SQLite.                              *)
Adopts(r) ==
  /\ r.id \in InTree \ owned
  /\ Source(r.id) \notin untidy
  /\ tree[r.id] = "linked"

(* No record and nothing at the target; `git worktree add -b` succeeds      *)
(* unless the branch is still there from a checkout that was removed.       *)
Materializes(r) ==
  /\ r.id \in InTree \ owned
  /\ Source(r.id) \notin untidy
  /\ tree[r.id] = "none"

(* record_worktree: the row must still be ready and unclaimed, otherwise    *)
(* the transaction is rolled back and the checkout stays where it is.       *)
Recordable(j) == jobState[j] = "ready" /\ holder[j] = Nil

(* The effects of a resolution that runs to its end; ok says whether the    *)
(* caller gets a task or a reason to skip it.                               *)
ResolvesTree(r, ok) ==
  /\ tree' = IF Materializes(r) THEN [tree EXCEPT ![r.id] = "linked"] ELSE tree
  /\ \/ /\ r.id \notin InTree \/ Proven(r)
        /\ ok
        /\ UNCHANGED owned
     \/ /\ Materializes(r) \/ Adopts(r)
        /\ Recordable(r.id)
        /\ ok
        /\ owned' = owned \cup {r.id}
     \/ /\ r.id \in InTree
        /\ ~Proven(r)
        /\ (Materializes(r) \/ Adopts(r)) => ~Recordable(r.id)
        /\ ~ok
        /\ UNCHANGED owned
  /\ UNCHANGED untidy

-----------------------------------------------------------------------------
(* dispatcher.dispatch *)

(* partition_groups: the head of a group is the first of it in the listing, *)
(* and the listing is in the order of the ids.                              *)
Heads == {j \in resolved : \A k \in resolved : Key(k) = Key(j) => j <= k}

(* A wave takes at most `cap` heads, in the order of their groups. *)
Batch == {j \in Heads : Cardinality({k \in Heads : k < j}) < Cap}

ListsReady ==
  /\ wave = "list" \/ (wave = "off" /\ CapIsKnown)
  /\ wave' = "resolve"
  /\ listed' = Listing
  /\ UNCHANGED <<boardOf, treeVars, resolved, procVars, mishaps>>

(* Variant: the reason is noted, but the job stays in the wave. *)
KeepsSkipped ==
  /\ wave = "resolve"
  /\ listed # <<>>
  /\ listed' = Tail(listed)
  /\ \E ok \in BOOLEAN : ResolvesTree(Head(listed), ok)
  /\ resolved' = resolved \cup {Head(listed).id}
  /\ UNCHANGED <<boardOf, wave, procVars, mishaps>>

(* The jobs of the listing are resolved one by one; one that gets a reason  *)
(* to be skipped is left out of this wave.                                  *)
ResolvesNext ==
  /\ wave = "resolve"
  /\ listed # <<>>
  /\ listed' = Tail(listed)
  /\ \E ok \in BOOLEAN :
       /\ ResolvesTree(Head(listed), ok)
       /\ resolved' = IF ok THEN resolved \cup {Head(listed).id} ELSE resolved
  /\ UNCHANGED <<boardOf, wave, procVars, mishaps>>

(* run_batch starts a thread, and each thread a worker, for every task. *)
LaunchesBatch ==
  /\ wave = "resolve"
  /\ listed = <<>> /\ resolved # {}
  /\ wave' = "join"
  /\ standsAt' = [p \in Procs |-> IF p \in Jobs \cap Batch THEN "select" ELSE standsAt[p]]
  /\ UNCHANGED <<boardOf, treeVars, listed, resolved, hand, mishaps>>

NothingReady ==
  /\ wave = "resolve"
  /\ listed = <<>> /\ resolved = {}
  /\ wave' = "over"
  /\ UNCHANGED <<boardOf, treeVars, listed, resolved, procVars, mishaps>>

(* Variant: the next wave starts when one of the threads has returned. *)
JoinsOne ==
  /\ wave = "join"
  /\ \E p \in Batch : standsAt[p] = "idle"
  /\ wave' = "list"
  /\ resolved' = {}
  /\ UNCHANGED <<boardOf, treeVars, listed, procVars, mishaps>>

(* All threads are joined before the results are looked at. *)
JoinsAll ==
  /\ wave = "join"
  /\ \A p \in Jobs : standsAt[p] = "idle"
  /\ wave' = "list"
  /\ resolved' = {}
  /\ UNCHANGED <<boardOf, treeVars, listed, procVars, mishaps>>

Dispatches == ListsReady \/ ResolvesNext \/ LaunchesBatch \/ NothingReady
              \/ JoinsAll

-----------------------------------------------------------------------------
(* worker.run_once, started for one task or (the daemon) for any *)

Enters(p, place, row) ==
  /\ standsAt' = [standsAt EXCEPT ![p] = place]
  /\ hand' = [hand EXCEPT ![p] = row]

(* The tick begins: of the rows of dead processes, those whose lease has    *)
(* lapsed are released.  The orphan sweep stashes the directory of a row    *)
(* whose lease lapses after the release; one that was released before keeps *)
(* what its agent wrote.                                                    *)
Recovers ==
  \E lapsed \in SUBSET {j \in Jobs : holder[j] = Dead} :
    /\ jobState' = [j \in Jobs |-> IF j \in lapsed THEN "ready" ELSE jobState[j]]
    /\ holder' = [j \in Jobs |-> IF j \in lapsed THEN Nil ELSE holder[j]]
    /\ \E swept \in SUBSET lapsed : untidy' = untidy \ {Key(j) : j \in swept}

(* Then the ready rows are read.  A worker started for one task looks for   *)
(* that task only.                                                          *)
Selects(p) ==
  /\ standsAt[p] = "select"
  /\ Recovers
  /\ LET mine == {j \in Jobs : jobState'[j] = "ready" /\ holder'[j] = Nil
                                /\ p \in {j, Beside}}
     IN  IF mine = {} THEN Enters(p, "idle", NoRow)
         ELSE \E j \in mine :
                /\ p = Beside \/ j = p
                /\ Enters(p, "resolve", Row(j))
  /\ UNCHANGED <<tries, owned, tree, waveVars, mishaps>>

ResolvesOwn(p) ==
  /\ standsAt[p] = "resolve"
  /\ \E ok \in BOOLEAN :
       /\ ResolvesTree(hand[p], ok)
       /\ IF ok THEN Enters(p, "claim", hand[p]) ELSE Enters(p, "idle", NoRow)
  /\ UNCHANGED <<boardOf, waveVars, mishaps>>

GivesBack(p, s) ==
  /\ jobState' = [jobState EXCEPT ![hand[p].id] = s]
  /\ holder' = [holder EXCEPT ![hand[p].id] = Nil]
  /\ Enters(p, "idle", NoRow)
  /\ UNCHANGED <<waveVars, mishaps>>

(* executor.precheck, of the directory or checkout that the row names. *)
TreeIsClean(j) == Key(j) \notin untidy

(* The claim, if the row is still to be had, and the precheck: a tree that  *)
(* is not clean is a skip, which is no failure and leaves the row ready.    *)
Claims(p) ==
  /\ standsAt[p] = "claim"
  /\ LET j == hand[p].id
     IN  IF /\ jobState[j] = "ready" /\ holder[j] = Nil
            /\ TreeIsClean(j)
         THEN /\ jobState' = [jobState EXCEPT ![j] = "running"]
              /\ holder' = [holder EXCEPT ![j] = p]
              /\ Enters(p, "agent", hand[p])
         ELSE Enters(p, "idle", NoRow) /\ UNCHANGED <<jobState, holder>>
  /\ UNCHANGED <<tries, treeVars, waveVars, mishaps>>

(* The agent writes something, which it does not commit. *)
Dirties(p) ==
  /\ standsAt[p] = "agent"
  /\ TreeIsClean(hand[p].id)
  /\ untidy' = untidy \cup {Key(hand[p].id)}
  /\ UNCHANGED <<boardOf, owned, tree, waveVars, procVars, mishaps>>

(* A pass completes the row and reverts nothing.  The kernel removes the    *)
(* checkout of a completed job, but not its branch, unless files or commits *)
(* would be lost with it.                                                   *)
Passes(p) ==
  /\ standsAt[p] = "agent"
  /\ GivesBack(p, "done")
  /\ LET j == hand[p].id
     IN  tree' \in {tree, IF j \in InTree /\ TreeIsClean(j)
                          THEN [tree EXCEPT ![j] = "branch"] ELSE tree}
  /\ UNCHANGED <<tries, owned, untidy>>

(* A failure stashes whatever the directory holds.  (A stash that fails     *)
(* quarantines it, which is a matter of the module Worker.)                 *)
RunFails(p) ==
  /\ standsAt[p] = "agent"
  /\ LET j == hand[p].id
     IN  /\ tries' = [tries EXCEPT ![j] = @ + 1]
         /\ untidy' = untidy \ {Key(j)}
         /\ GivesBack(p, IF tries[j] + 1 >= TryLimit THEN "blocked" ELSE "ready")
  /\ UNCHANGED <<owned, tree>>

Wakes ==
  /\ standsAt[Beside] = "idle"
  /\ Enters(Beside, "select", NoRow)
  /\ UNCHANGED <<boardOf, treeVars, waveVars, mishaps>>

WorksOn(p) == Selects(p) \/ ResolvesOwn(p) \/ Claims(p)
              \/ Passes(p) \/ RunFails(p)

-----------------------------------------------------------------------------
(* What happens around them *)

(* A worker dies, with or without a row; if it dies inside resolve_task the *)
(* checkout may be there already and the record not.  What its agent wrote  *)
(* stays where it is.                                                       *)
ProcessDies(p) ==
  /\ mishaps < MaxMishaps
  /\ mishaps' = mishaps + 1
  /\ standsAt[p] \in {"resolve", "claim", "agent"}
  /\ Enters(p, "idle", NoRow)
  /\ holder' = [j \in Jobs |-> IF holder[j] = p THEN Dead ELSE holder[j]]
  /\ tree' \in {tree, IF standsAt[p] = "resolve" /\ Materializes(hand[p])
                      THEN [tree EXCEPT ![hand[p].id] = "linked"] ELSE tree}
  /\ UNCHANGED <<jobState, tries, owned, untidy, waveVars>>

(* The operator or Telegram's /stop withdraws a row that is not running. *)
Withdraws(j) ==
  /\ Recordable(j)
  /\ mishaps < MaxMishaps
  /\ mishaps' = mishaps + 1
  /\ jobState' = [jobState EXCEPT ![j] = "cancelled"]
  /\ UNCHANGED <<holder, tries, treeVars, waveVars, procVars>>

(* Somebody, or an agent that outlived its worker, edits a directory or a   *)
(* checkout; or somebody tidies it up.                                      *)
Edited(d) ==
  /\ d[1] = "tree" => tree[d[2]] = "linked"
  /\ \/ /\ d \in untidy
        /\ untidy' = untidy \ {d}
        /\ UNCHANGED mishaps
     \/ /\ d \notin untidy
        /\ mishaps < MaxMishaps
        /\ mishaps' = mishaps + 1
        /\ untidy' = untidy \cup {d}
  /\ UNCHANGED <<boardOf, owned, tree, waveVars, procVars>>

(* Something else turns up where a job's checkout should go. *)
Occupies(j) ==
  /\ tree[j] = "none"
  /\ j \in InTree
  /\ mishaps < MaxMishaps
  /\ mishaps' = mishaps + 1
  /\ tree' = [tree EXCEPT ![j] = "foreign"]
  /\ UNCHANGED <<boardOf, owned, untidy, waveVars, procVars>>

Around == \/ \E p \in Procs : ProcessDies(p)
          \/ \E j \in Jobs : Withdraws(j) \/ Occupies(j)
          \/ \E d \in Places : Edited(d)

DispatchNext == Dispatches \/ (\E p \in Procs : WorksOn(p) \/ Dirties(p))
                \/ Wakes \/ Around

(* The dispatcher and the processes it started run, and a tick of the       *)
(* daemon ends (agents have a time limit); nothing is assumed of its idle   *)
(* delay, of operators or of deaths.                                        *)
DispatchFairness ==
  /\ WF_dispatchVars(Dispatches)
  /\ WF_dispatchVars(\E p \in Jobs : WorksOn(p))
  /\ WF_dispatchVars(WorksOn(Beside))

DispatchSpec == DispatchInit /\ [][DispatchNext]_dispatchVars /\ DispatchFairness

-----------------------------------------------------------------------------
DispatchTypeOK ==
  /\ jobState \in [Jobs -> {"ready", "running", "done", "blocked", "cancelled"}]
  /\ holder \in [Jobs -> Procs \cup {Nil, Dead}]
  /\ tries \in [Jobs -> 0..TryLimit]
  /\ owned \subseteq InTree
  /\ tree \in [Jobs -> {"none", "linked", "branch", "foreign"}]
  /\ untidy \subseteq Places
  /\ wave \in {"off", "list", "resolve", "join", "over"}
  /\ standsAt \in [Procs -> {"idle", "select", "resolve", "claim", "agent"}]
  /\ mishaps \in 0..MaxMishaps

(* "Same-repository dir workspaces are serialised": two workers that the    *)
(* dispatcher launched never have their agents in the same directory,       *)
(* however the waves fall and whatever the daemon takes in between.         *)
ApartInWaves ==
  \A p, q \in Jobs : (p # q /\ standsAt[p] = "agent" /\ standsAt[q] = "agent")
                       => Key(hand[p].id) # Key(hand[q].id)

(* An agent of a worktree job runs in a checkout that git has on the job's  *)
(* branch and the board has on record, although the two stores are written  *)
(* one after the other, by processes that may die in between, from rows     *)
(* that may have changed since they were read.                              *)
AgentInOwnTree ==
  \A p \in Procs : (standsAt[p] = "agent" /\ hand[p].id \in InTree)
                     => /\ hand[p].id \in owned
                        /\ tree[hand[p].id] = "linked"

(* One process at most works on a job, and it is the one on the claim. *)
OneWorkerPerJob ==
  \A p \in Procs : standsAt[p] = "agent" =>
                     holder[hand[p].id] = p /\ jobState[hand[p].id] = "running"

(* Where no agent is at work, what a ready job is to work in is tidy. *)
ReadyIsTidy ==
  \A j \in Jobs :
    /\ Recordable(j)
    /\ \A p \in Procs : standsAt[p] = "agent" => Key(hand[p].id) # Key(j)
    => TreeIsClean(j)

(* Dispatch returns, with every ready job settled or with a reason to be    *)
(* skipped, if from some point on no ready job is left with a dirty         *)
(* directory or checkout: a dirty one is listed, launched and skipped by    *)
(* every wave, and nothing counts the waves.                                *)
DispatchEnds ==
  (<>[]ReadyIsTidy) => ((wave = "list") ~> (wave = "over"))

(* An agent is where the board thinks it is: it alone works on its job,     *)
(* under the claim, and in the job's own checkout if it has one.            *)
AgentIsInPlace == OneWorkerPerJob /\ AgentInOwnTree
=============================================================================
