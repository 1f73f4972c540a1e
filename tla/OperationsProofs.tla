-------------------------- MODULE OperationsProofs --------------------------
(***************************************************************************)
(* Theorems about what keeps the runtime going: the waves of the parallel  *)
(* dispatcher, the routes and lanes a run may use, the two readers of a    *)
(* queue file, and the heartbeat of a claim; and that every variable of    *)
(* these components and of those of FleetProofs keeps its type.            *)
(***************************************************************************)
EXTENDS MCOperations, FleetProofs

-----------------------------------------------------------------------------
(* The dispatcher *)

JobStates == {"ready", "running", "done", "blocked", "cancelled"}

Shapes ==
  /\ jobState \in [Jobs -> JobStates]
  /\ holder \in [Jobs -> Procs \cup {Nil, Dead}]
  /\ owned \subseteq InTree
  /\ tree \in [Jobs -> {"none", "linked", "branch", "foreign"}]
  /\ standsAt \in [Procs -> {"idle", "select", "resolve", "claim", "agent"}]
  /\ hand \in [Procs -> [id : Jobs \cup {Nil}, inTree : BOOLEAN]]
  /\ \A p \in Procs : standsAt[p] \in {"resolve", "claim", "agent"} => hand[p].id \in Jobs

(* Between two waves no worker of the dispatcher is at work. *)
Joined == wave # "join" => \A p \in Jobs : standsAt[p] = "idle"

(* A claim and the agent that works under it go together. *)
Claimed ==
  /\ \A j \in Jobs : holder[j] \in Procs =>
       /\ standsAt[holder[j]] = "agent" /\ hand[holder[j]].id = j
       /\ jobState[j] = "running"
  /\ \A p \in Procs : standsAt[p] = "agent" => holder[hand[p].id] = p
  /\ \A j \in Jobs : jobState[j] = "done" => holder[j] = Nil

(* A recorded checkout is there until its job is done, and whoever is past  *)
(* the resolution of a worktree job has one on record.                      *)
Placed ==
  /\ \A j \in owned : \/ tree[j] = "linked"
                      \/ tree[j] = "branch" /\ jobState[j] = "done"
  /\ \A p \in Procs : (standsAt[p] \in {"claim", "agent"} /\ hand[p].id \in InTree)
                         => hand[p].id \in owned

DispatchHolds == Shapes /\ Joined /\ Claimed /\ Placed

-----------------------------------------------------------------------------
LEMMA NameFacts ==
  /\ Jobs \subseteq Procs /\ Beside \in Procs /\ Beside \notin Jobs /\ InTree \subseteq Jobs
  /\ Nil \notin Procs /\ Dead \notin Procs /\ Nil # Dead
  BY DispatcherAssumption DEF DispatcherAssumption, Procs

LEMMA DispatchStarts == DispatchInit => DispatchHolds
  BY NameFacts DEF DispatchInit, DispatchHolds, Shapes, JobStates, Joined, Claimed, Placed, NoRow

(* Whatever row is resolved, the records keep naming checkouts, and only a  *)
(* worktree job on record gets its task.                                    *)
LEMMA ResolutionKeeps ==
  ASSUME DispatchHolds, NEW r, NEW ok \in BOOLEAN, ResolvesTree(r, ok)
  PROVE  /\ owned' \subseteq InTree /\ owned \subseteq owned'
         /\ tree' \in [Jobs -> {"none", "linked", "branch", "foreign"}]
         /\ \A j \in owned' : \/ tree'[j] = "linked"
                              \/ tree'[j] = "branch" /\ jobState[j] = "done"
         /\ ok /\ r.id \in InTree => r.id \in owned'
<1> USE NameFacts DEF DispatchHolds, Shapes, Placed
<1>1. CASE Materializes(r)
  <2>1. r.id \in InTree \ owned /\ tree' = [tree EXCEPT ![r.id] = "linked"]
    BY <1>1 DEF ResolvesTree, Materializes
  <2>2. owned' \in {owned, owned \cup {r.id}} /\ (ok => owned' = owned \cup {r.id})
    BY <1>1, <2>1 DEF ResolvesTree, Proven
  <2> QED
    BY <2>1, <2>2
<1>2. CASE ~Materializes(r)
  <2>1. tree' = tree
    BY <1>2 DEF ResolvesTree
  <2>2. \/ owned' = owned /\ (ok => r.id \notin InTree \/ Proven(r))
        \/ owned' = owned \cup {r.id} /\ Adopts(r)
    BY <1>2 DEF ResolvesTree
  <2> QED
    BY <2>1, <2>2 DEF Proven, Adopts
<1> QED
  BY <1>1, <1>2

-----------------------------------------------------------------------------
(* dispatch itself changes no row, and starts workers only where none is. *)
LEMMA DispatchesKeeps == ASSUME DispatchHolds, Dispatches PROVE DispatchHolds'
<1> USE NameFacts DEF DispatchHolds
<1>1. CASE ListsReady \/ NothingReady \/ JoinsAll
  BY <1>1 DEF ListsReady, NothingReady, JoinsAll, boardOf, treeVars, procVars,
              Shapes, Joined, Claimed, Placed
<1>2. CASE ResolvesNext
  <2>1. PICK ok \in BOOLEAN : ResolvesTree(Head(listed), ok)
    BY <1>2 DEF ResolvesNext
  <2>2. UNCHANGED <<jobState, holder, wave, standsAt, hand>>
    BY <1>2 DEF ResolvesNext, boardOf, procVars
  <2>3. /\ owned' \subseteq InTree /\ owned \subseteq owned'
        /\ tree' \in [Jobs -> {"none", "linked", "branch", "foreign"}]
        /\ \A j \in owned' : \/ tree'[j] = "linked"
                             \/ tree'[j] = "branch" /\ jobState[j] = "done"
    BY <2>1, ResolutionKeeps
  <2> QED
    BY <2>2, <2>3 DEF Shapes, Joined, Claimed, Placed
<1>3. CASE LaunchesBatch
  <2>1. /\ wave = "resolve" /\ wave' = "join"
        /\ UNCHANGED <<jobState, holder, owned, tree, hand>>
        /\ standsAt' \in [Procs -> {"idle", "select", "resolve", "claim", "agent"}]
        /\ standsAt'[Beside] = standsAt[Beside]
        /\ \A p \in Jobs : standsAt[p] = "idle" => standsAt'[p] \in {"idle", "select"}
    BY <1>3 DEF LaunchesBatch, boardOf, treeVars, Shapes
  <2>2. \A p \in Jobs : standsAt[p] = "idle" /\ standsAt'[p] \in {"idle", "select"}
    BY <2>1 DEF Joined
  <2>3. Procs = Jobs \cup {Beside}
    BY DEF Procs
  <2> QED
    BY <2>1, <2>2, <2>3 DEF Shapes, Joined, Claimed, Placed
<1> QED
  BY <1>1, <1>2, <1>3 DEF Dispatches

(* A worker that moves on without a claim. *)
LEMMA SelectsKeeps == ASSUME DispatchHolds, NEW p \in Procs, Selects(p) PROVE DispatchHolds'
<1> USE NameFacts DEF DispatchHolds, Shapes
<1>0. PICK lapsed \in SUBSET {j \in Jobs : holder[j] = Dead} :
        /\ jobState' = [j \in Jobs |-> IF j \in lapsed THEN "ready" ELSE jobState[j]]
        /\ holder' = [j \in Jobs |-> IF j \in lapsed THEN Nil ELSE holder[j]]
  BY DEF Selects, Recovers
<1>1. /\ standsAt[p] = "select" /\ UNCHANGED <<owned, tree, wave>>
      /\ \A j \in lapsed : j \in Jobs /\ holder[j] = Dead
  BY DEF Selects, waveVars
<1>2. PICK place \in {"idle", "resolve"}, row \in [id : Jobs \cup {Nil}, inTree : BOOLEAN] :
        Enters(p, place, row) /\ (place = "resolve" => row.id \in Jobs)
  <2>1. NoRow \in [id : Jobs \cup {Nil}, inTree : BOOLEAN]
        /\ \A j \in Jobs : Row(j) \in [id : Jobs \cup {Nil}, inTree : BOOLEAN] /\ Row(j).id = j
    BY DEF NoRow, Row
  <2> DEFINE mine == {j \in Jobs : jobState'[j] = "ready" /\ holder'[j] = Nil
                                    /\ p \in {j, Beside}}
  <2>2. IF mine = {} THEN Enters(p, "idle", NoRow)
        ELSE \E j \in mine : (p = Beside \/ j = p) /\ Enters(p, "resolve", Row(j))
    BY DEF Selects
  <2>3. mine \subseteq Jobs
    OBVIOUS
  <2> HIDE DEF mine
  <2>4. CASE mine = {}
    BY <2>1, <2>2, <2>4
  <2>5. CASE mine # {}
    <3>1. PICK j \in mine : Enters(p, "resolve", Row(j))
      BY <2>2, <2>5
    <3> QED
      BY <2>1, <2>3, <3>1
  <2> QED
    BY <2>4, <2>5
<1>3. /\ standsAt' = [standsAt EXCEPT ![p] = place] /\ hand' = [hand EXCEPT ![p] = row]
  BY <1>2 DEF Enters
<1>4. /\ jobState' \in [Jobs -> JobStates]
      /\ holder' \in [Jobs -> Procs \cup {Nil, Dead}]
      /\ \A j \in Jobs : j \notin lapsed => jobState'[j] = jobState[j] /\ holder'[j] = holder[j]
      /\ \A j \in Jobs : holder[j] # Dead => j \notin lapsed
      /\ \A j \in lapsed : jobState'[j] = "ready" /\ holder'[j] = Nil
  BY <1>0, <1>1 DEF JobStates
<1>5. Shapes'
  BY <1>1, <1>2, <1>3, <1>4
<1>6. Joined'
  BY <1>1, <1>3 DEF Joined
<1>7. Claimed'
  BY <1>1, <1>2, <1>3, <1>4 DEF Claimed
<1>8. Placed'
  BY <1>1, <1>2, <1>3, <1>4 DEF Placed, Claimed
<1> QED
  BY <1>5, <1>6, <1>7, <1>8

LEMMA ResolvesOwnKeeps == ASSUME DispatchHolds, NEW p \in Procs, ResolvesOwn(p) PROVE DispatchHolds'
<1> USE NameFacts DEF DispatchHolds, Shapes
<1>1. PICK ok \in BOOLEAN :
        /\ ResolvesTree(hand[p], ok)
        /\ IF ok THEN Enters(p, "claim", hand[p]) ELSE Enters(p, "idle", NoRow)
  BY DEF ResolvesOwn
<1>2. standsAt[p] = "resolve" /\ UNCHANGED <<jobState, holder, wave>>
  BY DEF ResolvesOwn, boardOf, waveVars
<1>3. /\ owned' \subseteq InTree /\ owned \subseteq owned'
      /\ tree' \in [Jobs -> {"none", "linked", "branch", "foreign"}]
      /\ \A j \in owned' : \/ tree'[j] = "linked"
                           \/ tree'[j] = "branch" /\ jobState[j] = "done"
      /\ ok /\ hand[p].id \in InTree => hand[p].id \in owned'
  BY <1>1, ResolutionKeeps
<1>4. /\ standsAt' = [standsAt EXCEPT ![p] = IF ok THEN "claim" ELSE "idle"]
      /\ hand' = [hand EXCEPT ![p] = IF ok THEN hand[p] ELSE NoRow]
      /\ NoRow \in [id : Jobs \cup {Nil}, inTree : BOOLEAN]
  BY <1>1 DEF Enters, NoRow
<1>5. Shapes'
  BY <1>2, <1>3, <1>4
<1>6. Joined'
  BY <1>2, <1>4 DEF Joined
<1>7. Claimed'
  BY <1>2, <1>4 DEF Claimed
<1>8. Placed'
  BY <1>2, <1>3, <1>4 DEF Placed
<1> QED
  BY <1>5, <1>6, <1>7, <1>8

LEMMA ClaimsKeeps == ASSUME DispatchHolds, NEW p \in Procs, Claims(p) PROVE DispatchHolds'
<1> USE NameFacts DEF DispatchHolds, Shapes
<1> DEFINE j == hand[p].id
<1>1. standsAt[p] = "claim" /\ j \in Jobs /\ UNCHANGED <<owned, tree, wave>>
  BY DEF Claims, treeVars, waveVars
<1>2. CASE /\ jobState[j] = "ready" /\ holder[j] = Nil
           /\ jobState' = [jobState EXCEPT ![j] = "running"]
           /\ holder' = [holder EXCEPT ![j] = p]
           /\ Enters(p, "agent", hand[p])
  <2>1. standsAt' = [standsAt EXCEPT ![p] = "agent"] /\ hand' = hand
    BY <1>2 DEF Enters
  <2> HIDE DEF j
  <2>2. Shapes'
    BY <1>1, <1>2, <2>1 DEF JobStates, j
  <2>3. Joined'
    BY <1>1, <2>1 DEF Joined
  <2>4. Claimed'
    BY <1>1, <1>2, <2>1 DEF Claimed, j
  <2>5. Placed'
    BY <1>1, <1>2, <2>1 DEF Placed, j
  <2> QED
    BY <2>2, <2>3, <2>4, <2>5
<1>3. CASE Enters(p, "idle", NoRow) /\ UNCHANGED <<jobState, holder>>
  <2>1. /\ standsAt' = [standsAt EXCEPT ![p] = "idle"] /\ hand' = [hand EXCEPT ![p] = NoRow]
        /\ NoRow \in [id : Jobs \cup {Nil}, inTree : BOOLEAN]
    BY <1>3 DEF Enters, NoRow
  <2> QED
    BY <1>1, <1>3, <2>1 DEF Joined, Claimed, Placed
<1> QED
  BY <1>2, <1>3 DEF Claims

(* The end of an attempt, whatever becomes of the row and the checkout. *)
LEMMA EndKeeps ==
  ASSUME DispatchHolds, NEW p \in Procs, standsAt[p] = "agent",
         NEW s \in {"ready", "blocked", "done"}, GivesBack(p, s), owned' = owned,
         \/ tree' = tree
         \/ tree' = [tree EXCEPT ![hand[p].id] = "branch"] /\ s = "done"
  PROVE  DispatchHolds'
<1> USE NameFacts DEF DispatchHolds, Shapes
<1> DEFINE j == hand[p].id
<1>1. /\ j \in Jobs /\ holder[j] = p /\ jobState[j] = "running" /\ wave' = wave
      /\ jobState' = [jobState EXCEPT ![j] = s] /\ holder' = [holder EXCEPT ![j] = Nil]
      /\ standsAt' = [standsAt EXCEPT ![p] = "idle"] /\ hand' = [hand EXCEPT ![p] = NoRow]
      /\ NoRow \in [id : Jobs \cup {Nil}, inTree : BOOLEAN]
  BY DEF GivesBack, Enters, waveVars, Claimed, NoRow
<1> HIDE DEF j
<1>2. Shapes'
  BY <1>1 DEF JobStates, j
<1>3. Joined'
  BY <1>1 DEF Joined
<1>4. Claimed'
  BY <1>1 DEF Claimed
<1>5. Placed'
  BY <1>1 DEF Placed, j
<1> QED
  BY <1>2, <1>3, <1>4, <1>5

LEMMA WorkKeeps == ASSUME DispatchHolds, NEW p \in Procs, WorksOn(p) PROVE DispatchHolds'
<1>1. CASE Passes(p)
  BY <1>1, EndKeeps DEF Passes
<1>2. CASE RunFails(p)
  BY <1>2, EndKeeps DEF RunFails
<1> QED
  BY <1>1, <1>2, SelectsKeeps, ResolvesOwnKeeps, ClaimsKeeps DEF WorksOn

(* A death leaves a claim without a worker, and perhaps a checkout without  *)
(* a record, never the other way round.                                     *)
LEMMA DeathKeeps == ASSUME DispatchHolds, NEW p \in Procs, ProcessDies(p) PROVE DispatchHolds'
<1> USE NameFacts DEF DispatchHolds, Shapes
<1>1. /\ UNCHANGED <<jobState, owned, wave>>
      /\ holder' = [j \in Jobs |-> IF holder[j] = p THEN Dead ELSE holder[j]]
      /\ standsAt' = [standsAt EXCEPT ![p] = "idle"] /\ hand' = [hand EXCEPT ![p] = NoRow]
      /\ NoRow \in [id : Jobs \cup {Nil}, inTree : BOOLEAN]
  BY DEF ProcessDies, Enters, NoRow, waveVars
<1>2. \/ tree' = tree
      \/ hand[p].id \in InTree \ owned /\ tree' = [tree EXCEPT ![hand[p].id] = "linked"]
  BY DEF ProcessDies, Materializes
<1>3. Shapes'
  BY <1>1, <1>2
<1>4. Joined'
  BY <1>1 DEF Joined
<1>5. Claimed'
  BY <1>1 DEF Claimed
<1>6. Placed'
  BY <1>1, <1>2 DEF Placed
<1> QED
  BY <1>3, <1>4, <1>5, <1>6

LEMMA OthersKeep ==
  ASSUME DispatchHolds, Wakes \/ (\E j \in Jobs : Withdraws(j) \/ Occupies(j))
               \/ (\E p \in Procs : Dirties(p)) \/ (\E d \in Places : Edited(d))
               \/ UNCHANGED dispatchVars
  PROVE  DispatchHolds'
<1> USE NameFacts DEF DispatchHolds, Shapes
<1>1. CASE Wakes
  <2>1. /\ standsAt[Beside] = "idle" /\ UNCHANGED <<jobState, holder, owned, tree, wave>>
        /\ standsAt' = [standsAt EXCEPT ![Beside] = "select"]
        /\ hand' = [hand EXCEPT ![Beside] = NoRow]
        /\ NoRow \in [id : Jobs \cup {Nil}, inTree : BOOLEAN]
    BY <1>1 DEF Wakes, Enters, NoRow, boardOf, treeVars, waveVars
  <2> QED
    BY <2>1 DEF Joined, Claimed, Placed
<1>2. ASSUME NEW j \in Jobs, Withdraws(j) PROVE DispatchHolds'
  <2>1. /\ jobState[j] = "ready" /\ holder[j] = Nil
        /\ UNCHANGED <<holder, owned, tree, wave, standsAt, hand>>
        /\ jobState' = [jobState EXCEPT ![j] = "cancelled"]
    BY <1>2 DEF Withdraws, Recordable, treeVars, waveVars, procVars
  <2> QED
    BY <2>1 DEF Joined, Claimed, Placed, JobStates
<1>3. ASSUME NEW j \in Jobs, Occupies(j) PROVE DispatchHolds'
  <2>1. /\ tree[j] = "none" /\ tree' = [tree EXCEPT ![j] = "foreign"]
        /\ UNCHANGED <<jobState, holder, owned, wave, standsAt, hand>>
    BY <1>3 DEF Occupies, boardOf, waveVars, procVars
  <2> QED
    BY <2>1 DEF Joined, Claimed, Placed
<1>4. CASE \/ (\E p \in Procs : Dirties(p)) \/ (\E d \in Places : Edited(d))
           \/ UNCHANGED dispatchVars
  <2>1. UNCHANGED <<jobState, holder, owned, tree, wave, standsAt, hand>>
    BY <1>4 DEF Dirties, Edited, dispatchVars, boardOf, treeVars, waveVars, procVars
  <2> QED
    BY <2>1 DEF Joined, Claimed, Placed
<1> QED
  BY <1>1, <1>2, <1>3, <1>4

LEMMA DispatchInductive == DispatchHolds /\ [DispatchNext]_dispatchVars => DispatchHolds'
  BY DispatchesKeeps, WorkKeeps, DeathKeeps, OthersKeep DEF DispatchNext, Around

LEMMA DispatchAlways == DispatchSpec => []DispatchHolds
  BY DispatchStarts, DispatchInductive, PTL DEF DispatchSpec

-----------------------------------------------------------------------------
(* One process at most works on a job, and it is the one on the claim. *)
THEOREM OneWorker == DispatchSpec => []OneWorkerPerJob
<1>1. DispatchHolds => OneWorkerPerJob
  BY DEF DispatchHolds, Shapes, Claimed, OneWorkerPerJob
<1> QED
  BY <1>1, DispatchAlways, PTL

(* An agent of a worktree job runs in a checkout that git has on the job's  *)
(* branch and the board has on record.                                      *)
THEOREM AgentsAreInTheirTrees == DispatchSpec => []AgentInOwnTree
<1>1. DispatchHolds => AgentInOwnTree
  BY DEF DispatchHolds, Shapes, Claimed, Placed, AgentInOwnTree
<1> QED
  BY <1>1, DispatchAlways, PTL

(* The agent of a job works alone on it, under its claim, in its checkout. *)
THEOREM AgentsAreInPlace == DispatchSpec => []AgentIsInPlace
  BY OneWorker, AgentsAreInTheirTrees, PTL DEF AgentIsInPlace

-----------------------------------------------------------------------------
(* Keys.  Every worker that a wave has started is of the wave's batch and   *)
(* looks for its own job only, and the batch is one job of each group.      *)

InBatch == \A p \in Jobs : standsAt[p] # "idle" => p \in Batch

OwnHand == \A p \in Jobs : standsAt[p] \in {"resolve", "claim", "agent"} => hand[p].id = p

WavesHold == DispatchHolds /\ InBatch /\ OwnHand

(* Two heads with the same key are the same job. *)
LEMMA HeadsAreApart ==
  ASSUME NEW j \in Batch \cap Jobs, NEW k \in Batch \cap Jobs, Key(j) = Key(k)
  PROVE  j = k
<1>1. j <= k /\ k <= j
  BY DEF Batch, Heads
<1>2. j \in Nat /\ k \in Nat
  BY DispatcherAssumption DEF DispatcherAssumption
<1> QED
  BY <1>1, <1>2

(* A worker of the wave goes to work only from its launch, and comes to     *)
(* have a row in hand only by reading its own.                              *)
LEMMA ApartByWorkers ==
  ASSUME WavesHold, Batch' = Batch,
         \A p \in Jobs :
           \/ standsAt'[p] = "idle"
           \/ standsAt'[p] = "select" /\ standsAt[p] # "idle"
           \/ standsAt'[p] = "resolve" /\ standsAt[p] = "select" /\ hand'[p].id = p
           \/ standsAt'[p] = standsAt[p] /\ hand'[p] = hand[p]
           \/ standsAt[p] \in {"resolve", "claim"} /\ hand'[p] = hand[p]
  PROVE  InBatch' /\ OwnHand'
  BY DEF WavesHold, InBatch, OwnHand

(* While the wave runs, nothing changes its batch. *)
LEMMA BatchStays ==
  ASSUME UNCHANGED resolved
  PROVE  Batch' = Batch
  BY DEF Batch, Heads, Key

LEMMA DispatchesApart == ASSUME WavesHold, Dispatches PROVE InBatch' /\ OwnHand'
<1> USE NameFacts DEF WavesHold, DispatchHolds
<1>1. CASE ListsReady \/ NothingReady \/ ResolvesNext \/ JoinsAll
  <2>1. \A p \in Jobs : standsAt'[p] = "idle"
    BY <1>1 DEF ListsReady, NothingReady, ResolvesNext, JoinsAll, procVars, Joined
  <2> QED
    BY <2>1 DEF InBatch, OwnHand
<1>2. CASE LaunchesBatch
  <2>1. /\ \A p \in Jobs : standsAt[p] = "idle"
        /\ standsAt' = [p \in Procs |-> IF p \in Jobs \cap Batch THEN "select" ELSE standsAt[p]]
        /\ UNCHANGED resolved
    BY <1>2 DEF LaunchesBatch, Joined
  <2> QED
    BY <2>1, BatchStays DEF InBatch, OwnHand
<1> QED
  BY <1>1, <1>2 DEF Dispatches

LEMMA WorkApart == ASSUME WavesHold, NEW p \in Procs, WorksOn(p) PROVE InBatch' /\ OwnHand'
<1> USE NameFacts DEF WavesHold, DispatchHolds, Shapes
<1>1. ASSUME NEW place, NEW row, Enters(p, place, row)
      PROVE  /\ standsAt'[p] = place /\ hand'[p] = row
             /\ \A q \in Jobs \ {p} : standsAt'[q] = standsAt[q] /\ hand'[q] = hand[q]
  BY <1>1 DEF Enters
<1>2. UNCHANGED resolved
  BY DEF WorksOn, Selects, ResolvesOwn, Claims, Passes, RunFails, GivesBack, waveVars
<1>3. CASE Selects(p)
  <2> DEFINE mine == {j \in Jobs : jobState'[j] = "ready" /\ holder'[j] = Nil
                                    /\ p \in {j, Beside}}
  <2>1. /\ standsAt[p] = "select"
        /\ IF mine = {} THEN Enters(p, "idle", NoRow)
           ELSE \E j \in mine : (p = Beside \/ j = p) /\ Enters(p, "resolve", Row(j))
    BY <1>3 DEF Selects
  <2> HIDE DEF mine
  <2>2. CASE Enters(p, "idle", NoRow)
    BY <1>1, <1>2, <2>2, BatchStays, ApartByWorkers
  <2>3. ASSUME NEW j, p = Beside \/ j = p, Enters(p, "resolve", Row(j))
        PROVE  InBatch' /\ OwnHand'
    BY <1>1, <1>2, <2>1, <2>3, BatchStays, ApartByWorkers DEF Row
  <2> QED
    BY <2>1, <2>2, <2>3
<1>4. CASE ResolvesOwn(p)
  <2>1. standsAt[p] = "resolve" /\ (Enters(p, "claim", hand[p]) \/ Enters(p, "idle", NoRow))
    BY <1>4 DEF ResolvesOwn
  <2> QED
    BY <1>1, <1>2, <2>1, BatchStays, ApartByWorkers
<1>5. CASE Claims(p)
  <2>1. standsAt[p] = "claim" /\ (Enters(p, "agent", hand[p]) \/ Enters(p, "idle", NoRow))
    BY <1>5 DEF Claims
  <2> QED
    BY <1>1, <1>2, <2>1, BatchStays, ApartByWorkers
<1>6. CASE Passes(p) \/ RunFails(p)
  <2>1. Enters(p, "idle", NoRow)
    BY <1>6 DEF Passes, RunFails, GivesBack
  <2> QED
    BY <1>1, <1>2, <2>1, BatchStays, ApartByWorkers
<1> QED
  BY <1>3, <1>4, <1>5, <1>6 DEF WorksOn

LEMMA AroundApart ==
  ASSUME WavesHold,
         (\E p \in Procs : Dirties(p)) \/ Wakes \/ Around \/ UNCHANGED dispatchVars
  PROVE  InBatch' /\ OwnHand'
<1> USE NameFacts DEF WavesHold, DispatchHolds, Shapes
<1>1. UNCHANGED resolved
  BY DEF Dirties, Wakes, Around, ProcessDies, Withdraws, Occupies, Edited, waveVars, dispatchVars
<1>2. CASE Wakes \/ \E p \in Procs : ProcessDies(p)
  <2>1. \A q \in Jobs : \/ standsAt'[q] = "idle"
                        \/ standsAt'[q] = standsAt[q] /\ hand'[q] = hand[q]
    BY <1>2 DEF Wakes, ProcessDies, Enters
  <2> QED
    BY <1>1, <2>1, BatchStays, ApartByWorkers
<1>3. CASE ~(Wakes \/ \E p \in Procs : ProcessDies(p))
  <2>1. UNCHANGED <<standsAt, hand>>
    BY <1>3 DEF Dirties, Around, Withdraws, Occupies, Edited, procVars, dispatchVars
  <2> QED
    BY <1>1, <2>1, BatchStays, ApartByWorkers
<1> QED
  BY <1>2, <1>3

(* "Same-repository dir workspaces are serialised", for any set of jobs and *)
(* any cap: two workers that the dispatcher launched never have their       *)
(* agents in the same directory, however the waves fall, whoever dies, and  *)
(* whatever the daemon beside it takes in between.                          *)
THEOREM WavesAreApart == DispatchSpec => []ApartInWaves
<1>1. DispatchInit => WavesHold
  BY DispatchStarts, NameFacts DEF DispatchInit, WavesHold, InBatch, OwnHand
<1>2. DispatchHolds /\ [DispatchNext]_dispatchVars => DispatchHolds'
  BY DispatchesKeeps, WorkKeeps, DeathKeeps, OthersKeep DEF DispatchNext, Around
<1>3. WavesHold /\ [DispatchNext]_dispatchVars => WavesHold'
  BY <1>2, DispatchesApart, WorkApart, AroundApart DEF WavesHold, DispatchNext
<1>4. WavesHold => ApartInWaves
  BY HeadsAreApart DEF WavesHold, InBatch, OwnHand, ApartInWaves
<1> QED
  BY <1>1, <1>3, <1>4, PTL DEF DispatchSpec

-----------------------------------------------------------------------------
(* Routes.  A confirmed request for a route carries the model that the     *)
(* registry of that moment gave it, and a verified turn was served by it.  *)

Pinned ==
  (request = "confirmed" /\ routeAsked # Unrouted) =>
    AdmittedIn(meant, routeAsked) /\ meant.route[routeAsked].model = pin

RouteHolds ==
  /\ registry \in Registries /\ meant \in Registries \cup {Unrouted}
  /\ turnOutcome = "verified" => request = "confirmed"
  /\ Pinned
  /\ (turnOutcome = "verified" /\ routeAsked # Unrouted) => served \in {pin, Unknown}

(* The model of a route is a model: a pin is never the absence of one.     *)
LEMMA PinIsAModel ==
  ASSUME NEW reg \in Registries \cup {Unrouted}, NEW name, AdmittedIn(reg, name)
  PROVE  reg.route[name].model # Unrouted
<1>1. reg \in Registries \ {Unrouted} /\ name \in RouteNames
  BY DEF AdmittedIn
<1>2. reg.route \in [RouteNames -> Entry]
  BY <1>1, RoutesAssumption DEF RoutesAssumption
<1>3. reg.route[name] \in Entry /\ reg.route[name] # Unrouted
  BY <1>1, <1>2 DEF AdmittedIn
<1>4. reg.route[name].model \in Models
  BY <1>3 DEF Entry
<1> QED
  BY <1>4, RoutesAssumption DEF RoutesAssumption

LEMMA RouteStep == RouteHolds /\ [RouteNext]_routeVars => RouteHolds'
<1> SUFFICES ASSUME RouteHolds, [RouteNext]_routeVars PROVE RouteHolds'
  OBVIOUS
<1> USE DEF RouteHolds, Pinned
<1>1. CASE DaemonRestarts
  BY <1>1 DEF DaemonRestarts, AdmittedIn
<1>2. CASE StagesRoute
  BY <1>2 DEF StagesRoute, AdmittedIn
<1>3. CASE ConfirmsUnrouted
  BY <1>3 DEF ConfirmsUnrouted, AdmittedIn
<1>4. CASE ConfirmsRoute
  BY <1>4 DEF ConfirmsRoute, Resolves, AdmittedIn
<1>5. CASE RunsTurn
  <2>1. PICK model \in Models \cup {Unknown} :
          /\ served' = model
          /\ turnOutcome' = IF Honoured(model) THEN "verified" ELSE "environment"
    BY <1>5 DEF RunsTurn
  <2>2. request = "confirmed" /\ UNCHANGED <<registry, request, routeAsked, pin, meant>>
    BY <1>5 DEF RunsTurn
  <2>3. Pinned'
    BY <2>2 DEF AdmittedIn
  <2>4. routeAsked # Unrouted => pin # Unrouted
    BY <2>2, PinIsAModel
  <2>5. (turnOutcome' = "verified" /\ routeAsked # Unrouted) => model \in {pin, Unknown}
    BY <2>1, <2>4 DEF Honoured
  <2> QED
    BY <2>1, <2>2, <2>3, <2>5
<1>6. CASE UNCHANGED routeVars
  BY <1>6 DEF routeVars, AdmittedIn
<1> QED
  BY <1>1, <1>2, <1>3, <1>4, <1>5, <1>6 DEF RouteNext

(* VerifiedWasAdmitted for every set of registries, routes and models and   *)
(* every series of restarts: work that was verified for a route was done by *)
(* the model which that route, admitted, named when the operator confirmed. *)
THEOREM RoutesAreAdmitted == RouteSpec => []VerifiedWasAdmitted
<1>1. RouteInit => RouteHolds
  BY DEF RouteInit, RouteHolds, Pinned
<1>2. RouteHolds => VerifiedWasAdmitted
  BY DEF RouteHolds, Pinned, VerifiedWasAdmitted
<1> QED
  BY <1>1, <1>2, RouteStep, PTL DEF RouteSpec

-----------------------------------------------------------------------------
(* Lanes.  All that the choice needs to know of the past is that the tally *)
(* counts.                                                                 *)

Tallied == tally \in [Lanes -> [passed : Nat, failed : Nat, environment : Nat]]

LEMMA ChoiceStep == Tallied /\ [ChoiceNext]_choiceVars => Tallied'
<1> SUFFICES ASSUME Tallied, [ChoiceNext]_choiceVars PROVE Tallied'
  OBVIOUS
<1> USE DEF Tallied
<1>1. CASE RunIsLedgered
  <2>1. PICK l \in Lanes, how \in {"passed", "failed", "environment"} :
          tally' = [tally EXCEPT ![l][how] = @ + 1]
    BY <1>1 DEF RunIsLedgered
  <2>2. tally[l] \in [passed : Nat, failed : Nat, environment : Nat]
    OBVIOUS
  <2>3. [tally[l] EXCEPT ![how] = @ + 1] \in [passed : Nat, failed : Nat, environment : Nat]
    BY <2>2
  <2> QED
    BY <2>1, <2>3
<1>2. CASE UNCHANGED tally
  BY <1>2
<1> QED
  BY <1>1, <1>2 DEF ChoiceNext, HourPasses, MarksExhausted, Chooses, choiceVars

(* A lane that passed more than it failed, often enough, and stands, is a   *)
(* measured one whatever its harness did.                                   *)
LEMMA RecordIsMeasured ==
  ASSUME Tallied, NEW l \in Lanes,
         tally[l].passed >= MinSamples, tally[l].passed > tally[l].failed, Standing(l)
  PROVE  l \in Measured
<1>1. tally[l].passed \in Nat /\ tally[l].failed \in Nat /\ MinSamples \in Nat
  BY LanesAssumption DEF Tallied, LanesAssumption
<1>2. Attempts(l) >= MinSamples /\ Attempts(l) > 0 /\ 2 * tally[l].passed >= Attempts(l)
  BY <1>1 DEF Attempts
<1> QED
  BY <1>2 DEF Measured

LEMMA ChoiceIsSoundStep ==
  Tallied /\ [ChoiceNext]_choiceVars
    => [ExhaustedIsAvoided /\ HarnessIsNotTheLane]_choiceVars
<1> SUFFICES ASSUME Tallied, ChoiceNext PROVE ExhaustedIsAvoided /\ HarnessIsNotTheLane
  BY DEF choiceVars
<1>1. CASE ChoosesMeasured
  <2>1. PICK l \in Measured : picked' = [lane |-> l, why |-> "measured"]
    BY <1>1 DEF ChoosesMeasured
  <2>2. Standing(l)
    BY DEF Measured
  <2> QED
    BY <2>1, <2>2 DEF ExhaustedIsAvoided, HarnessIsNotTheLane
<1>2. Measured = {} => HarnessIsNotTheLane
  BY RecordIsMeasured DEF HarnessIsNotTheLane
<1>3. CASE ChoosesDeclared
  BY <1>2, <1>3 DEF ChoosesDeclared, ExhaustedIsAvoided
<1>4. CASE Degrades
  <2>1. PICK l \in Usable : picked' = [lane |-> l, why |-> "degraded"]
    BY <1>4 DEF Degrades
  <2>2. Standing(l)
    BY DEF Usable
  <2> QED
    BY <1>2, <1>4, <2>1, <2>2 DEF Degrades, ExhaustedIsAvoided
<1>5. CASE FallsToFloor
  <2>1. \A l \in Permitted \cup {Declared} : ~Standing(l)
    BY <1>5 DEF FallsToFloor, Usable
  <2> QED
    BY <1>2, <1>5, <2>1 DEF FallsToFloor, ExhaustedIsAvoided
<1>6. CASE picked' = picked
  BY <1>6 DEF ExhaustedIsAvoided, HarnessIsNotTheLane
<1> QED
  BY <1>1, <1>3, <1>4, <1>5, <1>6
     DEF ChoiceNext, HourPasses, MarksExhausted, RunIsLedgered, Chooses

(* ChoiceIsSound for every set of lanes and every record of them: a lane    *)
(* that is exhausted is chosen only as the floor, when nothing else stands, *)
(* and a good record is not set aside for failures of the harness.          *)
THEOREM ChoicesAreSound == ChoiceSpec => ChoiceIsSound
<1>1. ChoiceInit => Tallied
  BY DEF ChoiceInit, Tallied
<1> QED
  BY <1>1, ChoiceStep, ChoiceIsSoundStep, PTL DEF ChoiceSpec, ChoiceIsSound

-----------------------------------------------------------------------------
(* The queue file, read by night: what a run knows of the ledger is what    *)
(* the runs before it left there.                                           *)

LogEntry == [id : Ids, result : {"pass", "fail", "skip"}, night : 1..MaxNights]

(* What passed on an earlier night is done for the run under way. *)
EarlierAreDone ==
  line # 0 =>
    \A e \in 1..Len(runLog) :
      (runLog[e].night < night /\ runLog[e].result = "pass") => runLog[e].id \in already

QueueHolds ==
  /\ QueueTypeOK
  /\ line = 0 <=> errand = "none"
  /\ line # 0 => night # 0
  /\ EarlierAreDone
  /\ errand = "record" => line \notin kept["unstaged"]

(* A record of the night under way adds nothing to what earlier nights did. *)
LEMMA RecordOfTonight ==
  ASSUME QueueHolds, line # 0, NEW how \in {"pass", "fail", "skip"},
         LogRecords(how)
  PROVE  /\ runLog' \in Seq(LogEntry)
         /\ \A e \in 1..Len(runLog') :
              (runLog'[e].night < night /\ runLog'[e].result = "pass")
                => runLog'[e].id \in already
<1> DEFINE entry == [id |-> line, result |-> how, night |-> night]
<1>1. entry \in LogEntry
  BY QueueAssumption DEF QueueAssumption, QueueHolds, QueueTypeOK, LogEntry, Ids
<1>2. runLog \in Seq(LogEntry) /\ runLog' = Append(runLog, entry) /\ night \in Nat
  BY DEF QueueHolds, QueueTypeOK, LogRecords, LogEntry
<1>3. entry.night = night
  OBVIOUS
<1> HIDE DEF entry
<1>4. /\ runLog' \in Seq(LogEntry) /\ Len(runLog') = Len(runLog) + 1
      /\ \A e \in 1..Len(runLog) : runLog'[e] = runLog[e]
      /\ runLog'[Len(runLog) + 1] = entry
      /\ Len(runLog) \in Nat
  BY ONLY <1>1, <1>2
<1>5. ASSUME NEW e \in 1..Len(runLog'),
             runLog'[e].night < night, runLog'[e].result = "pass"
      PROVE  runLog'[e].id \in already
  <2>1. e \in 1..Len(runLog)
    BY <1>2, <1>3, <1>4, <1>5
  <2> QED
    BY <1>4, <1>5, <2>1 DEF QueueHolds, EarlierAreDone
<1> QED
  BY <1>4, <1>5

LEMMA QueueStepHolds == QueueHolds /\ [QueueNext]_queueVars => QueueHolds'
<1> SUFFICES ASSUME QueueHolds, [QueueNext]_queueVars PROVE QueueHolds'
  OBVIOUS
<1>0. /\ night \in 0..MaxNights /\ already \subseteq Ids /\ line \in 0..Lines
      /\ errand \in {"none", "agent", "verify", "record"}
      /\ kept \in [EditKinds -> SUBSET Ids]
      /\ runLog \in Seq(LogEntry)
      /\ (line = 0 <=> errand = "none") /\ (line # 0 => night # 0)
      /\ Lines \in Nat \ {0} /\ MaxNights \in Nat
  BY QueueAssumption DEF QueueHolds, QueueTypeOK, QueueAssumption, LogEntry
<1>1. CASE NightBegins
  <2>1. DoneIds \subseteq Ids
    BY DEF DoneIds
  <2>2. \A e \in 1..Len(runLog) : runLog[e].result = "pass" => runLog[e].id \in DoneIds
    <3> TAKE e \in 1..Len(runLog)
    <3> HAVE runLog[e].result = "pass"
    <3>1. runLog[e] \in LogEntry
      BY <1>0
    <3>2. runLog[e].id \in Ids
      BY <3>1 DEF LogEntry
    <3>3. "pass" \in ResultsOf(runLog[e].id)
      BY DEF ResultsOf
    <3> QED
      BY <3>2, <3>3 DEF DoneIds
  <2>3. QueueTypeOK'
    BY <1>0, <1>1, <2>1 DEF NightBegins, QueueTypeOK, LogEntry
  <2> QED
    BY <1>0, <1>1, <2>2, <2>3 DEF NightBegins, QueueHolds, EarlierAreDone
<1>2. CASE NightIsCut
  BY <1>0, <1>2 DEF NightIsCut, QueueHolds, QueueTypeOK, EarlierAreDone, LogEntry
<1>3. ASSUME NextLine
      PROVE  /\ line' \in 0..Lines /\ errand' \in {"none", "agent"}
             /\ (line' = 0 <=> errand' = "none")
  BY <1>0, <1>3 DEF NextLine
<1>4. CASE SkipsPassed
  <2>1. line # 0 /\ NextLine /\ UNCHANGED <<night, already, kept, runLog>>
    BY <1>0, <1>4 DEF SkipsPassed
  <2> QED
    BY <1>0, <1>3, <2>1 DEF QueueHolds, QueueTypeOK, EarlierAreDone, LogEntry
<1>5. CASE \E how \in {"pass", "fail", "skip"} :
             LogRecords(how) /\ NextLine /\ line # 0 /\ UNCHANGED <<night, already, kept>>
  <2>1. PICK how \in {"pass", "fail", "skip"} :
          LogRecords(how) /\ NextLine /\ line # 0 /\ UNCHANGED <<night, already, kept>>
    BY <1>5
  <2>2. /\ runLog' \in Seq(LogEntry)
        /\ \A e \in 1..Len(runLog') :
             (runLog'[e].night < night /\ runLog'[e].result = "pass")
               => runLog'[e].id \in already
    BY <2>1, RecordOfTonight
  <2>3. QueueTypeOK'
    BY <1>0, <1>3, <2>1, <2>2 DEF QueueTypeOK, LogEntry
  <2> QED
    BY <1>0, <1>3, <2>1, <2>2, <2>3 DEF QueueHolds, EarlierAreDone
<1>6. CASE AgentWorks
  <2>1. kept' \in [EditKinds -> SUBSET Ids]
    BY <1>0, <1>6 DEF AgentWorks, Ids
  <2> QED
    BY <1>0, <1>6, <2>1 DEF AgentWorks, QueueHolds, QueueTypeOK, EarlierAreDone, LogEntry
<1>7. CASE VerifyFails
  <2>1. kept' \in [EditKinds -> SUBSET Ids] /\ kept'["unstaged"] = {}
    BY <1>0, <1>7 DEF VerifyFails, CheckedOut, EditKinds
  <2> QED
    BY <1>0, <1>7, <2>1 DEF VerifyFails, QueueHolds, QueueTypeOK, EarlierAreDone, LogEntry
<1>8. CASE UNCHANGED queueVars
  BY <1>8 DEF queueVars, QueueHolds, QueueTypeOK, EarlierAreDone
<1>9. SkipsBranch \/ VerifyPasses \/ RecordsFailure
        => \E how \in {"pass", "fail", "skip"} :
             LogRecords(how) /\ NextLine /\ line # 0 /\ UNCHANGED <<night, already, kept>>
  BY <1>0 DEF SkipsBranch, VerifyPasses, RecordsFailure
<1> QED
  BY <1>1, <1>2, <1>4, <1>5, <1>6, <1>7, <1>8, <1>9 DEF QueueNext, QueueStep

LEMMA NightStep ==
  QueueHolds /\ [QueueNext]_queueVars => OnlyBrokenIsRetried /\ FailedEditsGo
<1> SUFFICES ASSUME QueueHolds, [QueueNext]_queueVars
             PROVE  OnlyBrokenIsRetried /\ FailedEditsGo
  OBVIOUS
<1>1. ASSUME errand = "agent", errand' = "verify"
      PROVE  line # 0 /\ line \notin already
  BY <1>1 DEF QueueNext, QueueStep, NightBegins, NightIsCut, SkipsPassed, SkipsBranch,
              AgentWorks, VerifyPasses, VerifyFails, RecordsFailure, NextLine, queueVars,
              QueueHolds
<1>2. OnlyBrokenIsRetried
  BY <1>1 DEF OnlyBrokenIsRetried, QueueHolds, EarlierAreDone
<1>3. ASSUME errand = "record", runLog' # runLog
      PROVE  UNCHANGED kept
  BY <1>3 DEF QueueNext, QueueStep, NightBegins, NightIsCut, SkipsPassed, SkipsBranch,
              AgentWorks, VerifyPasses, VerifyFails, RecordsFailure, queueVars
<1>4. FailedEditsGo
  BY <1>3 DEF FailedEditsGo, QueueHolds
<1> QED
  BY <1>2, <1>4

-----------------------------------------------------------------------------
(* The same file, turned into rows of the board. *)

RowsHold ==
  /\ AssignTypeOK
  /\ GateMatchesBody
  /\ OneLiveRow

LEMMA RowsStep == RowsHold /\ [AssignNext]_assignVars => RowsHold'
<1> SUFFICES ASSUME RowsHold, [AssignNext]_assignVars PROVE RowsHold'
  OBVIOUS
<1> DEFINE BoardRow == [key : Ids, body : Nat, gate : Nat, archived : BOOLEAN]
<1>0. /\ edition \in [Ids -> 1..MaxEdits + 1] /\ reading \in 0..Lines
      /\ made \in Seq(BoardRow) /\ Len(made) \in Nat
      /\ Lines \in Nat \ {0} /\ MaxEdits \in Nat
  BY QueueAssumption DEF RowsHold, AssignTypeOK, QueueAssumption
<1>1. CASE LineIsEdited
  <2>1. PICK i \in Ids :
          edition[i] <= MaxEdits /\ edition' = [edition EXCEPT ![i] = @ + 1]
    BY <1>1 DEF LineIsEdited
  <2>2. edition' \in [Ids -> 1..MaxEdits + 1]
    BY <1>0, <2>1
  <2> QED
    BY <1>1, <2>2 DEF LineIsEdited, RowsHold, AssignTypeOK, GateMatchesBody, OneLiveRow
<1>2. CASE AssignBegins
  <2>1. reading' \in 0..Lines /\ UNCHANGED <<edition, made>>
    BY <1>0, <1>2 DEF AssignBegins
  <2> QED
    BY <2>1 DEF RowsHold, AssignTypeOK, GateMatchesBody, OneLiveRow
<1>3. CASE LineIsKnown
  BY <1>0, <1>3
     DEF LineIsKnown, LeftAsItIs, ReadsOn, RowsHold, AssignTypeOK, GateMatchesBody, OneLiveRow
<1>4. CASE LineIsRefused
  BY <1>0, <1>4 DEF LineIsRefused, RowsHold, AssignTypeOK, GateMatchesBody, OneLiveRow
<1>5. CASE LineBecomesRow
  <2> DEFINE row == [key |-> reading, body |-> edition[reading],
                     gate |-> edition[reading], archived |-> FALSE]
  <2>1. /\ reading \in Ids /\ made' = Append(made, row) /\ Holders(reading) = {}
        /\ reading' \in 0..Lines /\ edition' = edition
    BY <1>0, <1>5 DEF LineBecomesRow, ReadsOn, Ids
  <2>2. row \in BoardRow
    BY <1>0, <2>1
  <2>3. row.key = reading /\ row.gate = row.body /\ row.archived = FALSE
    OBVIOUS
  <2> HIDE DEF row, BoardRow
  <2>4. /\ made' \in Seq(BoardRow) /\ Len(made') = Len(made) + 1
        /\ \A r \in 1..Len(made) : made'[r] = made[r]
        /\ made'[Len(made) + 1] = row
    BY ONLY <1>0, <2>1, <2>2
  <2>5. \A r \in 1..Len(made') : r \in 1..Len(made) \/ r = Len(made) + 1
    BY ONLY <1>0, <2>4
  <2>6. GateMatchesBody'
    BY <2>3, <2>4, <2>5 DEF RowsHold, GateMatchesBody
  <2>7. \A r \in 1..Len(made) : made[r].key = reading => made[r].archived
    BY <2>1 DEF Holders
  <2>8. OneLiveRow'
    BY <2>3, <2>4, <2>5, <2>7 DEF RowsHold, OneLiveRow
  <2> QED
    BY <1>0, <2>1, <2>4, <2>6, <2>8 DEF RowsHold, AssignTypeOK, BoardRow
<1>6. CASE RowIsArchived
  <2>1. PICK r \in 1..Len(made) :
          ~made[r].archived /\ made' = [made EXCEPT ![r].archived = TRUE]
    BY <1>6 DEF RowIsArchived
  <2> HIDE DEF BoardRow
  <2>0. made[r] \in BoardRow
    BY ONLY <1>0, r \in 1..Len(made)
  <2>2. [made[r] EXCEPT !.archived = TRUE] \in BoardRow
    BY ONLY <2>0 DEF BoardRow
  <2>3. /\ [made[r] EXCEPT !.archived = TRUE].key = made[r].key
        /\ [made[r] EXCEPT !.archived = TRUE].body = made[r].body
        /\ [made[r] EXCEPT !.archived = TRUE].gate = made[r].gate
        /\ [made[r] EXCEPT !.archived = TRUE].archived = TRUE
    BY ONLY <2>0 DEF BoardRow
  <2>4. made' = [made EXCEPT ![r] = [made[r] EXCEPT !.archived = TRUE]]
    BY <2>1
  <2> DEFINE past == [made[r] EXCEPT !.archived = TRUE]
  <2>5. past \in BoardRow /\ past.key = made[r].key /\ past.gate = made[r].gate
        /\ past.body = made[r].body /\ past.archived
    BY <2>2, <2>3
  <2> HIDE DEF past
  <2>6. /\ made' \in Seq(BoardRow) /\ Len(made') = Len(made)
        /\ \A s \in 1..Len(made) : made'[s] = IF s = r THEN past ELSE made[s]
    BY ONLY <1>0, <2>4, <2>5 DEF past
  <2>7. GateMatchesBody'
    BY <2>5, <2>6 DEF RowsHold, GateMatchesBody
  <2>8. OneLiveRow'
    BY <2>5, <2>6 DEF RowsHold, OneLiveRow
  <2> QED
    BY <1>0, <1>6, <2>6, <2>7, <2>8 DEF RowIsArchived, RowsHold, AssignTypeOK, BoardRow
<1>7. CASE UNCHANGED assignVars
  BY <1>7 DEF assignVars, RowsHold, AssignTypeOK, GateMatchesBody, OneLiveRow
<1> QED
  BY <1>1, <1>2, <1>3, <1>4, <1>5, <1>6, <1>7 DEF AssignNext

LEMMA QueueStarts == QueueInit => QueueHolds
<1> SUFFICES ASSUME QueueInit PROVE QueueHolds
  OBVIOUS
<1>1. QueueTypeOK
  BY QueueAssumption DEF QueueInit, QueueTypeOK, QueueAssumption, EditKinds
<1> QED
  BY <1>1 DEF QueueInit, QueueHolds, EarlierAreDone, EditKinds

LEMMA RowsStart == AssignInit => RowsHold
  BY QueueAssumption
     DEF AssignInit, RowsHold, AssignTypeOK, GateMatchesBody, OneLiveRow, QueueAssumption

(* LinesAreKept for every file, and every series of nights, edits and       *)
(* assignments: whoever reads the queue, and whichever runs are cut, what   *)
(* passed is not run again, what failed leaves no unstaged edit, and a row  *)
(* is one line with the gate its prompt was written with.                   *)
THEOREM QueueIsKept == QueueSpec /\ AssignSpec => LinesAreKept
<1>1. RowsHold => GateMatchesBody /\ OneLiveRow
  BY DEF RowsHold
<1>2. QueueHolds /\ [QueueNext]_queueVars /\ RowsHold'
        => [OnlyBrokenIsRetried /\ FailedEditsGo
            /\ GateMatchesBody' /\ OneLiveRow']_<<queueVars, assignVars>>
  BY NightStep DEF RowsHold
<1> QED
  BY <1>1, <1>2, QueueStarts, RowsStart, QueueStepHolds, RowsStep, PTL
     DEF QueueSpec, AssignSpec, LinesAreKept

-----------------------------------------------------------------------------
(* The heartbeat.  What the agent did since the last turn is stamped with   *)
(* the time that turn has not reached yet, so the next turn cannot miss it; *)
(* and a beat is no older than the agent has been silent.                   *)

Clocked ==
  /\ clock \in Nat /\ hush \in Nat /\ lost \in Nat
  /\ stamps \in [1..Walk -> 0..clock + 1]
  /\ output \in 0..clock + 1 /\ busy \in BOOLEAN
  /\ seen \in 0..clock /\ seenMtime \in 0..clock

BusyShows ==
  busy => output = clock + 1 \/ \E f \in 1..Walk : stamps[f] = clock + 1

BeatIsFresh ==
  (lost = 0 /\ beat # Never) => beat \in Nat /\ clock - beat <= hush

HeartHolds == Clocked /\ BusyShows /\ BeatIsFresh /\ WorkKeepsClaim

LEMMA NewestIsStamped ==
  ASSUME NEW n \in Nat, stamps \in [1..Walk -> 0..n], NEW files \in SUBSET (1..Walk)
  PROVE  Newest(files) \in 0..n
<1> DEFINE T == {stamps[f] : f \in files} \cup {0}
<1>1. T \subseteq 0..n /\ T # {}
  OBVIOUS
<1>2. Max(T) \in T
  BY <1>1, GreatestOf
<1>3. Newest(files) = Max(T)
  BY DEF Newest
<1> QED
  BY <1>1, <1>2, <1>3

(* The newest time a walk brings back is one that a file carries. *)
LEMMA ScanIsStamped ==
  ASSUME Clocked, NEW mark
  PROVE  Scan(mark).newest \in 0..clock + 1
<1> DEFINE hits == Newer(mark) \cap 1..Reach
<1>0. Walk \in Nat /\ Reach \in Nat
  BY HeartbeatAssumption DEF HeartbeatAssumption
<1>1. CASE hits = {}
  <2>1. Scan(mark).newest = Newest(1..Walk \cap 1..Reach)
    BY <1>1 DEF Scan
  <2> QED
    BY <2>1, NewestIsStamped DEF Clocked
<1>2. CASE hits # {}
  <2>1. hits \subseteq Nat
    BY <1>0 DEF Newer
  <2>2. Min(hits) \in hits
    BY <1>2, <2>1, LeastOf
  <2>3. Min(hits) \in 1..Walk
    BY <2>2 DEF Newer
  <2>4. 1..Min(hits) \subseteq 1..Walk
    BY <1>0, <2>3
  <2>5. Scan(mark).newest = Newest(1..Min(hits))
    BY <1>2 DEF Scan
  <2>6. clock + 1 \in Nat /\ stamps \in [1..Walk -> 0..clock + 1]
    BY DEF Clocked
  <2>7. Newest(1..Min(hits)) \in 0..clock + 1
    BY ONLY <2>4, <2>6, NewestIsStamped
  <2> QED
    BY <2>5, <2>7
<1> QED
  BY <1>1, <1>2

(* Work done in an interval is progress at its end, if the walk reaches     *)
(* every file.                                                              *)
LEMMA WorkIsProgress ==
  ASSUME Walk <= Reach, Clocked, BusyShows, busy
  PROVE  Progressed(Scan(seenMtime).changed)
<1>1. CASE output = clock + 1
  BY <1>1 DEF Progressed, Clocked
<1>2. ASSUME NEW f \in 1..Walk, stamps[f] = clock + 1
      PROVE  Scan(seenMtime).changed
  <2>1. Walk \in Nat /\ Reach \in Nat
    BY HeartbeatAssumption DEF HeartbeatAssumption
  <2>2. f \in Newer(seenMtime) \cap 1..Reach
    BY <1>2, <2>1 DEF Clocked, Newer
  <2> QED
    BY <2>2 DEF Scan
<1> QED
  BY <1>1, <1>2 DEF BusyShows, Progressed

LEMMA TickIsClocked == ASSUME Clocked, HeartTicks PROVE Clocked'
<1> DEFINE scan == Scan(seenMtime)
<1>1. /\ clock' = clock + 1 /\ hush' = (IF busy THEN 0 ELSE hush + 1)
      /\ busy' = FALSE /\ stamps' = stamps /\ output' = output
  BY DEF HeartTicks
<1>2. \/ /\ seen' = output /\ seenMtime' = Max({scan.newest, seenMtime})
         /\ lost' \in {lost, lost + 1}
      \/ UNCHANGED <<seen, seenMtime, lost>>
  BY DEF HeartTicks
<1>3. scan.newest \in 0..clock + 1
  BY ScanIsStamped
<1>4. Max({scan.newest, seenMtime}) \in 0..clock + 1
  <2>1. {scan.newest, seenMtime} \subseteq 0..clock + 1 /\ clock + 1 \in Nat
    BY <1>3 DEF Clocked
  <2> QED
    BY <2>1, GreatestOf
<1> HIDE DEF scan
<1>5. /\ clock \in Nat /\ hush \in Nat /\ lost \in Nat
      /\ stamps \in [1..Walk -> 0..clock + 1] /\ output \in 0..clock + 1
      /\ seen \in 0..clock /\ seenMtime \in 0..clock
  BY DEF Clocked
<1>6. clock' \in Nat /\ hush' \in Nat /\ lost' \in Nat /\ output' \in 0..clock' + 1
  BY <1>1, <1>2, <1>5
<1>7. stamps' \in [1..Walk -> 0..clock' + 1]
  BY <1>1, <1>5
<1>8. seen' \in 0..clock' /\ seenMtime' \in 0..clock'
  BY <1>1, <1>2, <1>4, <1>5
<1> QED
  BY <1>1, <1>6, <1>7, <1>8 DEF Clocked

LEMMA TickHolds ==
  ASSUME Walk <= Reach, HeartHolds, HeartTicks
  PROVE  HeartHolds'
<1> DEFINE scan == Scan(seenMtime)
<1>1. /\ clock' = clock + 1 /\ hush' = (IF busy THEN 0 ELSE hush + 1)
      /\ busy' = FALSE /\ stamps' = stamps /\ output' = output
      /\ claim = "held" /\ claim' = "held"
  BY DEF HeartTicks
<1>2. \/ /\ Progressed(scan.changed)
         /\ seen' = output /\ seenMtime' = Max({scan.newest, seenMtime})
         /\ \/ beat' = clock + 1 /\ lost' = lost
            \/ lost' = lost + 1 /\ beat' = beat
      \/ ~Progressed(scan.changed) /\ UNCHANGED <<seen, seenMtime, beat, lost>>
  BY DEF HeartTicks
<1>5. busy => Progressed(scan.changed)
  BY WorkIsProgress DEF HeartHolds
<1> HIDE DEF scan
<1>6. Clocked'
  BY TickIsClocked DEF HeartHolds
<1>7. BusyShows' /\ WorkKeepsClaim'
  BY <1>1 DEF BusyShows, WorkKeepsClaim
<1>8. BeatIsFresh'
  <2>0. clock \in Nat /\ hush \in Nat /\ lost \in Nat /\ busy \in BOOLEAN
    BY DEF HeartHolds, Clocked
  <2>1. CASE beat' = clock + 1 /\ lost' = lost
    BY <1>1, <2>0, <2>1 DEF BeatIsFresh
  <2>2. CASE lost' = lost + 1
    BY <2>0, <2>2 DEF BeatIsFresh
  <2>3. CASE ~busy /\ UNCHANGED <<beat, lost>>
    BY <1>1, <2>0, <2>3 DEF HeartHolds, BeatIsFresh
  <2> QED
    BY <1>2, <1>5, <2>1, <2>2, <2>3
<1> QED
  BY <1>6, <1>7, <1>8 DEF HeartHolds

LEMMA HeartStep ==
  ASSUME Walk <= Reach, HeartHolds, [HeartNext]_heartVars
  PROVE  HeartHolds'
<1> USE DEF HeartHolds
<1>1. CASE AgentSpeaks
  <2>1. Clocked'
    BY <1>1 DEF AgentSpeaks, Clocked
  <2> QED
    BY <1>1, <2>1 DEF AgentSpeaks, BusyShows, BeatIsFresh, WorkKeepsClaim
<1>2. CASE AgentWrites
  <2>1. PICK f \in 1..Walk : stamps' = [stamps EXCEPT ![f] = clock + 1]
    BY <1>2 DEF AgentWrites
  <2>2. stamps' \in [1..Walk -> 0..clock + 1] /\ stamps'[f] = clock + 1
    BY <2>1 DEF Clocked
  <2> QED
    BY <1>2, <2>2 DEF AgentWrites, Clocked, BusyShows, BeatIsFresh, WorkKeepsClaim
<1>3. CASE AgentWedges
  BY <1>3 DEF AgentWedges, Clocked, BusyShows, BeatIsFresh, WorkKeepsClaim
<1>4. CASE AgentFinishes
  BY <1>4 DEF AgentFinishes, Clocked, BusyShows, BeatIsFresh, WorkKeepsClaim
<1>5. CASE HeartTicks
  BY <1>5, TickHolds
<1>6. CASE KernelReclaims
  <2>1. WorkKeepsClaim'
    BY <1>6, HeartbeatAssumption
       DEF KernelReclaims, Clocked, BeatIsFresh, WorkKeepsClaim, HeartbeatAssumption
  <2> QED
    BY <1>6, <2>1 DEF KernelReclaims, Clocked, BusyShows, BeatIsFresh
<1>7. CASE UNCHANGED heartVars
  BY <1>7 DEF heartVars, Clocked, BusyShows, BeatIsFresh, WorkKeepsClaim
<1> QED
  BY <1>1, <1>2, <1>3, <1>4, <1>5, <1>6, <1>7 DEF HeartNext

(* WorkKeepsClaim for every number of files, every staleness and every      *)
(* schedule, provided the budget of a walk reaches all the files: a claim   *)
(* is taken only from a run that was silent for as long as a stale          *)
(* heartbeat takes, or whose beats were refused.                            *)
THEOREM WorkersAreSpared ==
  ASSUME Walk <= Reach
  PROVE  HeartSpec => []WorkKeepsClaim
<1>1. HeartInit => HeartHolds
  <2> SUFFICES ASSUME HeartInit PROVE HeartHolds
    OBVIOUS
  <2>1. clock = 1 /\ stamps \in [1..Walk -> 0..1]
    BY DEF HeartInit
  <2>2. seenMtime \in 0..1
    BY <2>1, NewestIsStamped DEF HeartInit
  <2>3. /\ output = 1 /\ busy = FALSE /\ hush = 0 /\ seen = 1
        /\ beat = Never /\ lost = 0 /\ claim = "held"
    BY DEF HeartInit
  <2>4. stamps \in [1..Walk -> 0..clock + 1]
    BY <2>1
  <2>5. Clocked
    <3>1. clock \in Nat /\ hush \in Nat /\ lost \in Nat /\ busy \in BOOLEAN
      BY <2>1, <2>3
    <3>2. output \in 0..clock + 1 /\ seen \in 0..clock
      BY <2>1, <2>3
    <3>3. seenMtime \in 0..clock
      BY ONLY <2>1, <2>2
    <3> QED
      BY <2>4, <3>1, <3>2, <3>3 DEF Clocked
  <2>6. BusyShows /\ BeatIsFresh /\ WorkKeepsClaim
    BY ONLY <2>3 DEF BusyShows, BeatIsFresh, WorkKeepsClaim
  <2> QED
    BY <2>5, <2>6 DEF HeartHolds
<1>2. HeartHolds => WorkKeepsClaim
  BY DEF HeartHolds
<1>3. HeartHolds /\ [HeartNext]_heartVars => HeartHolds'
  BY HeartStep
<1> QED
  BY <1>1, <1>2, <1>3, PTL DEF HeartSpec

-----------------------------------------------------------------------------
(* Types.  Of every component here the invariants above say all but a few   *)
(* of the ranges.                                                           *)

HeartTyped ==
  /\ Clocked /\ clock \in 1..MaxTime /\ hush < clock
  /\ wedged \in BOOLEAN /\ output # 0 /\ seen <= output
  /\ beat = Never \/ beat \in 1..MaxTime
  /\ lost <= MaxLost /\ claim \in {"held", "reclaimed", "ended"}

LEMMA HeartTypedStarts == HeartInit => HeartTyped /\ HeartTypeOK
<1> SUFFICES ASSUME HeartInit PROVE HeartTyped /\ HeartTypeOK
  OBVIOUS
<1>0. MaxTime \in Nat \ {0} /\ MaxLost \in Nat
  BY HeartbeatAssumption DEF HeartbeatAssumption
<1>s. stamps \in [1..Walk -> 0..1]
  BY DEF HeartInit
<1>1. /\ clock = 1 /\ wedged = FALSE
      /\ output = 1 /\ busy = FALSE /\ hush = 0 /\ seen = 1
      /\ beat = Never /\ lost = 0 /\ claim = "held"
  BY DEF HeartInit
<1>2. seenMtime \in 0..1
  BY <1>s, NewestIsStamped DEF HeartInit
<1>3. stamps \in [1..Walk -> 0..clock + 1] /\ stamps \in [1..Walk -> 0..MaxTime + 1]
  BY <1>0, <1>s, <1>1
<1>b. busy \in BOOLEAN /\ wedged \in BOOLEAN
  BY ONLY <1>1
<1>c. PICK n \in Nat : n = clock /\ n = 1
  BY ONLY <1>1
<1>4. /\ clock \in Nat /\ hush \in Nat /\ lost \in Nat
      /\ output \in 0..clock + 1 /\ seen \in 0..clock
  BY ONLY <1>1
<1>5. seenMtime \in 0..clock /\ seenMtime \in 0..MaxTime + 1
  BY ONLY <1>0, <1>2, <1>c
<1>6. clock \in 1..MaxTime /\ hush < clock /\ output # 0 /\ seen <= output
  BY ONLY <1>0, <1>1
<1>7. /\ output \in 1..MaxTime + 1 /\ hush \in 0..MaxTime
      /\ lost \in 0..MaxLost /\ lost <= MaxLost
  BY ONLY <1>0, <1>1
<1> QED
  BY <1>1, <1>3, <1>b, <1>4, <1>5, <1>6, <1>7 DEF HeartTyped, Clocked, HeartTypeOK

LEMMA HeartTypedStep == ASSUME HeartTyped, [HeartNext]_heartVars PROVE HeartTyped'
<1>0. /\ MaxTime \in Nat /\ MaxLost \in Nat
      /\ clock \in Nat /\ hush \in Nat /\ lost \in Nat
      /\ output \in 0..clock + 1 /\ seen \in 0..clock
  BY HeartbeatAssumption DEF HeartTyped, Clocked, HeartbeatAssumption
<1>1. CASE AgentSpeaks
  <2>1. Clocked'
    BY <1>1 DEF AgentSpeaks, HeartTyped, Clocked
  <2> QED
    BY <1>0, <1>1, <2>1 DEF AgentSpeaks, HeartTyped
<1>2. CASE AgentWrites
  <2>1. PICK f \in 1..Walk : stamps' = [stamps EXCEPT ![f] = clock + 1]
    BY <1>2 DEF AgentWrites
  <2>2. stamps' \in [1..Walk -> 0..clock + 1]
    BY <2>1 DEF HeartTyped, Clocked
  <2> QED
    BY <1>2, <2>2 DEF AgentWrites, HeartTyped, Clocked
<1>3. CASE AgentWedges \/ AgentFinishes \/ KernelReclaims
  BY <1>3 DEF AgentWedges, AgentFinishes, KernelReclaims, HeartTyped, Clocked
<1>4. CASE HeartTicks
  <2>1. Clocked'
    BY <1>4, TickIsClocked DEF HeartTyped
  <2>2. /\ clock < MaxTime /\ clock' = clock + 1 /\ hush' = (IF busy THEN 0 ELSE hush + 1)
        /\ output' = output /\ UNCHANGED <<wedged, claim>>
        /\ \/ seen' = output \/ seen' = seen
        /\ beat' = clock' \/ beat' = beat
        /\ (lost < MaxLost /\ lost' = lost + 1) \/ lost' = lost
    BY <1>4 DEF HeartTicks
  <2> QED
    BY <1>0, <2>1, <2>2 DEF HeartTyped
<1>5. CASE UNCHANGED heartVars
  BY <1>5 DEF heartVars, HeartTyped, Clocked
<1> QED
  BY <1>1, <1>2, <1>3, <1>4, <1>5 DEF HeartNext

LEMMA HeartTypedIs == HeartTyped => HeartTypeOK
<1> SUFFICES ASSUME HeartTyped PROVE HeartTypeOK
  OBVIOUS
<1>1. /\ clock \in 1..MaxTime /\ hush \in Nat /\ hush < clock /\ lost \in Nat /\ MaxTime \in Nat
      /\ MaxLost \in Nat /\ lost <= MaxLost /\ output \in 0..clock + 1 /\ output # 0
      /\ seenMtime \in 0..clock /\ stamps \in [1..Walk -> 0..clock + 1]
  BY HeartbeatAssumption DEF HeartTyped, Clocked, HeartbeatAssumption
<1>2. 0..clock + 1 \subseteq 0..MaxTime + 1
  BY <1>1
<1>3. stamps \in [1..Walk -> 0..MaxTime + 1]
  BY <1>1, <1>2
<1>4. /\ output \in 1..MaxTime + 1 /\ hush \in 0..MaxTime /\ seenMtime \in 0..MaxTime + 1
      /\ lost \in 0..MaxLost
  BY <1>1
<1> QED
  BY <1>3, <1>4 DEF HeartTyped, Clocked, HeartTypeOK

(* A row that may still be claimed has attempts left, and a row held by the *)
(* dead is one that ran.                                                    *)
Budgeted ==
  /\ tries \in [Jobs -> 0..TryLimit]
  /\ \A j \in Jobs : jobState[j] \in {"ready", "running"} => tries[j] < TryLimit
  /\ \A j \in Jobs : holder[j] = Dead => jobState[j] = "running"

LEMMA BudgetWorks ==
  ASSUME DispatchHolds, Budgeted, NEW p \in Procs, WorksOn(p)
  PROVE  Budgeted'
<1>a. /\ jobState \in [Jobs -> JobStates] /\ holder \in [Jobs -> Procs \cup {Nil, Dead}]
      /\ \A q \in Procs : standsAt[q] \in {"resolve", "claim", "agent"} => hand[q].id \in Jobs
      /\ \A q \in Procs : standsAt[q] = "agent" => holder[hand[q].id] = q
      /\ \A j \in Jobs : holder[j] \in Procs => jobState[j] = "running"
  BY DEF DispatchHolds, Shapes, Claimed
<1>0. /\ jobState \in [Jobs -> JobStates] /\ holder \in [Jobs -> Procs \cup {Nil, Dead}]
      /\ tries \in [Jobs -> 0..TryLimit]
      /\ standsAt[p] \in {"claim", "agent"} => hand[p].id \in Jobs
      /\ standsAt[p] = "agent" => /\ holder[hand[p].id] = p
                                  /\ jobState[hand[p].id] = "running"
      /\ TryLimit \in Nat \ {0}
  BY <1>a, DispatcherAssumption DEF DispatcherAssumption, Budgeted
<1> USE NameFacts DEF Budgeted
<1>1. CASE Selects(p)
  <2>1. PICK lapsed \in SUBSET {j \in Jobs : holder[j] = Dead} :
          /\ jobState' = [j \in Jobs |-> IF j \in lapsed THEN "ready" ELSE jobState[j]]
          /\ holder' = [j \in Jobs |-> IF j \in lapsed THEN Nil ELSE holder[j]]
    BY <1>1 DEF Selects, Recovers
  <2>2. tries' = tries
    BY <1>1 DEF Selects
  <2>3. \A j \in lapsed : j \in Jobs /\ holder[j] = Dead /\ jobState[j] = "running"
    OBVIOUS
  <2> QED
    BY <2>1, <2>2, <2>3
<1>2. CASE ResolvesOwn(p)
  BY <1>2 DEF ResolvesOwn, boardOf
<1>3. CASE Claims(p)
  <2> DEFINE j == hand[p].id
  <2>1. tries' = tries
    BY <1>3 DEF Claims
  <2>2. CASE UNCHANGED <<jobState, holder>>
    BY <2>1, <2>2
  <2>3. CASE /\ jobState[j] = "ready" /\ jobState' = [jobState EXCEPT ![j] = "running"]
             /\ holder' = [holder EXCEPT ![j] = p]
    BY <1>0, <2>1, <2>3
  <2> QED
    BY <1>3, <2>2, <2>3 DEF Claims
<1>4. CASE Passes(p)
  <2>1. /\ tries' = tries /\ jobState' = [jobState EXCEPT ![hand[p].id] = "done"]
        /\ holder' = [holder EXCEPT ![hand[p].id] = Nil]
    BY <1>4 DEF Passes, GivesBack
  <2> QED
    BY <1>0, <2>1
<1>5. CASE RunFails(p)
  <2> DEFINE j == hand[p].id
             s == IF tries[j] + 1 >= TryLimit THEN "blocked" ELSE "ready"
  <2>1. /\ standsAt[p] = "agent" /\ tries' = [tries EXCEPT ![j] = @ + 1]
        /\ jobState' = [jobState EXCEPT ![j] = s]
        /\ holder' = [holder EXCEPT ![j] = Nil]
    BY <1>5 DEF RunFails, GivesBack
  <2>2. j \in Jobs /\ tries[j] \in Nat /\ tries[j] < TryLimit
    BY <1>0, <2>1
  <2>3. tries' \in [Jobs -> 0..TryLimit] /\ tries'[j] = tries[j] + 1
    BY <1>0, <2>1, <2>2
  <2>4. s \in {"ready", "running"} => tries[j] + 1 < TryLimit
    BY <1>0, <2>2
  <2> HIDE DEF s
  <2> QED
    BY <1>0, <2>1, <2>2, <2>3, <2>4
<1> QED
  BY <1>1, <1>2, <1>3, <1>4, <1>5 DEF WorksOn

DispatchTyped ==
  /\ DispatchHolds /\ Budgeted /\ untidy \subseteq Places
  /\ wave \in {"off", "list", "resolve", "join", "over"} /\ mishaps \in 0..MaxMishaps

LEMMA DispatchTypedStarts == DispatchInit => DispatchTyped
<1> SUFFICES ASSUME DispatchInit PROVE DispatchTyped
  OBVIOUS
<1>1. TryLimit \in Nat \ {0} /\ MaxMishaps \in Nat
  BY DispatcherAssumption DEF DispatcherAssumption
<1>2. Budgeted
  BY <1>1, NameFacts DEF DispatchInit, Budgeted
<1> QED
  BY <1>1, <1>2, DispatchStarts DEF DispatchInit, DispatchTyped

LEMMA DispatchTypedStep ==
  ASSUME DispatchTyped, [DispatchNext]_dispatchVars
  PROVE  DispatchTyped'
<1>1. DispatchHolds'
  BY DispatchInductive DEF DispatchTyped
<1>0. /\ DispatchHolds /\ Budgeted /\ untidy \subseteq Places /\ mishaps \in 0..MaxMishaps
      /\ wave \in {"off", "list", "resolve", "join", "over"} /\ MaxMishaps \in Nat
  BY DispatcherAssumption DEF DispatchTyped, DispatcherAssumption
<1>2. CASE UNCHANGED dispatchVars
  BY <1>0, <1>1, <1>2
     DEF dispatchVars, boardOf, treeVars, waveVars, DispatchTyped, Budgeted
<1>3. CASE Dispatches
  <2>1. /\ UNCHANGED <<jobState, holder, tries, untidy, mishaps>>
        /\ wave' \in {"resolve", "join", "over", "list"}
    BY <1>0, <1>3 DEF Dispatches, ListsReady, ResolvesNext, LaunchesBatch, NothingReady,
       JoinsAll, ResolvesTree, boardOf, treeVars
  <2> QED
    BY <1>0, <1>1, <2>1 DEF DispatchTyped, Budgeted
<1>4. ASSUME NEW p \in Procs, WorksOn(p) PROVE DispatchTyped'
  <2>1. Budgeted'
    BY <1>0, <1>4, BudgetWorks
  <2>2. untidy' \subseteq untidy /\ UNCHANGED <<wave, mishaps>>
    BY <1>4 DEF WorksOn, Selects, Recovers, ResolvesOwn, ResolvesTree, Claims, Passes,
       RunFails, GivesBack, treeVars, waveVars
  <2> QED
    BY <1>0, <1>1, <2>1, <2>2 DEF DispatchTyped
<1>5. CASE Wakes
  BY <1>0, <1>1, <1>5 DEF Wakes, boardOf, treeVars, waveVars, DispatchTyped, Budgeted
<1>6. ASSUME NEW p \in Procs, ProcessDies(p) PROVE DispatchTyped'
  <2>1. /\ UNCHANGED <<jobState, tries, untidy, wave>>
        /\ holder' = [j \in Jobs |-> IF holder[j] = p THEN Dead ELSE holder[j]]
        /\ mishaps < MaxMishaps /\ mishaps' = mishaps + 1
    BY <1>6 DEF ProcessDies, waveVars
  <2>2. \A j \in Jobs : holder[j] = p => jobState[j] = "running"
    BY <1>0 DEF DispatchHolds, Claimed
  <2>3. Budgeted'
    BY <1>0, <2>1, <2>2 DEF Budgeted
  <2> QED
    BY <1>0, <1>1, <2>1, <2>3 DEF DispatchTyped
<1>7. ASSUME NEW j \in Jobs, Withdraws(j) \/ Occupies(j) PROVE DispatchTyped'
  <2>1. /\ UNCHANGED <<holder, tries, untidy, wave>>
        /\ \/ jobState' = jobState
           \/ jobState' = [jobState EXCEPT ![j] = "cancelled"] /\ holder[j] = Nil
        /\ mishaps < MaxMishaps /\ mishaps' = mishaps + 1
    BY <1>7 DEF Withdraws, Occupies, Recordable, waveVars, boardOf, treeVars
  <2>2. Budgeted'
    BY <1>0, <2>1, NameFacts DEF Budgeted, DispatchHolds, Shapes
  <2> QED
    BY <1>0, <1>1, <2>1, <2>2 DEF DispatchTyped
<1>8. ASSUME NEW d \in Places, Edited(d) PROVE DispatchTyped'
  <2>1. UNCHANGED <<jobState, holder, tries, wave>>
    BY <1>8 DEF Edited, boardOf, waveVars
  <2>2. untidy' \subseteq Places
    BY <1>0, <1>8 DEF Edited
  <2>3. mishaps' \in 0..MaxMishaps
    BY <1>0, <1>8 DEF Edited
  <2> QED
    BY <1>0, <1>1, <2>1, <2>2, <2>3 DEF DispatchTyped, Budgeted
<1>9. ASSUME NEW p \in Procs, Dirties(p) PROVE DispatchTyped'
  <2>1. UNCHANGED <<jobState, holder, tries, wave, mishaps>>
    BY <1>9 DEF Dirties, boardOf, waveVars
  <2>2. hand[p].id \in Jobs
    BY <1>0, <1>9 DEF Dirties, DispatchHolds, Shapes
  <2>3. Key(hand[p].id) \in Places
    BY <2>2, DispatcherAssumption DEF DispatcherAssumption, Key, Places
  <2>4. untidy' \subseteq Places
    BY <1>0, <1>9, <2>3 DEF Dirties
  <2> QED
    BY <1>0, <1>1, <2>1, <2>4 DEF DispatchTyped, Budgeted
<1> QED
  BY <1>2, <1>3, <1>4, <1>5, <1>6, <1>7, <1>8, <1>9 DEF DispatchNext, Around

LEMMA DispatchTypedIs == DispatchTyped => DispatchTypeOK
  BY DEF DispatchTyped, DispatchHolds, Shapes, JobStates, Budgeted, DispatchTypeOK

LanesTyped ==
  /\ RouteHolds /\ LanesTypeOK

LEMMA LanesTypedStarts == RouteInit /\ ChoiceInit => LanesTyped
  BY LanesAssumption
     DEF RouteInit, ChoiceInit, LanesTyped, RouteHolds, Pinned, LanesTypeOK, LanesAssumption

LEMMA LanesTypedStep ==
  ASSUME LanesTyped, [RouteNext]_routeVars, [ChoiceNext]_choiceVars
  PROVE  LanesTyped'
<1>1. RouteHolds'
  BY RouteStep DEF LanesTyped
<1>0. LanesTypeOK /\ MaxHours \in Nat
  BY LanesAssumption DEF LanesTyped, LanesAssumption
<1> DEFINE RoutesTyped ==
             /\ request \in {"none", "pending", "confirmed"}
             /\ routeAsked \in RouteNames \cup {Unrouted} /\ pin \in Models \cup {Unrouted}
             /\ served \in Models \cup {Unknown}
             /\ turnOutcome \in {"none", "verified", "environment"}
           ChoicesTyped ==
             /\ hour \in 1..MaxHours /\ benched \in [Lanes -> 0..MaxHours]
             /\ picked.lane \in Lanes
<1>2. RoutesTyped'
  <2>1. CASE DaemonRestarts \/ ConfirmsUnrouted \/ UNCHANGED routeVars
    BY <1>0, <2>1 DEF DaemonRestarts, ConfirmsUnrouted, routeVars, LanesTypeOK
  <2>2. CASE StagesRoute
    <3>1. registry # Unrouted => registry.default \in RouteNames \cup {Unrouted}
      BY <1>0, RoutesAssumption DEF LanesTypeOK, RoutesAssumption
    <3> QED
      BY <1>0, <2>2, <3>1 DEF StagesRoute, LanesTypeOK
  <2>3. CASE ConfirmsRoute
    <3>1. AdmittedIn(registry, routeAsked) /\ registry \in Registries
      BY <1>0, <2>3 DEF ConfirmsRoute, Resolves, LanesTypeOK
    <3>2. registry.route[routeAsked] \in [model : Models, admitted : BOOLEAN]
      BY <3>1, RoutesAssumption DEF RoutesAssumption, AdmittedIn, Entry
    <3> QED
      BY <1>0, <2>3, <3>2 DEF ConfirmsRoute, LanesTypeOK
  <2>4. CASE RunsTurn
    BY <1>0, <2>4 DEF RunsTurn, LanesTypeOK
  <2> QED
    BY <2>1, <2>2, <2>3, <2>4 DEF RouteNext
<1>3. ChoicesTyped'
  <2>1. CASE HourPasses \/ RunIsLedgered \/ UNCHANGED choiceVars
    BY <1>0, <2>1 DEF HourPasses, RunIsLedgered, choiceVars, LanesTypeOK
  <2>2. CASE MarksExhausted
    <3>1. PICK l \in Lanes, until \in {hour + 1, MaxHours} :
            benched' = [benched EXCEPT ![l] = until]
      BY <2>2 DEF MarksExhausted
    <3>2. hour \in 1..MaxHours /\ hour < MaxHours /\ UNCHANGED <<hour, picked>>
      BY <1>0, <2>2 DEF MarksExhausted, LanesTypeOK
    <3>3. until \in 0..MaxHours
      BY <1>0, <3>2
    <3> QED
      BY <1>0, <3>1, <3>2, <3>3 DEF LanesTypeOK
  <2>3. CASE Chooses
    <3>1. picked'.lane \in Lanes
      BY <2>3, LanesAssumption
         DEF Chooses, ChoosesMeasured, ChoosesDeclared, Degrades, FallsToFloor, Measured,
             Usable, LanesAssumption
    <3> QED
      BY <1>0, <2>3, <3>1 DEF Chooses, LanesTypeOK
  <2> QED
    BY <2>1, <2>2, <2>3 DEF ChoiceNext
<1> QED
  BY <1>1, <1>2, <1>3 DEF LanesTyped, LanesTypeOK, RouteHolds

(* All of them together, as the run takes them: a step of one component     *)
(* leaves the others as they are.                                           *)
AllTyped ==
  /\ CInv /\ LaunchTypeOK /\ DispatchTyped /\ QueueHolds /\ RowsHold
  /\ HeartTyped /\ LanesTyped /\ TreeTyped /\ CallTyped

LEMMA PartsMove ==
  [MCNext]_MCVars =>
    /\ [FleetNext]_fleetVars /\ [LaunchNext]_launchVars /\ [DispatchNext]_dispatchVars
    /\ [QueueNext]_queueVars /\ [AssignNext]_assignVars /\ [HeartNext]_heartVars
    /\ [RouteNext]_routeVars /\ [ChoiceNext]_choiceVars /\ [ExecutionNext]_execVars
  BY DEF MCNext, MCVars, FleetPart, FilePart, WavesPart, NightPart, ListPart, BeatPart,
         RoutesPart, LanesPart, ExecPart

(* Every variable of these components has its type: no queue, counter,      *)
(* clock, process or row is ever out of its range, whatever the bounds.     *)
THEOREM OperationsTypes == MCSpec => []OperationsTypeOK
<1>1. MCInit => AllTyped
  BY CInvStarts, InitLInv, DispatchTypedStarts, QueueStarts, RowsStart, HeartTypedStarts,
     LanesTypedStarts, ExecutionTypedStarts
     DEF MCInit, LInv, AllTyped
<1>2. AllTyped /\ [MCNext]_MCVars => AllTyped'
  <2> SUFFICES ASSUME AllTyped, [MCNext]_MCVars PROVE AllTyped'
    OBVIOUS
  <2>1. CInv' /\ LaunchTypeOK'
    BY PartsMove, CInvStep, LaunchTypeStep DEF AllTyped
  <2>2. DispatchTyped' /\ QueueHolds' /\ RowsHold'
    BY PartsMove, DispatchTypedStep, QueueStepHolds, RowsStep DEF AllTyped
  <2>3. HeartTyped' /\ LanesTyped'
    BY PartsMove, HeartTypedStep, LanesTypedStep DEF AllTyped
  <2>4. TreeTyped' /\ CallTyped'
    BY PartsMove, TreeStep, CallStep DEF AllTyped
  <2> QED
    BY <2>1, <2>2, <2>3, <2>4 DEF AllTyped
<1>3. AllTyped => OperationsTypeOK
  BY DispatchTypedIs, HeartTypedIs, ExecutionTypedIs
     DEF AllTyped, OperationsTypeOK, CInv, QueueHolds, RowsHold, LanesTyped
<1> QED
  BY <1>1, <1>2, <1>3, PTL DEF MCSpec

=============================================================================
