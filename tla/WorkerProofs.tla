---------------------------- MODULE WorkerProofs ----------------------------
(***************************************************************************)
(* Proofs about Worker, for every set of tasks, workers and workspaces:    *)
(* its claims, that it implements VerifyGate, and that a board's only      *)
(* worker starts no run in a state it must not see.                        *)
(*                                                                         *)
(* IInv is the inductive invariant behind TypeCorrect and NoClaimLeaks:    *)
(* ClaimIsWorked alone is not inductive, because an update that finds the  *)
(* claim gone touches nothing, and only RowsAgree says that such a row     *)
(* names no live worker.                                                   *)
(***************************************************************************)
EXTENDS Worker, TLAPS

(* Where a worker needs a row in hand, it has one. *)
HasRow == \A w \in Workers :
            pc[w] \in Working \cup {"unclaim", "claim", "breaker"} => task[w] \in Tasks

(* claim_lock is set in the running rows and in no other. *)
RowsAgree == \A t \in Tasks : claim[t] # NoWorker <=> status[t] = "running"

IInv == TypeOK /\ HasRow /\ RowsAgree /\ ClaimIsWorked

(* TypeOK by the groups of variables that actions change together. *)
RowTypes ==
  /\ status \in [Tasks -> Status]
  /\ claim \in [Tasks -> Workers \cup {NoWorker, Gone}]
  /\ pid \in [Tasks -> Workers \cup {NoWorker, Gone}]
  /\ expired \in [Tasks -> BOOLEAN]

CountTypes ==
  /\ failures \in [Tasks -> 0..FailureLimit]
  /\ envAttempts \in [Tasks -> 0..EnvLimit]
  /\ waiting \in [Tasks -> BOOLEAN]

WorkerTypes ==
  /\ pc \in [Workers -> Points]
  /\ task \in [Workers -> Tasks \cup {NoTask}]
  /\ rows \in [Workers -> SUBSET (Tasks \X Pids)]
  /\ verdict \in [Workers -> {"none", "logic", "environment"}]

FsTypes ==
  /\ dirt \in [Workspaces -> SUBSET (Workers \cup OtherSources)]
  /\ survivors \in SUBSET Workspaces

Groups ==
  /\ RowTypes /\ CountTypes /\ WorkerTypes /\ FsTypes
  /\ quarantine \in SUBSET Workspaces
  /\ disturbances \in 0..MaxDisturbances

LEMMA TypeGroups == TypeOK <=> Groups
  BY DEF TypeOK, BoardTypeOK, Groups, RowTypes, CountTypes, WorkerTypes, FsTypes

LEMMA TypeGroupsNext == Groups' => TypeOK'
  BY DEF TypeOK, BoardTypeOK, Groups, RowTypes, CountTypes, WorkerTypes, FsTypes

-----------------------------------------------------------------------------
(* The row updates and the ends of an attempt keep the types. *)

LEMMA UnclaimTypes ==
  ASSUME RowTypes, NEW t, NEW s \in Status, Unclaim(t, s)
  PROVE  RowTypes'
  BY DEF RowTypes, Unclaim

LEMMA ReclaimTypes ==
  ASSUME RowTypes, NEW t, ReclaimTask(t)
  PROVE  RowTypes'
  BY UnclaimTypes DEF ReclaimTask, RowTypes, rowVars, Status

LEMMA SettleTypes ==
  ASSUME RowTypes, NEW w, NEW t, NEW s \in Status, SettleAs(w, t, s)
  PROVE  RowTypes'
  BY UnclaimTypes DEF SettleAs, RowTypes, rowVars

LEMMA EndAttemptTypes ==
  ASSUME WorkerTypes, NEW w \in Workers, EndAttempt(w)
  PROVE  WorkerTypes'
  BY DEF WorkerTypes, EndAttempt, Home, Goto, Points

LEMMA GotoTypes ==
  ASSUME WorkerTypes, NEW w \in Workers, NEW p \in Points, Goto(w, p),
         UNCHANGED <<task, rows, verdict>>
  PROVE  WorkerTypes'
  BY DEF WorkerTypes, Goto

LEMMA DisturbTypes ==
  ASSUME disturbances \in 0..MaxDisturbances, Disturb \/ Calm
  PROVE  disturbances' \in 0..MaxDisturbances
  BY WorkerAssumption DEF Disturb, Calm

LEMMA PlaceType ==
  ASSUME HasRow, NEW w \in Workers, pc[w] \in Working
  PROVE  Place(w) \in Workspaces
  BY BoardAssumption DEF HasRow, Place

LEMMA SettleLogicCounts ==
  ASSUME CountTypes, NEW w \in Workers, SettleLogic(w)
  PROVE  CountTypes'
<1>1. failures' = failures
  BY DEF SettleLogic
<1>2. envAttempts' \in [Tasks -> 0..EnvLimit]
  BY BoardAssumption DEF SettleLogic, CountTypes
<1>3. waiting' \in [Tasks -> BOOLEAN]
  BY DEF SettleLogic, CountTypes
<1> QED BY <1>1, <1>2, <1>3 DEF CountTypes

LEMMA BreakerCounts ==
  ASSUME CountTypes, NEW w \in Workers, task[w] \in Tasks, Breaker(w)
  PROVE  CountTypes'
<1>1. UNCHANGED <<envAttempts, waiting>>
  BY DEF Breaker
<1>2. failures' = [failures EXCEPT ![task[w]] =
                     IF failures[task[w]] < FailureLimit
                       THEN failures[task[w]] + 1 ELSE failures[task[w]]]
  BY DEF Breaker, RecordTaskFailure
<1>3. failures[task[w]] \in 0..FailureLimit
  BY DEF CountTypes
<1>4. failures' \in [Tasks -> 0..FailureLimit]
  BY <1>2, <1>3, BoardAssumption DEF CountTypes
<1> QED BY <1>1, <1>4 DEF CountTypes

LEMMA SettleEnvironmentCounts ==
  ASSUME CountTypes, NEW w \in Workers, task[w] \in Tasks, SettleEnvironment(w)
  PROVE  CountTypes'
<1>1. failures' = failures
  BY DEF SettleEnvironment
<1>2. envAttempts' \in [Tasks -> 0..EnvLimit]
  <2>1. CASE Exhausted(envAttempts[task[w]] + 1)
    BY <2>1 DEF SettleEnvironment, CountTypes
  <2>2. CASE ~Exhausted(envAttempts[task[w]] + 1)
    <3>1. envAttempts[task[w]] \in 0..EnvLimit
      BY DEF CountTypes
    <3>2. envAttempts[task[w]] + 1 \in 0..EnvLimit
      BY <2>2, <3>1, BoardAssumption DEF Exhausted
    <3> QED BY <3>2 DEF SettleEnvironment, CountTypes
  <2> QED BY <2>1, <2>2
<1>3. waiting' \in [Tasks -> BOOLEAN]
  BY DEF SettleEnvironment, CountTypes
<1> QED BY <1>1, <1>2, <1>3 DEF CountTypes

LEMMA InitIInv == Init => IInv
  BY BoardAssumption, WorkerAssumption
  DEF Init, BoardInit, IInv, TypeOK, BoardTypeOK, Status, Points, HasRow,
      RowsAgree, ClaimIsWorked, Working, Pids

-----------------------------------------------------------------------------

(* Every step keeps the types. *)
LEMMA TypeStep ==
  ASSUME IInv, [Next]_vars
  PROVE  TypeOK'
<1>0. Groups
  BY TypeGroups DEF IInv
<1>1. ASSUME NEW w \in Workers, Start(w)
      PROVE  TypeOK'
  BY <1>1, BoardAssumption, WorkerAssumption
  DEF IInv, TypeOK, BoardTypeOK, HasRow, Start, Proceed, At, Goto, Calm,
      rowVars, countVars, fsVars, boardVars, Working, Points, Status,
      OtherSources, Pids
<1>2. ASSUME NEW w \in Workers, ReleaseStale(w)
      PROVE  TypeOK'
  BY <1>2, BoardAssumption, WorkerAssumption
  DEF IInv, TypeOK, BoardTypeOK, HasRow, ReleaseStale, ReleaseStaleClaims,
      DeadWorkers, StaleTasks, At, Goto, Calm, rowVars, countVars, fsVars,
      boardVars, Working, Points, Status, OtherSources, Pids
<1>3. ASSUME NEW w \in Workers, SweepSnapshot(w)
      PROVE  TypeOK'
  BY <1>3, BoardAssumption, WorkerAssumption
  DEF IInv, TypeOK, BoardTypeOK, HasRow, SweepSnapshot, StaleTasks, At,
      Goto, Calm, rowVars, countVars, fsVars, boardVars, Working, Points,
      Status, OtherSources, Pids
<1>4. ASSUME NEW w \in Workers, SweepUnclaim(w)
      PROVE  TypeOK'
  <2>1. RowTypes'
    BY <1>0, <1>4, ReclaimTypes
    DEF Groups, SweepUnclaim
  <2>2. WorkerTypes'
    BY <1>0, <1>4
    DEF Groups, SweepUnclaim, WorkerTypes, Goto, Points
  <2>3. /\ CountTypes' /\ FsTypes'
       /\ quarantine' \in SUBSET Workspaces
       /\ disturbances' \in 0..MaxDisturbances
    BY <1>0, <1>4
    DEF Groups, SweepUnclaim, Calm, CountTypes, countVars, FsTypes, fsVars
  <2> QED BY <2>1, <2>2, <2>3, TypeGroupsNext DEF Groups
<1>5. ASSUME NEW w \in Workers, SweepDone(w)
      PROVE  TypeOK'
  BY <1>5, BoardAssumption, WorkerAssumption
  DEF IInv, TypeOK, BoardTypeOK, HasRow, SweepDone, Proceed, At, Goto,
      Calm, rowVars, countVars, fsVars, boardVars, Working, Points,
      Status, OtherSources, Pids
<1>6. ASSUME NEW w \in Workers, SelectTask(w)
      PROVE  TypeOK'
  BY <1>6, BoardAssumption, WorkerAssumption
  DEF IInv, TypeOK, BoardTypeOK, HasRow, SelectTask, Selectable,
      ReadyTasks, At, Goto, Calm, rowVars, countVars, fsVars, boardVars,
      Working, Points, Status, OtherSources, Pids
<1>7. ASSUME NEW w \in Workers, SelectNone(w)
      PROVE  TypeOK'
  BY <1>7, BoardAssumption, WorkerAssumption
  DEF IInv, TypeOK, BoardTypeOK, HasRow, SelectNone, EndAttempt, Home, At,
      Goto, Calm, rowVars, countVars, fsVars, boardVars, Working, Points,
      Status, OtherSources, Pids
<1>8. ASSUME NEW w \in Workers, Claim(w)
      PROVE  TypeOK'
  <2>1. RowTypes'
    BY <1>0, <1>8
    DEF Groups, Claim, ClaimTask, RowTypes, rowVars, Status
  <2>2. WorkerTypes'
    BY <1>0, <1>8, EndAttemptTypes, GotoTypes
    DEF Groups, Claim, Points
  <2>3. /\ CountTypes' /\ FsTypes'
       /\ quarantine' \in SUBSET Workspaces
       /\ disturbances' \in 0..MaxDisturbances
    BY <1>0, <1>8
    DEF Groups, Claim, Calm, CountTypes, countVars, FsTypes, fsVars
  <2> QED BY <2>1, <2>2, <2>3, TypeGroupsNext DEF Groups
<1>9. ASSUME NEW w \in Workers, RegisterPid(w)
      PROVE  TypeOK'
  <2>1. RowTypes'
    BY <1>0, <1>9, ReclaimTypes
    DEF Groups, RegisterPid, RowTypes
  <2>2. WorkerTypes'
    BY <1>0, <1>9, EndAttemptTypes, GotoTypes
    DEF Groups, RegisterPid, Points
  <2>3. /\ CountTypes' /\ FsTypes'
       /\ quarantine' \in SUBSET Workspaces
       /\ disturbances' \in 0..MaxDisturbances
    BY <1>0, <1>9, DisturbTypes
    DEF Groups, RegisterPid, CountTypes, countVars, FsTypes, fsVars
  <2> QED BY <2>1, <2>2, <2>3, TypeGroupsNext DEF Groups
<1>10. ASSUME NEW w \in Workers, Precheck(w)
       PROVE  TypeOK'
  <2>1. RowTypes'
    BY <1>0, <1>10, SettleTypes
    DEF Groups, Precheck, BlockTask, RowTypes, rowVars, Status
  <2>2. WorkerTypes'
    BY <1>0, <1>10, EndAttemptTypes, GotoTypes
    DEF Groups, Precheck, Points
  <2>3. /\ CountTypes' /\ FsTypes'
       /\ quarantine' \in SUBSET Workspaces
       /\ disturbances' \in 0..MaxDisturbances
    BY <1>0, <1>10
    DEF Groups, Precheck, Calm, CountTypes, countVars, FsTypes, fsVars
  <2> QED BY <2>1, <2>2, <2>3, TypeGroupsNext DEF Groups
<1>11. ASSUME NEW w \in Workers, Skip(w)
       PROVE  TypeOK'
  <2>1. RowTypes'
    BY <1>0, <1>11, ReclaimTypes
    DEF Groups, Skip
  <2>2. WorkerTypes'
    BY <1>0, <1>11, EndAttemptTypes
    DEF Groups, Skip
  <2>3. /\ CountTypes' /\ FsTypes'
       /\ quarantine' \in SUBSET Workspaces
       /\ disturbances' \in 0..MaxDisturbances
    BY <1>0, <1>11
    DEF Groups, Skip, Calm, CountTypes, countVars, FsTypes, fsVars
  <2> QED BY <2>1, <2>2, <2>3, TypeGroupsNext DEF Groups
<1>12. ASSUME NEW w \in Workers, Gates(w)
       PROVE  TypeOK'
  BY <1>12, BoardAssumption, WorkerAssumption
  DEF IInv, TypeOK, BoardTypeOK, HasRow, Gates, At, Goto, Calm, rowVars,
      countVars, fsVars, boardVars, Working, Points, Status, OtherSources,
      Pids
<1>13. ASSUME NEW w \in Workers, AgentWrites(w)
       PROVE  TypeOK'
  BY <1>13, BoardAssumption, WorkerAssumption
  DEF IInv, TypeOK, BoardTypeOK, HasRow, AgentWrites, Place, workerVars,
      At, Goto, Calm, rowVars, countVars, fsVars, boardVars, Working,
      Points, Status, OtherSources, Pids
<1>14. ASSUME NEW w \in Workers, AgentEnds(w)
       PROVE  TypeOK'
  <2>1. Place(w) \in Workspaces
    BY <1>0, <1>14, PlaceType
    DEF AgentEnds, At, Working, IInv
  <2>2. WorkerTypes'
    BY <1>0, <1>14
    DEF Groups, AgentEnds, TreeSurvives, FailAs, Proceed, WorkerTypes,
        Goto, Points
  <2>3. FsTypes'
    BY <1>0, <1>14, <2>1
    DEF Groups, AgentEnds, TreeSurvives, Proceed, FsTypes, fsVars
  <2>4. /\ RowTypes' /\ CountTypes'
       /\ quarantine' \in SUBSET Workspaces
       /\ disturbances' \in 0..MaxDisturbances
    BY <1>0, <1>14, DisturbTypes
    DEF Groups, AgentEnds, TreeSurvives, FailAs, Proceed, boardVars,
        RowTypes, CountTypes
  <2> QED BY <2>1, <2>2, <2>3, <2>4, TypeGroupsNext DEF Groups
<1>15. ASSUME NEW w \in Workers, VerifyEnds(w)
       PROVE  TypeOK'
  <2>1. Place(w) \in Workspaces
    BY <1>0, <1>15, PlaceType
    DEF VerifyEnds, At, Working, IInv
  <2>2. WorkerTypes'
    BY <1>0, <1>15
    DEF Groups, VerifyEnds, TreeSurvives, FailAs, WorkerTypes, Goto,
        Points
  <2>3. FsTypes'
    BY <1>0, <1>15, <2>1
    DEF Groups, VerifyEnds, TreeSurvives, FsTypes
  <2>4. /\ RowTypes' /\ CountTypes'
       /\ quarantine' \in SUBSET Workspaces
       /\ disturbances' \in 0..MaxDisturbances
    BY <1>0, <1>15, DisturbTypes
    DEF Groups, VerifyEnds, TreeSurvives, FailAs, boardVars, RowTypes,
        CountTypes
  <2> QED BY <2>1, <2>2, <2>3, <2>4, TypeGroupsNext DEF Groups
<1>16. ASSUME NEW w \in Workers, Complete(w)
       PROVE  TypeOK'
  BY <1>16, BoardAssumption, WorkerAssumption
  DEF IInv, TypeOK, BoardTypeOK, HasRow, Complete, SettleAs, Owns,
      Unclaim, Relabel, EndAttempt, Home, Place, At, Goto, Calm, rowVars,
      countVars, fsVars, boardVars, Working, Points, Status, OtherSources,
      Pids
<1>17. ASSUME NEW w \in Workers, Restore(w)
       PROVE  TypeOK'
  BY <1>17, BoardAssumption, WorkerAssumption
  DEF IInv, TypeOK, BoardTypeOK, HasRow, Restore, Place, Disturb, At,
      Goto, Calm, rowVars, countVars, fsVars, boardVars, Working, Points,
      Status, OtherSources, Pids
<1>18. ASSUME NEW w \in Workers, Inspect(w)
       PROVE  TypeOK'
  BY <1>18, BoardAssumption, WorkerAssumption
  DEF IInv, TypeOK, BoardTypeOK, HasRow, Inspect, Proceed, At, Goto, Calm,
      rowVars, countVars, fsVars, boardVars, Working, Points, Status,
      OtherSources, Pids
<1>19. ASSUME NEW w \in Workers, SettleLogic(w)
       PROVE  TypeOK'
  <2>1. RowTypes'
    BY <1>0, <1>19, SettleTypes
    DEF Groups, SettleLogic, Status
  <2>2. WorkerTypes'
    BY <1>0, <1>19, EndAttemptTypes, GotoTypes
    DEF Groups, SettleLogic, Points
  <2>3. CountTypes'
    BY <1>0, <1>19, SettleLogicCounts
    DEF Groups
  <2>4. /\ FsTypes'
       /\ quarantine' \in SUBSET Workspaces
       /\ disturbances' \in 0..MaxDisturbances
    BY <1>0, <1>19
    DEF Groups, SettleLogic, Calm, FsTypes, fsVars
  <2> QED BY <2>1, <2>2, <2>3, <2>4, TypeGroupsNext DEF Groups
<1>20. ASSUME NEW w \in Workers, Breaker(w)
       PROVE  TypeOK'
  <2>1. task[w] \in Tasks
    BY <1>0, <1>20
    DEF Breaker, At, IInv, HasRow
  <2>2. CountTypes'
    BY <1>0, <1>20, <2>1, BreakerCounts
    DEF Groups
  <2>3. RowTypes'
    BY <1>0, <1>20
    DEF Groups, Breaker, RecordTaskFailure, RowTypes, Status
  <2>4. WorkerTypes'
    BY <1>0, <1>20, EndAttemptTypes
    DEF Groups, Breaker
  <2>5. /\ FsTypes'
       /\ quarantine' \in SUBSET Workspaces
       /\ disturbances' \in 0..MaxDisturbances
    BY <1>0, <1>20
    DEF Groups, Breaker, Calm, FsTypes, fsVars
  <2> QED BY <2>1, <2>2, <2>3, <2>4, <2>5, TypeGroupsNext DEF Groups
<1>21. ASSUME NEW w \in Workers, SettleEnvironment(w)
       PROVE  TypeOK'
  <2>1. task[w] \in Tasks
    BY <1>0, <1>21
    DEF SettleEnvironment, At, IInv, HasRow, Working
  <2>2. RowTypes'
    BY <1>0, <1>21, SettleTypes
    DEF Groups, SettleEnvironment, Status
  <2>3. WorkerTypes'
    BY <1>0, <1>21, EndAttemptTypes
    DEF Groups, SettleEnvironment
  <2>4. CountTypes'
    BY <1>0, <1>21, <2>1, SettleEnvironmentCounts
    DEF Groups
  <2>5. /\ FsTypes'
       /\ quarantine' \in SUBSET Workspaces
       /\ disturbances' \in 0..MaxDisturbances
    BY <1>0, <1>21
    DEF Groups, SettleEnvironment, Calm, FsTypes, fsVars
  <2> QED BY <2>1, <2>2, <2>3, <2>4, <2>5, TypeGroupsNext DEF Groups
<1>22. ASSUME NEW w \in Workers, QuarantineStop(w)
       PROVE  TypeOK'
  <2>1. Place(w) \in Workspaces
    BY <1>0, <1>22, PlaceType
    DEF QuarantineStop, At, Working, IInv
  <2>2. WorkerTypes'
    BY <1>0, <1>22, GotoTypes
    DEF Groups, QuarantineStop, Points
  <2>3. /\ RowTypes' /\ CountTypes' /\ FsTypes'
       /\ quarantine' \in SUBSET Workspaces
       /\ disturbances' \in 0..MaxDisturbances
    BY <1>0, <1>22, <2>1
    DEF Groups, QuarantineStop, Calm, RowTypes, rowVars, CountTypes,
        countVars, FsTypes, fsVars
  <2> QED BY <2>1, <2>2, <2>3, TypeGroupsNext DEF Groups
<1>23. ASSUME NEW w \in Workers, Exit(w)
       PROVE  TypeOK'
  BY <1>23, BoardAssumption, WorkerAssumption
  DEF IInv, TypeOK, BoardTypeOK, HasRow, Exit, ProcessEnds, ForgetProcess,
      At, Goto, Calm, rowVars, countVars, fsVars, boardVars, Working,
      Points, Status, OtherSources, Pids
<1>24. ASSUME NEW w \in Workers, Crash(w)
       PROVE  TypeOK'
  <2>1. RowTypes'
    BY <1>0, <1>24
    DEF Groups, Crash, ProcessEnds, ForgetProcess, RowTypes
  <2>2. WorkerTypes'
    BY <1>0, <1>24
    DEF Groups, Crash, ProcessEnds, Goto, WorkerTypes, Points, Pids
  <2>3. FsTypes'
    BY <1>0, <1>24, PlaceType
    DEF Groups, Crash, FsTypes, OtherSources, IInv, Working
  <2>4. /\ CountTypes'
       /\ quarantine' \in SUBSET Workspaces
       /\ disturbances' \in 0..MaxDisturbances
    BY <1>0, <1>24, DisturbTypes
    DEF Groups, Crash, ProcessEnds, CountTypes, countVars
  <2> QED BY <2>1, <2>2, <2>3, <2>4, TypeGroupsNext DEF Groups
<1>25. ASSUME NEW w \in Workers, NEW r \in rows[w], SweepRow(w, r)
       PROVE  TypeOK'
  BY <1>25, BoardAssumption, WorkerAssumption
  DEF IInv, TypeOK, BoardTypeOK, HasRow, SweepRow, Disturb, At, Goto,
      Calm, rowVars, countVars, fsVars, boardVars, Working, Points,
      Status, OtherSources, Pids
<1>26. ASSUME NEW t \in Tasks, ExpireLease(t)
       PROVE  TypeOK'
  BY <1>26, BoardAssumption, WorkerAssumption
  DEF IInv, TypeOK, BoardTypeOK, HasRow, ExpireLease, workerVars, At,
      Goto, Calm, rowVars, countVars, fsVars, boardVars, Working, Points,
      Status, OtherSources, Pids
<1>27. ASSUME NEW t \in Tasks, BackoffEnds(t)
       PROVE  TypeOK'
  BY <1>27, BoardAssumption, WorkerAssumption
  DEF IInv, TypeOK, BoardTypeOK, HasRow, BackoffEnds, BackoffElapses,
      BoardOnly, workerVars, At, Goto, Calm, rowVars, countVars, fsVars,
      boardVars, Working, Points, Status, OtherSources, Pids
<1>28. ASSUME NEW t \in Tasks, RetryTask(t), BoardOnly
       PROVE  TypeOK'
  BY <1>28, BoardAssumption, WorkerAssumption
  DEF IInv, TypeOK, BoardTypeOK, HasRow, RetryTask, BoardOnly, workerVars,
      At, Goto, Calm, rowVars, countVars, fsVars, boardVars, Working,
      Points, Status, OtherSources, Pids
<1>29. ASSUME NEW t \in Tasks, CancelTask(t), BoardOnly
       PROVE  TypeOK'
  BY <1>29, BoardAssumption, WorkerAssumption
  DEF IInv, TypeOK, BoardTypeOK, HasRow, CancelTask, Unclaim, BoardOnly,
      workerVars, At, Goto, Calm, rowVars, countVars, fsVars, boardVars,
      Working, Points, Status, OtherSources, Pids
<1>30. ASSUME NEW ws \in Workspaces, ClearQuarantine(ws), BoardOnly
       PROVE  TypeOK'
  BY <1>30, BoardAssumption, WorkerAssumption
  DEF IInv, TypeOK, BoardTypeOK, HasRow, ClearQuarantine, BoardOnly,
      workerVars, At, Goto, Calm, rowVars, countVars, fsVars, boardVars,
      Working, Points, Status, OtherSources, Pids
<1>31. ASSUME NEW ws \in Workspaces, WorkspaceStep(ws)
       PROVE  TypeOK'
  BY <1>31, BoardAssumption, WorkerAssumption
  DEF IInv, TypeOK, BoardTypeOK, HasRow, WorkspaceStep, SurvivorWrites,
      SurvivorDies, OperatorEdits, OperatorCleans, Disturb, workerVars,
      At, Goto, Calm, rowVars, countVars, fsVars, boardVars, Working,
      Points, Status, OtherSources, Pids
<1>32. ASSUME UNCHANGED vars
       PROVE  TypeOK'
  BY <1>32, BoardAssumption, WorkerAssumption
  DEF IInv, TypeOK, BoardTypeOK, HasRow, vars, workerVars, At, Goto, Calm,
      rowVars, countVars, fsVars, boardVars, Working, Points, Status,
      OtherSources, Pids
<1> QED
  BY <1>1, <1>2, <1>3, <1>4, <1>5, <1>6, <1>7, <1>8, <1>9, <1>10, <1>11,
     <1>12, <1>13, <1>14, <1>15, <1>16, <1>17, <1>18, <1>19, <1>20,
     <1>21, <1>22, <1>23, <1>24, <1>25, <1>26, <1>27, <1>28, <1>29,
     <1>30, <1>31, <1>32
  DEF Next, WorkerStep, Progress, OperatorStep

-----------------------------------------------------------------------------
(* Most steps leave the board's rows and every worker's row in hand alone:  *)
(* at most one worker moves on, within the execution of its row, out of it  *)
(* with the claim kept, or between two points before a claim.               *)
Onward(w, p) ==
  \/ /\ pc[w] \in Working \ {"register"}
     /\ p \in (Working \ {"register"}) \cup {"exit"}
  \/ pc[w] = "off" /\ p = "release"
  \/ pc[w] = "sweep" /\ p = "select"

Aside ==
  /\ UNCHANGED <<rowVars, task, rows>>
  /\ \/ pc' = pc
     \/ \E w \in Workers, p \in Points : Goto(w, p) /\ Onward(w, p)

(* The actions that are such steps. *)
AsideStep ==
  \/ \E w \in Workers :
       \/ Start(w) \/ SweepDone(w) \/ Gates(w) \/ AgentWrites(w) \/ AgentEnds(w)
       \/ VerifyEnds(w) \/ Restore(w) \/ Inspect(w) \/ QuarantineStop(w)
  \/ \E t \in Tasks : BackoffEnds(t)
  \/ \E ws \in Workspaces : WorkspaceStep(ws) \/ (ClearQuarantine(ws) /\ BoardOnly)
  \/ UNCHANGED vars

LEMMA AsideSteps ==
  ASSUME AsideStep
  PROVE  Aside
<1> USE DEF Aside, Onward, Points, Working, Goto, boardVars, rowVars
<1>1. ASSUME NEW w \in Workers, Start(w)
      PROVE  Aside
  BY <1>1
  DEF Start, Proceed, At
<1>2. ASSUME NEW w \in Workers, SweepDone(w)
      PROVE  Aside
  BY <1>2
  DEF SweepDone, Proceed, At
<1>3. ASSUME NEW w \in Workers, Gates(w)
      PROVE  Aside
  BY <1>3
  DEF Gates, At
<1>4. ASSUME NEW w \in Workers, AgentWrites(w)
      PROVE  Aside
  BY <1>4
  DEF AgentWrites, workerVars, At
<1>5. ASSUME NEW w \in Workers, AgentEnds(w)
      PROVE  Aside
  BY <1>5
  DEF AgentEnds, TreeSurvives, FailAs, Proceed, At
<1>6. ASSUME NEW w \in Workers, VerifyEnds(w)
      PROVE  Aside
  BY <1>6
  DEF VerifyEnds, TreeSurvives, FailAs, At
<1>7. ASSUME NEW w \in Workers, Restore(w)
      PROVE  Aside
  BY <1>7
  DEF Restore, At
<1>8. ASSUME NEW w \in Workers, Inspect(w)
      PROVE  Aside
  BY <1>8
  DEF Inspect, Proceed, At
<1>9. ASSUME NEW w \in Workers, QuarantineStop(w)
      PROVE  Aside
  BY <1>9
  DEF QuarantineStop, At
<1>10. ASSUME NEW t \in Tasks, BackoffEnds(t)
       PROVE  Aside
  BY <1>10
  DEF BackoffEnds, BackoffElapses, BoardOnly, workerVars
<1>11. ASSUME NEW ws \in Workspaces, ClearQuarantine(ws), BoardOnly
       PROVE  Aside
  BY <1>11
  DEF ClearQuarantine, BoardOnly, workerVars
<1>12. ASSUME NEW ws \in Workspaces, WorkspaceStep(ws)
       PROVE  Aside
  BY <1>12
  DEF WorkspaceStep, SurvivorWrites, SurvivorDies, OperatorEdits,
      OperatorCleans, workerVars
<1>13. ASSUME UNCHANGED vars
       PROVE  Aside
  BY <1>13
  DEF vars, workerVars, rowVars
<1> QED
  BY <1>1, <1>2, <1>3, <1>4, <1>5, <1>6, <1>7, <1>8, <1>9, <1>10, <1>11,
     <1>12, <1>13
  DEF AsideStep

LEMMA AsidePcs ==
  ASSUME IInv, Aside
  PROVE  \A w \in Workers :
           \/ pc'[w] = pc[w]
           \/ Onward(w, pc'[w])
  BY DEF IInv, TypeOK, Aside, Goto

LEMMA AsideKeepsIInv ==
  ASSUME IInv, Aside
  PROVE  HasRow' /\ RowsAgree' /\ ClaimIsWorked'
<1>1. HasRow'
  BY AsidePcs DEF IInv, HasRow, Aside, Onward, Working
<1>2. RowsAgree'
  BY DEF IInv, RowsAgree, Aside, rowVars
<1>3. ClaimIsWorked'
  BY AsidePcs DEF IInv, ClaimIsWorked, Aside, Onward, rowVars, Working
<1> QED BY <1>1, <1>2, <1>3

(* Every other step, conjunct by conjunct. *)
LEMMA ClaimStep ==
  ASSUME IInv, [Next]_vars
  PROVE  HasRow' /\ RowsAgree' /\ ClaimIsWorked'
<1> USE BoardAssumption, WorkerAssumption
    DEF At, Goto, Calm, rowVars, countVars, fsVars, boardVars, Working
<1>1. ASSUME NEW w \in Workers, ReleaseStale(w)
      PROVE  HasRow' /\ RowsAgree' /\ ClaimIsWorked'
  <2>1. HasRow'
    BY <1>1
    DEF IInv, TypeOK, HasRow, ReleaseStale, ReleaseStaleClaims,
        DeadWorkers, StaleTasks
  <2>2. RowsAgree'
    BY <1>1
    DEF IInv, TypeOK, BoardTypeOK, RowsAgree, HasRow, ReleaseStale,
        ReleaseStaleClaims, DeadWorkers, StaleTasks
  <2>3. ClaimIsWorked'
    BY <1>1
    DEF IInv, TypeOK, BoardTypeOK, ClaimIsWorked, HasRow, RowsAgree,
        ReleaseStale, ReleaseStaleClaims, DeadWorkers, StaleTasks
  <2> QED BY <2>1, <2>2, <2>3
<1>2. ASSUME NEW w \in Workers, SweepSnapshot(w)
      PROVE  HasRow' /\ RowsAgree' /\ ClaimIsWorked'
  <2>1. HasRow'
    BY <1>2
    DEF IInv, TypeOK, HasRow, SweepSnapshot, StaleTasks
  <2>2. RowsAgree'
    BY <1>2
    DEF IInv, TypeOK, BoardTypeOK, RowsAgree, HasRow, SweepSnapshot,
        StaleTasks
  <2>3. ClaimIsWorked'
    BY <1>2
    DEF IInv, TypeOK, BoardTypeOK, ClaimIsWorked, HasRow, RowsAgree,
        SweepSnapshot, StaleTasks
  <2> QED BY <2>1, <2>2, <2>3
<1>3. ASSUME NEW w \in Workers, SweepUnclaim(w)
      PROVE  HasRow' /\ RowsAgree' /\ ClaimIsWorked'
  <2>1. HasRow'
    BY <1>3
    DEF IInv, TypeOK, HasRow, SweepUnclaim, ReclaimTask, Unclaim
  <2>2. RowsAgree'
    BY <1>3
    DEF IInv, TypeOK, BoardTypeOK, RowsAgree, HasRow, SweepUnclaim,
        ReclaimTask, Unclaim
  <2>3. ClaimIsWorked'
    BY <1>3
    DEF IInv, TypeOK, BoardTypeOK, ClaimIsWorked, HasRow, RowsAgree,
        SweepUnclaim, ReclaimTask, Unclaim
  <2> QED BY <2>1, <2>2, <2>3
<1>4. ASSUME NEW w \in Workers, SelectTask(w)
      PROVE  HasRow' /\ RowsAgree' /\ ClaimIsWorked'
  <2>1. HasRow'
    BY <1>4
    DEF IInv, TypeOK, HasRow, SelectTask, Selectable, ReadyTasks
  <2>2. RowsAgree'
    BY <1>4
    DEF IInv, TypeOK, BoardTypeOK, RowsAgree, HasRow, SelectTask,
        Selectable, ReadyTasks
  <2>3. ClaimIsWorked'
    <3>1. PICK t \in Tasks : task' = [task EXCEPT ![w] = t]
      BY <1>4 DEF SelectTask, Selectable, ReadyTasks
    <3>2. pc[w] = "select" /\ pc' = [pc EXCEPT ![w] = "claim"] /\ claim' = claim
      BY <1>4 DEF SelectTask
    <3>3. \A u \in Tasks : claim[u] # w
      BY <3>2 DEF IInv, ClaimIsWorked
    <3> QED BY <3>1, <3>2, <3>3 DEF IInv, TypeOK, ClaimIsWorked
  <2> QED BY <2>1, <2>2, <2>3
<1>5. ASSUME NEW w \in Workers, SelectNone(w)
      PROVE  HasRow' /\ RowsAgree' /\ ClaimIsWorked'
  <2>1. HasRow'
    BY <1>5
    DEF IInv, TypeOK, HasRow, SelectNone, EndAttempt, Home
  <2>2. RowsAgree'
    BY <1>5
    DEF IInv, TypeOK, BoardTypeOK, RowsAgree, HasRow, SelectNone,
        EndAttempt, Home
  <2>3. ClaimIsWorked'
    BY <1>5
    DEF IInv, TypeOK, BoardTypeOK, ClaimIsWorked, HasRow, RowsAgree,
        SelectNone, EndAttempt, Home
  <2> QED BY <2>1, <2>2, <2>3
<1>6. ASSUME NEW w \in Workers, Claim(w)
      PROVE  HasRow' /\ RowsAgree' /\ ClaimIsWorked'
  <2>1. HasRow'
    BY <1>6
    DEF IInv, TypeOK, HasRow, Claim, ClaimTask, EndAttempt, Home
  <2>2. RowsAgree'
    BY <1>6
    DEF IInv, TypeOK, BoardTypeOK, RowsAgree, HasRow, Claim, ClaimTask,
        EndAttempt, Home
  <2>3. ClaimIsWorked'
    BY <1>6
    DEF IInv, TypeOK, BoardTypeOK, ClaimIsWorked, HasRow, RowsAgree,
        Claim, ClaimTask, EndAttempt, Home
  <2> QED BY <2>1, <2>2, <2>3
<1>7. ASSUME NEW w \in Workers, RegisterPid(w)
      PROVE  HasRow' /\ RowsAgree' /\ ClaimIsWorked'
  <2>1. HasRow'
    BY <1>7
    DEF IInv, TypeOK, HasRow, RegisterPid, ReclaimTask, Unclaim,
        EndAttempt, Home, Disturb
  <2>2. RowsAgree'
    BY <1>7
    DEF IInv, TypeOK, BoardTypeOK, RowsAgree, HasRow, RegisterPid,
        ReclaimTask, Unclaim, EndAttempt, Home, Disturb
  <2>3. ClaimIsWorked'
    BY <1>7
    DEF IInv, TypeOK, BoardTypeOK, ClaimIsWorked, HasRow, RowsAgree,
        RegisterPid, ReclaimTask, Unclaim, EndAttempt, Home, Disturb
  <2> QED BY <2>1, <2>2, <2>3
<1>8. ASSUME NEW w \in Workers, Precheck(w)
      PROVE  HasRow' /\ RowsAgree' /\ ClaimIsWorked'
  <2>1. HasRow'
    BY <1>8
    DEF IInv, TypeOK, HasRow, Precheck, BlockTask, SettleAs, Owns,
        Unclaim, EndAttempt, Home
  <2>2. RowsAgree'
    BY <1>8
    DEF IInv, TypeOK, BoardTypeOK, RowsAgree, HasRow, Precheck, BlockTask,
        SettleAs, Owns, Unclaim, EndAttempt, Home
  <2>3. ClaimIsWorked'
    BY <1>8
    DEF IInv, TypeOK, BoardTypeOK, ClaimIsWorked, HasRow, RowsAgree,
        Precheck, BlockTask, SettleAs, Owns, Unclaim, EndAttempt, Home
  <2> QED BY <2>1, <2>2, <2>3
<1>9. ASSUME NEW w \in Workers, Skip(w)
      PROVE  HasRow' /\ RowsAgree' /\ ClaimIsWorked'
  <2>1. HasRow'
    BY <1>9
    DEF IInv, TypeOK, HasRow, Skip, ReclaimTask, Unclaim, EndAttempt, Home
  <2>2. RowsAgree'
    BY <1>9
    DEF IInv, TypeOK, BoardTypeOK, RowsAgree, HasRow, Skip, ReclaimTask,
        Unclaim, EndAttempt, Home
  <2>3. ClaimIsWorked'
    BY <1>9
    DEF IInv, TypeOK, BoardTypeOK, ClaimIsWorked, HasRow, RowsAgree, Skip,
        ReclaimTask, Unclaim, EndAttempt, Home
  <2> QED BY <2>1, <2>2, <2>3
<1>10. ASSUME NEW w \in Workers, Complete(w)
       PROVE  HasRow' /\ RowsAgree' /\ ClaimIsWorked'
  <2>1. HasRow'
    BY <1>10
    DEF IInv, TypeOK, HasRow, Complete, SettleAs, Owns, Unclaim, Relabel,
        EndAttempt, Home
  <2>2. RowsAgree'
    BY <1>10
    DEF IInv, TypeOK, BoardTypeOK, RowsAgree, HasRow, Complete, SettleAs,
        Owns, Unclaim, Relabel, EndAttempt, Home
  <2>3. ClaimIsWorked'
    BY <1>10
    DEF IInv, TypeOK, BoardTypeOK, ClaimIsWorked, HasRow, RowsAgree,
        Complete, SettleAs, Owns, Unclaim, Relabel, EndAttempt, Home
  <2> QED BY <2>1, <2>2, <2>3
<1>11. ASSUME NEW w \in Workers, SettleLogic(w)
       PROVE  HasRow' /\ RowsAgree' /\ ClaimIsWorked'
  <2>1. HasRow'
    BY <1>11
    DEF IInv, TypeOK, HasRow, SettleLogic, SettleAs, Owns, Unclaim,
        EndAttempt, Home
  <2>2. RowsAgree'
    BY <1>11
    DEF IInv, TypeOK, BoardTypeOK, RowsAgree, HasRow, SettleLogic,
        SettleAs, Owns, Unclaim, EndAttempt, Home
  <2>3. ClaimIsWorked'
    BY <1>11
    DEF IInv, TypeOK, BoardTypeOK, ClaimIsWorked, HasRow, RowsAgree,
        SettleLogic, SettleAs, Owns, Unclaim, EndAttempt, Home
  <2> QED BY <2>1, <2>2, <2>3
<1>12. ASSUME NEW w \in Workers, Breaker(w)
       PROVE  HasRow' /\ RowsAgree' /\ ClaimIsWorked'
  <2>1. HasRow'
    BY <1>12
    DEF IInv, TypeOK, HasRow, Breaker, RecordTaskFailure, EndAttempt, Home
  <2>2. RowsAgree'
    BY <1>12
    DEF IInv, TypeOK, BoardTypeOK, RowsAgree, HasRow, Breaker,
        RecordTaskFailure, EndAttempt, Home
  <2>3. ClaimIsWorked'
    BY <1>12
    DEF IInv, TypeOK, BoardTypeOK, ClaimIsWorked, HasRow, RowsAgree,
        Breaker, RecordTaskFailure, EndAttempt, Home
  <2> QED BY <2>1, <2>2, <2>3
<1>13. ASSUME NEW w \in Workers, SettleEnvironment(w)
       PROVE  HasRow' /\ RowsAgree' /\ ClaimIsWorked'
  <2>1. HasRow'
    BY <1>13
    DEF IInv, TypeOK, HasRow, SettleEnvironment, Exhausted, SettleAs,
        Owns, Unclaim, EndAttempt, Home
  <2>2. RowsAgree'
    BY <1>13
    DEF IInv, TypeOK, BoardTypeOK, RowsAgree, HasRow, SettleEnvironment,
        Exhausted, SettleAs, Owns, Unclaim, EndAttempt, Home
  <2>3. ClaimIsWorked'
    BY <1>13
    DEF IInv, TypeOK, BoardTypeOK, ClaimIsWorked, HasRow, RowsAgree,
        SettleEnvironment, Exhausted, SettleAs, Owns, Unclaim, EndAttempt,
        Home
  <2> QED BY <2>1, <2>2, <2>3
<1>14. ASSUME NEW w \in Workers, Exit(w)
       PROVE  HasRow' /\ RowsAgree' /\ ClaimIsWorked'
  <2>1. HasRow'
    BY <1>14
    DEF IInv, TypeOK, HasRow, Exit, ProcessEnds, ForgetProcess
  <2>2. RowsAgree'
    BY <1>14
    DEF IInv, TypeOK, BoardTypeOK, RowsAgree, HasRow, Exit, ProcessEnds,
        ForgetProcess
  <2>3. ClaimIsWorked'
    BY <1>14
    DEF IInv, TypeOK, BoardTypeOK, ClaimIsWorked, HasRow, RowsAgree, Exit,
        ProcessEnds, ForgetProcess
  <2> QED BY <2>1, <2>2, <2>3
<1>15. ASSUME NEW w \in Workers, Crash(w)
       PROVE  HasRow' /\ RowsAgree' /\ ClaimIsWorked'
  <2>1. HasRow'
    BY <1>15
    DEF IInv, TypeOK, HasRow, Crash, ProcessEnds, ForgetProcess, Disturb
  <2>2. RowsAgree'
    BY <1>15
    DEF IInv, TypeOK, BoardTypeOK, RowsAgree, HasRow, Crash, ProcessEnds,
        ForgetProcess, Disturb
  <2>3. ClaimIsWorked'
    BY <1>15
    DEF IInv, TypeOK, BoardTypeOK, ClaimIsWorked, HasRow, RowsAgree,
        Crash, ProcessEnds, ForgetProcess, Disturb
  <2> QED BY <2>1, <2>2, <2>3
<1>16. ASSUME NEW w \in Workers, NEW r \in rows[w], SweepRow(w, r)
       PROVE  HasRow' /\ RowsAgree' /\ ClaimIsWorked'
  <2>1. HasRow'
    BY <1>16
    DEF IInv, TypeOK, HasRow, SweepRow, Disturb
  <2>2. RowsAgree'
    BY <1>16
    DEF IInv, TypeOK, BoardTypeOK, RowsAgree, HasRow, SweepRow, Disturb
  <2>3. ClaimIsWorked'
    BY <1>16
    DEF IInv, TypeOK, BoardTypeOK, ClaimIsWorked, HasRow, RowsAgree,
        SweepRow, Disturb
  <2> QED BY <2>1, <2>2, <2>3
<1>17. ASSUME NEW t \in Tasks, ExpireLease(t)
       PROVE  HasRow' /\ RowsAgree' /\ ClaimIsWorked'
  <2>1. HasRow'
    BY <1>17
    DEF IInv, TypeOK, HasRow, ExpireLease, workerVars
  <2>2. RowsAgree'
    BY <1>17
    DEF IInv, TypeOK, BoardTypeOK, RowsAgree, HasRow, ExpireLease,
        workerVars
  <2>3. ClaimIsWorked'
    BY <1>17
    DEF IInv, TypeOK, BoardTypeOK, ClaimIsWorked, HasRow, RowsAgree,
        ExpireLease, workerVars
  <2> QED BY <2>1, <2>2, <2>3
<1>18. ASSUME NEW t \in Tasks, RetryTask(t), BoardOnly
       PROVE  HasRow' /\ RowsAgree' /\ ClaimIsWorked'
  <2>1. HasRow'
    BY <1>18
    DEF IInv, TypeOK, HasRow, RetryTask, BoardOnly, workerVars
  <2>2. RowsAgree'
    BY <1>18
    DEF IInv, TypeOK, BoardTypeOK, RowsAgree, HasRow, RetryTask,
        BoardOnly, workerVars
  <2>3. ClaimIsWorked'
    BY <1>18
    DEF IInv, TypeOK, BoardTypeOK, ClaimIsWorked, HasRow, RowsAgree,
        RetryTask, BoardOnly, workerVars
  <2> QED BY <2>1, <2>2, <2>3
<1>19. ASSUME NEW t \in Tasks, CancelTask(t), BoardOnly
       PROVE  HasRow' /\ RowsAgree' /\ ClaimIsWorked'
  <2>1. HasRow'
    BY <1>19
    DEF IInv, TypeOK, HasRow, CancelTask, Unclaim, BoardOnly, workerVars
  <2>2. RowsAgree'
    BY <1>19
    DEF IInv, TypeOK, BoardTypeOK, RowsAgree, HasRow, CancelTask, Unclaim,
        BoardOnly, workerVars
  <2>3. ClaimIsWorked'
    BY <1>19
    DEF IInv, TypeOK, BoardTypeOK, ClaimIsWorked, HasRow, RowsAgree,
        CancelTask, Unclaim, BoardOnly, workerVars
  <2> QED BY <2>1, <2>2, <2>3
<1>20. ASSUME AsideStep
       PROVE  HasRow' /\ RowsAgree' /\ ClaimIsWorked'
  BY <1>20, AsideSteps, AsideKeepsIInv
<1> QED
  BY <1>1, <1>2, <1>3, <1>4, <1>5, <1>6, <1>7, <1>8, <1>9, <1>10, <1>11,
     <1>12, <1>13, <1>14, <1>15, <1>16, <1>17, <1>18, <1>19, <1>20
  DEF Next, WorkerStep, Progress, OperatorStep, AsideStep

LEMMA IInvStep == IInv /\ [Next]_vars => IInv'
  BY TypeStep, ClaimStep DEF IInv

(* Type correctness: in particular the failure count never passes the limit *)
(* at which the breaker blocks a task, and the environment series never     *)
(* passes the retries worker.py allows it.                                  *)
THEOREM TypeCorrect == Spec => []TypeOK
<1>1. Init => IInv
  BY InitIInv
<1>2. IInv /\ [Next]_vars => IInv'
  BY IInvStep
<1>3. IInv => TypeOK
  BY DEF IInv
<1> QED BY <1>1, <1>2, <1>3, PTL DEF Spec

(* No exit of an attempt leaves a claim with a live worker that has moved   *)
(* on: not a skip, a refused completion, a failed registration, a           *)
(* quarantine or a sweep, whoever else acts on the row.                     *)
THEOREM NoClaimLeaks == Spec => []ClaimIsWorked
<1>1. Init => IInv
  BY InitIInv
<1>2. IInv /\ [Next]_vars => IInv'
  BY IInvStep
<1>3. IInv => ClaimIsWorked
  BY DEF IInv
<1> QED BY <1>1, <1>2, <1>3, PTL DEF Spec

-----------------------------------------------------------------------------
(* One agent per task, where no lease lapses between a tick's release step *)
(* and the sweep after it.  Then a sweep never finds a row: every running   *)
(* row whose lease is over has just been released or extended.              *)

NothingToSweep ==
  /\ \A w \in Workers : pc[w] = "snapshot" => StaleTasks = {}
  /\ \A w \in Workers : rows[w] = {} /\ pc[w] # "unclaim"

(* Who executes a row holds it, with its pid in it from registration on;    *)
(* until then the lease is fresh.                                           *)
WorksOwnRow ==
  \A w \in Workers : pc[w] \in Working =>
    /\ status[task[w]] = "running"
    /\ claim[task[w]] = w
    /\ IF pc[w] = "register" THEN pid[task[w]] = NoWorker /\ ~expired[task[w]]
                             ELSE pid[task[w]] = w

LInv == IInv /\ NothingToSweep /\ WorksOwnRow

LEMMA InitLInv == Init => LInv
  BY InitIInv
  DEF Init, LInv, NothingToSweep, WorksOwnRow, Working

LEMMA AsideKeepsLInv ==
  ASSUME LInv, Aside
  PROVE  NothingToSweep' /\ WorksOwnRow'
<1>1. IInv
  BY DEF LInv
<1>2. NothingToSweep'
  BY <1>1, AsidePcs DEF LInv, NothingToSweep, StaleTasks, Aside, Onward, rowVars, Working
<1>3. WorksOwnRow'
  BY <1>1, AsidePcs DEF LInv, WorksOwnRow, Aside, Onward, rowVars, Working
<1> QED BY <1>2, <1>3

(* A worker that gives its row back, or finds it gone, and stops working. *)
GivesRow(w) == \/ UNCHANGED rowVars
               \/ \E s \in Status \ {"running"} : Unclaim(task[w], s)

Leaves(w) ==
  /\ GivesRow(w)
  /\ \E p \in {"release", "exit", "breaker"} : Goto(w, p)
  /\ \A v \in Workers \ {w} : task'[v] = task[v]
  /\ UNCHANGED rows

LEMMA Leaving ==
  ASSUME LInv, NEW w \in Workers, pc[w] \in Working, Leaves(w)
  PROVE  NothingToSweep' /\ WorksOwnRow'
<1> DEFINE t == task[w]
<1>1. t \in Tasks /\ claim[t] = w
  BY DEF LInv, IInv, HasRow, WorksOwnRow
<1>2. \A u \in Tasks \ {t} :
        /\ status'[u] = status[u] /\ claim'[u] = claim[u]
        /\ pid'[u] = pid[u] /\ expired'[u] = expired[u]
  BY <1>1 DEF LInv, IInv, TypeOK, BoardTypeOK, Leaves, GivesRow, Unclaim, rowVars
<1>3. status'[t] # "running" \/ UNCHANGED rowVars
  BY <1>1 DEF LInv, IInv, TypeOK, BoardTypeOK, Leaves, GivesRow, Unclaim
<1>4. \A v \in Workers \ {w} : pc[v] \in Working => task[v] \in Tasks \ {t}
  BY <1>1 DEF LInv, IInv, HasRow, WorksOwnRow
<1>5. /\ \A v \in Workers \ {w} : pc'[v] = pc[v] /\ task'[v] = task[v]
      /\ pc'[w] \in {"release", "exit", "breaker"}
      /\ rows' = rows
  BY DEF LInv, IInv, TypeOK, Leaves, Goto
<1>6. NothingToSweep'
  BY <1>2, <1>3, <1>5 DEF LInv, NothingToSweep, StaleTasks, rowVars
<1>7. WorksOwnRow'
  BY <1>2, <1>4, <1>5 DEF LInv, WorksOwnRow, Working
<1> QED BY <1>6, <1>7

(* Each way an attempt that no longer holds or no longer needs its row ends.*)
LEMMA EndAttemptLeaves ==
  ASSUME LInv, NEW w \in Workers, EndAttempt(w), GivesRow(w)
  PROVE  Leaves(w)
  BY DEF LInv, IInv, TypeOK, Leaves, EndAttempt, Home, Goto

LEMMA ReclaimLeaves ==
  ASSUME NEW w, ReclaimTask(task[w])
  PROVE  GivesRow(w)
  BY DEF ReclaimTask, GivesRow, Status

LEMMA SettleLeaves ==
  ASSUME NEW w, NEW s \in Status \ {"running"}, SettleAs(w, task[w], s)
  PROVE  GivesRow(w)
  BY DEF SettleAs, GivesRow

(* A worker that wins a claim takes a row nobody executes. *)
LEMMA WinClaim ==
  ASSUME LInv, NEW w \in Workers, NEW t \in Tasks, task[w] = t,
         claim[t] = NoWorker, ClaimTask(t, w),
         pc' = [pc EXCEPT ![w] = "register"],
         UNCHANGED <<task, rows>>
  PROVE  NothingToSweep' /\ WorksOwnRow'
<1>1. \A u \in Tasks \ {t} :
        /\ status'[u] = status[u] /\ claim'[u] = claim[u]
        /\ pid'[u] = pid[u] /\ expired'[u] = expired[u]
  BY DEF LInv, IInv, TypeOK, BoardTypeOK, ClaimTask
<1>2. /\ status'[t] = "running" /\ claim'[t] = w
      /\ pid'[t] = NoWorker /\ ~expired'[t]
  BY DEF LInv, IInv, TypeOK, BoardTypeOK, ClaimTask
<1>3. \A v \in Workers : pc'[v] = IF v = w THEN "register" ELSE pc[v]
  BY DEF LInv, IInv, TypeOK
<1>4. \A v \in Workers \ {w} : pc[v] \in Working => task[v] \in Tasks \ {t}
  BY BoardAssumption DEF LInv, IInv, HasRow, WorksOwnRow
<1>5. NothingToSweep'
  BY <1>1, <1>2, <1>3 DEF LInv, NothingToSweep, StaleTasks
<1>6. WorksOwnRow'
  BY <1>1, <1>2, <1>3, <1>4 DEF LInv, WorksOwnRow
<1> QED BY <1>5, <1>6

(* Every step: the sweep goes on finding nothing, and nobody takes a row    *)
(* from the worker that executes it.                                        *)
LEMMA OwnStep ==
  ASSUME LInv, [Next]_vars, ~LeaseMayLapseMidTick
  PROVE  NothingToSweep' /\ WorksOwnRow'
<1>0. task \in [Workers -> Tasks \cup {NoTask}]
  BY DEF LInv, IInv, TypeOK
<1>1. ASSUME NEW w \in Workers, ReleaseStale(w)
      PROVE  NothingToSweep' /\ WorksOwnRow'
  <2>1. NothingToSweep'
    BY <1>1, BoardAssumption, WorkerAssumption
    DEF LInv, IInv, TypeOK, BoardTypeOK, NothingToSweep, StaleTasks,
        ReleaseStale, ReleaseStaleClaims, DeadWorkers, At, Goto, Calm,
        rowVars, countVars, fsVars, boardVars, Working
  <2>2. WorksOwnRow'
    BY <1>1, BoardAssumption, WorkerAssumption
    DEF LInv, IInv, TypeOK, BoardTypeOK, HasRow, RowsAgree,
        NothingToSweep, WorksOwnRow, StaleTasks, ReleaseStale,
        ReleaseStaleClaims, DeadWorkers, At, Goto, Calm, rowVars,
        countVars, fsVars, boardVars, Working
  <2> QED BY <2>1, <2>2
<1>2. ASSUME NEW w \in Workers, SweepSnapshot(w)
      PROVE  NothingToSweep' /\ WorksOwnRow'
  <2>1. NothingToSweep'
    BY <1>2, BoardAssumption, WorkerAssumption
    DEF LInv, IInv, TypeOK, BoardTypeOK, NothingToSweep, StaleTasks,
        SweepSnapshot, At, Goto, Calm, rowVars, countVars, fsVars,
        boardVars, Working
  <2>2. WorksOwnRow'
    BY <1>2, BoardAssumption, WorkerAssumption
    DEF LInv, IInv, TypeOK, BoardTypeOK, HasRow, RowsAgree,
        NothingToSweep, WorksOwnRow, StaleTasks, SweepSnapshot, At, Goto,
        Calm, rowVars, countVars, fsVars, boardVars, Working
  <2> QED BY <2>1, <2>2
<1>3. ASSUME NEW w \in Workers, SweepUnclaim(w)
      PROVE  NothingToSweep' /\ WorksOwnRow'
  <2>1. NothingToSweep'
    BY <1>3, BoardAssumption, WorkerAssumption
    DEF LInv, IInv, TypeOK, BoardTypeOK, NothingToSweep, StaleTasks,
        SweepUnclaim, ReclaimTask, Unclaim, At, Goto, Calm, rowVars,
        countVars, fsVars, boardVars, Working
  <2>2. WorksOwnRow'
    BY <1>3, BoardAssumption, WorkerAssumption
    DEF LInv, IInv, TypeOK, BoardTypeOK, HasRow, RowsAgree,
        NothingToSweep, WorksOwnRow, StaleTasks, SweepUnclaim,
        ReclaimTask, Unclaim, At, Goto, Calm, rowVars, countVars, fsVars,
        boardVars, Working
  <2> QED BY <2>1, <2>2
<1>4. ASSUME NEW w \in Workers, SelectTask(w)
      PROVE  NothingToSweep' /\ WorksOwnRow'
  <2>1. NothingToSweep'
    BY <1>4, BoardAssumption, WorkerAssumption
    DEF LInv, IInv, TypeOK, BoardTypeOK, NothingToSweep, StaleTasks,
        SelectTask, Selectable, ReadyTasks, At, Goto, Calm, rowVars,
        countVars, fsVars, boardVars, Working
  <2>2. WorksOwnRow'
    BY <1>4, BoardAssumption, WorkerAssumption
    DEF LInv, IInv, TypeOK, BoardTypeOK, HasRow, RowsAgree,
        NothingToSweep, WorksOwnRow, StaleTasks, SelectTask, Selectable,
        ReadyTasks, At, Goto, Calm, rowVars, countVars, fsVars, boardVars,
        Working
  <2> QED BY <2>1, <2>2
<1>5. ASSUME NEW w \in Workers, SelectNone(w)
      PROVE  NothingToSweep' /\ WorksOwnRow'
  <2>1. NothingToSweep'
    BY <1>5, BoardAssumption, WorkerAssumption
    DEF LInv, IInv, TypeOK, BoardTypeOK, NothingToSweep, StaleTasks,
        SelectNone, EndAttempt, Home, At, Goto, Calm, rowVars, countVars,
        fsVars, boardVars, Working
  <2>2. WorksOwnRow'
    BY <1>5, BoardAssumption, WorkerAssumption
    DEF LInv, IInv, TypeOK, BoardTypeOK, HasRow, RowsAgree,
        NothingToSweep, WorksOwnRow, StaleTasks, SelectNone, EndAttempt,
        Home, At, Goto, Calm, rowVars, countVars, fsVars, boardVars,
        Working
  <2> QED BY <2>1, <2>2
<1>6. ASSUME NEW w \in Workers, Claim(w)
      PROVE  NothingToSweep' /\ WorksOwnRow'
  <2>1. CASE status[task[w]] = "ready" /\ claim[task[w]] = NoWorker
    <3>1. task[w] \in Tasks
      BY <1>6 DEF LInv, IInv, HasRow, Claim, At
    <3> QED BY <1>6, <2>1, <3>1, WinClaim DEF Claim, Goto
  <2>2. CASE ~(status[task[w]] = "ready" /\ claim[task[w]] = NoWorker)
    <3>1. EndAttempt(w) /\ UNCHANGED rowVars
      BY <1>6, <2>2 DEF Claim
    <3>2. NothingToSweep'
      BY <3>1 DEF LInv, IInv, TypeOK, EndAttempt, Home, Goto, NothingToSweep, StaleTasks, rowVars
    <3>3. WorksOwnRow'
      BY <3>1 DEF LInv, IInv, TypeOK, EndAttempt, Home, Goto, WorksOwnRow, rowVars, Working
    <3> QED BY <3>2, <3>3
  <2> QED BY <2>1, <2>2
<1>7. ASSUME NEW w \in Workers, RegisterPid(w)
      PROVE  NothingToSweep' /\ WorksOwnRow'
  <2>1. pc[w] = "register"
    BY <1>7 DEF RegisterPid, At
  <2>2. CASE ReclaimTask(task[w]) /\ EndAttempt(w)
    BY <2>1, <2>2, ReclaimLeaves, EndAttemptLeaves, Leaving DEF Working
  <2>3. CASE /\ pid' = [pid EXCEPT ![task[w]] = w]
             /\ Goto(w, "precheck")
             /\ UNCHANGED <<status, claim, expired, task, rows>>
    <3>1. NothingToSweep'
      BY <2>1, <2>3 DEF LInv, IInv, TypeOK, BoardTypeOK, Goto, NothingToSweep, StaleTasks
    <3>2. WorksOwnRow'
      BY <2>1, <2>3 DEF LInv, IInv, TypeOK, BoardTypeOK, HasRow, Goto, WorksOwnRow, Working
    <3> QED BY <3>1, <3>2
  <2> QED BY <1>7, <2>2, <2>3 DEF RegisterPid
<1>8. ASSUME NEW w \in Workers, Precheck(w)
      PROVE  NothingToSweep' /\ WorksOwnRow'
  <2>1. pc[w] = "precheck"
    BY <1>8 DEF Precheck, At
  <2>2. CASE BlockTask(w, task[w]) /\ EndAttempt(w)
    <3>1. "blocked" \in Status \ {"running"}
      BY DEF Status
    <3> QED BY <2>1, <2>2, <3>1, SettleLeaves, EndAttemptLeaves, Leaving DEF BlockTask, Working
  <2>3. CASE ~Quarantined(w)
    <3>1. Aside
      BY <1>8, <2>1, <2>3 DEF Precheck, Aside, Onward, Working, Points
    <3> QED BY <3>1, AsideKeepsLInv
  <2> QED BY <1>8, <2>2, <2>3 DEF Precheck
<1>9. ASSUME NEW w \in Workers, Skip(w)
      PROVE  NothingToSweep' /\ WorksOwnRow'
  BY <1>9, ReclaimLeaves, EndAttemptLeaves, Leaving DEF Skip, At, Working
<1>10. ASSUME NEW w \in Workers, Complete(w)
       PROVE  NothingToSweep' /\ WorksOwnRow'
  <2>1. "done" \in Status \ {"running"}
    BY DEF Status
  <2> QED BY <1>10, <2>1, SettleLeaves, EndAttemptLeaves, Leaving DEF Complete, At, Working
<1>11. ASSUME NEW w \in Workers, SettleLogic(w)
       PROVE  NothingToSweep' /\ WorksOwnRow'
  <2>1. "ready" \in Status \ {"running"}
    BY DEF Status
  <2>2. GivesRow(w)
    BY <1>11, <2>1, SettleLeaves DEF SettleLogic
  <2>3. ASSUME Goto(w, "breaker"), UNCHANGED <<task, rows>>
        PROVE  Leaves(w)
    BY <2>2, <2>3 DEF Leaves, Goto
  <2>4. ASSUME EndAttempt(w)
        PROVE  Leaves(w)
    BY <2>2, <2>4, EndAttemptLeaves
  <2>5. Leaves(w)
    BY <1>11, <2>3, <2>4 DEF SettleLogic
  <2> QED BY <1>11, <2>5, Leaving DEF SettleLogic, At, Working
<1>12. ASSUME NEW w \in Workers, Breaker(w)
       PROVE  NothingToSweep' /\ WorksOwnRow'
  <2>1. NothingToSweep'
    BY <1>12, BoardAssumption, WorkerAssumption
    DEF LInv, IInv, TypeOK, BoardTypeOK, NothingToSweep, StaleTasks,
        Breaker, RecordTaskFailure, EndAttempt, Home, At, Goto, Calm,
        rowVars, countVars, fsVars, boardVars, Working
  <2>2. WorksOwnRow'
    BY <1>12, BoardAssumption, WorkerAssumption
    DEF LInv, IInv, TypeOK, BoardTypeOK, HasRow, RowsAgree,
        NothingToSweep, WorksOwnRow, StaleTasks, Breaker,
        RecordTaskFailure, EndAttempt, Home, At, Goto, Calm, rowVars,
        countVars, fsVars, boardVars, Working
  <2> QED BY <2>1, <2>2
<1>13. ASSUME NEW w \in Workers, SettleEnvironment(w)
       PROVE  NothingToSweep' /\ WorksOwnRow'
  <2>1. {"ready", "blocked"} \subseteq Status \ {"running"}
    BY DEF Status
  <2>2. PICK s \in {"ready", "blocked"} : SettleAs(w, task[w], s)
    BY <1>13 DEF SettleEnvironment
  <2>3. GivesRow(w)
    BY <2>1, <2>2, SettleLeaves
  <2> QED BY <1>13, <2>3, EndAttemptLeaves, Leaving DEF SettleEnvironment, At, Working
<1>14. ASSUME NEW w \in Workers, Exit(w)
       PROVE  NothingToSweep' /\ WorksOwnRow'
  <2>1. NothingToSweep'
    BY <1>14, BoardAssumption, WorkerAssumption
    DEF LInv, IInv, TypeOK, BoardTypeOK, NothingToSweep, StaleTasks, Exit,
        ProcessEnds, ForgetProcess, At, Goto, Calm, rowVars, countVars,
        fsVars, boardVars, Working
  <2>2. WorksOwnRow'
    BY <1>14, BoardAssumption, WorkerAssumption
    DEF LInv, IInv, TypeOK, BoardTypeOK, HasRow, RowsAgree,
        NothingToSweep, WorksOwnRow, StaleTasks, Exit, ProcessEnds,
        ForgetProcess, At, Goto, Calm, rowVars, countVars, fsVars,
        boardVars, Working
  <2> QED BY <2>1, <2>2
<1>15. ASSUME NEW w \in Workers, Crash(w)
       PROVE  NothingToSweep' /\ WorksOwnRow'
  <2>1. NothingToSweep'
    BY <1>15, BoardAssumption, WorkerAssumption
    DEF LInv, IInv, TypeOK, BoardTypeOK, NothingToSweep, StaleTasks,
        Crash, ProcessEnds, ForgetProcess, Disturb, At, Goto, Calm,
        rowVars, countVars, fsVars, boardVars, Working
  <2>2. WorksOwnRow'
    BY <1>15, BoardAssumption, WorkerAssumption
    DEF LInv, IInv, TypeOK, BoardTypeOK, HasRow, RowsAgree,
        NothingToSweep, WorksOwnRow, StaleTasks, Crash, ProcessEnds,
        ForgetProcess, Disturb, At, Goto, Calm, rowVars, countVars,
        fsVars, boardVars, Working
  <2> QED BY <2>1, <2>2
<1>16. ASSUME NEW w \in Workers, NEW r \in rows[w], SweepRow(w, r)
       PROVE  NothingToSweep' /\ WorksOwnRow'
  <2>1. NothingToSweep'
    BY <1>16, BoardAssumption, WorkerAssumption
    DEF LInv, IInv, TypeOK, BoardTypeOK, NothingToSweep, StaleTasks,
        SweepRow, Disturb, At, Goto, Calm, rowVars, countVars, fsVars,
        boardVars, Working
  <2>2. WorksOwnRow'
    BY <1>16, BoardAssumption, WorkerAssumption
    DEF LInv, IInv, TypeOK, BoardTypeOK, HasRow, RowsAgree,
        NothingToSweep, WorksOwnRow, StaleTasks, SweepRow, Disturb, At,
        Goto, Calm, rowVars, countVars, fsVars, boardVars, Working
  <2> QED BY <2>1, <2>2
<1>17. ASSUME NEW t \in Tasks, ExpireLease(t)
       PROVE  NothingToSweep' /\ WorksOwnRow'
  <2>1. NothingToSweep'
    BY <1>17, BoardAssumption, WorkerAssumption
    DEF LInv, IInv, TypeOK, BoardTypeOK, NothingToSweep, StaleTasks,
        ExpireLease, workerVars, At, Goto, Calm, rowVars, countVars,
        fsVars, boardVars, Working
  <2>2. WorksOwnRow'
    BY <1>17, BoardAssumption, WorkerAssumption
    DEF LInv, IInv, TypeOK, BoardTypeOK, HasRow, RowsAgree,
        NothingToSweep, WorksOwnRow, StaleTasks, ExpireLease, workerVars,
        At, Goto, Calm, rowVars, countVars, fsVars, boardVars, Working
  <2> QED BY <2>1, <2>2
<1>18. ASSUME NEW t \in Tasks, RetryTask(t), BoardOnly
       PROVE  NothingToSweep' /\ WorksOwnRow'
  <2>1. NothingToSweep'
    BY <1>18, BoardAssumption, WorkerAssumption
    DEF LInv, IInv, TypeOK, BoardTypeOK, NothingToSweep, StaleTasks,
        RetryTask, BoardOnly, workerVars, At, Goto, Calm, rowVars,
        countVars, fsVars, boardVars, Working
  <2>2. WorksOwnRow'
    BY <1>18, BoardAssumption, WorkerAssumption
    DEF LInv, IInv, TypeOK, BoardTypeOK, HasRow, RowsAgree,
        NothingToSweep, WorksOwnRow, StaleTasks, RetryTask, BoardOnly,
        workerVars, At, Goto, Calm, rowVars, countVars, fsVars, boardVars,
        Working
  <2> QED BY <2>1, <2>2
<1>19. ASSUME NEW t \in Tasks, CancelTask(t), BoardOnly
       PROVE  NothingToSweep' /\ WorksOwnRow'
  <2>1. NothingToSweep'
    BY <1>19, BoardAssumption, WorkerAssumption
    DEF LInv, IInv, TypeOK, BoardTypeOK, NothingToSweep, StaleTasks,
        CancelTask, Unclaim, BoardOnly, workerVars, At, Goto, Calm,
        rowVars, countVars, fsVars, boardVars, Working
  <2>2. WorksOwnRow'
    BY <1>19, BoardAssumption, WorkerAssumption
    DEF LInv, IInv, TypeOK, BoardTypeOK, HasRow, RowsAgree,
        NothingToSweep, WorksOwnRow, StaleTasks, CancelTask, Unclaim,
        BoardOnly, workerVars, At, Goto, Calm, rowVars, countVars, fsVars,
        boardVars, Working
  <2> QED BY <2>1, <2>2
<1>20. ASSUME AsideStep
       PROVE  NothingToSweep' /\ WorksOwnRow'
  BY <1>20, AsideSteps, AsideKeepsLInv
<1> QED
  BY <1>1, <1>2, <1>3, <1>4, <1>5, <1>6, <1>7, <1>8, <1>9, <1>10, <1>11,
     <1>12, <1>13, <1>14, <1>15, <1>16, <1>17, <1>18, <1>19, <1>20
  DEF Next, WorkerStep, Progress, OperatorStep, AsideStep

(* No second worker beside a live one, for any number of workers and tasks: *)
(* if leases do not lapse between a release step and its sweep.             *)
THEOREM OneAgent ==
  ASSUME ~LeaseMayLapseMidTick
  PROVE  Spec => []OneAgentPerTask
<1>1. Init => LInv
  BY InitLInv
<1>2. LInv /\ [Next]_vars => LInv'
  BY IInvStep, OwnStep DEF LInv
<1>3. LInv => OneAgentPerTask
  BY DEF LInv, WorksOwnRow, OneAgentPerTask
<1> QED BY <1>1, <1>2, <1>3, PTL DEF Spec

-----------------------------------------------------------------------------
(* The worker implements VerifyGate.  A step is mapped by what it does to   *)
(* one row: the row is taken, given back or orphaned, its holder moves to   *)
(* another stage, or nothing of what VerifyGate sees changes.               *)

(* The stage of a holder, by where it is. *)
Level(p) == IF p = "verify" THEN "judging"
            ELSE IF p = "complete" THEN "passed" ELSE "working"

(* A worker that holds t has t in hand, so where it is decides the stage. *)
LEMMA StageByHolder ==
  ASSUME IInv, NEW t \in Tasks
  PROVE  Stage(t) = IF claim[t] \in Workers THEN Level(pc[claim[t]]) ELSE "working"
  BY DEF IInv, ClaimIsWorked, Stage, Level

LEMMA StageByHolderNext ==
  ASSUME IInv', NEW t \in Tasks
  PROVE  Stage(t)' = IF claim'[t] \in Workers THEN Level(pc'[claim'[t]]) ELSE "working"
  BY DEF IInv, ClaimIsWorked, Stage, Level

(* The phase a status stands for. *)
PhaseOf(s) ==
  CASE s = "ready"   -> "open"
    [] s = "running" -> "held"
    [] s = "done"    -> "accepted"
    [] OTHER         -> "closed"

(* Nobody but w moves, and w keeps its level or holds no row outside S. *)
Settled(w, S) ==
  /\ \A v \in Workers \ {w} : pc'[v] = pc[v]
  /\ \/ Level(pc'[w]) = Level(pc[w])
     \/ \A u \in Tasks \ S : claim[u] # w

(* Rows a step does not touch look the same to VerifyGate afterwards. *)
LEMMA Untouched ==
  ASSUME IInv, IInv', NEW w \in Workers, NEW S, Settled(w, S),
         NEW u \in Tasks \ S, status'[u] = status[u], claim'[u] = claim[u]
  PROVE  Phase(u)' = Phase(u) /\ Stage(u)' = Stage(u)
<1>1. Phase(u)' = Phase(u)
  BY DEF Phase
<1>2. CASE claim[u] \in Workers
  BY <1>1, <1>2, StageByHolder, StageByHolderNext DEF Settled
<1>3. CASE claim[u] \notin Workers
  BY <1>1, <1>3, StageByHolder, StageByHolderNext
<1> QED BY <1>1, <1>2, <1>3

(* No row changes hands and no holder changes its level: a stutter. *)
LEMMA GateStutters ==
  ASSUME IInv, IInv', NEW w \in Workers, Settled(w, {}), UNCHANGED <<status, claim>>
  PROVE  UNCHANGED Gate!vars
  BY Untouched DEF Gate!vars

(* A holder that moves within the execution of its row. *)
LEMMA HolderMoves ==
  ASSUME IInv, IInv', NEW w \in Workers, NEW t \in Tasks, claim[t] = w,
         UNCHANGED <<status, claim>>, \A v \in Workers \ {w} : pc'[v] = pc[v]
  PROVE  Gate!Move(t, Level(pc[w]), Level(pc'[w]))
<1>1. \A u \in Tasks \ {t} : claim[u] # w
  BY DEF IInv, ClaimIsWorked
<1>2. \A u \in Tasks : Phase(u)' = Phase(u)
  BY DEF Phase
<1>3. \A u \in Tasks \ {t} : Stage(u)' = Stage(u)
  BY <1>1, Untouched DEF Settled
<1>4. Stage(t) = Level(pc[w]) /\ Stage(t)' = Level(pc'[w])
  BY StageByHolder, StageByHolderNext
<1>5. Phase(t) = "held"
  BY BoardAssumption DEF IInv, RowsAgree, Phase
<1> QED BY <1>2, <1>3, <1>4, <1>5 DEF Gate!Move

(* Rows that leave `running` together. *)
LEMMA RowsLeave ==
  ASSUME IInv, IInv', NEW w \in Workers, NEW S \in SUBSET Tasks, NEW s \in Status,
         Settled(w, S),
         \A u \in S : status[u] = "running" /\ status'[u] = s /\ claim'[u] = NoWorker,
         \A u \in Tasks \ S : status'[u] = status[u] /\ claim'[u] = claim[u]
  PROVE  Gate!Release(S, PhaseOf(s))
<1>1. \A u \in S : Phase(u) = "held" /\ Phase(u)' = PhaseOf(s)
  BY DEF Phase, PhaseOf
<1>2. \A u \in S : Stage(u)' = "working"
  BY StageByHolderNext, BoardAssumption
<1>3. \A u \in Tasks \ S : Phase(u)' = Phase(u) /\ Stage(u)' = Stage(u)
  BY Untouched
<1>4. claim' = [u \in Tasks |-> IF u \in S THEN NoWorker ELSE claim[u]]
  BY DEF IInv, TypeOK, BoardTypeOK
<1> QED BY <1>1, <1>2, <1>3, <1>4 DEF Gate!Release

LEMMA RowLeaves ==
  ASSUME IInv, IInv', NEW w \in Workers, NEW t \in Tasks, NEW s \in Status,
         Settled(w, {t}), status[t] = "running", Unclaim(t, s)
  PROVE  Gate!Release({t}, PhaseOf(s))
<1>1. status'[t] = s /\ claim'[t] = NoWorker
  BY DEF IInv, TypeOK, BoardTypeOK, Unclaim
<1>2. \A u \in Tasks \ {t} : status'[u] = status[u] /\ claim'[u] = claim[u]
  BY DEF IInv, TypeOK, BoardTypeOK, Unclaim
<1> QED BY <1>1, <1>2, RowsLeave

(* A worker that ends or leaves its attempt: the row it had in hand is its  *)
(* only one, and either it gave that row back or it did not hold it.        *)
LEMMA AttemptEnds ==
  ASSUME IInv, IInv', NEW w \in Workers, NEW s \in Status, NEW t \in Tasks,
         task[w] = t, SettleAs(w, t, s), \A v \in Workers \ {w} : pc'[v] = pc[v]
  PROVE  \/ UNCHANGED Gate!vars
         \/ Owns(w, t) /\ Gate!Release({t}, PhaseOf(s))
<1>1. \A u \in Tasks \ {t} : claim[u] # w
  BY DEF IInv, ClaimIsWorked
<1>2. CASE Owns(w, t)
  BY <1>1, <1>2, RowLeaves DEF SettleAs, Owns, Settled
<1>3. CASE ~Owns(w, t)
  <2>1. claim[t] # w
    BY <1>3, BoardAssumption DEF Owns, IInv, RowsAgree
  <2> QED BY <1>1, <1>3, <2>1, GateStutters DEF SettleAs, Settled, rowVars
<1> QED BY <1>2, <1>3

(* A row handed back by its id alone. *)
LEMMA RowReclaimed ==
  ASSUME IInv, IInv', NEW w \in Workers, NEW t \in Tasks, ReclaimTask(t),
         Settled(w, {})
  PROVE  UNCHANGED Gate!vars \/ Gate!Release({t}, "open")
<1>1. CASE status[t] = "running"
  <2>1. Settled(w, {t}) /\ "ready" \in Status /\ PhaseOf("ready") = "open"
    BY DEF Settled, Status, PhaseOf
  <2> QED BY <1>1, <2>1, RowLeaves DEF ReclaimTask
<1>2. CASE status[t] # "running"
  BY <1>2, GateStutters DEF ReclaimTask, rowVars
<1> QED BY <1>1, <1>2

(* A process that ends orphans the one row it may hold. *)
LEMMA HolderGone ==
  ASSUME IInv, IInv', NEW w \in Workers, ProcessEnds(w)
  PROVE  UNCHANGED Gate!vars \/ \E t \in Tasks : Gate!HolderDies(t)
<1>1. status' = status /\ \A v \in Workers \ {w} : pc'[v] = pc[v]
  BY DEF ProcessEnds, Goto, IInv, TypeOK
<1>2. claim' = [t \in Tasks |-> IF claim[t] = w THEN Gone ELSE claim[t]]
  BY DEF ProcessEnds, ForgetProcess
<1>3. CASE \A t \in Tasks : claim[t] # w
  <2>1. claim' = claim
    BY <1>2, <1>3 DEF IInv, TypeOK, BoardTypeOK
  <2> QED BY <1>1, <1>3, <2>1, GateStutters DEF Settled
<1>4. ASSUME NEW t \in Tasks, claim[t] = w
      PROVE  Gate!HolderDies(t)
  <2>1. \A u \in Tasks \ {t} : claim[u] # w
    BY <1>4 DEF IInv, ClaimIsWorked
  <2>2. \A u \in Tasks \ {t} : Phase(u)' = Phase(u) /\ Stage(u)' = Stage(u)
    BY <1>1, <1>2, <2>1, Untouched DEF Settled
  <2>3. Phase(t)' = Phase(t)
    BY <1>1 DEF Phase
  <2>4. Stage(t)' = "working"
    BY <1>2, <1>4, StageByHolderNext, BoardAssumption
  <2>5. claim' = [claim EXCEPT ![t] = Gone]
    <3>1. claim' = [u \in Tasks |-> IF u = t THEN Gone ELSE claim[u]]
      BY <1>2, <1>4, <2>1
    <3> QED BY <3>1 DEF IInv, TypeOK, BoardTypeOK
  <2> QED BY <1>4, <2>2, <2>3, <2>4, <2>5 DEF Gate!HolderDies
<1> QED BY <1>3, <1>4

(* The steps within the execution of a row, and those outside of any: the   *)
(* verify command is reached from the agent, and passed only from there.    *)
LEMMA AsideByLevel ==
  ASSUME IInv, IInv', NEW w \in Workers, NEW p \in Points, Goto(w, p),
         UNCHANGED <<status, claim>>,
         \/ Level(pc[w]) = Level(p)
         \/ Level(pc[w]) = "working" /\ Level(p) = "judging"
         \/ Level(pc[w]) = "judging"
  PROVE  \/ UNCHANGED Gate!vars
         \/ \E t \in Tasks : Gate!Judge(t) \/ Gate!Pass(t) \/ Gate!Reject(t)
<1>1. pc'[w] = p /\ \A v \in Workers \ {w} : pc'[v] = pc[v]
  BY DEF IInv, TypeOK, Goto
<1>2. CASE Level(pc[w]) = Level(p) \/ \A t \in Tasks : claim[t] # w
  BY <1>1, <1>2, GateStutters DEF Settled
<1>3. ASSUME NEW t \in Tasks, claim[t] = w, Level(pc[w]) # Level(p)
      PROVE  Gate!Judge(t) \/ Gate!Pass(t) \/ Gate!Reject(t)
  <2>1. Gate!Move(t, Level(pc[w]), Level(p))
    BY <1>1, <1>3, HolderMoves
  <2>2. \/ Level(pc[w]) = "working" /\ Level(p) = "judging"
        \/ Level(pc[w]) = "judging" /\ Level(p) \in {"passed", "working"}
    BY <1>3 DEF Level
  <2> QED BY <2>1, <2>2 DEF Gate!Judge, Gate!Pass, Gate!Reject
<1> QED BY <1>2, <1>3

(* Every step of the worker is a step of the gate, or none. *)
LEMMA GateStep ==
  ASSUME IInv, IInv', [Next]_vars
  PROVE  [Gate!Next]_(Gate!vars)
<1> USE DEF At, Calm
<1> DEFINE Goal == Gate!Next \/ UNCHANGED Gate!vars
<1>0. \A w \in Workers : \A p :
        Goto(w, p) => pc'[w] = p /\ \A v \in Workers \ {w} : pc'[v] = pc[v]
  BY DEF Goto, IInv, TypeOK
<1>1. ASSUME NEW w \in Workers, Start(w) \/ SweepSnapshot(w) \/ SweepDone(w)
                 \/ Gates(w) \/ Restore(w) \/ Inspect(w) \/ QuarantineStop(w)
      PROVE  Goal
  <2>1. PICK p \in Points : Goto(w, p) /\ Level(pc[w]) = Level(p)
    BY <1>1 DEF Start, SweepSnapshot, SweepDone, Gates, Restore, Inspect,
                QuarantineStop, Proceed, Level, Points
  <2>2. UNCHANGED <<status, claim>>
    BY <1>1 DEF Start, SweepSnapshot, SweepDone, Gates, Restore, Inspect,
                QuarantineStop, Proceed, boardVars, rowVars
  <2> QED BY <1>0, <2>1, <2>2, GateStutters DEF Settled
<1>2. ASSUME NEW w \in Workers, AgentEnds(w) \/ VerifyEnds(w)
      PROVE  Goal
  <2>1. UNCHANGED <<status, claim>>
    BY <1>2 DEF AgentEnds, VerifyEnds, TreeSurvives, FailAs, Proceed, boardVars
  <2>2. PICK p \in {"quarantine", "restore", "verify", "complete"} :
          /\ Goto(w, p)
          /\ \/ pc[w] = "agent" /\ p # "complete"
             \/ pc[w] = "verify" /\ p # "verify"
    BY <1>2 DEF AgentEnds, VerifyEnds, TreeSurvives, FailAs, Proceed
  <2>3. /\ p \in Points
        /\ \/ Level(pc[w]) = Level(p)
           \/ Level(pc[w]) = "working" /\ Level(p) = "judging"
           \/ Level(pc[w]) = "judging"
    BY <2>2 DEF Points, Level
  <2> QED BY <2>1, <2>2, <2>3, AsideByLevel DEF Gate!Next
<1>3. ASSUME NEW w \in Workers, ReleaseStale(w)
      PROVE  Goal
  <2> DEFINE S == DeadWorkers(StaleTasks)
  <2>1. S \in SUBSET Tasks /\ \A u \in S : status[u] = "running"
    BY DEF DeadWorkers, StaleTasks
  <2>2. /\ \A u \in S : status'[u] = "ready" /\ claim'[u] = NoWorker
        /\ \A u \in Tasks \ S : status'[u] = status[u] /\ claim'[u] = claim[u]
    BY <1>3, <2>1 DEF ReleaseStale, ReleaseStaleClaims
  <2>3. Settled(w, S)
    BY <1>0, <1>3 DEF ReleaseStale, Settled, Level
  <2>4. "ready" \in Status /\ PhaseOf("ready") = "open"
    BY DEF Status, PhaseOf
  <2>5. Gate!Release(S, "open")
    BY <2>1, <2>2, <2>3, <2>4, RowsLeave
  <2> QED BY <2>1, <2>5 DEF Gate!Next
<1>4. ASSUME NEW w \in Workers, NEW r \in rows[w], SweepRow(w, r)
      PROVE  Goal
  <2>1. UNCHANGED <<status, claim>> /\ (pc' = pc \/ Goto(w, "unclaim")) /\ pc[w] = "sweep"
    BY <1>4 DEF SweepRow, boardVars
  <2>2. Settled(w, {})
    BY <1>0, <2>1 DEF Settled, Level
  <2> QED BY <2>1, <2>2, GateStutters
<1>5. ASSUME NEW w \in Workers, SweepUnclaim(w)
      PROVE  Goal
  <2>1. task[w] \in Tasks
    BY <1>5 DEF SweepUnclaim, IInv, HasRow
  <2>2. Settled(w, {})
    BY <1>0, <1>5 DEF SweepUnclaim, Settled, Level
  <2>3. ReclaimTask(task[w])
    BY <1>5 DEF SweepUnclaim
  <2> QED BY <2>1, <2>2, <2>3, RowReclaimed DEF Gate!Next
<1>6. ASSUME NEW w \in Workers, SelectTask(w) \/ SelectNone(w)
      PROVE  Goal
  <2>1. UNCHANGED <<status, claim>> /\ pc[w] = "select"
    BY <1>6 DEF SelectTask, SelectNone, boardVars
  <2>2. PICK p \in {"claim", "release", "exit"} : Goto(w, p)
    BY <1>6 DEF SelectTask, SelectNone, EndAttempt, Home
  <2>3. Settled(w, {})
    BY <1>0, <2>1, <2>2 DEF Settled, Level
  <2> QED BY <2>1, <2>3, GateStutters
<1>7. ASSUME NEW w \in Workers, Claim(w)
      PROVE  Goal
  <2>0. task[w] \in Tasks /\ pc[w] = "claim"
    BY <1>7 DEF Claim, IInv, HasRow
  <2>1. PICK t \in Tasks : t = task[w] /\ pc[w] = "claim"
    BY <2>0
  <2>2. \A u \in Tasks : claim[u] # w
    BY <2>1 DEF IInv, ClaimIsWorked, Working
  <2>3. CASE status[t] = "ready" /\ claim[t] = NoWorker
    <3>1. ClaimTask(t, w) /\ Goto(w, "register")
      BY <1>7, <2>1, <2>3 DEF Claim
    <3>2. status' = [status EXCEPT ![t] = "running"] /\ claim' = [claim EXCEPT ![t] = w]
      BY <3>1 DEF ClaimTask
    <3>3. status'[t] = "running" /\ claim'[t] = w /\ pc'[w] = "register"
      BY <1>0, <2>1, <3>1, <3>2 DEF IInv, TypeOK, BoardTypeOK
    <3>4. \A u \in Tasks \ {t} : status'[u] = status[u] /\ claim'[u] = claim[u]
      BY <2>1, <3>2 DEF IInv, TypeOK, BoardTypeOK
    <3>5. Settled(w, {t})
      BY <1>0, <2>2, <3>1 DEF Settled
    <3>6. \A u \in Tasks \ {t} : Phase(u)' = Phase(u) /\ Stage(u)' = Stage(u)
      BY <3>4, <3>5, Untouched
    <3>7. Phase(t) = "open" /\ Phase(t)' = "held"
      BY <2>3, <3>3 DEF Phase
    <3>8. Stage(t)' = "working"
      BY <2>1, <3>3, StageByHolderNext DEF Level
    <3>9. Stage(t) = "working"
      BY <2>1, <2>3, StageByHolder, BoardAssumption
    <3>10. Gate!Take(t, w)
      BY <2>1, <3>2, <3>6, <3>7, <3>8, <3>9 DEF Gate!Take
    <3> QED BY <2>1, <3>10 DEF Gate!Next
  <2>4. CASE ~(status[t] = "ready" /\ claim[t] = NoWorker)
    <3>1. UNCHANGED <<status, claim>> /\ \E p : Goto(w, p)
      BY <1>7, <2>1, <2>4 DEF Claim, EndAttempt, rowVars
    <3> QED BY <1>0, <2>2, <3>1, GateStutters DEF Settled
  <2> QED BY <2>3, <2>4
<1>8. ASSUME NEW w \in Workers, RegisterPid(w)
      PROVE  Goal
  <2>1. task[w] \in Tasks /\ pc[w] = "register"
    BY <1>8 DEF RegisterPid, IInv, HasRow, Working
  <2>2. PICK p \in {"precheck", "release", "exit"} : Goto(w, p)
    BY <1>8 DEF RegisterPid, EndAttempt, Home
  <2>3. Settled(w, {})
    BY <1>0, <2>1, <2>2 DEF Settled, Level
  <2>4. UNCHANGED <<status, claim>> \/ ReclaimTask(task[w])
    BY <1>8 DEF RegisterPid
  <2> QED BY <2>1, <2>3, <2>4, GateStutters, RowReclaimed DEF Gate!Next
<1>9. ASSUME NEW w \in Workers, Precheck(w)
      PROVE  Goal
  <2>1. task[w] \in Tasks /\ pc[w] = "precheck"
    BY <1>9 DEF Precheck, IInv, HasRow, Working
  <2>2. CASE BlockTask(w, task[w]) /\ EndAttempt(w)
    <3>1. "blocked" \in Status /\ PhaseOf("blocked") = "closed"
      BY DEF Status, PhaseOf
    <3>2. SettleAs(w, task[w], "blocked") /\ \A v \in Workers \ {w} : pc'[v] = pc[v]
      BY <1>0, <2>2 DEF BlockTask, EndAttempt
    <3> QED BY <2>1, <3>1, <3>2, AttemptEnds DEF Gate!Next
  <2>3. CASE UNCHANGED rowVars /\ \E p \in {"skip", "gates"} : Goto(w, p)
    <3>1. Settled(w, {})
      BY <1>0, <2>1, <2>3 DEF Settled, Level
    <3> QED BY <2>3, <3>1, GateStutters DEF rowVars
  <2> QED BY <1>9, <2>2, <2>3 DEF Precheck
<1>10. ASSUME NEW w \in Workers, Skip(w)
       PROVE  Goal
  <2>1. task[w] \in Tasks /\ pc[w] = "skip"
    BY <1>10 DEF Skip, IInv, HasRow, Working
  <2>2. PICK p \in {"release", "exit"} : Goto(w, p)
    BY <1>10 DEF Skip, EndAttempt, Home
  <2>3. Settled(w, {})
    BY <1>0, <2>1, <2>2 DEF Settled, Level
  <2>4. ReclaimTask(task[w])
    BY <1>10 DEF Skip
  <2> QED BY <2>1, <2>3, <2>4, RowReclaimed DEF Gate!Next
<1>11. ASSUME NEW w \in Workers, Complete(w)
       PROVE  Goal
  <2> DEFINE t == task[w]
  <2>1. t \in Tasks /\ pc[w] = "complete"
    BY <1>11 DEF Complete, IInv, HasRow, Working
  <2>2. "done" \in Status /\ PhaseOf("done") = "accepted"
    BY DEF Status, PhaseOf
  <2>3. SettleAs(w, t, "done") /\ \A v \in Workers \ {w} : pc'[v] = pc[v]
    BY <1>0, <1>11 DEF Complete, EndAttempt
  <2>4. UNCHANGED Gate!vars \/ (Owns(w, t) /\ Gate!Release({t}, "accepted"))
    BY <2>1, <2>2, <2>3, AttemptEnds
  <2>5. Owns(w, t) => Stage(t) = "passed"
    BY <2>1, StageByHolder DEF Owns, Level
  <2>6. UNCHANGED Gate!vars \/ Gate!Accept(t)
    BY <2>1, <2>4, <2>5 DEF Gate!Accept
  <2> QED BY <2>1, <2>6 DEF Gate!Next
<1>12. ASSUME NEW w \in Workers, SettleLogic(w) \/ SettleEnvironment(w)
       PROVE  Goal
  <2>1. task[w] \in Tasks
    BY <1>12 DEF SettleLogic, SettleEnvironment, IInv, HasRow, Working
  <2>2. PICK s \in {"ready", "blocked"} : SettleAs(w, task[w], s)
    BY <1>12 DEF SettleLogic, SettleEnvironment
  <2>3. s \in Status /\ PhaseOf(s) \in {"open", "closed"}
    BY DEF Status, PhaseOf
  <2>4. \A v \in Workers \ {w} : pc'[v] = pc[v]
    BY <1>0, <1>12 DEF SettleLogic, SettleEnvironment, EndAttempt
  <2>5. UNCHANGED Gate!vars \/ Gate!Release({task[w]}, PhaseOf(s))
    BY <2>1, <2>2, <2>3, <2>4, AttemptEnds
  <2> QED BY <2>1, <2>3, <2>5 DEF Gate!Next
<1>13. ASSUME NEW w \in Workers, Breaker(w)
       PROVE  Goal
  <2>0. task[w] \in Tasks /\ pc[w] = "breaker" /\ claim' = claim
    BY <1>13 DEF Breaker, IInv, HasRow
  <2>1. PICK t \in Tasks : t = task[w] /\ pc[w] = "breaker" /\ claim' = claim
    BY <2>0
  <2>2. PICK p \in {"release", "exit"} : Goto(w, p)
    BY <1>13 DEF Breaker, EndAttempt, Home
  <2>3. Settled(w, {}) /\ Settled(w, {t})
    BY <1>0, <2>1, <2>2 DEF Settled, Level
  <2>4. CASE status' = status
    BY <2>1, <2>3, <2>4, GateStutters
  <2>5. CASE status' # status
    <3>1. status[t] = "ready" /\ status' = [status EXCEPT ![t] = "blocked"]
      BY <1>13, <2>1, <2>5 DEF Breaker, RecordTaskFailure
    <3>2. status'[t] = "blocked" /\ \A u \in Tasks \ {t} : status'[u] = status[u]
      BY <2>1, <3>1 DEF IInv, TypeOK, BoardTypeOK
    <3>3. \A u \in Tasks \ {t} : Phase(u)' = Phase(u)
      BY <3>2 DEF Phase
    <3>4. Phase(t) = "open" /\ Phase(t)' = "closed"
      BY <3>1, <3>2 DEF Phase
    <3>5. \A u \in Tasks : Stage(u)' = Stage(u)
      BY <2>1, <2>3, StageByHolder, StageByHolderNext DEF Settled
    <3>6. Gate!Shift(t, "open", "closed")
      BY <2>1, <3>3, <3>4, <3>5 DEF Gate!Shift
    <3> QED BY <2>1, <3>6 DEF Gate!Next
  <2> QED BY <2>4, <2>5
<1>14. ASSUME NEW w \in Workers, Exit(w) \/ Crash(w)
       PROVE  Goal
  BY <1>14, HolderGone DEF Exit, Crash, Gate!Next
<1>15. ASSUME NEW t \in Tasks, RetryTask(t), BoardOnly
       PROVE  Goal
  <2>1. claim' = claim /\ pc' = pc /\ status[t] = "blocked"
        /\ status' = [status EXCEPT ![t] = "ready"]
    BY <1>15 DEF RetryTask, BoardOnly, workerVars
  <2>2. status'[t] = "ready" /\ \A u \in Tasks \ {t} : status'[u] = status[u]
    BY <2>1 DEF IInv, TypeOK, BoardTypeOK
  <2>3. \A u \in Tasks \ {t} : Phase(u)' = Phase(u)
    BY <2>2 DEF Phase
  <2>4. Phase(t) = "closed" /\ Phase(t)' = "open"
    BY <2>1, <2>2 DEF Phase
  <2>5. \A u \in Tasks : Stage(u)' = Stage(u)
    BY <2>1, StageByHolder, StageByHolderNext
  <2>6. Gate!Shift(t, "closed", "open")
    BY <2>1, <2>3, <2>4, <2>5 DEF Gate!Shift
  <2> QED BY <2>6 DEF Gate!Next
<1>16. ASSUME NEW t \in Tasks, CancelTask(t), BoardOnly
       PROVE  Goal
  <2>1. pc' = pc /\ status[t] = "running" /\ Unclaim(t, "cancelled")
    BY <1>16 DEF CancelTask, BoardOnly, workerVars
  <2>2. status'[t] = "cancelled" /\ claim'[t] = NoWorker
        /\ \A u \in Tasks \ {t} : status'[u] = status[u] /\ claim'[u] = claim[u]
    BY <2>1 DEF Unclaim, IInv, TypeOK, BoardTypeOK
  <2>3. \A u \in Tasks \ {t} : Phase(u)' = Phase(u) /\ Stage(u)' = Stage(u)
    BY <2>1, <2>2, StageByHolder, StageByHolderNext DEF Phase
  <2>4. Phase(t) = "held" /\ Phase(t)' = "closed"
    BY <2>1, <2>2 DEF Phase
  <2>5. Stage(t)' = "working"
    BY <2>2, StageByHolderNext, BoardAssumption
  <2>6. claim' = [u \in Tasks |-> IF u \in {t} THEN NoWorker ELSE claim[u]]
    BY <2>1 DEF Unclaim, IInv, TypeOK, BoardTypeOK
  <2>7. Gate!Release({t}, "closed")
    BY <2>3, <2>4, <2>5, <2>6 DEF Gate!Release
  <2> QED BY <2>7 DEF Gate!Next
<1>17. ASSUME UNCHANGED <<status, claim, pc>>
       PROVE  Goal
  <2>1. \A u \in Tasks : Phase(u)' = Phase(u)
    BY <1>17 DEF Phase
  <2>2. \A u \in Tasks : Stage(u)' = Stage(u)
    BY <1>17, StageByHolder, StageByHolderNext
  <2> QED BY <1>17, <2>1, <2>2 DEF Gate!vars
<1>18. ASSUME \/ \E w \in Workers : AgentWrites(w)
              \/ \E t \in Tasks : ExpireLease(t) \/ BackoffEnds(t)
              \/ \E ws \in Workspaces : WorkspaceStep(ws) \/ (ClearQuarantine(ws) /\ BoardOnly)
              \/ UNCHANGED vars
       PROVE  Goal
  <2>1. UNCHANGED <<status, claim, pc>>
    BY <1>18 DEF AgentWrites, ExpireLease, BackoffEnds, BackoffElapses, WorkspaceStep,
         SurvivorWrites, SurvivorDies, OperatorEdits, OperatorCleans, ClearQuarantine,
         BoardOnly, workerVars, boardVars, rowVars, vars
  <2> QED BY <1>17, <2>1
<1> QED
  BY <1>1, <1>2, <1>3, <1>4, <1>5, <1>6, <1>7, <1>8, <1>9, <1>10, <1>11,
     <1>12, <1>13, <1>14, <1>15, <1>16, <1>18
  DEF Next, WorkerStep, Progress, OperatorStep

(* The promise of the README, for every number of tasks, workers and        *)
(* workspaces, whatever crashes, leases that lapse and operator edits do:   *)
(* a task is taken by one worker at a time, only the verifier of the worker *)
(* that holds the claim passes it, and only a passed task is accepted, for  *)
(* good (worker.py's execute_task and _complete).                           *)
THEOREM ImplementsGate == Spec => GateSpec
<1>1. Init => Gate!Init
  BY DEF Init, BoardInit, Gate!Init, Phase, Stage
<1>2. IInv /\ IInv' /\ [Next]_vars => [Gate!Next]_(Gate!vars)
  BY GateStep
<1>3. Init => IInv
  BY InitIInv
<1>4. IInv /\ [Next]_vars => IInv'
  BY IInvStep
<1> QED BY <1>1, <1>2, <1>3, <1>4, PTL DEF Spec, GateSpec, Gate!Spec

-----------------------------------------------------------------------------
(* A run starts sound, on a board that one worker process serves at a time: *)
(* the README's single daemon.  With more, a breaker that trips between two *)
(* claims, or a crash next door, may put a run beside what it must not see. *)
OneWorker == \A w, v \in Workers : w = v

(* Who executes a row is in it, with its pid from registration on. *)
Executes ==
  \A w \in Workers : pc[w] \in Working =>
    /\ status[task[w]] = "running"
    /\ pid[task[w]] = IF pc[w] = "register" THEN NoWorker ELSE w

(* What may be run is below the breaker's limit, and the failure that is    *)
(* about to be counted is of a task that the count can still block.         *)
BelowLimit ==
  /\ \A t \in Tasks : status[t] \in {"ready", "running"} => failures[t] < FailureLimit
  /\ \A w \in Workers : pc[w] = "breaker" => status[task[w]] = "ready"

(* What precheck found holds until the verifier is done. *)
StartsSound ==
  \A w \in Workers : pc[w] \in {"gates", "agent", "verify"} =>
    /\ Place(w) \notin quarantine
    /\ dirt[Place(w)] \cap {"orphan", "delivered"} = {}

SInv == IInv /\ Executes /\ BelowLimit /\ StartsSound

LEMMA InitSInv == Init => SInv
  BY InitIInv, BoardAssumption
  DEF Init, BoardInit, SInv, Executes, BelowLimit, StartsSound, Working

LEMMA SoundStep ==
  ASSUME SInv, OneWorker, [Next]_vars
  PROVE  Executes' /\ BelowLimit' /\ StartsSound'
<1> USE BoardAssumption, WorkerAssumption
    DEF At, Goto, Calm, Disturb, rowVars, countVars, fsVars, boardVars, Working, SInv,
        IInv, TypeOK, BoardTypeOK, HasRow, RowsAgree, OneWorker
<1>1. ASSUME NEW w \in Workers, Start(w)
      PROVE  Executes' /\ BelowLimit' /\ StartsSound'
  <2>1. Executes'
    BY <1>1
    DEF Executes, Start, Proceed
  <2>2. BelowLimit'
    BY <1>1
    DEF BelowLimit, Start, Proceed
  <2>3. StartsSound'
    BY <1>1
    DEF StartsSound, Place, Start, Proceed
  <2> QED BY <2>1, <2>2, <2>3
<1>2. ASSUME NEW w \in Workers, ReleaseStale(w)
      PROVE  Executes' /\ BelowLimit' /\ StartsSound'
  <2>1. Executes'
    BY <1>2
    DEF Executes, ReleaseStale, ReleaseStaleClaims, DeadWorkers,
        StaleTasks
  <2>2. BelowLimit'
    BY <1>2
    DEF BelowLimit, ReleaseStale, ReleaseStaleClaims, DeadWorkers,
        StaleTasks
  <2>3. StartsSound'
    BY <1>2
    DEF StartsSound, Place, ReleaseStale, ReleaseStaleClaims,
        DeadWorkers, StaleTasks
  <2> QED BY <2>1, <2>2, <2>3
<1>3. ASSUME NEW w \in Workers, SweepSnapshot(w)
      PROVE  Executes' /\ BelowLimit' /\ StartsSound'
  <2>1. Executes'
    BY <1>3
    DEF Executes, SweepSnapshot
  <2>2. BelowLimit'
    BY <1>3
    DEF BelowLimit, SweepSnapshot
  <2>3. StartsSound'
    BY <1>3
    DEF StartsSound, Place, SweepSnapshot
  <2> QED BY <2>1, <2>2, <2>3
<1>4. ASSUME NEW w \in Workers, SweepUnclaim(w)
      PROVE  Executes' /\ BelowLimit' /\ StartsSound'
  <2>1. Executes'
    BY <1>4
    DEF Executes, SweepUnclaim, ReclaimTask, Unclaim
  <2>2. BelowLimit'
    BY <1>4
    DEF BelowLimit, SweepUnclaim, ReclaimTask, Unclaim
  <2>3. StartsSound'
    BY <1>4
    DEF StartsSound, Place, SweepUnclaim, ReclaimTask, Unclaim
  <2> QED BY <2>1, <2>2, <2>3
<1>5. ASSUME NEW w \in Workers, SweepDone(w)
      PROVE  Executes' /\ BelowLimit' /\ StartsSound'
  <2>1. Executes'
    BY <1>5
    DEF Executes, SweepDone, Proceed
  <2>2. BelowLimit'
    BY <1>5
    DEF BelowLimit, SweepDone, Proceed
  <2>3. StartsSound'
    BY <1>5
    DEF StartsSound, Place, SweepDone, Proceed
  <2> QED BY <2>1, <2>2, <2>3
<1>6. ASSUME NEW w \in Workers, SelectTask(w)
      PROVE  Executes' /\ BelowLimit' /\ StartsSound'
  <2>1. Executes'
    BY <1>6
    DEF Executes, SelectTask, Selectable, ReadyTasks
  <2>2. BelowLimit'
    BY <1>6
    DEF BelowLimit, SelectTask, Selectable, ReadyTasks
  <2>3. StartsSound'
    BY <1>6
    DEF StartsSound, Place, SelectTask, Selectable, ReadyTasks
  <2> QED BY <2>1, <2>2, <2>3
<1>7. ASSUME NEW w \in Workers, SelectNone(w)
      PROVE  Executes' /\ BelowLimit' /\ StartsSound'
  <2>1. Executes'
    BY <1>7
    DEF Executes, SelectNone, EndAttempt, Home
  <2>2. BelowLimit'
    BY <1>7
    DEF BelowLimit, SelectNone, EndAttempt, Home
  <2>3. StartsSound'
    BY <1>7
    DEF StartsSound, Place, SelectNone, EndAttempt, Home
  <2> QED BY <2>1, <2>2, <2>3
<1>8. ASSUME NEW w \in Workers, Claim(w)
      PROVE  Executes' /\ BelowLimit' /\ StartsSound'
  <2>1. Executes'
    BY <1>8
    DEF Executes, Claim, ClaimTask, EndAttempt, Home
  <2>2. BelowLimit'
    BY <1>8
    DEF BelowLimit, Claim, ClaimTask, EndAttempt, Home
  <2>3. StartsSound'
    BY <1>8
    DEF StartsSound, Place, Claim, ClaimTask, EndAttempt, Home
  <2> QED BY <2>1, <2>2, <2>3
<1>9. ASSUME NEW w \in Workers, RegisterPid(w)
      PROVE  Executes' /\ BelowLimit' /\ StartsSound'
  <2>1. Executes'
    BY <1>9
    DEF Executes, RegisterPid, ReclaimTask, Unclaim, EndAttempt, Home,
        Disturb
  <2>2. BelowLimit'
    BY <1>9
    DEF BelowLimit, RegisterPid, ReclaimTask, Unclaim, EndAttempt, Home,
        Disturb
  <2>3. StartsSound'
    BY <1>9
    DEF StartsSound, Place, RegisterPid, ReclaimTask, Unclaim,
        EndAttempt, Home, Disturb
  <2> QED BY <2>1, <2>2, <2>3
<1>10. ASSUME NEW w \in Workers, Precheck(w)
       PROVE  Executes' /\ BelowLimit' /\ StartsSound'
  <2>1. Executes'
    BY <1>10
    DEF Executes, Precheck, Quarantined, Dirty, BlockTask, SettleAs,
        Owns, Unclaim, EndAttempt, Home
  <2>2. BelowLimit'
    BY <1>10
    DEF BelowLimit, Precheck, Quarantined, Dirty, BlockTask, SettleAs,
        Owns, Unclaim, EndAttempt, Home
  <2>3. StartsSound'
    BY <1>10
    DEF StartsSound, Place, Precheck, Quarantined, Dirty, BlockTask,
        SettleAs, Owns, Unclaim, EndAttempt, Home
  <2> QED BY <2>1, <2>2, <2>3
<1>11. ASSUME NEW w \in Workers, Skip(w)
       PROVE  Executes' /\ BelowLimit' /\ StartsSound'
  <2>1. Executes'
    BY <1>11
    DEF Executes, Skip, ReclaimTask, Unclaim, EndAttempt, Home
  <2>2. BelowLimit'
    BY <1>11
    DEF BelowLimit, Skip, ReclaimTask, Unclaim, EndAttempt, Home
  <2>3. StartsSound'
    BY <1>11
    DEF StartsSound, Place, Skip, ReclaimTask, Unclaim, EndAttempt, Home
  <2> QED BY <2>1, <2>2, <2>3
<1>12. ASSUME NEW w \in Workers, Gates(w)
       PROVE  Executes' /\ BelowLimit' /\ StartsSound'
  <2>1. Executes'
    BY <1>12
    DEF Executes, Gates
  <2>2. BelowLimit'
    BY <1>12
    DEF BelowLimit, Gates
  <2>3. StartsSound'
    BY <1>12
    DEF StartsSound, Place, Gates
  <2> QED BY <2>1, <2>2, <2>3
<1>13. ASSUME NEW w \in Workers, AgentWrites(w)
       PROVE  Executes' /\ BelowLimit' /\ StartsSound'
  <2>1. Executes'
    BY <1>13
    DEF Executes, AgentWrites, workerVars
  <2>2. BelowLimit'
    BY <1>13
    DEF BelowLimit, AgentWrites, workerVars
  <2>3. StartsSound'
    <3>1. {"orphan", "delivered"} \cap Workers = {}
      BY DEF OtherSources
    <3>2. \A ws \in Workspaces : dirt'[ws] \subseteq dirt[ws] \cup Workers
      BY <1>13 DEF AgentWrites
    <3>3. UNCHANGED <<pc, task, quarantine>>
      BY <1>13 DEF AgentWrites, workerVars
    <3> QED BY <3>1, <3>2, <3>3 DEF StartsSound, Place
  <2> QED BY <2>1, <2>2, <2>3
<1>14. ASSUME NEW w \in Workers, AgentEnds(w)
       PROVE  Executes' /\ BelowLimit' /\ StartsSound'
  <2>1. Executes'
    BY <1>14
    DEF Executes, AgentEnds, TreeSurvives, FailAs, Proceed
  <2>2. BelowLimit'
    BY <1>14
    DEF BelowLimit, AgentEnds, TreeSurvives, FailAs, Proceed
  <2>3. StartsSound'
    BY <1>14
    DEF StartsSound, Place, AgentEnds, TreeSurvives, FailAs, Proceed
  <2> QED BY <2>1, <2>2, <2>3
<1>15. ASSUME NEW w \in Workers, VerifyEnds(w)
       PROVE  Executes' /\ BelowLimit' /\ StartsSound'
  <2>1. Executes'
    BY <1>15
    DEF Executes, VerifyEnds, TreeSurvives, FailAs
  <2>2. BelowLimit'
    BY <1>15
    DEF BelowLimit, VerifyEnds, TreeSurvives, FailAs
  <2>3. StartsSound'
    BY <1>15
    DEF StartsSound, Place, VerifyEnds, TreeSurvives, FailAs
  <2> QED BY <2>1, <2>2, <2>3
<1>16. ASSUME NEW w \in Workers, Complete(w)
       PROVE  Executes' /\ BelowLimit' /\ StartsSound'
  <2>1. Executes'
    BY <1>16
    DEF Executes, Complete, SettleAs, Owns, Unclaim, EndAttempt, Home
  <2>2. BelowLimit'
    BY <1>16
    DEF BelowLimit, Complete, SettleAs, Owns, Unclaim, EndAttempt, Home
  <2>3. StartsSound'
    BY <1>16
    DEF StartsSound, Place, Complete, SettleAs, Owns, Unclaim,
        EndAttempt, Home
  <2> QED BY <2>1, <2>2, <2>3
<1>17. ASSUME NEW w \in Workers, Restore(w)
       PROVE  Executes' /\ BelowLimit' /\ StartsSound'
  <2>1. Executes'
    BY <1>17
    DEF Executes, Restore
  <2>2. BelowLimit'
    BY <1>17
    DEF BelowLimit, Restore
  <2>3. StartsSound'
    BY <1>17
    DEF StartsSound, Place, Restore
  <2> QED BY <2>1, <2>2, <2>3
<1>18. ASSUME NEW w \in Workers, Inspect(w)
       PROVE  Executes' /\ BelowLimit' /\ StartsSound'
  <2>1. Executes'
    BY <1>18
    DEF Executes, Inspect, Proceed
  <2>2. BelowLimit'
    BY <1>18
    DEF BelowLimit, Inspect, Proceed
  <2>3. StartsSound'
    BY <1>18
    DEF StartsSound, Place, Inspect, Proceed
  <2> QED BY <2>1, <2>2, <2>3
<1>19. ASSUME NEW w \in Workers, SettleLogic(w)
       PROVE  Executes' /\ BelowLimit' /\ StartsSound'
  <2>1. Executes'
    BY <1>19
    DEF Executes, SettleLogic, SettleAs, Owns, Unclaim, EndAttempt, Home
  <2>2. BelowLimit'
    BY <1>19
    DEF BelowLimit, SettleLogic, SettleAs, Owns, Unclaim, EndAttempt,
        Home
  <2>3. StartsSound'
    BY <1>19
    DEF StartsSound, Place, SettleLogic, SettleAs, Owns, Unclaim,
        EndAttempt, Home
  <2> QED BY <2>1, <2>2, <2>3
<1>20. ASSUME NEW w \in Workers, Breaker(w)
       PROVE  Executes' /\ BelowLimit' /\ StartsSound'
  <2>1. Executes'
    BY <1>20
    DEF Executes, Breaker, RecordTaskFailure, EndAttempt, Home
  <2>2. BelowLimit'
    BY <1>20
    DEF BelowLimit, Breaker, RecordTaskFailure, EndAttempt, Home
  <2>3. StartsSound'
    BY <1>20
    DEF StartsSound, Place, Breaker, RecordTaskFailure, EndAttempt, Home
  <2> QED BY <2>1, <2>2, <2>3
<1>21. ASSUME NEW w \in Workers, SettleEnvironment(w)
       PROVE  Executes' /\ BelowLimit' /\ StartsSound'
  <2>1. Executes'
    BY <1>21
    DEF Executes, SettleEnvironment, SettleAs, Owns, Unclaim,
        EndAttempt, Home
  <2>2. BelowLimit'
    BY <1>21
    DEF BelowLimit, SettleEnvironment, SettleAs, Owns, Unclaim,
        EndAttempt, Home
  <2>3. StartsSound'
    BY <1>21
    DEF StartsSound, Place, SettleEnvironment, SettleAs, Owns, Unclaim,
        EndAttempt, Home
  <2> QED BY <2>1, <2>2, <2>3
<1>22. ASSUME NEW w \in Workers, QuarantineStop(w)
       PROVE  Executes' /\ BelowLimit' /\ StartsSound'
  <2>1. Executes'
    BY <1>22
    DEF Executes, QuarantineStop
  <2>2. BelowLimit'
    BY <1>22
    DEF BelowLimit, QuarantineStop
  <2>3. StartsSound'
    BY <1>22
    DEF StartsSound, Place, QuarantineStop
  <2> QED BY <2>1, <2>2, <2>3
<1>23. ASSUME NEW w \in Workers, Exit(w)
       PROVE  Executes' /\ BelowLimit' /\ StartsSound'
  <2>1. Executes'
    BY <1>23
    DEF Executes, Exit, ProcessEnds, ForgetProcess
  <2>2. BelowLimit'
    BY <1>23
    DEF BelowLimit, Exit, ProcessEnds, ForgetProcess
  <2>3. StartsSound'
    BY <1>23
    DEF StartsSound, Place, Exit, ProcessEnds, ForgetProcess
  <2> QED BY <2>1, <2>2, <2>3
<1>24. ASSUME NEW w \in Workers, Crash(w)
       PROVE  Executes' /\ BelowLimit' /\ StartsSound'
  <2>1. Executes'
    BY <1>24
    DEF Executes, Crash, ProcessEnds, ForgetProcess
  <2>2. BelowLimit'
    BY <1>24
    DEF BelowLimit, Crash, ProcessEnds, ForgetProcess
  <2>3. StartsSound'
    BY <1>24
    DEF StartsSound, Place, Crash, ProcessEnds, ForgetProcess
  <2> QED BY <2>1, <2>2, <2>3
<1>25. ASSUME NEW w \in Workers, NEW r \in rows[w], SweepRow(w, r)
       PROVE  Executes' /\ BelowLimit' /\ StartsSound'
  <2>1. Executes'
    BY <1>25
    DEF Executes, SweepRow
  <2>2. BelowLimit'
    BY <1>25
    DEF BelowLimit, SweepRow
  <2>3. StartsSound'
    BY <1>25
    DEF StartsSound, Place, SweepRow
  <2> QED BY <2>1, <2>2, <2>3
<1>26. ASSUME NEW t \in Tasks, ExpireLease(t)
       PROVE  Executes' /\ BelowLimit' /\ StartsSound'
  <2>1. Executes'
    BY <1>26
    DEF Executes, ExpireLease, workerVars
  <2>2. BelowLimit'
    BY <1>26
    DEF BelowLimit, ExpireLease, workerVars
  <2>3. StartsSound'
    BY <1>26
    DEF StartsSound, Place, ExpireLease, workerVars
  <2> QED BY <2>1, <2>2, <2>3
<1>27. ASSUME NEW t \in Tasks, BackoffEnds(t)
       PROVE  Executes' /\ BelowLimit' /\ StartsSound'
  <2>1. Executes'
    BY <1>27
    DEF Executes, BackoffEnds, BackoffElapses, BoardOnly, workerVars
  <2>2. BelowLimit'
    BY <1>27
    DEF BelowLimit, BackoffEnds, BackoffElapses, BoardOnly, workerVars
  <2>3. StartsSound'
    BY <1>27
    DEF StartsSound, Place, BackoffEnds, BackoffElapses, BoardOnly,
        workerVars
  <2> QED BY <2>1, <2>2, <2>3
<1>28. ASSUME NEW t \in Tasks, RetryTask(t), BoardOnly
       PROVE  Executes' /\ BelowLimit' /\ StartsSound'
  <2>1. Executes'
    BY <1>28
    DEF Executes, RetryTask, BoardOnly, workerVars
  <2>2. BelowLimit'
    BY <1>28
    DEF BelowLimit, RetryTask, BoardOnly, workerVars
  <2>3. StartsSound'
    BY <1>28
    DEF StartsSound, Place, RetryTask, BoardOnly, workerVars
  <2> QED BY <2>1, <2>2, <2>3
<1>29. ASSUME NEW t \in Tasks, CancelTask(t), BoardOnly
       PROVE  Executes' /\ BelowLimit' /\ StartsSound'
  <2>1. Executes'
    BY <1>29
    DEF Executes, CancelTask, Unclaim, BoardOnly, workerVars
  <2>2. BelowLimit'
    BY <1>29
    DEF BelowLimit, CancelTask, Unclaim, BoardOnly, workerVars
  <2>3. StartsSound'
    BY <1>29
    DEF StartsSound, Place, CancelTask, Unclaim, BoardOnly, workerVars
  <2> QED BY <2>1, <2>2, <2>3
<1>30. ASSUME NEW ws \in Workspaces, ClearQuarantine(ws), BoardOnly
       PROVE  Executes' /\ BelowLimit' /\ StartsSound'
  <2>1. Executes'
    BY <1>30
    DEF Executes, ClearQuarantine, BoardOnly, workerVars
  <2>2. BelowLimit'
    BY <1>30
    DEF BelowLimit, ClearQuarantine, BoardOnly, workerVars
  <2>3. StartsSound'
    BY <1>30
    DEF StartsSound, Place, ClearQuarantine, BoardOnly, workerVars
  <2> QED BY <2>1, <2>2, <2>3
<1>31. ASSUME NEW ws \in Workspaces, WorkspaceStep(ws)
       PROVE  Executes' /\ BelowLimit' /\ StartsSound'
  <2>1. Executes'
    BY <1>31
    DEF Executes, WorkspaceStep, SurvivorWrites, SurvivorDies,
        OperatorEdits, OperatorCleans, workerVars
  <2>2. BelowLimit'
    BY <1>31
    DEF BelowLimit, WorkspaceStep, SurvivorWrites, SurvivorDies,
        OperatorEdits, OperatorCleans, workerVars
  <2>3. StartsSound'
    <3>1. \A s \in Workspaces : dirt'[s] \subseteq dirt[s] \cup {"operator", "survivor"}
      BY <1>31 DEF WorkspaceStep, SurvivorWrites, SurvivorDies, OperatorEdits, OperatorCleans
    <3>2. UNCHANGED <<pc, task, quarantine>>
      BY <1>31
      DEF WorkspaceStep, SurvivorWrites, SurvivorDies, OperatorEdits, OperatorCleans,
          workerVars
    <3> QED BY <3>1, <3>2 DEF StartsSound, Place
  <2> QED BY <2>1, <2>2, <2>3
<1>32. ASSUME UNCHANGED vars
       PROVE  Executes' /\ BelowLimit' /\ StartsSound'
  <2>1. Executes'
    BY <1>32
    DEF Executes, vars, workerVars
  <2>2. BelowLimit'
    BY <1>32
    DEF BelowLimit, vars, workerVars
  <2>3. StartsSound'
    BY <1>32
    DEF StartsSound, Place, vars, workerVars
  <2> QED BY <2>1, <2>2, <2>3
<1> QED
  BY <1>1, <1>2, <1>3, <1>4, <1>5, <1>6, <1>7, <1>8, <1>9, <1>10, <1>11,
     <1>12, <1>13, <1>14, <1>15, <1>16, <1>17, <1>18, <1>19, <1>20,
     <1>21, <1>22, <1>23, <1>24, <1>25, <1>26, <1>27, <1>28, <1>29,
     <1>30, <1>31, <1>32
  DEF Next, WorkerStep, Progress, OperatorStep

(* For every set of tasks and workspaces, and whatever crashes, refused     *)
(* writes, surviving process trees and operator edits come before: the      *)
(* agent and the verifier of a board's one worker never see a dead run's    *)
(* files or an accepted run's, never run in a workspace under quarantine,   *)
(* and no agent is started on a task whose breaker has tripped.             *)
THEOREM OneDaemonStartsSound ==
  ASSUME OneWorker
  PROVE  Spec => []RunStartsSound
<1>1. Init => SInv
  BY InitSInv
<1>2. SInv /\ [Next]_vars => SInv'
  BY IInvStep, SoundStep DEF SInv
<1>3. SInv => RunStartsSound
  BY DEF SInv, IInv, HasRow, Working, Executes, BelowLimit, StartsSound,
      RunStartsSound, RunStartsClean, QuarantineHolds, BreakerHolds
<1> QED BY <1>1, <1>2, <1>3, PTL DEF Spec
=============================================================================
