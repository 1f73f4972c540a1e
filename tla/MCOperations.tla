---------------------------- MODULE MCOperations ----------------------------
(***************************************************************************)
(* Instances for TLC of what keeps the runtime going: the supervisor and   *)
(* its state file, the dispatcher beside a daemon, the nightly queue and   *)
(* the list of assignments, the heartbeat, the model lanes and the         *)
(* containment of commands.  They share no state, so one run takes each in *)
(* turn: `part` says which of them moves, and the others stay in one of    *)
(* their initial states.                                                   *)
(***************************************************************************)
EXTENDS Supervisor, Launches, Dispatcher, Queue, Heartbeat, Lanes, Execution

CONSTANTS
  s1,                              \* the one directory the dispatcher's jobs name
  fast, steady, big, small,        \* routes and models
  paid, free, local                \* lanes

VARIABLE part

MCBoth == <<"worker", "telegram">>
MCSourceOf == [j \in Jobs |-> s1]
MCEvidence == {[concurrency |-> 2, completed |-> 2, failed |-> 0],
               [concurrency |-> 3, completed |-> 2, failed |-> 1]}

MCRegistry(default, f, s) == [default |-> default, route |-> (fast :> f) @@ (steady :> s)]
MCModel(m, admitted) == [model |-> m, admitted |-> admitted]
MCRegistries ==
  {Unrouted,
   MCRegistry(fast, MCModel(big, TRUE), Unrouted),
   MCRegistry(fast, MCModel(small, TRUE), MCModel(big, FALSE)),
   MCRegistry(steady, MCModel(big, FALSE), MCModel(small, TRUE)),
   MCRegistry(fast, MCModel(big, FALSE), MCModel(small, TRUE)),
   MCRegistry(Unrouted, MCModel(big, TRUE), MCModel(small, TRUE))}
MCTier == [l \in Lanes |-> IF l = local THEN 2 ELSE 1]

MCVars == <<part, fleetVars, launchVars, dispatchVars, queueVars,
           assignVars, heartVars, routeVars, choiceVars, execVars>>

MCInit ==
  /\ part \in {"fleet", "file", "waves", "night", "list", "beat", "routes", "lanes", "exec"}
  /\ FleetInit /\ LaunchInit /\ DispatchInit /\ QueueInit /\ AssignInit
  /\ HeartInit /\ RouteInit /\ ChoiceInit /\ ExecutionInit
  /\ part = "beat" \/ stamps = [n \in 1..Walk |-> 1]
  /\ part = "fleet" \/ ~forceful
  /\ part = "routes" \/ registry = Unrouted
  /\ part = "exec" \/ command = "agent"

FleetPart ==
  /\ part = "fleet" /\ FleetNext
  /\ UNCHANGED <<part, launchVars, dispatchVars, queueVars, assignVars,
                heartVars, routeVars, choiceVars, execVars>>
FilePart ==
  /\ part = "file" /\ LaunchNext
  /\ UNCHANGED <<part, fleetVars, dispatchVars, queueVars, assignVars,
                heartVars, routeVars, choiceVars, execVars>>
WavesPart ==
  /\ part = "waves" /\ DispatchNext
  /\ UNCHANGED <<part, fleetVars, launchVars, queueVars, assignVars,
                heartVars, routeVars, choiceVars, execVars>>
NightPart ==
  /\ part = "night" /\ QueueNext
  /\ UNCHANGED <<part, fleetVars, launchVars, dispatchVars, assignVars,
                heartVars, routeVars, choiceVars, execVars>>
ListPart ==
  /\ part = "list" /\ AssignNext
  /\ UNCHANGED <<part, fleetVars, launchVars, dispatchVars, queueVars,
                heartVars, routeVars, choiceVars, execVars>>
BeatPart ==
  /\ part = "beat" /\ HeartNext
  /\ UNCHANGED <<part, fleetVars, launchVars, dispatchVars, queueVars,
                assignVars, routeVars, choiceVars, execVars>>
RoutesPart ==
  /\ part = "routes" /\ RouteNext
  /\ UNCHANGED <<part, fleetVars, launchVars, dispatchVars, queueVars,
                assignVars, heartVars, choiceVars, execVars>>
LanesPart ==
  /\ part = "lanes" /\ ChoiceNext
  /\ UNCHANGED <<part, fleetVars, launchVars, dispatchVars, queueVars,
                assignVars, heartVars, routeVars, execVars>>
ExecPart ==
  /\ part = "exec" /\ ExecutionNext
  /\ UNCHANGED <<part, fleetVars, launchVars, dispatchVars, queueVars,
                assignVars, heartVars, routeVars, choiceVars>>

MCNext ==
  \/ FleetPart \/ FilePart \/ WavesPart \/ NightPart \/ ListPart
  \/ BeatPart \/ RoutesPart \/ LanesPart \/ ExecPart

(* The fairness of each component, for the behaviours in which it moves. *)
MCFairness ==
  /\ WF_fleetVars(part = "fleet" /\ Supervise)
  /\ WF_fleetVars(part = "fleet" /\ TickEnds)
  /\ WF_fleetVars(part = "fleet" /\ Obeys)
  /\ WF_dispatchVars(part = "waves" /\ Dispatches)
  /\ WF_dispatchVars(part = "waves" /\ \E p \in Jobs : WorksOn(p))
  /\ WF_dispatchVars(part = "waves" /\ WorksOn(Beside))
  /\ WF_queueVars(part = "night" /\ QueueStep)
  /\ WF_heartVars(part = "beat" /\ HeartTicks)
  /\ WF_heartVars(part = "beat" /\ KernelReclaims)
  /\ WF_execVars(part = "exec" /\ ContainedRun)
  /\ WF_execVars(part = "exec" /\ TimeRunsOut)

MCSpec == MCInit /\ [][MCNext]_MCVars /\ MCFairness

(* Every variable of these components has its type. *)
OperationsTypeOK ==
  /\ FleetTypeOK /\ LaunchTypeOK /\ DispatchTypeOK /\ QueueTypeOK /\ AssignTypeOK
  /\ HeartTypeOK /\ LanesTypeOK /\ ExecutionTypeOK

(* The liveness of the supervisor, in the behaviours in which it moves. *)
MCFleetMoves == part = "fleet" => FleetMoves

(* Work that was taken up comes back: dispatch returns, a night decides its *)
(* lines, a wedged run loses its claim, and a contained command has a       *)
(* result, each in the behaviours in which its component moves.             *)
MCWorkComesBack ==
  /\ part = "waves" => DispatchEnds
  /\ part = "night" => EveryLineIsDecided
  /\ part = "beat"  => WedgedIsReclaimed
  /\ part = "exec"  => EveryRunReturns
=============================================================================
