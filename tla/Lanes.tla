-------------------------------- MODULE Lanes --------------------------------
(***************************************************************************)
(* Which model a run uses.  Routes: the operator's registry of             *)
(* src/src/model_routes.py as src/src/telegram_control.py stages it,       *)
(* board.confirm_pending_action pins it and src/src/worker.py holds the    *)
(* runtime to it.  Choice: the lane src/src/lane_select.py picks from what *)
(* the ledger measured and what is exhausted.  The two share nothing, so   *)
(* each has a next-state relation of its own.                              *)
(*                                                                         *)
(* Definitions marked "variant" belong to no specification; each is the    *)
(* definition it precedes with a plausible defect.                         *)
(***************************************************************************)
EXTENDS Integers, FiniteSetsExt

CONSTANTS
  Registries,  \* registries the daemon may be started with, or Unrouted
  RouteNames,
  Models,      \* identities a runtime may serve
  Unrouted,    \* no registry, no route, no pin
  Unknown      \* the runtime does not say what it served

CONSTANTS
  Lanes, Tier,          \* the lanes and their rank: 0 subscription, 1 free, 2 local
  Permitted, Declared, Floor,
  MinSamples,
  MaxHours,             \* bound on the clock
  MaxRows               \* bound on ledger rows

(* A registry: the default route, and for each name its model, admitted or not. *)
Entry == [model : Models, admitted : BOOLEAN] \cup {Unrouted}

ASSUME RoutesAssumption ==
  /\ Unrouted \notin Models
  /\ \A r \in Registries \ {Unrouted} :
       r.route \in [RouteNames -> Entry] /\ r.default \in RouteNames \cup {Unrouted}

ASSUME LanesAssumption ==
  /\ Tier \in [Lanes -> 0..2] /\ Permitted \subseteq Lanes
  /\ {Declared, Floor} \subseteq Lanes
  /\ {MinSamples, MaxHours, MaxRows} \subseteq Nat /\ MaxHours # 0

VARIABLES
  registry,   \* what the daemon read at its start
  request,    \* "none", "pending", "confirmed"
  routeAsked, \* the route name stored with the request
  pin,        \* tasks.model_override
  meant,      \* the registry the confirmation resolved the name in
  served,     \* the model of the last turn
  turnOutcome \* "none", "verified" or "environment"

VARIABLES
  hour,
  benched,    \* lane-state.json: available_after of each lane
  tally,      \* ledger rows per lane: passed, failed, environment failures
  picked      \* the last choice: [lane, why]

routeVars  == <<registry, request, routeAsked, pin, meant, served, turnOutcome>>
choiceVars == <<hour, benched, tally, picked>>

-----------------------------------------------------------------------------
(* Routes *)

AdmittedIn(reg, name) ==
  reg # Unrouted /\ name \in RouteNames /\ reg.route[name] # Unrouted
    /\ reg.route[name].admitted

(* policy_from_mapping: a daemon whose default is not admitted does not start. *)
Startable(reg) == reg = Unrouted \/ reg.default = Unrouted \/ AdmittedIn(reg, reg.default)

RouteInit ==
  /\ registry \in {r \in Registries : Startable(r)}
  /\ request = "none" /\ routeAsked = Unrouted /\ pin = Unrouted
  /\ meant = Unrouted /\ served = Unknown /\ turnOutcome = "none"

DaemonRestarts ==
  /\ registry' \in {r \in Registries : Startable(r)}
  /\ UNCHANGED <<request, routeAsked, pin, meant, served, turnOutcome>>

StagesRoute ==
  /\ request = "none"
  /\ request' = "pending"
  /\ routeAsked' = IF registry = Unrouted THEN Unrouted ELSE registry.default
  /\ UNCHANGED <<registry, pin, meant, served, turnOutcome>>

(* Variant: the name was admitted when it was stored. *)
AnyName(reg, name) ==
  reg # Unrouted /\ name \in RouteNames /\ reg.route[name] # Unrouted

(* model_routes.resolve against the registry of the moment. *)
Resolves(reg, name) == AdmittedIn(reg, name)

ConfirmsUnrouted ==
  /\ request = "pending" /\ routeAsked = Unrouted
  /\ request' = "confirmed"
  /\ UNCHANGED <<registry, routeAsked, pin, meant, served, turnOutcome>>

(* A name that does not resolve is "unsafe": the request stays pending. *)
ConfirmsRoute ==
  /\ request = "pending" /\ Resolves(registry, routeAsked)
  /\ request' = "confirmed"
  /\ pin' = registry.route[routeAsked].model /\ meant' = registry
  /\ UNCHANGED <<registry, routeAsked, served, turnOutcome>>

(* A model that answered under another name is an environment failure; one *)
(* that is not reported is believed.                                       *)
Honoured(model) == pin = Unrouted \/ model \in {pin, Unknown}

RunsTurn ==
  /\ request = "confirmed" /\ turnOutcome # "verified"
  /\ \E model \in Models \cup {Unknown} :
       /\ served' = model
       /\ turnOutcome' = IF Honoured(model) THEN "verified" ELSE "environment"
  /\ UNCHANGED <<registry, request, routeAsked, pin, meant>>

RouteNext ==
  DaemonRestarts \/ StagesRoute \/ ConfirmsUnrouted \/ ConfirmsRoute \/ RunsTurn
RouteSpec == RouteInit /\ [][RouteNext]_routeVars

(* "No route is used before it is admitted" and a completed turn is        *)
(* evidence about the lane that was asked for: whatever registries the     *)
(* daemon is restarted with, a task asked for a route was pinned to a      *)
(* model that route named, admitted, when it was confirmed, and verified   *)
(* work came from that model or from one the runtime does not name.        *)
VerifiedWasAdmitted ==
  (turnOutcome = "verified" /\ routeAsked # Unrouted) =>
    /\ AdmittedIn(meant, routeAsked) /\ meant.route[routeAsked].model = pin
    /\ served \in {pin, Unknown}

-----------------------------------------------------------------------------
(* Choice *)

ChoiceInit ==
  /\ hour = 1 /\ benched = [l \in Lanes |-> 0]
  /\ tally = [l \in Lanes |-> [passed |-> 0, failed |-> 0, environment |-> 0]]
  /\ picked = [lane |-> Floor, why |-> "none"]

HourPasses ==
  /\ hour < MaxHours /\ hour' = hour + 1
  /\ UNCHANGED <<benched, tally, picked>>

(* mark_exhausted: until the provider's reset time, or for an hour. *)
MarksExhausted ==
  /\ hour < MaxHours
  /\ \E l \in Lanes, until \in {hour + 1, MaxHours} :
       benched' = [benched EXCEPT ![l] = until]
  /\ UNCHANGED <<hour, tally, picked>>

AllRuns(l) == tally[l].passed + tally[l].failed + tally[l].environment

RunIsLedgered ==
  /\ MapThenSumSet(AllRuns, Lanes) < MaxRows
  /\ \E l \in Lanes, how \in {"passed", "failed", "environment"} :
       tally' = [tally EXCEPT ![l][how] = @ + 1]
  /\ UNCHANGED <<hour, benched, picked>>

Standing(l) == hour >= benched[l]

(* _outcomes: an environment failure says nothing about the lane; the      *)
(* defect would be to count it (AllRuns).                                  *)
Attempts(l) == tally[l].passed + tally[l].failed

Measured == {l \in Lanes :
               /\ Attempts(l) >= MinSamples /\ Attempts(l) > 0
               /\ 2 * tally[l].passed >= Attempts(l)
               /\ Standing(l)}

(* Better by pass rate, then by sample, then by TIER_ORDER. *)
Ahead(l, m) ==
  LET a == tally[l].passed * Attempts(m)
      b == tally[m].passed * Attempts(l) IN
  \/ a > b
  \/ a = b /\ Attempts(l) > Attempts(m)
  \/ a = b /\ Attempts(l) = Attempts(m) /\ Tier[l] <= Tier[m]

(* Variant: the permitted lanes, exhausted or not. *)
Allowed == Permitted

Usable == {l \in Permitted : Standing(l)}

ChoosesMeasured ==
  \E l \in Measured :
    /\ \A m \in Measured : Ahead(l, m)
    /\ picked' = [lane |-> l, why |-> "measured"]

ChoosesDeclared ==
  /\ Measured = {} /\ Standing(Declared)
  /\ picked' = [lane |-> Declared, why |-> "declared"]

(* The permitted lane of the last tier in TIER_ORDER that still stands. *)
Degrades ==
  /\ Measured = {} /\ ~Standing(Declared)
  /\ \E l \in Usable :
       /\ \A m \in Usable : Tier[m] <= Tier[l]
       /\ picked' = [lane |-> l, why |-> "degraded"]

FallsToFloor ==
  /\ Measured = {} /\ ~Standing(Declared) /\ Usable = {}
  /\ picked' = [lane |-> Floor, why |-> "floor"]

Chooses ==
  /\ ChoosesMeasured \/ ChoosesDeclared \/ Degrades \/ FallsToFloor
  /\ UNCHANGED <<hour, benched, tally>>

ChoiceNext == HourPasses \/ MarksExhausted \/ RunIsLedgered \/ Chooses
ChoiceSpec == ChoiceInit /\ [][ChoiceNext]_choiceVars

(* "Never depend on a paid one", "exhaustion is never retried into": a     *)
(* lane that is benched is chosen only as the local floor, when no lane it *)
(* could have degraded to stands.                                          *)
ExhaustedIsAvoided ==
  picked' # picked =>
     \/ Standing(picked'.lane)
     \/ /\ picked'.lane = Floor
        /\ \A l \in Permitted \cup {Declared} : ~Standing(l)

(* "A lane is not bad because the harness was broken": a broken harness    *)
(* never takes a lane with a good record out of the measured ones.         *)
HarnessIsNotTheLane ==
  (picked' # picked /\ picked'.why # "measured") =>
     \A l \in Lanes :
        ~(/\ tally[l].passed >= MinSamples /\ tally[l].passed > tally[l].failed
          /\ Standing(l))

LanesTypeOK ==
  /\ registry \in Registries /\ request \in {"none", "pending", "confirmed"}
  /\ routeAsked \in RouteNames \cup {Unrouted} /\ pin \in Models \cup {Unrouted}
  /\ served \in Models \cup {Unknown}
  /\ turnOutcome \in {"none", "verified", "environment"}
  /\ hour \in 1..MaxHours /\ benched \in [Lanes -> 0..MaxHours]
  /\ picked.lane \in Lanes

(* The choice of a lane: neither one that is exhausted, nor another than    *)
(* its record asks for because the harness failed.                          *)
ChoiceIsSound == [][ExhaustedIsAvoided /\ HarnessIsNotTheLane]_choiceVars
=============================================================================
