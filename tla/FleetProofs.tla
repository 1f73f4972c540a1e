---------------------------- MODULE FleetProofs -----------------------------
(***************************************************************************)
(* Theorems about the processes: Supervisor, what has become of the        *)
(* daemons when supervise returns, what its result 0 stands for, whom the  *)
(* state file names, and how long its delays and its record of restarts    *)
(* get; Launches, that each fleet beyond the first, and each that the file  *)
(* does not name, goes back to a start that overlapped another; Execution, *)
(* that no process of a command ran outside its container, and that on     *)
(* Windows a tree is proven gone only when nothing of it is left.          *)
(***************************************************************************)
EXTENDS Supervisor, Launches, Execution, Foundations, FiniteSetTheorems, TLAPS

ProcessStates == {"none", "idle", "busy", "ended", "cut"}

Loop == {"launch", "check", "visit", "publish", "sleep"}

(* The stop is over, and nothing may run any more. *)
Over == stage = "reap" \/ stage = "returned" \/ (stage = "finally" /\ again)

(* While the loop goes on nobody was asked, nothing has been decided and    *)
(* nothing was cut; the second stop belongs to the finally clause; none but *)
(* the worker survives being asked.                                         *)
SInv ==
  /\ process \in [Names -> ProcessStates]
  /\ turn \in DOMAIN Children
  /\ stage \in Loop \cup {"wait", "reap", "finally", "returned"}
  /\ stage \in Loop => /\ result = "none" /\ ~asked /\ ~again
                      /\ \A c \in Names : process[c] # "cut"
  /\ stage = "finally" /\ ~again /\ SomeRun => result # "0"
  /\ result = "0" => stop /\ \A c \in Names : process[c] # "cut"
  /\ forceful /\ Over => ~SomeRun
  /\ asked => \A c \in Names : Running(c) => c = "worker"
  /\ again => asked
  /\ stage = "returned" => asked \/ ~SomeRun

-----------------------------------------------------------------------------
USE DEF ProcessStates, Loop

LEMMA InitSInv == FleetInit => SInv
  BY SupervisorAssumption DEF SupervisorAssumption, FleetInit, SInv, Over, SomeRun, Running

LEMMA TwoNames == Names \subseteq {"worker", "telegram"}
  BY SupervisorAssumption DEF SupervisorAssumption, Names

(* _request_stop starts nothing and cuts nothing. *)
LEMMA AskKeeps ==
  ASSUME SInv, Ask
  PROVE  /\ process' \in [Names -> ProcessStates]
         /\ (\A c \in Names : process[c] # "cut") =>
              \A c \in Names : process'[c] # "cut"
         /\ \A c \in Names : Running(c)' => c = "worker"
         /\ asked'
  BY TwoNames DEF SInv, Ask, Running

(* One daemon's step outside the supervisor's. *)
LEMMA BecomesKeeps ==
  ASSUME SInv, NEW c \in Names, NEW state \in {"busy", "idle", "ended"},
         Running(c), Becomes(c, state)
  PROVE  SInv'
<1>1. UNCHANGED <<stage, turn, stop, asked, again, result, forceful>>
  BY DEF Becomes, ending
<1>2. process' = [process EXCEPT ![c] = state]
  BY DEF Becomes
<1>3. SomeRun
  BY DEF SomeRun
<1>4. process' \in [Names -> ProcessStates]
  BY <1>2 DEF SInv
<1>5. \A d \in Names : process'[d] = "cut" => process[d] = "cut"
  BY <1>2 DEF SInv
<1>6. \A d \in Names : Running(d)' => Running(d)
  BY <1>2 DEF SInv, Running
<1> QED
  BY <1>1, <1>3, <1>4, <1>5, <1>6 DEF SInv, Over

LEMMA LaunchKeeps == ASSUME SInv, Launch PROVE SInv'
<1>1. Children[turn] \in Names
  BY DEF SInv, Names
<1>2. process' \in [Names -> ProcessStates] /\ \A c \in Names : process'[c] # "cut"
  BY <1>1 DEF SInv, Launch, Start
<1>3. /\ stage' \in {"launch", "check"}
      /\ UNCHANGED <<stop, asked, again, result, forceful>>
      /\ stage = "launch"
  BY DEF Launch, ending
<1>4. turn' \in DOMAIN Children
  BY SupervisorAssumption DEF SupervisorAssumption, SInv, Launch
<1> QED
  BY <1>2, <1>3, <1>4 DEF SInv, Over

(* A pass over the daemons. *)
LEMMA VisitKeeps ==
  ASSUME SInv, NEW c \in Names, stage = "visit", Onward,
         process' \in [Names -> ProcessStates], \A d \in Names : process'[d] # "cut"
  PROVE  SInv'
<1>1. stage' \in {"visit", "publish"} /\ UNCHANGED <<stop, asked, again, result, forceful>>
  BY DEF Onward, ending
<1>2. turn' \in DOMAIN Children
  BY SupervisorAssumption DEF SupervisorAssumption, SInv, Onward
<1> QED
  BY <1>1, <1>2 DEF SInv, Over

LEMMA SInvStep == ASSUME SInv, [FleetNext]_fleetVars PROVE SInv'
<1>1. CASE UNCHANGED fleetVars
  BY <1>1 DEF fleetVars, ending, SInv, Over, SomeRun, Running
<1>2. CASE Launch
  BY <1>2, LaunchKeeps
<1>3. CASE SeesStop
  BY <1>3, AskKeeps DEF SeesStop, Ask, SInv, Over
<1>4. CASE SeesNoStop
  BY <1>4, SupervisorAssumption
     DEF SupervisorAssumption, SeesNoStop, ending, SInv, Over
<1>5. CASE Visit
  <2>1. PICK c \in Names : \/ StaysDown(c) \/ Restart(c) \/ StaysUp(c)
                           \/ SeesExit(c) \/ AbandonsChild(c)
    BY <1>5 DEF Visit
  <2>2. CASE StaysDown(c) \/ StaysUp(c)
    BY <2>2, VisitKeeps DEF StaysDown, StaysUp, VisitingChild, SInv
  <2>3. CASE Restart(c)
    BY <2>3, VisitKeeps DEF Restart, Start, VisitingChild, SInv
  <2>4. CASE SeesExit(c)
    BY <2>4, VisitKeeps DEF SeesExit, Schedule, VisitingChild, SInv
  <2>5. CASE AbandonsChild(c)
    <3>1. \A d \in Names : Running(d)' => d = "worker"
      BY <2>5, TwoNames DEF AbandonsChild, Running, SInv
    <3> QED
      BY <2>5, <3>1 DEF AbandonsChild, VisitingChild, SInv, Over
  <2> QED
    BY <2>1, <2>2, <2>3, <2>4, <2>5
<1>6. CASE Publish \/ Sleep
  BY <1>6 DEF Publish, Sleep, ending, SInv, Over
<1>7. CASE AllStopped
  BY <1>7 DEF AllStopped, ending, SInv, Over, SomeRun, Running
<1>8. CASE Deadline
  <2>1. process' \in [Names -> ProcessStates]
    BY <1>8 DEF Deadline, Terminated, SInv
  <2>2. forceful => ~SomeRun'
    BY <1>8 DEF Deadline, Terminated, SomeRun, Running
  <2>3. /\ stage' = "reap" /\ result' # "0"
        /\ UNCHANGED <<turn, asked, again, forceful>>
    BY <1>8 DEF Deadline
  <2>4. \A c \in Names : Running(c)' => Running(c)
    BY <1>8 DEF Deadline, Terminated, Running
  <2> QED
    BY <2>1, <2>2, <2>3, <2>4 DEF SInv, Over
<1>9. CASE Reaped
  BY <1>9 DEF Reaped, ending, SInv, Over, SomeRun, Running
<1>10. CASE ReapExpires
  BY <1>10 DEF ReapExpires, SInv, Over, SomeRun, Running
<1>11. CASE FinallyReturns
  BY <1>11 DEF FinallyReturns, ending, SInv, Over, SomeRun, Running
<1>12. CASE FinallyStops
  BY <1>12, AskKeeps DEF FinallyStops, Ask, SInv, Over
<1>13. CASE LaunchFails
  BY <1>13 DEF LaunchFails, SInv, Over
<1>14. CASE \E c \in Names : RestartFails(c)
  BY <1>14, AskKeeps DEF RestartFails, Ask, SInv, Over
<1>15. CASE TickBegins \/ TickEnds \/ Obeys \/ Exits
  BY <1>15, BecomesKeeps DEF TickBegins, TickEnds, Obeys, Exits, Running
<1>16. CASE OperatorStops
  BY <1>16 DEF OperatorStops, ending, SInv, Over, SomeRun, Running
<1> QED
  BY <1>1, <1>2, <1>3, <1>4, <1>5, <1>6, <1>7, <1>8, <1>9, <1>10, <1>11,
     <1>12, <1>13, <1>14, <1>15, <1>16 DEF FleetNext, Supervise, Failing

LEMMA FleetHolds == FleetSpec => []SInv
<1>1. FleetInit => SInv
  BY InitSInv
<1>2. SInv /\ [FleetNext]_fleetVars => SInv'
  BY SInvStep
<1> QED
  BY <1>1, <1>2, PTL DEF FleetSpec

-----------------------------------------------------------------------------
(* No daemon outlives supervise, whichever way it returns and whatever the  *)
(* policy, but a worker that was asked, where terminate only asks           *)
(* (_stop_children, the finally clause).                                    *)
THEOREM NoDaemonOutlives == FleetSpec => []NoneOutlive
<1>1. SInv => NoneOutlive
  BY DEF SInv, Over, SomeRun, NoneOutlive
<1> QED
  BY <1>1, FleetHolds, PTL

(* The result 0 means a stop that was asked for and cut no tick short, on   *)
(* every platform and under every policy (supervise's docstring).           *)
THEOREM ZeroIsClean == FleetSpec => []ZeroMeansClean
<1>1. SInv => ZeroMeansClean
  BY DEF SInv, ZeroMeansClean
<1> QED
  BY <1>1, FleetHolds, PTL

(* Both of what supervise leaves behind and what it says of it. *)
THEOREM EndsAreClean == FleetSpec => []FleetEndsCleanly
  BY NoDaemonOutlives, ZeroIsClean, PTL DEF FleetEndsCleanly

-----------------------------------------------------------------------------
(* The state file *)

(* What the file should say of c. *)
Known(c) == shown[c] = IF process[c] = "none" THEN "none" ELSE "live"

(* While the daemons are launched, those before the next have a process; in *)
(* a pass that changed nothing the file is still right.                     *)
FInv ==
  /\ SInv
  /\ shown \in [Names -> {"none", "live", "stale"}]
  /\ stage = "launch" => \A i \in DOMAIN Children : i < turn => process[Children[i]] # "none"
  /\ stage \in {"check", "sleep"} => \A c \in Names : Known(c)
  /\ stage \in {"visit", "publish"} /\ ~changed => \A c \in Names : Known(c)

(* A daemon's own step leaves a process where there was one. *)
LEMMA BecomesKnown ==
  ASSUME FInv, NEW c \in Names, NEW state \in {"busy", "idle", "ended"},
         Running(c), Becomes(c, state)
  PROVE  FInv'
<1>1. SInv'
  BY BecomesKeeps DEF FInv
<1>2. /\ process' = [process EXCEPT ![c] = state]
      /\ UNCHANGED <<stage, turn, changed, shown>>
      /\ process \in [Names -> ProcessStates]
  BY DEF Becomes, FInv, SInv
<1>3. \A d \in Names : (process'[d] = "none") <=> (process[d] = "none")
  BY <1>2 DEF Running
<1>4. \A d \in Names : Known(d)' <=> Known(d)
  BY <1>2, <1>3 DEF Known
<1>5. stage = "launch" => \A i \in DOMAIN Children : i < turn => process'[Children[i]] # "none"
  <2>1. \A i \in DOMAIN Children : Children[i] \in Names
    BY DEF Names
  <2> QED
    BY <1>3, <2>1 DEF FInv
<1> QED
  BY <1>1, <1>2, <1>4, <1>5 DEF FInv

LEMMA LaunchKnown == ASSUME FInv, Launch PROVE FInv'
<1>1. SInv'
  BY LaunchKeeps DEF FInv
<1>2. /\ Children \in Seq({"worker", "telegram"}) /\ Len(Children) \in Nat
      /\ DOMAIN Children = 1..Len(Children)
      /\ \A i \in DOMAIN Children : Children[i] \in Names
  BY SupervisorAssumption DEF SupervisorAssumption, Names
<1>3. /\ process' = [process EXCEPT ![Children[turn]] = "idle"]
      /\ process \in [Names -> ProcessStates] /\ turn \in DOMAIN Children
      /\ \A i \in DOMAIN Children : i < turn => process[Children[i]] # "none"
  BY DEF Launch, Start, FInv, SInv
<1>4. \A i \in DOMAIN Children : i <= turn => process'[Children[i]] # "none"
  BY <1>2, <1>3
<1>5. CASE turn < Len(Children)
  <2>1. turn' = turn + 1 /\ stage' = "launch" /\ shown' = shown
    BY <1>5 DEF Launch
  <2> QED
    BY <1>1, <1>2, <1>3, <1>4, <2>1 DEF FInv
<1>6. CASE ~(turn < Len(Children))
  <2>1. stage' = "check" /\ shown' = [c \in Names |-> "live"]
    BY <1>6 DEF Launch
  <2>2. ASSUME NEW c \in Names PROVE process'[c] # "none"
    <3>1. PICK i \in DOMAIN Children : Children[i] = c
      BY DEF Names
    <3>2. i <= turn
      BY <1>2, <1>3, <1>6
    <3> QED
      BY <1>4, <3>1, <3>2
  <2>3. \A c \in Names : Known(c)'
    BY <2>1, <2>2 DEF Known
  <2> QED
    BY <1>1, <2>1, <2>3 DEF FInv
<1> QED
  BY <1>5, <1>6

LEMMA VisitKnown == ASSUME FInv, Visit PROVE FInv'
<1>1. SInv'
  BY SInvStep DEF FInv, FleetNext, Supervise
<1>2. PICK c \in Names : \/ StaysDown(c) \/ Restart(c) \/ StaysUp(c)
                         \/ SeesExit(c) \/ AbandonsChild(c)
  BY DEF Visit
<1>3. stage = "visit" /\ shown \in [Names -> {"none", "live", "stale"}]
  BY <1>2 DEF StaysDown, Restart, StaysUp, SeesExit, AbandonsChild, VisitingChild, FInv
<1>4. CASE StaysDown(c) \/ StaysUp(c)
  <2>1. UNCHANGED <<process, shown, changed>> /\ stage' \in {"visit", "publish"}
    BY <1>3, <1>4 DEF StaysDown, StaysUp, Onward
  <2> QED
    BY <1>1, <1>3, <2>1 DEF FInv, Known
<1>5. CASE Restart(c) \/ SeesExit(c)
  <2>1. /\ changed' = TRUE /\ stage' \in {"visit", "publish"}
        /\ shown' \in [Names -> {"none", "live", "stale"}]
    BY <1>3, <1>5 DEF Restart, SeesExit, Schedule, Onward, Outdated
  <2> QED
    BY <1>1, <2>1 DEF FInv
<1>6. CASE AbandonsChild(c)
  <2>1. stage' = "wait" /\ shown' \in [Names -> {"none", "live", "stale"}]
    BY <1>3, <1>6 DEF AbandonsChild, Outdated
  <2> QED
    BY <1>1, <2>1 DEF FInv
<1> QED
  BY <1>2, <1>4, <1>5, <1>6

LEMMA FInvStep == ASSUME FInv, [FleetNext]_fleetVars PROVE FInv'
<1>1. SInv'
  BY SInvStep DEF FInv
<1>2. CASE UNCHANGED <<stage, turn, changed, process, shown>>
  BY <1>1, <1>2 DEF FInv, Known
<1>3. CASE Launch
  BY <1>3, LaunchKnown
<1>4. CASE SeesNoStop
  BY <1>1, <1>4 DEF SeesNoStop, FInv, Known
<1>5. CASE Visit
  BY <1>5, VisitKnown
<1>6. CASE Publish
  <2>1. shown' \in [Names -> {"none", "live", "stale"}] /\ stage' = "sleep" /\ process' = process
    BY <1>6 DEF Publish, FInv
  <2>2. \A c \in Names : Known(c)'
    BY <1>6 DEF Publish, FInv, Known
  <2> QED
    BY <1>1, <2>1, <2>2 DEF FInv
<1>7. CASE Sleep
  BY <1>1, <1>7 DEF Sleep, FInv, Known
<1>8. ASSUME UNCHANGED shown, stage' \in {"wait", "finally", "reap", "returned"}
      PROVE  FInv'
  BY <1>1, <1>8 DEF FInv
<1>9. CASE SeesStop \/ AllStopped \/ Deadline \/ Reaped \/ ReapExpires \/ FinallyReturns
             \/ FinallyStops \/ Failing
  BY <1>8, <1>9 DEF SeesStop, AllStopped, Deadline, Reaped, ReapExpires, FinallyReturns,
     FinallyStops, Failing, LaunchFails, RestartFails, Ask
<1>10. CASE TickBegins \/ TickEnds \/ Obeys \/ Exits
  BY <1>10, BecomesKnown DEF TickBegins, TickEnds, Obeys, Exits, Running
<1>11. CASE OperatorStops
  BY <1>2, <1>11 DEF OperatorStops
<1> QED
  BY <1>2, <1>3, <1>4, <1>5, <1>6, <1>7, <1>9, <1>10, <1>11
     DEF FleetNext, Supervise, fleetVars

(* Whenever the supervisor sleeps, the state file names the processes of    *)
(* the daemons and of no others, whatever exits and restarts the pass met   *)
(* (children_changed, on_change).                                           *)
THEOREM FileIsCurrent == FleetSpec => []FileNamesDaemons
<1>1. FleetInit => FInv
  BY InitSInv, SupervisorAssumption DEF SupervisorAssumption, FleetInit, FInv
<1>2. FInv => FileNamesDaemons
  BY DEF FInv, Known, FileNamesDaemons
<1> QED
  BY <1>1, <1>2, FInvStep, PTL DEF FleetSpec

-----------------------------------------------------------------------------
(* The clocks, and the budget of restarts *)

LEMMA PolicyFacts ==
  /\ MaxRestarts \in Nat /\ Window \in Nat /\ Healthy \in Nat /\ MaxFaults \in Nat
  /\ Base \in Nat /\ MaxDelay \in Nat
  BY SupervisorAssumption DEF SupervisorAssumption

(* A power of two counts the subsets of a set. *)
LEMMA PowersCount == \A n \in Nat : 2^n \in Nat
<1> SUFFICES ASSUME NEW n \in Nat PROVE 2^n \in Nat
  OBVIOUS
<1>1. IsFiniteSet(1..n) /\ Cardinality(1..n) = n
  BY FS_Interval
<1>2. IsFiniteSet(SUBSET (1..n)) /\ Cardinality(SUBSET (1..n)) = 2^Cardinality(1..n)
  BY <1>1, FS_SUBSET
<1>3. Cardinality(SUBSET (1..n)) \in Nat
  BY <1>2, FS_CardinalityType
<1> QED
  BY <1>1, <1>2, <1>3

LEMMA DelayIsBounded == \A n \in Nat : DelayFor(n) \in 0..MaxDelay
<1> SUFFICES ASSUME NEW n \in Nat PROVE DelayFor(n) \in 0..MaxDelay
  OBVIOUS
<1>1. MaxDelay \in Nat /\ Base \in Nat
  BY SupervisorAssumption DEF SupervisorAssumption
<1>2. CASE n = 0
  BY <1>1, <1>2 DEF DelayFor
<1>3. CASE n # 0
  <2>1. n - 1 \in Nat
    BY <1>3
  <2>2. PICK power \in Nat : power = 2^(n - 1)
    BY <2>1, PowersCount
  <2>3. Base * power \in Nat
    BY <1>1
  <2> QED
    BY <1>1, <1>3, <2>2, <2>3 DEF DelayFor
<1> QED
  BY <1>2, <1>3

(* A record of restarts, what the sleep makes of its k-th entry, and all    *)
(* that it makes of the entries up to there.                                *)
Records == Seq(0..Window)

Keeping(ages, k, record) ==
  IF ages[k] < Window THEN Append(record, ages[k] + 1) ELSE record

KeptOf(ages) ==
  CHOOSE kept : kept = [k \in 0..Len(ages) |->
                          IF k = 0 THEN <<>> ELSE Keeping(ages, k, kept[k - 1])]

LEMMA KeepingKeeps ==
  ASSUME NEW ages, ages \in Records, NEW k \in 1..Len(ages), NEW record, record \in Records
  PROVE  /\ Keeping(ages, k, record) \in Records
         /\ Len(Keeping(ages, k, record)) <= Len(record) + 1
<1>1. ages[k] \in 0..Window /\ Window \in Nat
  BY PolicyFacts DEF Records
<1>2. CASE ages[k] < Window
  <2>1. PICK age \in 0..Window : age = ages[k] + 1
    BY <1>1, <1>2
  <2>2. Append(record, age) \in Seq(0..Window) /\ Len(Append(record, age)) = Len(record) + 1
    BY DEF Records
  <2>3. Len(record) \in Nat
    BY DEF Records
  <2> QED
    BY <1>2, <2>1, <2>2, <2>3 DEF Keeping, Records
<1>3. CASE ~(ages[k] < Window)
  BY <1>3 DEF Keeping, Records
<1> QED
  BY <1>2, <1>3

(* Growing older, restarts only leave the record, and none is older than    *)
(* the window.                                                              *)
LEMMA OlderKeeps ==
  ASSUME NEW ages, ages \in Records
  PROVE  Older(ages) \in Records /\ Len(Older(ages)) <= Len(ages)
<1> DEFINE kept == KeptOf(ages)
<1>n. PICK n \in Nat : n = Len(ages)
  BY DEF Records
<1>1. <<>> \in Records /\ Len(<<>>) = 0
  BY DEF Records
<1>2. \A k \in 1..n, r \in Records : Keeping(ages, k, r) \in Records
  BY <1>n, KeepingKeeps
<1>s. PICK S : S = Records
  OBVIOUS
<1>3. PICK F \in [(1..n) \X S -> S] :
        \A k \in 1..n, r \in Records : F[<<k, r>>] = Keeping(ages, k, r)
  <2> DEFINE F == [kr \in (1..n) \X Records |-> Keeping(ages, kr[1], kr[2])]
  <2>1. F \in [(1..n) \X Records -> Records]
    BY <1>2
  <2>2. \A k \in 1..n, r \in Records : F[<<k, r>>] = Keeping(ages, k, r)
    OBVIOUS
  <2> HIDE DEF F
  <2> QED
    BY <1>s, <2>1, <2>2
<1>4. PICK g \in [0..n -> Records] : g[0] = <<>> /\ \A k \in 1..n : g[k] = F[<<k, g[k - 1]>>]
  <2>1. PICK start \in S : start = <<>>
    BY <1>s, <1>1
  <2>2. \E g \in [0..n -> S] : g[0] = start /\ \A k \in 1..n : g[k] = F[<<k, g[k - 1]>>]
    BY ONLY n \in Nat, start \in S, F \in [(1..n) \X S -> S], StepByStep
  <2> QED
    BY <1>s, <2>1, <2>2
<1>5. g = [k \in 0..n |-> IF k = 0 THEN <<>> ELSE Keeping(ages, k, g[k - 1])]
  <2>1. \A k \in 1..n : k - 1 \in 0..n /\ g[k - 1] \in Records
    BY <1>4
  <2>2. \A k \in 1..n : g[k] = Keeping(ages, k, g[k - 1])
    BY <1>3, <1>4, <2>1
  <2> QED
    BY <1>4, <2>2
<1>6. kept = [k \in 0..n |-> IF k = 0 THEN <<>> ELSE Keeping(ages, k, kept[k - 1])]
  BY <1>5, <1>n DEF KeptOf
<1>7. Older(ages) = kept[n]
  BY <1>n DEF Older, KeptOf, Keeping
<1> HIDE DEF kept
<1> DEFINE T == {k \in Nat : k <= n => kept[k] \in Records /\ Len(kept[k]) <= k}
<1>8. 0 \in T
  BY <1>1, <1>6
<1>9. ASSUME NEW k \in Nat, k \in T PROVE k + 1 \in T
  <2> SUFFICES ASSUME k + 1 <= n PROVE kept[k + 1] \in Records /\ Len(kept[k + 1]) <= k + 1
    OBVIOUS
  <2>1. k <= n /\ k + 1 \in 1..n /\ k + 1 \in 0..n /\ (k + 1) - 1 = k /\ k + 1 # 0
    OBVIOUS
  <2>2. kept[k + 1] = Keeping(ages, k + 1, kept[k])
    BY <1>6, <2>1
  <2>3. kept[k] \in Records /\ Len(kept[k]) <= k
    BY <1>9, <2>1
  <2>4. kept[k + 1] \in Records /\ Len(kept[k + 1]) <= Len(kept[k]) + 1
    BY <1>n, <2>1, <2>2, <2>3, KeepingKeeps
  <2>5. Len(kept[k]) \in Nat /\ Len(kept[k + 1]) \in Nat
    BY <2>3, <2>4 DEF Records
  <2> QED
    BY ONLY <2>3, <2>4, <2>5, k \in Nat
<1>10. \A k \in Nat : k \in T
  <2> HIDE DEF T
  <2> QED
    BY <1>8, <1>9, EveryNumber
<1> QED
  BY <1>n, <1>7, <1>10

CInv == FInv /\ FleetTypeOK

(* What a step does to the clocks and to the rest, each in its type. *)
ClocksTyped ==
  /\ uptime \in [Names -> 0..Healthy] /\ failures \in [Names -> Nat]
  /\ delay \in [Names -> 0..MaxDelay]
  /\ restarts \in [Names -> Seq(0..Window)]
  /\ \A c \in Names : Len(restarts[c]) <= MaxRestarts

OthersTyped ==
  /\ {changed, stop, asked, again, forceful} \subseteq BOOLEAN
  /\ result \in {"none", "0", "1", "failed"}
  /\ faults \in 0..MaxFaults

LEMMA CInvParts == CInv <=> FInv /\ ClocksTyped /\ OthersTyped
  BY DEF CInv, FleetTypeOK, FInv, SInv, ClocksTyped, OthersTyped

LEMMA OthersStep == ASSUME CInv, [FleetNext]_fleetVars PROVE OthersTyped'
<1> USE DEF OthersTyped, ending
<1>1. OthersTyped /\ MaxFaults \in Nat
  BY CInvParts, PolicyFacts
<1>2. CASE UNCHANGED fleetVars
  BY <1>1, <1>2 DEF fleetVars
<1>3. CASE Launch \/ SeesStop \/ SeesNoStop \/ Publish \/ Sleep
  BY <1>1, <1>3 DEF Launch, SeesStop, SeesNoStop, Publish, Sleep, Ask
<1>4. CASE Visit
  BY <1>1, <1>4 DEF Visit, StaysDown, Restart, StaysUp, SeesExit, AbandonsChild, Onward
<1>5. CASE AllStopped \/ Deadline \/ Reaped \/ ReapExpires \/ FinallyReturns \/ FinallyStops
  BY <1>1, <1>5 DEF AllStopped, Deadline, Reaped, ReapExpires, FinallyReturns, FinallyStops, Ask
<1>6. CASE Failing
  <2>1. faults < MaxFaults /\ faults' = faults + 1
    BY <1>6 DEF Failing, LaunchFails, RestartFails, Fault
  <2>2. faults' \in 0..MaxFaults
    BY <1>1, <2>1
  <2>3. /\ UNCHANGED <<stop, again, forceful, changed>>
        /\ asked' \in {asked, TRUE} /\ result' \in {"1", "failed"}
    BY <1>6 DEF Failing, LaunchFails, RestartFails, Ask
  <2> QED
    BY <1>1, <2>2, <2>3
<1>7. CASE TickBegins \/ TickEnds \/ Obeys \/ Exits \/ OperatorStops
  BY <1>1, <1>7 DEF TickBegins, TickEnds, Obeys, Exits, OperatorStops, Becomes
<1> QED
  BY <1>2, <1>3, <1>4, <1>5, <1>6, <1>7 DEF FleetNext, Supervise

(* Only a restart, an exit, a daemon found up and the sleep move the        *)
(* clocks.                                                                  *)
LEMMA StartKeepsClocks ==
  ASSUME CInv, NEW c \in Names, Start(c), UNCHANGED <<failures, delay, restarts>>
  PROVE  ClocksTyped'
  BY CInvParts, PolicyFacts DEF Start, ClocksTyped

LEMMA ScheduleKeepsClocks ==
  ASSUME CInv, NEW c \in Names, ~Exhausted(c), Schedule(c)
  PROVE  ClocksTyped'
<1>1. ClocksTyped
  BY CInvParts
<1>2. PICK n \in Nat : n = Counted(c)
  BY <1>1 DEF ClocksTyped, Counted
<1>3. PICK d \in 0..MaxDelay : d = DelayFor(Counted(c))
  BY <1>2, DelayIsBounded
<1>4. /\ failures' = [failures EXCEPT ![c] = n] /\ delay' = [delay EXCEPT ![c] = d]
      /\ restarts' = [restarts EXCEPT ![c] = Append(restarts[c], 0)]
      /\ uptime' = uptime /\ ~(Len(restarts[c]) >= MaxRestarts)
  BY <1>2, <1>3 DEF Schedule, Exhausted
<1>5. PICK more \in Seq(0..Window) : more = Append(restarts[c], 0) /\ Len(more) <= MaxRestarts
  <2>1. PICK ages : ages = restarts[c] /\ ages \in Seq(0..Window)
    BY <1>1 DEF ClocksTyped
  <2>2. PICK newest \in 0..Window : newest = 0
    BY PolicyFacts
  <2>3. PICK more : more = Append(ages, newest)
    OBVIOUS
  <2>4. Len(ages) \in Nat /\ more \in Seq(0..Window) /\ Len(more) = Len(ages) + 1
    BY ONLY <2>1, <2>3, newest \in 0..Window
  <2>5. Len(more) <= MaxRestarts
    BY <1>4, <2>1, <2>4, PolicyFacts
  <2> QED
    BY <2>1, <2>2, <2>3, <2>4, <2>5
<1>6. /\ restarts' \in [Names -> Seq(0..Window)]
      /\ \A e \in Names : Len(restarts'[e]) <= MaxRestarts
  <2>1. restarts' = [restarts EXCEPT ![c] = more]
    BY <1>4, <1>5
  <2> QED
    BY <1>1, <1>5, <2>1 DEF ClocksTyped
<1> QED
  BY <1>1, <1>4, <1>6 DEF ClocksTyped

LEMMA SleepKeepsClocks == ASSUME CInv, Sleep PROVE ClocksTyped'
<1>1. ClocksTyped
  BY CInvParts
<1>2. uptime' \in [Names -> 0..Healthy] /\ delay' \in [Names -> 0..MaxDelay]
      /\ failures' = failures
  BY <1>1, PolicyFacts DEF ClocksTyped, Sleep
<1>3. ASSUME NEW c \in Names
      PROVE  restarts'[c] \in Seq(0..Window) /\ Len(restarts'[c]) <= MaxRestarts
  <2>1. PICK ages : ages = restarts[c] /\ ages \in Seq(0..Window) /\ Len(ages) <= MaxRestarts
    BY <1>1 DEF ClocksTyped
  <2>2. PICK less : less = Older(ages) /\ less \in Seq(0..Window) /\ Len(less) <= Len(ages)
    BY <2>1, OlderKeeps DEF Records
  <2>3. restarts'[c] = less
    BY <2>1, <2>2 DEF Sleep
  <2>4. Len(less) \in Nat /\ Len(ages) \in Nat
    BY <2>1, <2>2
  <2> QED
    BY <2>1, <2>2, <2>3, <2>4, PolicyFacts
<1>4. restarts' = [c \in Names |-> Older(restarts[c])]
  BY DEF Sleep
<1>5. restarts' \in [Names -> Seq(0..Window)]
  BY <1>3, <1>4
<1> QED
  BY <1>1, <1>2, <1>3, <1>5 DEF ClocksTyped

LEMMA ClocksStep == ASSUME CInv, [FleetNext]_fleetVars PROVE ClocksTyped'
<1>1. ClocksTyped
  BY CInvParts
<1>2. CASE UNCHANGED clocks
  BY <1>1, <1>2 DEF ClocksTyped, clocks
<1>3. CASE Launch
  <2>1. Children[turn] \in Names
    BY DEF CInv, FInv, SInv, Names
  <2> QED
    BY <1>3, <2>1, StartKeepsClocks DEF Launch
<1>4. CASE Visit
  <2>1. PICK c \in Names : \/ StaysDown(c) \/ Restart(c) \/ StaysUp(c)
                           \/ SeesExit(c) \/ AbandonsChild(c)
    BY <1>4 DEF Visit
  <2>2. CASE StaysDown(c) \/ AbandonsChild(c)
    BY <1>2, <2>2 DEF StaysDown, AbandonsChild
  <2>3. CASE Restart(c)
    BY <2>3, StartKeepsClocks DEF Restart
  <2>4. CASE StaysUp(c)
    BY <1>1, <2>4 DEF StaysUp, ClocksTyped
  <2>5. CASE SeesExit(c)
    BY <2>5, ScheduleKeepsClocks DEF SeesExit
  <2> QED
    BY <2>1, <2>2, <2>3, <2>4, <2>5
<1>5. CASE Sleep
  BY <1>5, SleepKeepsClocks
<1>6. CASE UNCHANGED fleetVars \/ SeesStop \/ SeesNoStop \/ Publish \/ AllStopped \/ Deadline
             \/ Reaped \/ ReapExpires \/ FinallyReturns \/ FinallyStops \/ Failing
             \/ TickBegins \/ TickEnds \/ Obeys \/ Exits \/ OperatorStops
  BY <1>2, <1>6 DEF fleetVars, SeesStop, SeesNoStop, Publish, AllStopped, Deadline, Reaped,
     ReapExpires, FinallyReturns, FinallyStops, Failing, LaunchFails, RestartFails,
     TickBegins, TickEnds, Obeys, Exits, OperatorStops, Becomes
<1> QED
  BY <1>3, <1>4, <1>5, <1>6 DEF FleetNext, Supervise

LEMMA CInvStep == ASSUME CInv, [FleetNext]_fleetVars PROVE CInv'
<1>1. FInv' /\ ClocksTyped' /\ OthersTyped'
  BY FInvStep, ClocksStep, OthersStep DEF CInv
<1>2. (CInv <=> FInv /\ ClocksTyped /\ OthersTyped)'
  BY CInvParts, PTL
<1> QED
  BY <1>1, <1>2

LEMMA CInvStarts == FleetInit => CInv
<1>1. ASSUME FleetInit PROVE ClocksTyped
  BY <1>1, PolicyFacts DEF FleetInit, ClocksTyped
<1>2. ASSUME FleetInit PROVE OthersTyped
  <2>1. /\ changed = FALSE /\ stop = FALSE /\ asked = FALSE /\ again = FALSE
        /\ forceful \in BOOLEAN /\ result = "none"
    BY <1>2 DEF FleetInit
  <2>2. faults \in 0..MaxFaults
    BY <1>2, PolicyFacts DEF FleetInit
  <2> QED
    BY <2>1, <2>2 DEF OthersTyped
<1>3. ASSUME FleetInit PROVE FInv
  BY <1>3, InitSInv, SupervisorAssumption DEF SupervisorAssumption, FleetInit, FInv
<1> QED
  BY <1>1, <1>2, <1>3, CInvParts

(* Every variable of the supervisor has its type, whatever the policy: the  *)
(* record of restarts never holds more than the budget, and no delay is     *)
(* longer than the policy's longest (delay_for, restart_times).             *)
THEOREM FleetTypes == FleetSpec => []FleetTypeOK
<1>1. CInv => FleetTypeOK
  BY DEF CInv
<1> QED
  BY <1>1, CInvStarts, CInvStep, PTL DEF FleetSpec

-----------------------------------------------------------------------------
(* Launches *)

(* The supervisors that have entered themselves in the file, and all that   *)
(* have passed the check.                                                   *)
AtWork(s) == standing[s] \in {"entered", "launched", "supervising", "returned"}

Working == {s \in Supervisors : AtWork(s)}
Up      == {s \in Supervisors : Alive(s)}

(* There is one supervisor more than overlapping starts at most, and none   *)
(* more when the next check would pass and nobody stands behind one.        *)
Accounted ==
  /\ IsFiniteSet(Up)
  /\ owner \in Supervisors => standing[owner] \notin {"off", "checked"}
  /\ Cardinality(Up) <= 1 + overlaps
  /\ ~Occupied /\ Up = Working => Cardinality(Up) <= overlaps

LInv == LaunchTypeOK /\ Accounted

-----------------------------------------------------------------------------
LEMMA InitLInv == LaunchInit => LInv
<1> SUFFICES ASSUME LaunchInit PROVE LInv
  OBVIOUS
<1>1. Up = {} /\ owner \notin Supervisors /\ overlaps = 0
  BY LaunchesAssumption DEF LaunchInit, Up, Alive
<1>2. Accounted
  BY <1>1, FS_EmptySet DEF Accounted
<1> QED
  BY <1>2, LaunchesAssumption DEF LaunchInit, LInv, LaunchTypeOK

(* No step of any supervisor, its death or the end of its worker takes a    *)
(* variable out of its type.                                                *)
LEMMA LaunchTypeStep == ASSUME LaunchTypeOK, [LaunchNext]_launchVars PROVE LaunchTypeOK'
<1> USE DEF LaunchTypeOK, Goes, Write
<1>1. CASE UNCHANGED launchVars
  BY <1>1 DEF launchVars
<1>2. ASSUME NEW s \in Supervisors, Steps(s) PROVE LaunchTypeOK'
  <2>1. CASE Refused(s) \/ Checks(s)
    BY <2>1 DEF Refused, Checks
  <2>2. CASE EntersFleet(s)
    BY <2>2 DEF EntersFleet
  <2>3. CASE StartsWorkers(s)
    BY <2>3 DEF StartsWorkers
  <2>4. CASE PublishesOwn(s)
    BY <2>4 DEF PublishesOwn
  <2>5. CASE Returns(s)
    BY <2>5 DEF Returns
  <2>6. CASE Closes(s)
    BY <2>6 DEF Closes
  <2> QED
    BY <1>2, <2>1, <2>2, <2>3, <2>4, <2>5, <2>6 DEF Steps
<1>3. ASSUME NEW s \in Supervisors, SupervisorDies(s) PROVE LaunchTypeOK'
  BY <1>3 DEF SupervisorDies, Alive
<1>4. ASSUME NEW s \in Supervisors, WorkerEnds(s) PROVE LaunchTypeOK'
  BY <1>4 DEF WorkerEnds
<1> QED
  BY <1>1, <1>2, <1>3, <1>4 DEF LaunchNext

(* Whoever is up, and the next check, stay as they are. *)
LEMMA SameFleets ==
  ASSUME Accounted, Up' = Up, Working' = Working, overlaps' = overlaps,
         Occupied' \/ Occupied' = Occupied,
         (owner \in Supervisors => standing[owner] \notin {"off", "checked"})'
  PROVE  Accounted'
<1>1. IsFiniteSet(Up) /\ Cardinality(Up) <= 1 + overlaps
  BY DEF Accounted
<1>2. (~Occupied /\ Up = Working => Cardinality(Up) <= overlaps)'
  BY Zenon DEF Accounted
<1> QED
  BY <1>1, <1>2 DEF Accounted

(* One that is up leaves: then the account has one to spare. *)
LEMMA OneLess ==
  ASSUME LaunchTypeOK, Accounted, NEW s \in Up, Up' = Up \ {s}, overlaps' = overlaps,
         (owner \in Supervisors => standing[owner] \notin {"off", "checked"})'
  PROVE  Accounted'
<1>1. /\ IsFiniteSet(Up) /\ IsFiniteSet(Up \ {s})
      /\ Cardinality(Up \ {s}) = Cardinality(Up) - 1 /\ Cardinality(Up) \in Nat
  BY FS_RemoveElement, FS_CardinalityType DEF Accounted
<1>2. Cardinality(Up) <= 1 + overlaps /\ overlaps \in Nat
  BY DEF Accounted, LaunchTypeOK
<1>3. Cardinality(Up \ {s}) <= overlaps /\ Cardinality(Up \ {s}) <= 1 + overlaps
  BY <1>1, <1>2
<1> QED
  BY <1>1, <1>3 DEF Accounted

(* One more has passed the check: either nobody stood behind one, and the   *)
(* account had one to spare, or the starts overlap.                         *)
LEMMA OneMore == ASSUME LInv, NEW s \in Supervisors, Checks(s) PROVE Accounted'
<1> USE DEF LInv, LaunchTypeOK, Goes
<1>1. /\ standing[s] = "off" /\ ~Occupied /\ standing' = [standing EXCEPT ![s] = "checked"]
      /\ UNCHANGED <<status, owner>>
  BY DEF Checks
<1>2. s \notin Up /\ Up' = Up \cup {s} /\ s \notin Working'
  BY <1>1 DEF Up, Alive, Working, AtWork
<1>3. /\ IsFiniteSet(Up \cup {s}) /\ Cardinality(Up \cup {s}) = Cardinality(Up) + 1
      /\ Cardinality(Up) \in Nat /\ overlaps \in Nat
  BY <1>2, FS_AddElement, FS_CardinalityType DEF Accounted
<1>4. Cardinality(Up \cup {s}) <= 1 + overlaps'
  <2>1. CASE \E r \in Supervisors : standing[r] = "checked"
    <3>1. overlaps' = overlaps + 1 /\ Cardinality(Up) <= 1 + overlaps
      BY <2>1 DEF Checks, Accounted
    <3> QED
      BY <1>3, <3>1
  <2>2. CASE ~\E r \in Supervisors : standing[r] = "checked"
    <3>1. Up = Working
      BY <2>2 DEF Up, Working, Alive, AtWork
    <3>2. overlaps' = overlaps
      BY <1>3, <2>2 DEF Checks
    <3>3. Cardinality(Up) <= overlaps
      BY <1>1, <3>1, Zenon DEF Accounted
    <3> QED
      BY <1>3, <3>2, <3>3
  <2> QED
    BY <2>1, <2>2
<1>5. (owner \in Supervisors => standing[owner] \notin {"off", "checked"})'
  BY <1>1 DEF Accounted
<1>6. Up' # Working'
  BY <1>2
<1> QED
  BY <1>2, <1>3, <1>4, <1>5, <1>6 DEF Accounted

LEMMA AccountedStep == ASSUME LInv, [LaunchNext]_launchVars PROVE Accounted'
<1> USE DEF LInv, LaunchTypeOK, Goes, Write
<1>0. owner \in Supervisors => standing[owner] \notin {"off", "checked"}
  BY DEF Accounted
<1>1. CASE UNCHANGED launchVars
  BY <1>1, <1>0, SameFleets DEF launchVars, Up, Working, AtWork, Alive, Occupied
<1>2. ASSUME NEW s \in Supervisors, Refused(s) PROVE Accounted'
  <2>1. Up' = Up /\ Working' = Working /\ overlaps' = overlaps
    BY <1>2 DEF Refused, Up, Working, AtWork, Alive
  <2>2. /\ Occupied' = Occupied
        /\ (owner \in Supervisors => standing[owner] \notin {"off", "checked"})'
    BY <1>0, <1>2 DEF Refused, Occupied, Alive
  <2> QED
    BY <2>1, <2>2, SameFleets
<1>3. ASSUME NEW s \in Supervisors, EntersFleet(s) PROVE Accounted'
  <2>1. /\ standing[s] = "checked" /\ standing' = [standing EXCEPT ![s] = "entered"]
        /\ status' = "running" /\ owner' = s /\ overlaps' = overlaps
    BY <1>3 DEF EntersFleet
  <2>2. Up' = Up /\ Occupied'
    BY <2>1 DEF Up, Alive, Occupied
  <2>3. Cardinality(Up') <= 1 + overlaps' /\ IsFiniteSet(Up')
    BY <2>1, <2>2 DEF Accounted
  <2>4. (owner \in Supervisors => standing[owner] \notin {"off", "checked"})'
    BY <2>1
  <2> QED
    BY <2>2, <2>3, <2>4 DEF Accounted
<1>4. ASSUME NEW s \in Supervisors, StartsWorkers(s) \/ Returns(s) PROVE Accounted'
  <2>1. Up' = Up /\ Working' = Working /\ overlaps' = overlaps
    BY <1>4 DEF StartsWorkers, Returns, Up, Working, AtWork, Alive
  <2>2. /\ Occupied' = Occupied
        /\ (owner \in Supervisors => standing[owner] \notin {"off", "checked"})'
    BY <1>0, <1>4 DEF StartsWorkers, Returns, Occupied, Alive
  <2> QED
    BY <2>1, <2>2, SameFleets
<1>5. ASSUME NEW s \in Supervisors, PublishesOwn(s) PROVE Accounted'
  <2>1. Up' = Up /\ Working' = Working /\ overlaps' = overlaps
    BY <1>5 DEF PublishesOwn, Up, Working, AtWork, Alive
  <2>2. /\ Occupied'
        /\ (owner \in Supervisors => standing[owner] \notin {"off", "checked"})'
    BY <1>5 DEF PublishesOwn, Occupied, Alive
  <2> QED
    BY <2>1, <2>2, SameFleets
<1>6. ASSUME NEW s \in Supervisors, Closes(s) \/ SupervisorDies(s) PROVE Accounted'
  <2>1. s \in Up /\ Up' = Up \ {s} /\ overlaps' = overlaps
    BY <1>6 DEF Closes, SupervisorDies, Up, Alive
  <2>2. (owner \in Supervisors => standing[owner] \notin {"off", "checked"})'
    BY <1>0, <1>6 DEF Closes, SupervisorDies
  <2> QED
    BY <2>1, <2>2, OneLess
<1>7. ASSUME NEW s \in Supervisors, WorkerEnds(s) PROVE Accounted'
  BY <1>7, <1>0, SameFleets DEF WorkerEnds, Up, Working, AtWork, Alive, Occupied
<1> QED
  BY <1>1, <1>2, <1>3, <1>4, <1>5, <1>6, <1>7, OneMore DEF LaunchNext, Steps

LEMMA LaunchesHold == LaunchSpec => []LInv
<1>1. LaunchInit => LInv
  BY InitLInv
<1>2. LInv /\ [LaunchNext]_launchVars => LInv'
  BY LaunchTypeStep, AccountedStep DEF LInv
<1> QED
  BY <1>1, <1>2, PTL DEF LaunchSpec

-----------------------------------------------------------------------------
(* Every variable keeps its type, however the launches overlap.             *)
THEOREM LaunchTypes == LaunchSpec => []LaunchTypeOK
<1>1. LaunchInit => LaunchTypeOK
  BY InitLInv DEF LInv
<1>2. LaunchTypeOK /\ [LaunchNext]_launchVars => LaunchTypeOK'
  BY LaunchTypeStep
<1> QED
  BY <1>1, <1>2, PTL DEF LaunchSpec

(* However many supervisors are started, however their starts overlap and   *)
(* whichever are killed: there is no living supervisor with daemons beyond  *)
(* the first that an overlap of two starts between the check of main and    *)
(* its write does not account for.                                          *)
THEOREM OneFleetAtATime == LaunchSpec => []OneFleet
<1>1. ASSUME LInv PROVE OneFleet
  <2> DEFINE fleets == {s \in workers : Alive(s)}
  <2>1. fleets \subseteq Up
    BY <1>1 DEF LInv, LaunchTypeOK, Up
  <2>2. IsFiniteSet(Up) /\ Cardinality(Up) <= 1 + overlaps
    BY <1>1 DEF LInv, Accounted
  <2>3. Cardinality(fleets) <= Cardinality(Up) /\ IsFiniteSet(fleets)
    BY <2>1, <2>2, FS_Subset
  <2>4. Cardinality(fleets) \in Nat /\ Cardinality(Up) \in Nat /\ overlaps \in Nat
    BY <1>1, <2>2, <2>3, FS_CardinalityType DEF LInv, LaunchTypeOK
  <2> HIDE DEF fleets
  <2>5. Cardinality(fleets) <= 1 + overlaps
    BY <2>2, <2>3, <2>4
  <2> QED
    BY <2>5 DEF OneFleet, fleets
<1> QED
  BY <1>1, LaunchesHold, PTL

(* And as many fleets at most as there were overlaps are not named by the   *)
(* file, so that a second terminal cannot stop them (stop_daemons.ps1).     *)
THEOREM StopFindsFleet == LaunchSpec => []StopReaches
<1>1. ASSUME LInv PROVE StopReaches
  <2> DEFINE unnamed == {s \in Supervisors : /\ standing[s] \in {"launched", "supervising"}
                                             /\ ~(status = "running" /\ owner = s)}
  <2>1. unnamed \subseteq Up
    BY <1>1 DEF Up, Alive
  <2>2. IsFiniteSet(Up) /\ Cardinality(Up) <= 1 + overlaps /\ overlaps \in Nat
    BY <1>1 DEF LInv, Accounted, LaunchTypeOK
  <2>3. ASSUME NEW x \in Up \ unnamed PROVE Cardinality(unnamed) <= overlaps
    <3>1. unnamed \subseteq Up \ {x}
      BY <2>1, <2>3
    <3>2. IsFiniteSet(Up \ {x}) /\ Cardinality(Up \ {x}) = Cardinality(Up) - 1
      BY <2>2, <2>3, FS_RemoveElement
    <3>3. Cardinality(unnamed) <= Cardinality(Up \ {x}) /\ IsFiniteSet(unnamed)
      BY <3>1, <3>2, FS_Subset
    <3>4. Cardinality(unnamed) \in Nat /\ Cardinality(Up) \in Nat
      BY <2>2, <3>3, FS_CardinalityType
    <3> HIDE DEF unnamed
    <3> QED
      BY <2>2, <3>2, <3>3, <3>4
  <2>4. CASE Occupied
    <3>1. owner \in Up \ unnamed
      BY <2>4 DEF Occupied, Alive, Up
    <3> QED
      BY <2>3, <3>1 DEF StopReaches
  <2>5. CASE Up # Working
    <3>1. PICK x \in Up : x \notin Working
      BY <2>5 DEF Up, Working, Alive, AtWork
    <3>2. x \notin unnamed
      BY <3>1 DEF Working, AtWork
    <3> QED
      BY <2>3, <3>1, <3>2 DEF StopReaches
  <2>6. CASE ~Occupied /\ Up = Working
    <3>1. Cardinality(Up) <= overlaps
      BY <1>1, <2>6, Zenon DEF LInv, Accounted
    <3>2. Cardinality(unnamed) <= Cardinality(Up) /\ IsFiniteSet(unnamed)
      BY <2>1, <2>2, FS_Subset
    <3>3. Cardinality(unnamed) \in Nat /\ Cardinality(Up) \in Nat
      BY <2>2, <3>2, FS_CardinalityType
    <3> HIDE DEF unnamed
    <3>4. Cardinality(unnamed) <= overlaps
      BY <2>2, <3>1, <3>2, <3>3
    <3> QED
      BY <3>4 DEF StopReaches, unnamed
  <2> QED
    BY <2>4, <2>5, <2>6
<1> QED
  BY <1>1, LaunchesHold, PTL

(* The file is wrong, and a second fleet beside the first, only through     *)
(* starts that overlap: one for each.                                       *)
THEOREM TheFleetIsKnown == LaunchSpec => []FleetIsKnown
  BY OneFleetAtATime, StopFindsFleet, PTL DEF FleetIsKnown

-----------------------------------------------------------------------------
(* Execution *)

Spawning == call \in {"spawn", "assign", "resume"}

(* Before the root runs there is nothing else. *)
NothingYet ==
  /\ Spawning => root \in {"none", "suspended"} /\ said = "none"
  /\ call = "spawn" => root = "none"
  /\ call \in {"assign", "resume"} => Windows
  /\ root \in {"none", "suspended"} => born = {}
  /\ alive \subseteq born
  /\ call \in {"wait", "kill", "prove", "report"} => root \in {"runs", "exited", "reaped"}
                                                     /\ said = "none"

(* On Windows nothing runs before it is in the job. *)
InJob == Windows /\ (call \in {"resume", "wait", "kill", "prove", "report"}
                     \/ root = "runs" \/ born # {}) => inJob

(* An error of the spawn, and its verdict, are the end of the tree. *)
CallEnded ==
  /\ said = "spawn_error" => root \in {"none", "reaped"} /\ alive = {}
  /\ proven = "gone" => call \in {"report", "told"}
  /\ Windows /\ proven = "gone" => alive = {} /\ root = "reaped"

EInv == NothingYet /\ InJob /\ CallEnded

-----------------------------------------------------------------------------
USE DEF NothingYet, InJob, CallEnded, Spawning

LEMMA InitEInv == ExecutionInit => EInv
  BY DEF ExecutionInit, EInv

(* Only a root that runs starts children, so what is gone stays gone. *)
LEMMA ProcessesKeep == ASSUME EInv, Processes \/ TimeRunsOut PROVE EInv'
<1> USE DEF EInv, callVars, treeOfRun
<1>1. ASSUME NEW c \in Offspring, RootStartsChild(c) PROVE EInv'
  BY <1>1 DEF RootStartsChild
<1>2. ASSUME NEW c \in Offspring, ChildDetaches(c) \/ ChildLetsGo(c) \/ ChildExits(c)
      PROVE  EInv'
  BY <1>2 DEF ChildDetaches, ChildLetsGo, ChildExits
<1>3. CASE GetsStuck \/ TimeRunsOut
  BY <1>3 DEF GetsStuck, TimeRunsOut
<1>4. CASE RootExits
  BY <1>4 DEF RootExits
<1> QED
  BY <1>1, <1>2, <1>3, <1>4 DEF Processes

(* The root is put into the job before its first instruction. *)
LEMMA SpawnKeeps ==
  ASSUME EInv, Creates \/ Assigns \/ Resumes \/ SpawnFails PROVE EInv'
<1> USE ExecutionAssumption DEF EInv
<1>1. CASE Creates
  BY <1>1 DEF Creates
<1>2. CASE Assigns \/ Resumes
  BY <1>2 DEF Assigns, Resumes
<1>3. CASE SpawnFails
  <2>1. born = {} /\ alive = {} /\ root' \in {"none", "reaped"}
        /\ UNCHANGED <<inJob, born, alive, proven>>
        /\ said' = "spawn_error" /\ call' = "told"
        /\ call \in {"spawn", "assign", "resume"} /\ proven # "gone"
    BY <1>3 DEF SpawnFails, PutDown, Reports
  <2> QED
    BY <2>1
<1> QED
  BY <1>1, <1>2, <1>3

LEMMA WaitKeeps == ASSUME EInv, WaitEnds \/ WaitTimesOut \/ KillsTree PROVE EInv'
<1> USE DEF EInv
<1>1. CASE WaitEnds
  BY <1>1 DEF WaitEnds, Finished
<1>2. CASE WaitTimesOut
  BY <1>2 DEF WaitTimesOut, treeOfRun
<1>3. CASE KillsTree
  <2>1. /\ call = "kill" /\ call' = "prove" /\ alive' \subseteq alive
        /\ root' \in {root, "exited"} /\ UNCHANGED <<inJob, born, proven, said>>
    BY <1>3 DEF KillsTree, ReadyToKill
  <2> QED
    BY <2>1
<1> QED
  BY <1>1, <1>2, <1>3

(* The verdict: on Windows the job is asked who is left. *)
LEMMA VerdictKeeps == ASSUME EInv, ProvesGone \/ ProvesNothing \/ ReturnsResult PROVE EInv'
<1> USE DEF EInv
<1>1. CASE ProvesGone
  BY <1>1 DEF ProvesGone, NoneIsLeft
<1>2. CASE ProvesNothing
  BY <1>2 DEF ProvesNothing, treeOfRun
<1>3. CASE ReturnsResult
  <2>1. /\ call = "report" /\ call' = "told" /\ alive' \subseteq alive
        /\ said' # "spawn_error" /\ UNCHANGED <<root, inJob, born, proven>>
    BY <1>3 DEF ReturnsResult, Reports
  <2> QED
    BY <2>1
<1> QED
  BY <1>1, <1>2, <1>3

LEMMA ExecutionHolds == ExecutionSpec => []EInv
<1>1. EInv /\ UNCHANGED execVars => EInv'
  BY DEF EInv, execVars, treeOfRun, callVars
<1>2. EInv /\ [ExecutionNext]_execVars => EInv'
  BY <1>1, ProcessesKeep, SpawnKeeps, WaitKeeps, VerdictKeeps
     DEF ExecutionNext, ContainedRun
<1> QED
  BY <1>2, InitEInv, PTL DEF ExecutionSpec

-----------------------------------------------------------------------------
(* "There is no interval in which a short-lived parent can create an       *)
(* untracked writer", on either kind of platform, and a spawn that fails    *)
(* leaves nothing that runs.                                                *)
THEOREM NothingRunsOutside == ExecutionSpec => []RunsContained
<1>1. EInv => RunsContained
  BY DEF EInv, RunsContained
<1> QED
  BY <1>1, ExecutionHolds, PTL

(* On Windows "proven_gone" means that nothing the command started runs.   *)
(* Off Windows it does not: see the run Survivors.                         *)
THEOREM GoneMeansGone == ASSUME Windows PROVE ExecutionSpec => []ProvenGone
<1>1. EInv => ProvenGone
  BY DEF EInv, ProvenGone
<1> QED
  BY <1>1, ExecutionHolds, PTL

-----------------------------------------------------------------------------
(* Types of the containment: everything that runs was started and           *)
(* everything that holds the pipe runs.                                     *)

OneIsStuck == stuck \in {{}} \cup {{p} : p \in Offspring \cup {"root"}}

TreeTyped ==
  /\ root \in {"none", "suspended", "runs", "exited", "reaped"} /\ code \in {0, 1}
  /\ alive \subseteq born /\ born \subseteq Offspring
  /\ detached \subseteq born /\ piped \subseteq alive
  /\ OneIsStuck /\ inJob \in BOOLEAN

CallTyped ==
  /\ command \in {"agent", "verify"}
  /\ call \in {"spawn", "assign", "resume", "wait", "kill", "prove", "report", "told"}
  /\ {due, timedOut} \subseteq BOOLEAN
  /\ proven \in {"none", "gone", "survived"}
  /\ said \in {"none", "spawn_error", "survived", "timeout", "passed", "failed"}

LEMMA ExecutionTypedIs == TreeTyped /\ CallTyped => ExecutionTypeOK
<1> SUFFICES ASSUME TreeTyped, CallTyped PROVE ExecutionTypeOK
  OBVIOUS
<1>1. stuck \subseteq Offspring \cup {"root"}
  BY DEF TreeTyped, OneIsStuck
<1>2. Cardinality(stuck) <= 1
  <2>1. CASE stuck = {}
    BY <2>1, FS_EmptySet
  <2>2. CASE \E p : stuck = {p}
    BY <2>2, FS_Singleton
  <2> QED
    BY <2>1, <2>2 DEF TreeTyped, OneIsStuck
<1> QED
  BY <1>1, <1>2 DEF TreeTyped, CallTyped, ExecutionTypeOK

LEMMA TreeStep == ASSUME TreeTyped, [ExecutionNext]_execVars PROVE TreeTyped'
<1> USE DEF TreeTyped, OneIsStuck
<1>1. CASE UNCHANGED treeOfRun
  BY <1>1 DEF treeOfRun
<1>2. ASSUME NEW c \in Offspring,
             RootStartsChild(c) \/ ChildDetaches(c) \/ ChildLetsGo(c) \/ ChildExits(c)
      PROVE  TreeTyped'
  BY <1>2 DEF RootStartsChild, ChildDetaches, ChildLetsGo, ChildExits
<1>3. CASE GetsStuck
  <2>1. PICK p \in Offspring \cup {"root"} : stuck' = {p}
    BY <1>3 DEF GetsStuck
  <2> QED
    BY <1>3, <2>1 DEF GetsStuck
<1>4. CASE RootExits
  BY <1>4 DEF RootExits
<1>5. CASE Creates \/ Assigns \/ Resumes \/ SpawnFails
  BY <1>5 DEF Creates, Assigns, Resumes, SpawnFails, PutDown
<1>6. CASE WaitEnds \/ ProvesGone
  BY <1>6 DEF WaitEnds, ProvesGone
<1>7. CASE KillsTree
  <2>1. /\ alive' \subseteq alive /\ piped' \subseteq alive' /\ root' \in {root, "exited"}
        /\ UNCHANGED <<code, inJob, born, detached, stuck>>
    BY <1>7 DEF KillsTree
  <2> QED
    BY <2>1
<1>8. CASE ReturnsResult
  <2>1. /\ alive' \subseteq alive /\ piped' \subseteq alive'
        /\ UNCHANGED <<root, code, inJob, born, detached, stuck>>
    BY <1>8 DEF ReturnsResult
  <2> QED
    BY <2>1
<1> QED
  BY <1>1, <1>2, <1>3, <1>4, <1>5, <1>6, <1>7, <1>8
     DEF ExecutionNext, Processes, ContainedRun, TimeRunsOut, WaitTimesOut, ProvesNothing,
         execVars

LEMMA CallStep == ASSUME CallTyped, [ExecutionNext]_execVars PROVE CallTyped'
<1> USE DEF CallTyped, callVars
<1>1. CASE UNCHANGED callVars
  BY <1>1
<1>2. CASE TimeRunsOut \/ WaitEnds \/ WaitTimesOut \/ KillsTree \/ ProvesGone \/ ProvesNothing
  BY <1>2 DEF TimeRunsOut, WaitEnds, WaitTimesOut, KillsTree, ProvesGone, ProvesNothing
<1>3. CASE Creates \/ Assigns \/ Resumes \/ SpawnFails
  BY <1>3 DEF Creates, Assigns, Resumes, SpawnFails, Reports
<1>4. CASE ReturnsResult
  BY <1>4 DEF ReturnsResult, Reports
<1> QED
  BY <1>1, <1>2, <1>3, <1>4
     DEF ExecutionNext, Processes, ContainedRun, execVars, RootStartsChild, ChildDetaches,
         ChildLetsGo, ChildExits, GetsStuck, RootExits

LEMMA ExecutionTypedStarts == ExecutionInit => TreeTyped /\ CallTyped
  BY DEF ExecutionInit, TreeTyped, CallTyped, OneIsStuck

=============================================================================
