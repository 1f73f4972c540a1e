----------------------------- MODULE VerifyGate -----------------------------
(***************************************************************************)
(* What Tri-AI promises of a task: "a delegated task is accepted or        *)
(* rejected by the verify command's exit code, never by the agent's own    *)
(* report".  One holder at a time works on an open task; only the holder's *)
(* verifier can pass it, and only a passed task is accepted, for good.     *)
(***************************************************************************)
CONSTANTS Tasks, Workers, NoWorker, Gone

VARIABLES
  phase,  \* open, held, accepted, or closed (with the operator)
  holder, \* the worker the task is held by
  stage   \* how far the holder has come: working, judging, passed

vars == <<phase, holder, stage>>

Init ==
  /\ phase = [t \in Tasks |-> "open"]
  /\ holder = [t \in Tasks |-> NoWorker]
  /\ stage = [t \in Tasks |-> "working"]

Take(t, w) ==
  /\ phase[t] = "open"
  /\ phase' = [phase EXCEPT ![t] = "held"]
  /\ holder' = [holder EXCEPT ![t] = w]
  /\ UNCHANGED stage

Move(t, from, to) ==
  /\ phase[t] = "held"
  /\ holder[t] \in Workers
  /\ stage[t] = from
  /\ stage' = [stage EXCEPT ![t] = to]
  /\ UNCHANGED <<phase, holder>>

Judge(t)  == Move(t, "working", "judging")
Pass(t)   == Move(t, "judging", "passed")
Reject(t) == Move(t, "judging", "working")

(* The tasks of S leave their holders without a verdict. *)
Release(S, to) ==
  /\ \A t \in S : phase[t] = "held"
  /\ phase' = [t \in Tasks |-> IF t \in S THEN to ELSE phase[t]]
  /\ holder' = [t \in Tasks |-> IF t \in S THEN NoWorker ELSE holder[t]]
  /\ stage' = [t \in Tasks |-> IF t \in S THEN "working" ELSE stage[t]]

Accept(t) ==
  /\ stage[t] = "passed"
  /\ Release({t}, "accepted")

HolderDies(t) ==
  /\ holder[t] \in Workers
  /\ holder' = [holder EXCEPT ![t] = Gone]
  /\ stage' = [stage EXCEPT ![t] = "working"]
  /\ UNCHANGED phase

(* The breaker closes an open task; the operator opens it again. *)
Shift(t, from, to) ==
  /\ phase[t] = from
  /\ phase' = [phase EXCEPT ![t] = to]
  /\ UNCHANGED <<holder, stage>>

Next ==
  \/ \E t \in Tasks :
       \/ \E w \in Workers : Take(t, w)
       \/ Judge(t) \/ Pass(t) \/ Reject(t) \/ Accept(t) \/ HolderDies(t)
       \/ Shift(t, "open", "closed") \/ Shift(t, "closed", "open")
       \/ Release({t}, "closed")
  \/ \E S \in SUBSET Tasks : Release(S, "open")

Spec == Init /\ [][Next]_vars
=============================================================================
