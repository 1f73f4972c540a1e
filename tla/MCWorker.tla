------------------------------ MODULE MCWorker ------------------------------
(* Instances of Worker for TLC. *)
EXTENDS Worker, TLC

(* Every task in the one workspace. *)
MCShared == [t \in Tasks |-> CHOOSE ws \in Workspaces : TRUE]

MCSymmetry == Permutations(Workers)
=============================================================================
