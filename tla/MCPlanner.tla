----------------------------- MODULE MCPlanner -----------------------------
(* Instances of Planner for TLC. *)
EXTENDS Planner

(* Every set of links among three children, the first of which may also be *)
(* linked to the root, in phases that start with the first and of which   *)
(* the last two are in order.                                              *)
MCDecompositions ==
  [links : {f \in [1..3 -> SUBSET (1..3 \cup {Outside})] :
              \A n \in 1..3 : n \notin f[n] /\ (n = 1 \/ Outside \notin f[n])},
   phase : {p \in [1..3 -> Ranks] : 1 \in {p[1], p[2]} /\ p[2] <= p[3]}]

(* Every document over three nodes, the first of which may also name       *)
(* itself or a node that does not exist.                                   *)
MCDocuments ==
  {f \in [1..3 -> SUBSET (1..3 \cup {Outside})] :
     \A n \in 2..3 : f[n] \cap {n, Outside} = {}}
=============================================================================
