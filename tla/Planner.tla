------------------------------ MODULE Planner ------------------------------
(***************************************************************************)
(* From one request to a graph of tasks: decomposer.py reads the children  *)
(* and links Hermes recorded and derives edges, planner.py refuses or      *)
(* orders the document and writes it in one transaction, and _fanout of    *)
(* telegram_control.py falls back to a single task.                        *)
(*                                                                         *)
(* Nodes are numbered in the order of the document.  Node keys, titles and *)
(* prompts are left out; a field that validate_graph refuses is a document *)
(* with a parent that is Outside.  The order in which a node lists its     *)
(* parents is left open.                                                   *)
(*                                                                         *)
(* Definitions marked "variant" belong to no specification; each is the    *)
(* definition it precedes with a plausible defect.                         *)
(***************************************************************************)
EXTENDS Naturals, Sequences, FiniteSets

CONSTANTS
  N,              \* the number of nodes
  Outside,        \* a key or task id that is not in the document
  Ranks,          \* ranks of the lifecycle phases
  Decompositions, \* what Hermes may have recorded
  Documents       \* what an operator may submit: parents of every node

Nodes == 1..N

ASSUME PlannerAssumption ==
  /\ N \in Nat \ {0}
  /\ Outside \notin Nat
  /\ Ranks \subseteq Nat
  /\ Decompositions \subseteq [links : [Nodes -> SUBSET (Nodes \cup {Outside})],
                               phase : [Nodes -> Ranks]]
  /\ Documents \subseteq [Nodes -> SUBSET (Nodes \cup {Outside})]

VARIABLES
  pc,       \* where the request stands
  source,   \* who made the document
  hermes,   \* the decomposition on the Hermes board
  links,    \* the links read off it so far
  derived,  \* where the edges come from
  parents,  \* the parents of every node of the document
  at,       \* the node in hand
  path,     \* the nodes visit() is inside of, each with what it has to look at
  order,    \* the topological order so far
  reason,   \* why the document was refused
  board,    \* the nodes on the board
  single    \* the request was started as one task

visitVars == <<path, order>>
boardVars == <<board, single>>
vars == <<pc, source, hermes, links, derived, parents, at, visitVars, reason,
          boardVars>>

NoLinks == [n \in Nodes |-> {}]

Init ==
  /\ at = 1
  /\ links = NoLinks
  /\ derived = "none"
  /\ path = <<>>
  /\ order = <<>>
  /\ reason = "none"
  /\ board = {}
  /\ single = FALSE
  /\ \/ /\ source = "hermes"
        /\ hermes \in Decompositions
        /\ parents = NoLinks
        /\ pc = "read"
     \/ /\ source = "operator"
        /\ hermes = [links |-> NoLinks, phase |-> [n \in Nodes |-> 0]]
        /\ parents \in Documents
        /\ pc = "check"

Refuse(why) == pc' = "refused" /\ reason' = why

-----------------------------------------------------------------------------
(* decomposer: the links, then the edges *)

(* run_hermes_decompose raises before it reads a link, or its answer is not *)
(* a split into at least two children.                                      *)
HermesFails ==
  /\ pc = "read"
  /\ at = 1
  /\ Refuse("hermes")
  /\ UNCHANGED <<source, hermes, links, derived, parents, at, visitVars, boardVars>>

(* read_links, one call per child; links to the root and to itself go. *)
ReadLinks ==
  /\ pc = "read"
  /\ links' = [links EXCEPT ![at] = (hermes.links[at] \cap Nodes) \ {at}]
  /\ IF at < N THEN at' = at + 1 /\ UNCHANGED pc
               ELSE at' = 1 /\ pc' = "edges"
  /\ UNCHANGED <<source, hermes, derived, parents, visitVars, reason, boardVars>>

(* Variant: a child that cannot be read is taken to have no links. *)
ReadFailsPartly ==
  /\ pc = "read"
  /\ IF at < N THEN at' = at + 1 /\ UNCHANGED pc
               ELSE at' = 1 /\ pc' = "edges"
  /\ UNCHANGED <<source, hermes, links, derived, parents, visitVars, reason,
                 boardVars>>

(* One refused call, and none of the links is used. *)
ReadFails ==
  /\ pc = "read"
  /\ links' = NoLinks
  /\ at' = 1
  /\ pc' = "edges"
  /\ UNCHANGED <<source, hermes, derived, parents, visitVars, reason, boardVars>>

SemanticEdges ==
  /\ pc = "edges"
  /\ links # NoLinks
  /\ parents' = links
  /\ derived' = "links"
  /\ pc' = "check"
  /\ UNCHANGED <<source, hermes, links, at, visitVars, reason, boardVars>>

Rank(n) == hermes.phase[n]

(* Variant: a phase waits for itself. *)
PhaseUpTo(n) ==
  {m \in Nodes : /\ Rank(m) <= Rank(n)
                 /\ ~\E k \in Nodes : Rank(m) < Rank(k) /\ Rank(k) < Rank(n)}

(* The nodes of the last occupied phase before that of n. *)
PhaseBefore(n) ==
  {m \in Nodes : /\ Rank(m) < Rank(n)
                 /\ ~\E k \in Nodes : Rank(m) < Rank(k) /\ Rank(k) < Rank(n)}

PhaseEdges ==
  /\ pc = "edges"
  /\ links = NoLinks
  /\ parents' = [n \in Nodes |-> PhaseBefore(n)]
  /\ derived' = "phases"
  /\ pc' = "check"
  /\ UNCHANGED <<source, hermes, links, at, visitVars, reason, boardVars>>

-----------------------------------------------------------------------------
(* planner.validate_graph: the nodes, then _topological_order *)

(* Variant: only the last node is checked. *)
LastNodeBad == Outside \in parents[N]

(* A node names itself, or a parent that is not there. *)
BadNode == \E n \in Nodes : parents[n] \cap {n, Outside} # {}

NodesRefused ==
  /\ pc = "check"
  /\ BadNode
  /\ Refuse("node")
  /\ UNCHANGED <<source, hermes, links, derived, parents, at, visitVars, boardVars>>

NodesAccepted ==
  /\ pc = "check"
  /\ ~BadNode
  /\ pc' = "visit"
  /\ UNCHANGED <<source, hermes, links, derived, parents, at, visitVars, reason,
                 boardVars>>

Permanent == {order[i] : i \in DOMAIN order}
Active    == {path[i].node : i \in DOMAIN path}

Frame == [node : Nodes, todo : SUBSET Nodes]

Enter(n) == [node |-> n, todo |-> parents[n]]
Top == path[Len(path)]

(* The top frame has looked at p. *)
Looked(p) == [path EXCEPT ![Len(path)].todo = @ \ {p}]

Visiting == pc = "visit" /\ UNCHANGED <<source, hermes, links, derived, parents,
                                        boardVars>>

VisitNext ==
  /\ Visiting
  /\ path = <<>>
  /\ at \in Nodes
  /\ IF at \in Permanent THEN at' = at + 1 /\ UNCHANGED path
                         ELSE path' = <<Enter(at)>> /\ UNCHANGED at
  /\ UNCHANGED <<pc, order, reason>>

(* Variant: one set of visited nodes does for both. *)
SeenBefore(p) == p \in Permanent \cup Active

Resolved(p) == p \in Permanent

(* Variant: a node met before is taken for a cycle. *)
MetBefore(p) == p \in Permanent \cup Active

InCycle(p) == p \in Active

VisitParent ==
  /\ Visiting
  /\ path # <<>>
  /\ \E p \in Top.todo :
       \/ /\ Resolved(p)
          /\ path' = Looked(p)
          /\ UNCHANGED <<pc, reason>>
       \/ /\ InCycle(p)
          /\ Refuse("cycle")
          /\ UNCHANGED path
       \/ /\ ~Resolved(p)
          /\ ~InCycle(p)
          /\ path' = Append(Looked(p), Enter(p))
          /\ UNCHANGED <<pc, reason>>
  /\ UNCHANGED <<at, order>>

Leave ==
  /\ Visiting
  /\ path # <<>>
  /\ Top.todo = {}
  /\ order' = Append(order, Top.node)
  /\ path' = SubSeq(path, 1, Len(path) - 1)
  /\ UNCHANGED <<pc, at, reason>>

VisitEnds ==
  /\ Visiting
  /\ path = <<>>
  /\ at \notin Nodes
  /\ at' = 1
  /\ pc' = "write"
  /\ UNCHANGED <<visitVars, reason>>

-----------------------------------------------------------------------------
(* planner.write_graph, and what _fanout does without a graph *)

(* Variant: every task is committed as it is created. *)
WriteAndCommit ==
  /\ pc = "write"
  /\ at \in Nodes
  /\ board' = board \cup {order[at]}
  /\ at' = at + 1
  /\ UNCHANGED <<pc, source, hermes, links, derived, parents, visitVars, reason,
                 single>>

(* The ids of its parents are known, or there is a KeyError. *)
WriteNode ==
  /\ pc = "write"
  /\ at \in Nodes
  /\ parents[order[at]] \subseteq {order[i] : i \in 1..(at - 1)}
  /\ at' = at + 1
  /\ UNCHANGED <<pc, source, hermes, links, derived, parents, visitVars, reason,
                 boardVars>>

(* create_task raises, or the board cannot be written. *)
WriteFails ==
  /\ pc = "write"
  /\ Refuse("write")
  /\ UNCHANGED <<source, hermes, links, derived, parents, at, visitVars, boardVars>>

Commit ==
  /\ pc = "write"
  /\ at \notin Nodes
  /\ board' = Nodes
  /\ pc' = "planned"
  /\ UNCHANGED <<source, hermes, links, derived, parents, at, visitVars, reason,
                 single>>

(* Variant: the exception is reported and nothing else. *)
GivesUp ==
  /\ pc = "refused"
  /\ source = "hermes"
  /\ pc' = "alone"
  /\ UNCHANGED <<source, hermes, links, derived, parents, at, visitVars, reason,
                 boardVars>>

FallsBack ==
  /\ pc = "refused"
  /\ source = "hermes"
  /\ single' = TRUE
  /\ pc' = "alone"
  /\ UNCHANGED <<source, hermes, links, derived, parents, at, visitVars, reason,
                 board>>

-----------------------------------------------------------------------------
Next ==
  \/ HermesFails \/ ReadLinks \/ ReadFails \/ SemanticEdges \/ PhaseEdges
  \/ NodesRefused \/ NodesAccepted \/ VisitNext \/ VisitParent \/ Leave
  \/ VisitEnds \/ WriteNode \/ WriteFails \/ Commit \/ FallsBack

Spec == Init /\ [][Next]_vars

(* One synchronous call, whose parts have timeouts. *)
FairSpec == Spec /\ WF_vars(Next)

-----------------------------------------------------------------------------
(* Properties *)

(* Every variable has its type, and only a document without unknown parents *)
(* is ordered.                                                              *)
TypeOK ==
  /\ pc \in {"read", "edges", "check", "visit", "write", "planned", "refused",
             "alone"}
  /\ source \in {"hermes", "operator"}
  /\ links \in [Nodes -> SUBSET Nodes]
  /\ derived \in {"none", "links", "phases"}
  /\ parents \in [Nodes -> SUBSET (Nodes \cup {Outside})]
  /\ pc \in {"visit", "write", "planned"} => parents \in [Nodes -> SUBSET Nodes]
  /\ at \in 1..(N + 1)
  /\ pc = "read" => at \in Nodes
  /\ path \in Seq(Frame)
  /\ order \in Seq(Nodes)
  /\ reason \in {"none", "hermes", "node", "cycle", "write"}
  /\ board \subseteq Nodes
  /\ single \in BOOLEAN

(* A node comes after all its parents, so write_graph knows their ids, and  *)
(* the order is written only when it has every node exactly once            *)
(* (_topological_order).                                                    *)
ParentsFirst ==
  /\ \A i \in DOMAIN order :
       \A p \in parents[order[i]] : \E j \in 1..(i - 1) : order[j] = p
  /\ \A i, j \in DOMAIN order : order[i] = order[j] => i = j
  /\ pc \in {"write", "planned"} => Permanent = Nodes

(* Some nodes all wait for one of their own. *)
Cyclic == \E S \in SUBSET Nodes : S # {} /\ \A n \in S : parents[n] \cap S # {}

(* A document is refused for a cycle only if it has one                     *)
(* (_topological_order).                                                    *)
CyclesAreReal == reason = "cycle" => Cyclic

(* The board gets the whole graph or nothing of it, and a request never     *)
(* becomes a graph and a single task (write_graph, _fanout).                *)
AllOrNothing ==
  /\ board \in {{}, Nodes}
  /\ pc # "planned" => board = {}
  /\ single => board = {}

(* If edges come from Hermes, every link between two children is an edge    *)
(* (read_links: "All or nothing").                                          *)
LinksKept ==
  derived = "links" =>
    \A n \in Nodes : parents[n] = (hermes.links[n] \cap Nodes) \ {n}

(* Edges made from the phases are "acyclic by construction" (phase_edges).  *)
PhasesAreAccepted == derived = "phases" => reason \notin {"node", "cycle"}

(* A request is never dropped: it becomes a graph or a single task          *)
(* (_fanout).                                                               *)
RequestStarts == source = "hermes" ~> (board = Nodes \/ single)

(* n waits for m, directly or not. *)
WaitsFor(n, m) ==
  \A S \in SUBSET Nodes :
    (n \in S /\ \A k \in S : parents[k] \subseteq S) => m \in S

(* No task can run before its input exists: what Hermes recorded as needed  *)
(* by a child is waited for on the board ("the one failure the phase mesh   *)
(* could not produce", read_links and tests/test_decomposer.py:785).        *)
InputsAwaited ==
  (pc = "planned" /\ source = "hermes") =>
    \A n \in Nodes : \A m \in (hermes.links[n] \cap Nodes) \ {n} : WaitsFor(n, m)

(* A graph that reaches the board is whole and was written in its order,    *)
(* and one that was refused for a cycle had one.                            *)
GraphIsSound == ParentsFirst /\ CyclesAreReal /\ AllOrNothing

(* Where the edges come from: all of Hermes' links, or phases that make an  *)
(* acceptable graph.                                                        *)
EdgesAreSound == LinksKept /\ PhasesAreAccepted
=============================================================================
