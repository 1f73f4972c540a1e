--------------------------- MODULE PlannerProofs ---------------------------
(***************************************************************************)
(* Theorems about Planner: its types, that _topological_order is right     *)
(* whatever the document, that links and phases become the edges they      *)
(* should, and that write_graph writes everything or nothing.              *)
(***************************************************************************)
EXTENDS Planner, SequenceTheorems, TLAPS

LEMMA NodesFacts ==
  /\ N \in Nat \ {0}
  /\ \A n : n \in Nodes <=> n \in 1..N
  /\ Outside \notin Nodes
  /\ 1 \in Nodes /\ 1 \in 1..(N + 1)
  /\ \A i \in Nodes : i + 1 \in 1..(N + 1) /\ (i < N => i + 1 \in Nodes)
  BY PlannerAssumption DEF Nodes

LEMMA NoLinksType == NoLinks \in [Nodes -> SUBSET Nodes]
  BY DEF NoLinks

-----------------------------------------------------------------------------
(* Sequences *)

LEMMA PushFacts ==
  ASSUME NEW S, NEW s \in Seq(S), NEW e \in S
  PROVE  /\ Append(s, e) \in Seq(S)
         /\ Len(Append(s, e)) = Len(s) + 1
         /\ \A i \in 1..Len(s) : Append(s, e)[i] = s[i]
         /\ Append(s, e)[Len(s) + 1] = e
  OBVIOUS

LEMMA PopFacts ==
  ASSUME NEW S, NEW s \in Seq(S), s # <<>>
  PROVE  /\ SubSeq(s, 1, Len(s) - 1) \in Seq(S)
         /\ Len(SubSeq(s, 1, Len(s) - 1)) = Len(s) - 1
         /\ Len(s) \in Nat \ {0}
         /\ \A i \in 1..(Len(s) - 1) : SubSeq(s, 1, Len(s) - 1)[i] = s[i]
<1>1. Len(s) \in Nat \ {0}
  OBVIOUS
<1>3. \A i \in 1..(Len(s) - 1) : s[i] \in S
  BY <1>1
<1> DEFINE n == Len(s) - 1
<1>4. n \in Int /\ 1 \in Int
  BY <1>1
<1>5. /\ SubSeq(s, 1, n) \in Seq(S)
      /\ Len(SubSeq(s, 1, n)) = IF 1 <= n THEN n - 1 + 1 ELSE 0
      /\ \A i \in 1..(n - 1 + 1) : SubSeq(s, 1, n)[i] = s[1 + i - 1]
  <2> HIDE DEF n
  <2>1. \A i \in 1..n : s[i] \in S
    BY <1>3 DEF n
  <2> QED
    BY <1>4, <2>1, SubSeqProperties
<1>6. n - 1 + 1 = n /\ \A i \in 1..n : 1 + i - 1 = i
  BY <1>1
<1> QED
  BY <1>1, <1>5, <1>6

LEMMA ReplaceLast ==
  ASSUME NEW S, NEW s \in Seq(S), NEW k \in DOMAIN s, NEW e \in S
  PROVE  LET t == [s EXCEPT ![k] = e] IN
         /\ t \in Seq(S)
         /\ Len(t) = Len(s)
         /\ t[k] = e
         /\ \A i \in DOMAIN s \ {k} : t[i] = s[i]
  OBVIOUS

LEMMA SingleFacts ==
  ASSUME NEW S, NEW e \in S
  PROVE  <<e>> \in Seq(S) /\ Len(<<e>>) = 1 /\ <<e>>[1] = e
  OBVIOUS

LEMMA TopFacts ==
  ASSUME path \in Seq(Frame), path # <<>>
  PROVE  /\ Len(path) \in Nat \ {0}
         /\ Top \in Frame
         /\ Top.node \in Nodes
         /\ Top.todo \subseteq Nodes
<1>1. Len(path) \in Nat \ {0} /\ Len(path) \in DOMAIN path
  OBVIOUS
<1>2. Top \in Frame
  BY <1>1 DEF Top
<1> QED
  BY <1>1, <1>2 DEF Frame

LEMMA LookedFacts ==
  ASSUME path \in Seq(Frame), path # <<>>, NEW p
  PROVE  /\ Looked(p) \in Seq(Frame)
         /\ Len(Looked(p)) = Len(path)
         /\ Len(path) \in Nat \ {0}
         /\ \A i \in 1..Len(path) : Looked(p)[i].node = path[i].node
         /\ \A i \in 1..(Len(path) - 1) : Looked(p)[i] = path[i]
         /\ Looked(p)[Len(path)].todo = Top.todo \ {p}
<1> DEFINE last == [Top EXCEPT !.todo = @ \ {p}]
<1>1. Len(path) \in Nat \ {0} /\ DOMAIN path = 1..Len(path)
  OBVIOUS
<1>2. Top \in Frame
  BY TopFacts
<1>3. last \in Frame /\ last.node = Top.node /\ last.todo = Top.todo \ {p}
  BY <1>2 DEF Frame
<1>4. Looked(p) = [path EXCEPT ![Len(path)] = last]
  BY <1>1, <1>2 DEF Looked, Top, Frame
<1> HIDE DEF last
<1>5. /\ Looked(p) \in Seq(Frame)
      /\ Len(Looked(p)) = Len(path)
      /\ \A i \in 1..(Len(path) - 1) : Looked(p)[i] = path[i]
      /\ Looked(p)[Len(path)] = last
  BY <1>1, <1>3, <1>4, ReplaceLast
<1>6. \A i \in 1..Len(path) : Looked(p)[i].node = path[i].node
  BY <1>1, <1>3, <1>5 DEF Top
<1> QED
  BY <1>1, <1>3, <1>5, <1>6

-----------------------------------------------------------------------------
(* Types *)

LEMMA PlanStarts == Init => TypeOK
<1> SUFFICES ASSUME Init PROVE TypeOK
  OBVIOUS
<1> USE NodesFacts
<1>1. NoLinks \in [Nodes -> SUBSET (Nodes \cup {Outside})]
  BY DEF NoLinks
<1>2. Documents \subseteq [Nodes -> SUBSET (Nodes \cup {Outside})]
  BY PlannerAssumption
<1>3. parents \in [Nodes -> SUBSET (Nodes \cup {Outside})]
  BY <1>1, <1>2 DEF Init
<1>4. path \in Seq(Frame) /\ order \in Seq(Nodes)
  BY DEF Init
<1>5. links \in [Nodes -> SUBSET Nodes] /\ at \in Nodes /\ at \in 1..(N + 1)
  BY NoLinksType DEF Init
<1> QED
  BY <1>3, <1>4, <1>5 DEF Init, TypeOK

LEMMA PlanStep == TypeOK /\ [Next]_vars => TypeOK'
<1> SUFFICES ASSUME TypeOK, [Next]_vars PROVE TypeOK'
  OBVIOUS
<1> USE NodesFacts
<1> USE DEF Visiting, Refuse, boardVars, visitVars
<1>1. CASE HermesFails
  BY <1>1 DEF HermesFails, TypeOK
<1>2. CASE ReadLinks
  BY <1>2 DEF ReadLinks, TypeOK
<1>3. CASE ReadFails
  BY <1>3 DEF ReadFails, TypeOK, NoLinks
<1>4. CASE SemanticEdges
  BY <1>4 DEF SemanticEdges, TypeOK
<1>5. CASE PhaseEdges
  BY <1>5 DEF PhaseEdges, PhaseBefore, TypeOK
<1>6. CASE NodesRefused
  BY <1>6 DEF NodesRefused, TypeOK
<1>7. CASE NodesAccepted
  <2>1. parents \in [Nodes -> SUBSET (Nodes \cup {Outside})]
    BY DEF TypeOK
  <2>2. \A n \in Nodes : Outside \notin parents[n]
    BY <1>7 DEF NodesAccepted, BadNode
  <2>3. parents \in [Nodes -> SUBSET Nodes]
    BY <2>1, <2>2
  <2> QED
    BY <1>7, <2>3 DEF NodesAccepted, TypeOK
<1>8. CASE VisitNext
  <2>1. \A n \in Nodes : Enter(n) \in Frame
    BY <1>8 DEF VisitNext, TypeOK, Enter, Frame
  <2>2. \A n \in Nodes : <<Enter(n)>> \in Seq(Frame)
    BY <2>1, SingleFacts
  <2> QED
    BY <1>8, <2>2 DEF VisitNext, TypeOK
<1>9. CASE VisitParent
  <2>1. PICK p \in Top.todo :
          \/ path' = Looked(p) /\ UNCHANGED <<pc, reason>>
          \/ Refuse("cycle") /\ UNCHANGED path
          \/ path' = Append(Looked(p), Enter(p)) /\ UNCHANGED <<pc, reason>>
    BY <1>9 DEF VisitParent
  <2>2. path \in Seq(Frame) /\ path # <<>>
    BY <1>9 DEF VisitParent, TypeOK
  <2>3. Looked(p) \in Seq(Frame)
    BY <2>2, LookedFacts
  <2>4. p \in Nodes
    BY <2>1, <2>2, TopFacts
  <2>5. Enter(p) \in Frame
    BY <1>9, <2>4 DEF VisitParent, TypeOK, Enter, Frame
  <2>6. path' \in Seq(Frame)
    BY <2>1, <2>2, <2>3, <2>5, PushFacts
  <2> QED
    BY <1>9, <2>1, <2>6 DEF VisitParent, TypeOK
<1>10. CASE Leave
  <2>1. path \in Seq(Frame) /\ path # <<>>
    BY <1>10 DEF Leave, TypeOK
  <2>2. path' \in Seq(Frame)
    BY <1>10, <2>1, PopFacts DEF Leave
  <2>3. Top.node \in Nodes
    BY <2>1, TopFacts
  <2>4. order' \in Seq(Nodes)
    BY <1>10, <2>3, PushFacts DEF Leave, TypeOK
  <2> QED
    BY <1>10, <2>2, <2>4 DEF Leave, TypeOK
<1>11. CASE VisitEnds
  BY <1>11 DEF VisitEnds, TypeOK
<1>12. CASE WriteNode
  BY <1>12 DEF WriteNode, TypeOK
<1>13. CASE WriteFails
  BY <1>13 DEF WriteFails, TypeOK
<1>14. CASE Commit
  BY <1>14 DEF Commit, TypeOK
<1>15. CASE FallsBack
  BY <1>15 DEF FallsBack, TypeOK
<1>16. CASE UNCHANGED vars
  BY <1>16 DEF vars, TypeOK
<1> QED
  BY <1>1, <1>2, <1>3, <1>4, <1>5, <1>6, <1>7, <1>8, <1>9, <1>10, <1>11,
     <1>12, <1>13, <1>14, <1>15, <1>16 DEF Next

(* Every variable has its type, and only a document without unknown parents *)
(* is ordered and written (validate_graph).                                 *)
THEOREM PlanTypes == Spec => []TypeOK
  BY PlanStarts, PlanStep, PTL DEF Spec

-----------------------------------------------------------------------------
(* The search *)

(* What each stage of a request has and has not done. *)
Stages ==
  /\ pc \in {"read", "edges", "check"} => path = <<>> /\ order = <<>>
  /\ pc \in {"edges", "check"} => at = 1
  /\ pc \notin {"refused", "alone"} => reason = "none"

(* The order so far. *)
Sorted ==
  /\ \A i \in DOMAIN order :
       \A p \in parents[order[i]] : \E j \in 1..(i - 1) : order[j] = p
  /\ \A i, j \in DOMAIN order : order[i] = order[j] => i = j

(* The path is a simple path through nodes that are not in the order, each  *)
(* a parent of the one before.                                              *)
Simple ==
  /\ \A k \in 1..Len(path) : path[k].node \notin Permanent
  /\ \A j, k \in 1..Len(path) : path[j].node = path[k].node => j = k
  /\ \A k \in 1..(Len(path) - 1) : path[k + 1].node \in parents[path[k].node]

(* Every parent of a node on the path is still to be looked at, or in the   *)
(* order, or next on the path.                                              *)
Accounted ==
  \A k \in 1..Len(path) :
    /\ path[k].todo \subseteq parents[path[k].node]
    /\ \A p \in parents[path[k].node] :
         \/ p \in path[k].todo
         \/ p \in Permanent
         \/ k < Len(path) /\ p = path[k + 1].node

(* Nodes that were passed are in the order. *)
PassedOver ==
  /\ pc = "visit" => \A n \in 1..(at - 1) : n \in Permanent
  /\ pc \in {"write", "planned"} => Permanent = Nodes

Search == Stages /\ Sorted /\ Simple /\ Accounted /\ PassedOver

(* A step that leaves the search where it is. *)
Aside == UNCHANGED <<parents, path, order>>

LEMMA SearchStarts == Init => Search
<1> SUFFICES ASSUME Init PROVE Search
  OBVIOUS
<1>1. path = <<>> /\ order = <<>> /\ at = 1 /\ reason = "none"
      /\ pc \in {"read", "check"}
  BY DEF Init
<1>2. Permanent = {} /\ Len(path) = 0 /\ DOMAIN order = {}
  BY <1>1 DEF Permanent
<1> QED
  BY <1>1, <1>2 DEF Search, Stages, Sorted, Simple, Accounted, PassedOver

LEMMA StagesKept ==
  ASSUME TypeOK, Stages, [Next]_vars
  PROVE  Stages'
<1> USE DEF Stages, Visiting, Refuse, boardVars, visitVars
<1>1. CASE HermesFails \/ ReadLinks \/ ReadFails \/ SemanticEdges \/ PhaseEdges
  BY <1>1 DEF HermesFails, ReadLinks, ReadFails, SemanticEdges, PhaseEdges
<1>2. CASE NodesRefused \/ NodesAccepted \/ VisitNext \/ VisitParent
  BY <1>2 DEF NodesRefused, NodesAccepted, VisitNext, VisitParent
<1>3. CASE Leave \/ VisitEnds
  BY <1>3 DEF Leave, VisitEnds
<1>4. CASE WriteNode \/ WriteFails \/ Commit \/ FallsBack
  BY <1>4 DEF WriteNode, WriteFails, Commit, FallsBack
<1>5. CASE UNCHANGED vars
  BY <1>5 DEF vars
<1> QED
  BY <1>1, <1>2, <1>3, <1>4, <1>5 DEF Next

(* All that does not visit is aside, or comes before the search. *)
LEMMA MostAside ==
  ASSUME [Next]_vars, ~VisitNext, ~VisitParent, ~Leave
  PROVE  Aside \/ (pc \in {"read", "edges", "check"} /\ UNCHANGED <<path, order>>)
<1> USE DEF Aside, Visiting, Refuse, boardVars, visitVars
<1>1. CASE HermesFails \/ ReadLinks \/ ReadFails \/ SemanticEdges \/ PhaseEdges
  BY <1>1 DEF HermesFails, ReadLinks, ReadFails, SemanticEdges, PhaseEdges
<1>2. CASE NodesRefused \/ NodesAccepted \/ VisitEnds
  BY <1>2 DEF NodesRefused, NodesAccepted, VisitEnds
<1>3. CASE WriteNode \/ WriteFails \/ Commit \/ FallsBack
  BY <1>3 DEF WriteNode, WriteFails, Commit, FallsBack
<1>4. CASE UNCHANGED vars
  BY <1>4 DEF vars
<1> QED
  BY <1>1, <1>2, <1>3, <1>4 DEF Next

LEMMA SortedKept ==
  ASSUME TypeOK, Search, [Next]_vars
  PROVE  Sorted'
<1>1. CASE Aside
  BY <1>1 DEF Aside, Search, Sorted
<1>2. CASE pc \in {"read", "edges", "check"} /\ UNCHANGED <<path, order>>
  BY <1>2 DEF Search, Stages, Sorted
<1>3. CASE VisitNext \/ VisitParent
  <2>1. UNCHANGED <<parents, order>>
    BY <1>3 DEF VisitNext, VisitParent, Visiting
  <2> QED
    BY <2>1 DEF Search, Sorted
<1>4. CASE Leave
  <2> DEFINE k == Len(order)
  <2>1. order \in Seq(Nodes) /\ path \in Seq(Frame) /\ path # <<>>
    BY <1>4 DEF TypeOK, Leave
  <2>2. Top.node \in Nodes /\ Len(path) \in Nat \ {0}
    BY <2>1, TopFacts
  <2>3. order' = Append(order, Top.node) /\ parents' = parents /\ Top.todo = {}
    BY <1>4 DEF Leave, Visiting
  <2>4. /\ k \in Nat
        /\ DOMAIN order = 1..k
        /\ DOMAIN order' = 1..(k + 1)
        /\ \A i \in 1..k : order'[i] = order[i]
        /\ order'[k + 1] = Top.node
    BY <2>1, <2>2, <2>3
  <2>5. Top.node \notin Permanent
    BY <2>2 DEF Search, Simple, Top
  <2>6. \A p \in parents[Top.node] : p \in Permanent
    BY <2>2, <2>3 DEF Search, Accounted, Top
  <2>7. \A p \in parents[Top.node] : \E j \in 1..k : order'[j] = p
    BY <2>4, <2>6 DEF Permanent
  <2> HIDE DEF k
  <2>8. ASSUME NEW i \in 1..(k + 1), NEW p \in parents'[order'[i]]
        PROVE  \E j \in 1..(i - 1) : order'[j] = p
    <3>1. CASE i = k + 1
      BY <2>3, <2>4, <2>7, <3>1
    <3>2. CASE i \in 1..k
      <4>1. PICK j \in 1..(i - 1) : order[j] = p
        BY <2>3, <2>4, <2>8, <3>2 DEF Search, Sorted
      <4> QED
        BY <2>4, <3>2, <4>1
    <3> QED
      BY <2>4, <3>1, <3>2
  <2>9. ASSUME NEW i \in 1..(k + 1), NEW j \in 1..(k + 1), order'[i] = order'[j]
        PROVE  i = j
    <3>1. \A m \in 1..k : order[m] # Top.node
      BY <2>4, <2>5 DEF Permanent
    <3>2. CASE i \in 1..k /\ j \in 1..k
      BY <2>4, <2>9, <3>2 DEF Search, Sorted
    <3>3. CASE i = k + 1 \/ j = k + 1
      BY <2>4, <2>9, <3>1, <3>3
    <3> QED
      BY <2>4, <3>2, <3>3
  <2> QED
    BY <2>4, <2>8, <2>9 DEF Sorted
<1> QED
  BY <1>1, <1>2, <1>3, <1>4, MostAside

(* How the path changes: a node is entered, a parent is looked at, or the   *)
(* last node is left.                                                       *)
StartsAt(n) ==
  /\ path = <<>> /\ n \notin Permanent
  /\ Len(path') = 1 /\ path'[1].node = n /\ path'[1].todo = parents[n]

LooksAt(p) ==
  /\ Len(path') = Len(path)
  /\ \A k \in 1..Len(path) :
       /\ path'[k].node = path[k].node
       /\ path'[k].todo \subseteq path[k].todo
       /\ \A r \in path[k].todo : r \in path'[k].todo \/ r = p
  /\ p \in Permanent

Enters(p) ==
  /\ Len(path') = Len(path) + 1
  /\ \A k \in 1..Len(path) :
       /\ path'[k].node = path[k].node
       /\ path'[k].todo \subseteq path[k].todo
       /\ \A r \in path[k].todo :
            r \in path'[k].todo \/ (k = Len(path) /\ r = p)
  /\ path'[Len(path) + 1].node = p
  /\ path'[Len(path) + 1].todo = parents[p]
  /\ p \in path[Len(path)].todo
  /\ p \notin Permanent
  /\ \A k \in 1..Len(path) : path[k].node # p

LEMMA VisitNextShape ==
  ASSUME TypeOK, VisitNext
  PROVE  /\ UNCHANGED <<order, parents>>
         /\ UNCHANGED path \/ StartsAt(at)
<1>1. at \in Nodes /\ UNCHANGED <<order, parents>> /\ path = <<>>
  BY DEF VisitNext, Visiting
<1>2. CASE at \in Permanent
  BY <1>1, <1>2 DEF VisitNext
<1>3. CASE at \notin Permanent
  <2>1. path' = <<Enter(at)>>
    BY <1>3 DEF VisitNext
  <2>2. Len(path') = 1 /\ path'[1] = Enter(at)
    BY <2>1
  <2> QED
    BY <1>1, <1>3, <2>2 DEF StartsAt, Enter
<1> QED
  BY <1>1, <1>2, <1>3

LEMMA VisitParentShape ==
  ASSUME TypeOK, VisitParent
  PROVE  /\ UNCHANGED <<order, parents, at>>
         /\ path \in Seq(Frame) /\ path # <<>> /\ Len(path) \in Nat \ {0}
         /\ \E p \in Top.todo :
              \/ UNCHANGED path /\ InCycle(p) /\ pc' = "refused" /\ reason' = "cycle"
              \/ LooksAt(p) /\ UNCHANGED <<pc, reason>>
              \/ Enters(p) /\ UNCHANGED <<pc, reason>>
<1>1. UNCHANGED <<order, parents, at>> /\ path \in Seq(Frame) /\ path # <<>>
  BY DEF VisitParent, Visiting, TypeOK
<1>2. Len(path) \in Nat \ {0} /\ Top.todo \subseteq Nodes
  BY <1>1, TopFacts
<1>3. PICK p \in Top.todo :
        \/ /\ Resolved(p)
           /\ path' = Looked(p)
           /\ UNCHANGED <<pc, reason>>
        \/ /\ InCycle(p)
           /\ Refuse("cycle")
           /\ UNCHANGED path
        \/ /\ ~Resolved(p)
           /\ ~InCycle(p)
           /\ path' = Append(Looked(p), Enter(p))
           /\ UNCHANGED <<pc, reason>>
  BY DEF VisitParent
<1> DEFINE l == Looked(p)
<1>4. /\ l \in Seq(Frame)
      /\ Len(l) = Len(path)
      /\ \A k \in 1..Len(path) : l[k].node = path[k].node
      /\ \A k \in 1..(Len(path) - 1) : l[k] = path[k]
      /\ l[Len(path)].todo = path[Len(path)].todo \ {p}
  BY <1>1, LookedFacts DEF Top
<1> HIDE DEF l
<1>5. \A k \in 1..Len(path) :
        /\ l[k].node = path[k].node
        /\ l[k].todo \subseteq path[k].todo
        /\ \A r \in path[k].todo : r \in l[k].todo \/ (k = Len(path) /\ r = p)
  <2> SUFFICES ASSUME NEW k \in 1..Len(path)
               PROVE  /\ l[k].node = path[k].node
                      /\ l[k].todo \subseteq path[k].todo
                      /\ \A r \in path[k].todo :
                           r \in l[k].todo \/ (k = Len(path) /\ r = p)
    OBVIOUS
  <2>1. CASE k = Len(path)
    BY <1>4, <2>1
  <2>2. CASE k \in 1..(Len(path) - 1)
    BY <1>4, <2>2
  <2> QED
    BY <1>2, <2>1, <2>2
<1>6. CASE Resolved(p) /\ path' = l /\ UNCHANGED <<pc, reason>>
  BY <1>1, <1>2, <1>4, <1>5, <1>6 DEF LooksAt, Resolved
<1>7. CASE InCycle(p) /\ Refuse("cycle") /\ UNCHANGED path
  BY <1>1, <1>2, <1>7 DEF Refuse
<1>8. CASE /\ ~Resolved(p) /\ ~InCycle(p)
           /\ path' = Append(l, Enter(p)) /\ UNCHANGED <<pc, reason>>
  <2>1. Enter(p) \in Frame
    BY <1>2 DEF VisitParent, Visiting, TypeOK, Enter, Frame
  <2>2. /\ Len(path') = Len(path) + 1
        /\ \A k \in 1..Len(path) : path'[k] = l[k]
        /\ path'[Len(path) + 1] = Enter(p)
    BY <1>4, <1>8, <2>1, PushFacts
  <2>3. \A k \in 1..Len(path) : path[k].node # p
    BY <1>1, <1>8 DEF InCycle, Active
  <2>4. Enters(p)
    BY <1>5, <1>8, <2>2, <2>3 DEF Enters, Enter, Resolved, Top
  <2> QED
    BY <1>1, <1>2, <1>8, <2>4
<1> QED
  BY <1>3, <1>6, <1>7, <1>8 DEF l

LEMMA LeaveShape ==
  ASSUME TypeOK, Leave
  PROVE  /\ UNCHANGED <<parents, at, pc>>
         /\ Len(path) \in Nat \ {0}
         /\ Len(path') = Len(path) - 1
         /\ \A k \in 1..(Len(path) - 1) : path'[k] = path[k]
         /\ Permanent' = Permanent \cup {path[Len(path)].node}
<1>1. /\ order \in Seq(Nodes) /\ path \in Seq(Frame) /\ path # <<>>
      /\ UNCHANGED <<parents, at, pc>>
  BY DEF TypeOK, Leave, Visiting
<1>2. Top.node \in Nodes /\ Len(path) \in Nat \ {0}
  BY <1>1, TopFacts
<1>3. /\ Len(path') = Len(path) - 1
      /\ \A k \in 1..(Len(path) - 1) : path'[k] = path[k]
  BY <1>1, PopFacts DEF Leave
<1>4. order' = Append(order, Top.node)
  BY DEF Leave
<1>5. /\ DOMAIN order = 1..Len(order) /\ Len(order) \in Nat
      /\ DOMAIN order' = 1..(Len(order) + 1)
      /\ \A i \in 1..Len(order) : order'[i] = order[i]
      /\ order'[Len(order) + 1] = Top.node
  BY <1>1, <1>2, <1>4
<1>6. Permanent' = Permanent \cup {Top.node}
  BY <1>5 DEF Permanent
<1> QED
  BY <1>1, <1>2, <1>3, <1>6 DEF Top

LEMMA SimpleKept ==
  ASSUME TypeOK, Search, [Next]_vars
  PROVE  Simple'
<1>1. CASE Aside
  BY <1>1 DEF Aside, Search, Simple, Permanent
<1>2. CASE pc \in {"read", "edges", "check"} /\ UNCHANGED <<path, order>>
  <2>1. Len(path') = 0
    BY <1>2 DEF Search, Stages
  <2> QED
    BY <2>1 DEF Simple
<1>3. ASSUME UNCHANGED <<order, parents>>, UNCHANGED path PROVE Simple'
  BY <1>3 DEF Search, Simple, Permanent
<1>4. CASE VisitNext
  <2>1. CASE StartsAt(at)
    BY <1>4, <2>1, VisitNextShape DEF Simple, StartsAt, Permanent
  <2> QED
    BY <1>3, <1>4, <2>1, VisitNextShape
<1>5. CASE VisitParent
  <2>1. PICK p \in Top.todo : UNCHANGED path \/ LooksAt(p) \/ Enters(p)
    BY <1>5, VisitParentShape
  <2>2. /\ UNCHANGED <<order, parents>> /\ Permanent' = Permanent
        /\ Len(path) \in Nat \ {0}
    BY <1>5, VisitParentShape DEF Permanent
  <2>3. CASE LooksAt(p)
    BY <2>2, <2>3 DEF Search, Simple, LooksAt
  <2>4. CASE Enters(p)
    <3>1. p \in parents[path[Len(path)].node]
      BY <2>2, <2>4 DEF Enters, Search, Accounted
    <3>2. \A k \in 1..Len(path') : path'[k].node \notin Permanent'
      BY <2>2, <2>4 DEF Search, Simple, Enters
    <3>3. \A j, k \in 1..Len(path') : path'[j].node = path'[k].node => j = k
      BY <2>2, <2>4 DEF Search, Simple, Enters
    <3>4. \A k \in 1..(Len(path') - 1) :
            path'[k + 1].node \in parents'[path'[k].node]
      BY <2>2, <2>4, <3>1 DEF Search, Simple, Enters
    <3> QED
      BY <3>2, <3>3, <3>4 DEF Simple
  <2> QED
    BY <1>3, <2>1, <2>2, <2>3, <2>4
<1>6. CASE Leave
  <2>1. /\ parents' = parents
        /\ Len(path) \in Nat \ {0}
        /\ Len(path') = Len(path) - 1
        /\ \A k \in 1..(Len(path) - 1) : path'[k] = path[k]
        /\ Permanent' = Permanent \cup {path[Len(path)].node}
    BY <1>6, LeaveShape
  <2>2. \A k \in 1..Len(path') : path'[k].node \notin Permanent'
    BY <2>1 DEF Search, Simple
  <2>3. \A j, k \in 1..Len(path') : path'[j].node = path'[k].node => j = k
    BY <2>1 DEF Search, Simple
  <2>4. \A k \in 1..(Len(path') - 1) :
          path'[k + 1].node \in parents'[path'[k].node]
    BY <2>1 DEF Search, Simple
  <2> QED
    BY <2>2, <2>3, <2>4 DEF Simple
<1> QED
  BY <1>1, <1>2, <1>4, <1>5, <1>6, MostAside

LEMMA AccountedKept ==
  ASSUME TypeOK, Search, [Next]_vars
  PROVE  Accounted'
<1>1. CASE Aside
  BY <1>1 DEF Aside, Search, Accounted, Permanent
<1>2. CASE pc \in {"read", "edges", "check"} /\ UNCHANGED <<path, order>>
  <2>1. Len(path') = 0
    BY <1>2 DEF Search, Stages
  <2> QED
    BY <2>1 DEF Accounted
<1>3. ASSUME UNCHANGED <<order, parents>>, UNCHANGED path PROVE Accounted'
  BY <1>3 DEF Search, Accounted, Permanent
<1>4. CASE VisitNext
  <2>1. CASE StartsAt(at)
    BY <1>4, <2>1, VisitNextShape DEF Accounted, StartsAt
  <2> QED
    BY <1>3, <1>4, <2>1, VisitNextShape
<1>5. CASE VisitParent
  <2>1. PICK p \in Top.todo : UNCHANGED path \/ LooksAt(p) \/ Enters(p)
    BY <1>5, VisitParentShape
  <2>2. /\ UNCHANGED <<order, parents>> /\ Permanent' = Permanent
        /\ Len(path) \in Nat \ {0}
    BY <1>5, VisitParentShape DEF Permanent
  <2>3. CASE LooksAt(p)
    <3> SUFFICES ASSUME NEW k \in 1..Len(path)
                 PROVE  /\ path'[k].todo \subseteq parents[path[k].node]
                        /\ \A r \in parents[path[k].node] :
                             \/ r \in path'[k].todo
                             \/ r \in Permanent
                             \/ k < Len(path) /\ r = path'[k + 1].node
      BY <2>2, <2>3 DEF LooksAt, Accounted
    <3> QED
      BY <2>2, <2>3 DEF LooksAt, Search, Accounted
  <2>4. CASE Enters(p)
    <3>1. ASSUME NEW k \in 1..Len(path)
          PROVE  /\ path'[k].todo \subseteq parents[path'[k].node]
                 /\ \A r \in parents[path'[k].node] :
                      \/ r \in path'[k].todo
                      \/ r \in Permanent
                      \/ k < Len(path') /\ r = path'[k + 1].node
      BY <2>2, <2>4 DEF Enters, Search, Accounted
    <3>2. path'[Len(path')].todo = parents[path'[Len(path')].node]
      BY <2>2, <2>4 DEF Enters
    <3> QED
      BY <2>2, <2>4, <3>1, <3>2 DEF Enters, Accounted
  <2> QED
    BY <1>3, <2>1, <2>2, <2>3, <2>4
<1>6. CASE Leave
  BY <1>6, LeaveShape DEF Search, Accounted
<1> QED
  BY <1>1, <1>2, <1>4, <1>5, <1>6, MostAside

LEMMA PassedKept ==
  ASSUME TypeOK, TypeOK', Search, [Next]_vars
  PROVE  PassedOver'
<1> USE NodesFacts
<1>1. CASE pc = "visit"
  <2>1. CASE VisitNext
    <3>1. at \in Nodes /\ at' \in {at, at + 1} /\ Permanent' = Permanent
          /\ pc' = "visit" /\ (at' = at + 1 => at \in Permanent)
      BY <2>1 DEF VisitNext, Visiting, Permanent
    <3> QED
      BY <1>1, <3>1 DEF Search, PassedOver
  <2>2. CASE VisitParent
    <3>1. at' = at /\ Permanent' = Permanent /\ pc' \in {"visit", "refused"}
      BY <1>1, <2>2, VisitParentShape DEF Permanent
    <3> QED
      BY <1>1, <3>1 DEF Search, PassedOver
  <2>3. CASE Leave
    BY <1>1, <2>3, LeaveShape DEF Search, PassedOver
  <2>4. CASE VisitEnds
    <3>1. at \in 1..(N + 1) /\ at \notin Nodes
      BY <2>4 DEF VisitEnds, TypeOK
    <3>2. at = N + 1
      BY <3>1
    <3>3. Permanent' = Permanent /\ pc' = "write"
      BY <2>4 DEF VisitEnds, visitVars, Permanent
    <3>4. Nodes \subseteq Permanent
      BY <1>1, <3>2 DEF Search, PassedOver
    <3>5. order \in Seq(Nodes)
      BY DEF TypeOK
    <3>6. Permanent \subseteq Nodes
      BY <3>5 DEF Permanent
    <3> QED
      BY <3>3, <3>4, <3>6 DEF PassedOver
  <2>5. CASE UNCHANGED vars
    BY <2>5 DEF vars, visitVars, Search, PassedOver, Permanent
  <2> QED
    BY <1>1, <2>1, <2>2, <2>3, <2>4, <2>5
       DEF Next, HermesFails, ReadLinks, ReadFails, SemanticEdges, PhaseEdges,
           NodesRefused, NodesAccepted, WriteNode, WriteFails, Commit, FallsBack
<1>2. CASE pc # "visit"
  <2>1. CASE NodesAccepted
    <3>1. at' = 1 /\ pc' = "visit"
      BY <2>1 DEF NodesAccepted, Search, Stages
    <3> QED
      BY <3>1 DEF PassedOver
  <2>2. CASE WriteNode \/ Commit
    <3>1. /\ Permanent' = Permanent
          /\ pc = "write" /\ pc' \in {"write", "planned"}
      BY <2>2 DEF WriteNode, Commit, visitVars, Permanent
    <3> QED
      BY <3>1 DEF Search, PassedOver
  <2>3. CASE UNCHANGED vars
    BY <2>3 DEF vars, visitVars, Search, PassedOver, Permanent
  <2>4. CASE \/ HermesFails \/ ReadLinks \/ ReadFails \/ SemanticEdges
             \/ PhaseEdges \/ NodesRefused \/ WriteFails \/ FallsBack
    <3>1. pc' \notin {"visit", "write", "planned"}
      BY <2>4 DEF HermesFails, ReadLinks, ReadFails, SemanticEdges, PhaseEdges,
                  NodesRefused, WriteFails, FallsBack, Refuse
    <3> QED
      BY <3>1 DEF PassedOver
  <2> QED
    BY <1>2, <2>1, <2>2, <2>3, <2>4
       DEF Next, VisitNext, VisitParent, Leave, VisitEnds, Visiting
<1> QED
  BY <1>1, <1>2

LEMMA SearchInductive == Spec => [](TypeOK /\ Search)
<1>1. TypeOK /\ TypeOK' /\ Search /\ [Next]_vars => Search'
  BY StagesKept, SortedKept, SimpleKept, AccountedKept, PassedKept DEF Search
<1> QED
  BY <1>1, SearchStarts, PlanTypes, PTL DEF Spec

(* A node comes after all its parents, each node once, and the order is     *)
(* complete when it is written, whatever the document                       *)
(* (_topological_order, write_graph).                                       *)
THEOREM ParentsComeFirst == Spec => []ParentsFirst
<1>1. TypeOK /\ Search => ParentsFirst
  BY DEF Search, Sorted, PassedOver, ParentsFirst
<1> QED
  BY <1>1, SearchInductive, PTL

(* A document is refused for a cycle only if it has one: the nodes on the   *)
(* path from the one that was met again (_topological_order).               *)
THEOREM RefusedForACycle == Spec => []CyclesAreReal
<1>1. Init => CyclesAreReal
  BY DEF Init, CyclesAreReal
<1>2. TypeOK /\ Search /\ CyclesAreReal /\ [Next]_vars => CyclesAreReal'
  <2> SUFFICES ASSUME TypeOK, Search, CyclesAreReal, [Next]_vars
               PROVE  CyclesAreReal'
    OBVIOUS
  <2> USE DEF Visiting, Refuse, boardVars, visitVars
  <2>1. CASE VisitParent
    <3>1. PICK p \in Top.todo :
            \/ UNCHANGED path /\ InCycle(p) /\ reason' = "cycle"
            \/ UNCHANGED reason
      BY <2>1, VisitParentShape
    <3>2. /\ parents' = parents /\ path \in Seq(Frame)
          /\ Len(path) \in Nat \ {0} /\ reason = "none"
      BY <2>1, VisitParentShape DEF Search, Stages, VisitParent
    <3>3. CASE InCycle(p)
      <4>1. PICK j \in 1..Len(path) : path[j].node = p
        BY <3>2, <3>3 DEF InCycle, Active
      <4> DEFINE S == {path[k].node : k \in j..Len(path)}
      <4>2. \A k \in 1..Len(path) : path[k].node \in Nodes
        <5>1. \A k \in 1..Len(path) : path[k] \in Frame
          BY <3>2
        <5> QED
          BY <5>1 DEF Frame
      <4>3. S \in SUBSET Nodes /\ p \in S
        BY <3>2, <4>1, <4>2
      <4>4. ASSUME NEW k \in j..Len(path)
            PROVE  parents[path[k].node] \cap S # {}
        <5>1. CASE k = Len(path)
          BY <3>1, <3>2, <4>3, <5>1 DEF Search, Accounted, Top
        <5>2. CASE k < Len(path)
          BY <3>2, <4>1, <4>4, <5>2 DEF Search, Simple
        <5> QED
          BY <3>2, <4>1, <5>1, <5>2
      <4>5. \A n \in S : parents[n] \cap S # {}
        BY <4>4
      <4> HIDE DEF S
      <4> QED
        BY <3>2, <4>3, <4>5 DEF CyclesAreReal, Cyclic
    <3>4. CASE UNCHANGED reason
      BY <3>2, <3>4 DEF CyclesAreReal
    <3> QED
      BY <3>1, <3>3, <3>4
  <2>2. CASE SemanticEdges \/ PhaseEdges
    BY <2>2 DEF SemanticEdges, PhaseEdges, Search, Stages, CyclesAreReal
  <2>3. CASE HermesFails \/ ReadLinks \/ ReadFails \/ NodesRefused \/ NodesAccepted
    BY <2>3 DEF HermesFails, ReadLinks, ReadFails, NodesRefused, NodesAccepted,
                CyclesAreReal, Cyclic
  <2>4. CASE VisitNext \/ Leave \/ VisitEnds
    BY <2>4 DEF VisitNext, Leave, VisitEnds, CyclesAreReal, Cyclic
  <2>5. CASE WriteNode \/ WriteFails \/ Commit \/ FallsBack
    BY <2>5 DEF WriteNode, WriteFails, Commit, FallsBack, CyclesAreReal, Cyclic
  <2>6. CASE UNCHANGED vars
    BY <2>6 DEF vars, CyclesAreReal, Cyclic
  <2> QED
    BY <2>1, <2>2, <2>3, <2>4, <2>5, <2>6 DEF Next
<1> QED
  BY <1>1, <1>2, SearchInductive, PTL DEF Spec

-----------------------------------------------------------------------------
(* What is written *)

(* The board gets the whole graph or nothing, and a request becomes one     *)
(* task only if there is no graph (write_graph, _fanout).                   *)
THEOREM WholeOrNothing == Spec => []AllOrNothing
<1> DEFINE Written == AllOrNothing /\ (single => pc = "alone")
<1>1. Init => Written
  BY DEF Init, AllOrNothing
<1>2. Written /\ [Next]_vars => Written'
  <2> SUFFICES ASSUME Written, [Next]_vars PROVE Written'
    OBVIOUS
  <2> USE DEF AllOrNothing, Visiting, Refuse, boardVars, visitVars
  <2>1. ASSUME pc \notin {"planned", "alone"}, UNCHANGED boardVars
        PROVE  Written'
    BY <2>1
  <2>2. CASE HermesFails \/ ReadLinks \/ ReadFails \/ SemanticEdges \/ PhaseEdges
    BY <2>1, <2>2 DEF HermesFails, ReadLinks, ReadFails, SemanticEdges, PhaseEdges
  <2>3. CASE NodesRefused \/ NodesAccepted \/ VisitNext \/ VisitParent \/ Leave
    BY <2>1, <2>3 DEF NodesRefused, NodesAccepted, VisitNext, VisitParent, Leave
  <2>4. CASE VisitEnds \/ WriteNode \/ WriteFails
    BY <2>1, <2>4 DEF VisitEnds, WriteNode, WriteFails
  <2>5. CASE Commit
    BY <2>5 DEF Commit
  <2>6. CASE FallsBack
    BY <2>6 DEF FallsBack
  <2>7. CASE UNCHANGED vars
    BY <2>7 DEF vars
  <2> QED
    BY <2>1, <2>2, <2>3, <2>4, <2>5, <2>6, <2>7 DEF Next
<1>3. Written => AllOrNothing
  OBVIOUS
<1> QED
  BY <1>1, <1>2, <1>3, PTL DEF Spec

(* The links between children, as read_links filters them. *)
LinksOf(n) == (hermes.links[n] \cap Nodes) \ {n}

ReadsLinks ==
  /\ pc \notin {"read", "edges"} \/ derived = "none"
  /\ pc = "read" => \A n \in Nodes :
                      links[n] = IF n < at THEN LinksOf(n) ELSE {}
  /\ pc = "edges" => links = NoLinks \/ \A n \in Nodes : links[n] = LinksOf(n)

(* Edges that come from Hermes are all its links between children, never    *)
(* some of them (read_links, semantic_edges).                               *)
THEOREM AllLinksOrNone == Spec => []LinksKept
<1> USE NodesFacts
<1> DEFINE Read == ReadsLinks /\ LinksKept
<1>1. Init => Read
  BY DEF Init, ReadsLinks, LinksKept, NoLinks
<1>2. TypeOK /\ Read /\ [Next]_vars => Read'
  <2> SUFFICES ASSUME TypeOK, Read, [Next]_vars PROVE Read'
    OBVIOUS
  <2> USE DEF ReadsLinks, LinksKept, LinksOf, Visiting, Refuse, boardVars, visitVars
  <2>1. CASE ReadLinks
    <3>1. links' = [links EXCEPT ![at] = LinksOf(at)] /\ at \in Nodes
          /\ UNCHANGED <<hermes, parents, derived>> /\ derived = "none"
      BY <2>1 DEF ReadLinks, TypeOK
    <3>2. links \in [Nodes -> SUBSET Nodes]
      BY DEF TypeOK
    <3>3. \A n \in Nodes : links'[n] = IF n < at \/ n = at THEN LinksOf(n) ELSE {}
      BY <2>1, <3>1, <3>2 DEF ReadLinks
    <3>4. CASE at < N
      <4>1. at' = at + 1 /\ pc' = "read"
        BY <2>1, <3>4 DEF ReadLinks
      <4> QED
        BY <3>1, <3>3, <4>1
    <3>5. CASE ~(at < N)
      <4>1. pc' = "edges"
        BY <2>1, <3>5 DEF ReadLinks
      <4>2. \A n \in Nodes : n < at \/ n = at
        BY <3>1, <3>5
      <4> QED
        BY <3>1, <3>3, <4>1, <4>2
    <3> QED
      BY <3>4, <3>5
  <2>2. CASE ReadFails
    BY <2>2 DEF ReadFails
  <2>3. CASE SemanticEdges
    BY <2>3 DEF SemanticEdges
  <2>4. CASE HermesFails \/ PhaseEdges
    BY <2>4 DEF HermesFails, PhaseEdges
  <2>5. CASE NodesRefused \/ NodesAccepted
    BY <2>5 DEF NodesRefused, NodesAccepted
  <2>6. CASE VisitNext \/ VisitParent \/ Leave \/ VisitEnds
    <3>1. pc' \notin {"read", "edges"} /\ UNCHANGED <<hermes, parents, derived>>
      BY <2>6 DEF VisitNext, VisitParent, Leave, VisitEnds
    <3> QED
      BY <3>1
  <2>7. CASE WriteNode \/ WriteFails \/ Commit \/ FallsBack
    BY <2>7 DEF WriteNode, WriteFails, Commit, FallsBack
  <2>8. CASE UNCHANGED vars
    BY <2>8 DEF vars
  <2> QED
    BY <2>1, <2>2, <2>3, <2>4, <2>5, <2>6, <2>7, <2>8 DEF Next
<1>3. Read => LinksKept
  OBVIOUS
<1> QED
  BY <1>1, <1>2, <1>3, PlanTypes, PTL DEF Spec

-----------------------------------------------------------------------------
(* Edges made from the phases *)

Ranked == hermes.phase \in [Nodes -> Nat]

(* Edges go to lower ranks, and ranks fall along the path. *)
Falling ==
  derived = "phases" =>
    /\ pc \notin {"read", "edges"}
    /\ \A n \in Nodes : \A p \in parents[n] : p \in Nodes /\ Rank(p) < Rank(n)
    /\ \A j, k \in 1..Len(path) : j <= k => Rank(path[k].node) <= Rank(path[j].node)

LEMMA AlwaysRanked == Spec => []Ranked
<1>1. Init => Ranked
  <2>1. Ranks \subseteq Nat
    BY PlannerAssumption
  <2>2. \A d \in Decompositions : d.phase \in [Nodes -> Ranks]
    BY PlannerAssumption
  <2>3. \A d \in Decompositions : d.phase \in [Nodes -> Nat]
    BY <2>1, <2>2
  <2> QED
    BY <2>3 DEF Init, Ranked
<1>2. Ranked /\ [Next]_vars => Ranked'
  <2> SUFFICES ASSUME [Next]_vars PROVE hermes' = hermes
    BY DEF Ranked
  <2>1. CASE HermesFails \/ ReadLinks \/ ReadFails \/ SemanticEdges \/ PhaseEdges
    BY <2>1 DEF HermesFails, ReadLinks, ReadFails, SemanticEdges, PhaseEdges
  <2>2. CASE NodesRefused \/ NodesAccepted \/ VisitNext \/ VisitParent \/ Leave
    BY <2>2 DEF NodesRefused, NodesAccepted, VisitNext, VisitParent, Leave, Visiting
  <2>3. CASE VisitEnds \/ WriteNode \/ WriteFails \/ Commit \/ FallsBack
    BY <2>3 DEF VisitEnds, WriteNode, WriteFails, Commit, FallsBack, Visiting
  <2>4. CASE UNCHANGED vars
    BY <2>4 DEF vars
  <2> QED
    BY <2>1, <2>2, <2>3, <2>4 DEF Next
<1> QED
  BY <1>1, <1>2, PTL DEF Spec

LEMMA FallingKept ==
  ASSUME TypeOK, TypeOK', Search, Ranked, Falling, [Next]_vars
  PROVE  Falling'
<1> USE DEF Visiting, Refuse, boardVars, visitVars
<1>1. ASSUME UNCHANGED <<hermes, derived, parents, path>>,
             pc' \notin {"read", "edges"}
      PROVE  Falling'
  BY <1>1 DEF Falling, Rank
<1>2. CASE PhaseEdges
  <2>1. /\ parents' = [n \in Nodes |-> PhaseBefore(n)]
        /\ hermes' = hermes /\ path' = path /\ pc' = "check"
    BY <1>2 DEF PhaseEdges
  <2>2. Len(path') = 0
    BY <1>2, <2>1 DEF PhaseEdges, Search, Stages
  <2>3. \A n \in Nodes : \A p \in PhaseBefore(n) : p \in Nodes /\ Rank(p) < Rank(n)
    BY DEF PhaseBefore
  <2> QED
    BY <2>1, <2>2, <2>3 DEF Falling, Rank
<1>3. CASE SemanticEdges \/ ReadLinks \/ ReadFails
  BY <1>3 DEF SemanticEdges, ReadLinks, ReadFails, Falling
<1>4. CASE HermesFails \/ NodesRefused \/ NodesAccepted \/ VisitEnds
  BY <1>1, <1>4 DEF HermesFails, NodesRefused, NodesAccepted, VisitEnds
<1>5. CASE WriteNode \/ WriteFails \/ Commit \/ FallsBack
  BY <1>1, <1>5 DEF WriteNode, WriteFails, Commit, FallsBack
<1>6. CASE UNCHANGED vars
  BY <1>6 DEF vars, Falling, Rank
<1>7. CASE VisitNext \/ VisitParent \/ Leave
  <2>1. UNCHANGED <<hermes, derived, parents>> /\ pc' \notin {"read", "edges"}
    BY <1>7 DEF VisitNext, VisitParent, Leave
  <2> SUFFICES ASSUME derived = "phases"
               PROVE  \A j, k \in 1..Len(path') :
                        j <= k => Rank(path'[k].node) <= Rank(path'[j].node)
    BY <2>1 DEF Falling, Rank
  <2>2. path \in Seq(Frame) /\ path' \in Seq(Frame)
    BY DEF TypeOK
  <2>3. ASSUME NEW q \in Seq(Frame), NEW k \in 1..Len(q)
        PROVE  q[k].node \in Nodes
    <3>1. q[k] \in Frame
      BY <2>3
    <3> QED
      BY <3>1 DEF Frame
  <2>4. \A n \in Nodes : Rank(n) \in Nat
    BY DEF Ranked, Rank
  <2>5. \A j, k \in 1..Len(path) : j <= k => Rank(path[k].node) <= Rank(path[j].node)
    BY DEF Falling
  <2>6. CASE UNCHANGED path
    BY <2>5, <2>6
  <2>7. CASE VisitNext /\ StartsAt(at)
    <3>1. path'[1].node \in Nodes /\ Len(path') = 1
      BY <2>2, <2>3, <2>7 DEF StartsAt
    <3> QED
      BY <2>4, <3>1
  <2>8. CASE VisitParent
    <3>1. PICK p \in Top.todo : UNCHANGED path \/ LooksAt(p) \/ Enters(p)
      BY <2>8, VisitParentShape
    <3>2. Len(path) \in Nat \ {0}
      BY <2>8, VisitParentShape
    <3>3. CASE LooksAt(p)
      BY <2>5, <3>3 DEF LooksAt
    <3>4. CASE Enters(p)
      <4> DEFINE last == path[Len(path)].node
      <4>1. last \in Nodes /\ p \in parents[last]
        BY <2>2, <2>3, <3>2, <3>4 DEF Enters, Search, Accounted
      <4>2. Rank(p) < Rank(last) /\ p \in Nodes
        BY <4>1 DEF Falling
      <4>3. \A j \in 1..Len(path) :
              path[j].node \in Nodes /\ Rank(last) <= Rank(path[j].node)
        BY <2>2, <2>3, <2>5, <3>2
      <4> HIDE DEF last
      <4>4. \A j \in 1..Len(path) : Rank(p) <= Rank(path[j].node)
        BY <2>4, <4>1, <4>2, <4>3
      <4>5. /\ Len(path') = Len(path) + 1
            /\ \A j \in 1..Len(path) : path'[j].node = path[j].node
            /\ path'[Len(path) + 1].node = p
        BY <3>4 DEF Enters
      <4> SUFFICES ASSUME NEW j \in 1..(Len(path) + 1),
                          NEW k \in 1..(Len(path) + 1), j <= k
                   PROVE  Rank(path'[k].node) <= Rank(path'[j].node)
        BY <4>5
      <4>6. CASE k \in 1..Len(path)
        BY <2>5, <3>2, <4>5, <4>6
      <4>7. CASE k = Len(path) + 1 /\ j \in 1..Len(path)
        BY <4>4, <4>5, <4>7
      <4>8. CASE k = Len(path) + 1 /\ j = k
        BY <2>4, <4>2, <4>5, <4>8
      <4> QED
        BY <3>2, <4>6, <4>7, <4>8
    <3> QED
      BY <2>6, <3>1, <3>3, <3>4
  <2>9. CASE Leave
    BY <2>5, <2>9, LeaveShape
  <2> QED
    BY <1>7, <2>6, <2>7, <2>8, <2>9, VisitNextShape
<1> QED
  BY <1>2, <1>3, <1>4, <1>5, <1>6, <1>7 DEF Next

(* Edges made from the phases are never refused: they name only nodes of    *)
(* the document and lead to earlier phases (phase_edges, validate_graph).   *)
THEOREM PhaseOrderIsAccepted == Spec => []PhasesAreAccepted
<1> DEFINE All == TypeOK /\ Search /\ Ranked
<1>1. Spec => []All
  BY SearchInductive, AlwaysRanked, PTL
<1>2. Init => Falling /\ PhasesAreAccepted
  BY DEF Init, Falling, PhasesAreAccepted
<1>3. All /\ All' /\ Falling /\ [Next]_vars => Falling'
  BY FallingKept
<1>4. All /\ Falling /\ PhasesAreAccepted /\ [Next]_vars => PhasesAreAccepted'
  <2> SUFFICES ASSUME All, Falling, PhasesAreAccepted, [Next]_vars
               PROVE  PhasesAreAccepted'
    OBVIOUS
  <2> USE DEF Visiting, Refuse, boardVars, visitVars
  <2>1. CASE VisitParent
    <3>1. PICK p \in Top.todo :
            \/ UNCHANGED path /\ InCycle(p) /\ reason' = "cycle"
            \/ UNCHANGED reason
      BY <2>1, VisitParentShape
    <3>2. derived' = derived /\ path \in Seq(Frame) /\ Len(path) \in Nat \ {0}
      BY <2>1, VisitParentShape DEF VisitParent
    <3>3. ASSUME derived = "phases", InCycle(p) PROVE FALSE
      <4> DEFINE last == path[Len(path)].node
      <4>1. PICK j \in 1..Len(path) : path[j].node = p
        BY <3>2, <3>3 DEF InCycle, Active
      <4>2. Rank(last) <= Rank(p)
        BY <3>2, <3>3, <4>1 DEF Falling
      <4>3. last \in Nodes
        BY <3>2, TopFacts DEF Top
      <4>4. p \in parents[last]
        BY <3>2 DEF Search, Accounted, Top
      <4>5. Rank(p) < Rank(last) /\ p \in Nodes
        BY <3>3, <4>3, <4>4 DEF Falling
      <4> HIDE DEF last
      <4>6. Rank(p) \in Nat /\ Rank(last) \in Nat
        BY <4>3, <4>5 DEF Ranked, Rank
      <4> QED
        BY <4>2, <4>5, <4>6
    <3> QED
      BY <3>1, <3>2, <3>3 DEF PhasesAreAccepted
  <2>2. CASE NodesRefused
    <3>1. pc = "check" /\ BadNode /\ derived' = derived
      BY <2>2 DEF NodesRefused
    <3>2. ASSUME derived = "phases" PROVE FALSE
      <4>1. PICK n \in Nodes : n \in parents[n] \/ Outside \in parents[n]
        BY <3>1 DEF BadNode
      <4>2. \A p \in parents[n] : p \in Nodes /\ Rank(p) < Rank(n)
        BY <3>2 DEF Falling
      <4>3. CASE Outside \in parents[n]
        BY <4>2, <4>3, NodesFacts
      <4>4. CASE n \in parents[n]
        <5>1. Rank(n) < Rank(n) /\ Rank(n) \in Nat
          BY <4>2, <4>4 DEF Ranked, Rank
        <5> QED
          BY <5>1
      <4> QED
        BY <4>1, <4>3, <4>4
    <3> QED
      BY <3>1, <3>2 DEF PhasesAreAccepted
  <2>3. CASE HermesFails \/ ReadLinks \/ ReadFails \/ SemanticEdges \/ PhaseEdges
    BY <2>3 DEF HermesFails, ReadLinks, ReadFails, SemanticEdges, PhaseEdges,
                PhasesAreAccepted, Search, Stages
  <2>4. CASE NodesAccepted \/ VisitNext \/ Leave \/ VisitEnds
    BY <2>4 DEF NodesAccepted, VisitNext, Leave, VisitEnds, PhasesAreAccepted
  <2>5. CASE WriteNode \/ WriteFails \/ Commit \/ FallsBack
    BY <2>5 DEF WriteNode, WriteFails, Commit, FallsBack, PhasesAreAccepted
  <2>6. CASE UNCHANGED vars
    BY <2>6 DEF vars, PhasesAreAccepted
  <2> QED
    BY <2>1, <2>2, <2>3, <2>4, <2>5, <2>6 DEF Next
<1> HIDE DEF All
<1> QED
  BY <1>1, <1>2, <1>3, <1>4, PTL DEF Spec

(* A graph on the board is whole and in order, a refusal is deserved. *)
THEOREM GraphsAreSound == Spec => []GraphIsSound
  BY ParentsComeFirst, RefusedForACycle, WholeOrNothing, PTL DEF GraphIsSound

(* Edges are all of Hermes' links or make an acceptable graph of phases. *)
THEOREM AllEdgesAreSound == Spec => []EdgesAreSound
  BY AllLinksOrNone, PhaseOrderIsAccepted, PTL DEF EdgesAreSound
=============================================================================
