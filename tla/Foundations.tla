---------------------------- MODULE Foundations ----------------------------
(***************************************************************************)
(* Facts about sets of numbers and about sequences that the proofs of      *)
(* several components need.                                                *)
(***************************************************************************)
EXTENDS Integers, SequencesExt, FiniteSetsExt, FiniteSetTheorems, WellFoundedInduction, TLAPS

-----------------------------------------------------------------------------
(* What Min and Max choose is there. *)

LEMMA LeastOf ==
  ASSUME NEW T, T \subseteq Nat, T # {}
  PROVE  Min(T) \in T /\ \A m \in T : Min(T) <= m
<1> DEFINE R == OpToRel(<, Nat)
<1>1. IsWellFoundedOn(R, Nat)
  BY NatLessThanWellFounded
<1>2. \A x, y \in Nat : x < y => <<x, y>> \in R
  BY DEF OpToRel
<1> HIDE DEF R
<1>3. PICK x \in T : \A y \in T : <<y, x>> \notin R
  BY <1>1, WFMin
<1>4. \A y \in T : x =< y
  <2> SUFFICES ASSUME NEW y \in T, ~(x =< y) PROVE FALSE
    OBVIOUS
  <2>1. x \in Nat /\ y \in Nat
    OBVIOUS
  <2>2. y < x
    BY ONLY <2>1, ~(x =< y)
  <2>3. <<y, x>> \in R
    BY ONLY <1>2, <2>1, <2>2
  <2> QED
    BY <1>3, <2>3
<1>5. Min(T) \in T /\ \A y \in T : Min(T) =< y
  BY <1>4 DEF Min
<1> QED
  BY <1>5

LEMMA GreatestOf ==
  ASSUME NEW n \in Nat, NEW T, T \subseteq 0..n, T # {}
  PROVE  Max(T) \in T /\ \A m \in T : m <= Max(T)
<1> DEFINE U == {n - t : t \in T}
<1>1. \A t \in T : t \in 0..n /\ n - t \in Nat
  OBVIOUS
<1>2. U \subseteq Nat
  BY <1>1
<1>3. U # {}
  OBVIOUS
<1>4. Min(U) \in U /\ \A v \in U : Min(U) <= v
  BY <1>2, <1>3, LeastOf
<1>5. PICK t \in T : Min(U) = n - t
  BY <1>4
<1>6. \A m \in T : t >= m
  <2> SUFFICES ASSUME NEW m \in T PROVE t >= m
    OBVIOUS
  <2>1. n - m \in U
    OBVIOUS
  <2>2. n - t <= n - m
    BY <1>4, <1>5, <2>1
  <2>3. t \in 0..n /\ m \in 0..n
    BY <1>1
  <2> QED
    BY ONLY <2>2, <2>3, n \in Nat
<1>7. Max(T) \in T /\ \A y \in T : Max(T) >= y
  BY <1>6 DEF Max
<1>8. Max(T) \in 0..n
  BY <1>7
<1> QED
  BY <1>1, <1>7, <1>8

-----------------------------------------------------------------------------
(* Sequences *)

LEMMA SeqHolds ==
  ASSUME NEW S, NEW seq \in Seq(S), NEW i \in 1..Len(seq)
  PROVE  seq[i] \in S
  OBVIOUS

LEMMA SeqGrows ==
  ASSUME NEW S, NEW seq \in Seq(S), NEW x \in S
  PROVE  /\ Append(seq, x) \in Seq(S) /\ Len(Append(seq, x)) = Len(seq) + 1
         /\ Len(seq) \in Nat
         /\ \A i \in 1..Len(seq) : Append(seq, x)[i] = seq[i]
         /\ Append(seq, x)[Len(seq) + 1] = x
         /\ \A i \in 1..Len(Append(seq, x)) : i \in 1..Len(seq) \/ i = Len(seq) + 1
  OBVIOUS

LEMMA SeqOfMore ==
  ASSUME NEW S, NEW T, S \subseteq T, NEW seq \in Seq(S)
  PROVE  seq \in Seq(T)
<1>1. \A i \in 1..Len(seq) : seq[i] \in T
  OBVIOUS
<1>2. DOMAIN seq = 1..Len(seq) /\ Len(seq) \in Nat
  OBVIOUS
<1>3. seq \in [1..Len(seq) -> T]
  BY <1>1, <1>2
<1> QED
  BY <1>2, <1>3

LEMMA SeqJoined ==
  ASSUME NEW S, NEW T, NEW a, NEW b, a \in Seq(S), b \in Seq(T)
  PROVE  ToSet(a \o b) = ToSet(a) \cup ToSet(b)
<1> DEFINE c == a \o b
<1>1. PICK n \in Nat, m \in Nat : n = Len(a) /\ m = Len(b)
  OBVIOUS
<1>2. /\ DOMAIN a = 1..n /\ DOMAIN b = 1..m /\ DOMAIN c = 1..(n + m)
      /\ \A i \in 1..n : c[i] = a[i]
      /\ \A i \in 1..m : c[n + i] = b[i]
  BY <1>1
<1> HIDE DEF c
<1>3. \A i \in 1..(n + m) : i \in 1..n \/ (i - n \in 1..m /\ n + (i - n) = i)
  OBVIOUS
<1>4. \A i \in 1..n : i \in 1..(n + m)
  OBVIOUS
<1>5. \A i \in 1..m : n + i \in 1..(n + m)
  OBVIOUS
<1>6. {c[i] : i \in DOMAIN c} = {a[i] : i \in DOMAIN a} \cup {b[i] : i \in DOMAIN b}
  <2>1. ASSUME NEW i \in 1..(n + m)
        PROVE  c[i] \in {a[j] : j \in 1..n} \cup {b[j] : j \in 1..m}
    <3>1. CASE i \in 1..n
      BY <1>2, <3>1
    <3>2. CASE i - n \in 1..m /\ n + (i - n) = i
      <4>1. c[i] = b[i - n]
        BY ONLY <1>2, <3>2
      <4> QED
        BY <3>2, <4>1
    <3> QED
      BY <1>3, <3>1, <3>2
  <2>2. ASSUME NEW i \in 1..n PROVE a[i] \in {c[j] : j \in 1..(n + m)}
    BY <1>2, <1>4
  <2>3. ASSUME NEW i \in 1..m PROVE b[i] \in {c[j] : j \in 1..(n + m)}
    BY <1>2, <1>5
  <2> QED
    BY ONLY <1>2, <2>1, <2>2, <2>3
<1> QED
  BY ONLY <1>6, Zenon DEF ToSet, c

LEMMA SeqMade ==
  ASSUME NEW S, NEW n \in Nat, NEW seq, seq \in [1..n -> S]
  PROVE  seq \in Seq(S) /\ Len(seq) = n
  OBVIOUS

-----------------------------------------------------------------------------
(* Induction and recursion, in the form of sets and functions. *)

LEMMA EveryNumber ==
  ASSUME NEW T, 0 \in T, \A n \in Nat : n \in T => n + 1 \in T
  PROVE  \A n \in Nat : n \in T
<1> DEFINE U == {n \in Nat : n \notin T}
<1> SUFFICES ASSUME U # {} PROVE FALSE
  OBVIOUS
<1>1. Min(U) \in U /\ \A m \in U : Min(U) <= m
  BY LeastOf
<1>2. PICK n \in U : \A m \in U : n <= m
  BY <1>1
<1>3. n \in Nat /\ n \notin T /\ n # 0
  OBVIOUS
<1>4. n - 1 \in Nat /\ n - 1 \notin U
  BY <1>2, <1>3
<1>5. (n - 1) + 1 \in T
  BY <1>4
<1> QED
  BY <1>3, <1>5

(* A function defined by what follows its value at k - 1 is there. *)
LEMMA StepByStep ==
  ASSUME NEW S, NEW start \in S, NEW n \in Nat, NEW F \in [(1..n) \X S -> S]
  PROVE  \E g \in [0..n -> S] :
           g[0] = start /\ \A k \in 1..n : g[k] = F[<<k, g[k - 1]>>]
<1> DEFINE Fits(m, g) ==
             /\ g \in [0..m -> S]
             /\ g = [k \in 0..m |-> IF k = 0 THEN start ELSE F[<<k, g[k - 1]>>]]
           T == {m \in Nat : m <= n => \E g \in [0..m -> S] : Fits(m, g)}
<1>1. 0 \in T
  <2> DEFINE g == [k \in 0..0 |-> start]
  <2>1. g \in [0..0 -> S] /\ g = [k \in 0..0 |-> IF k = 0 THEN start ELSE F[<<k, g[k - 1]>>]]
    OBVIOUS
  <2> QED
    BY <2>1
<1>2. ASSUME NEW m \in Nat, m \in T PROVE m + 1 \in T
  <2> SUFFICES ASSUME m + 1 <= n PROVE \E g \in [0..(m + 1) -> S] : Fits(m + 1, g)
    OBVIOUS
  <2>1. PICK g \in [0..m -> S] : Fits(m, g)
    BY <1>2
  <2>2. F[<<m + 1, g[m]>>] \in S
    BY <2>1
  <2> DEFINE h == [k \in 0..(m + 1) |-> IF k = m + 1 THEN F[<<m + 1, g[m]>>] ELSE g[k]]
  <2>3. h \in [0..(m + 1) -> S]
    BY <2>2
  <2>4. ASSUME NEW k \in 0..(m + 1)
        PROVE  h[k] = IF k = 0 THEN start ELSE F[<<k, h[k - 1]>>]
    <3>1. CASE k = m + 1
      <4>1. k # 0 /\ k - 1 = m /\ m # m + 1 /\ m \in 0..(m + 1)
        BY <3>1
      <4>2. h[k] = F[<<m + 1, g[m]>>] /\ h[m] = g[m]
        BY <3>1, <4>1
      <4> QED
        BY ONLY <3>1, <4>1, <4>2
    <3>2. CASE k # m + 1
      <4>1. k \in 0..m /\ h[k] = g[k] /\ (k # 0 => k - 1 \in 0..m /\ h[k - 1] = g[k - 1])
        BY <3>2
      <4>2. g[k] = IF k = 0 THEN start ELSE F[<<k, g[k - 1]>>]
        BY <2>1, <4>1
      <4> QED
        BY <4>1, <4>2
    <3> QED
      BY <3>1, <3>2
  <2> HIDE DEF h
  <2>5. h = [k \in 0..(m + 1) |-> IF k = 0 THEN start ELSE F[<<k, h[k - 1]>>]]
    BY <2>3, <2>4
  <2> QED
    BY <2>3, <2>5
<1>3. n \in T
  <2> HIDE DEF T
  <2> QED
    BY <1>1, <1>2, EveryNumber
<1>4. PICK g \in [0..n -> S] : Fits(n, g)
  BY <1>3
<1>5. g[0] = start
  BY <1>4
<1>6. \A k \in 1..n : g[k] = F[<<k, g[k - 1]>>]
  BY <1>4
<1> QED
  BY <1>5, <1>6

(* Two measures, the first of which counts for more, are enough to go by.   *)
LEMMA ByMeasures ==
  ASSUME NEW D, NEW m \in [D -> Nat], NEW l \in [D -> Nat], NEW T,
         \A x \in D :
           (\A y \in D : (m[y] < m[x] \/ (m[y] = m[x] /\ l[y] < l[x])) => y \in T) => x \in T
  PROVE  \A x \in D : x \in T
<1> DEFINE U == {x \in D : x \notin T}
           M == {m[x] : x \in U}
<1> SUFFICES ASSUME U # {} PROVE FALSE
  OBVIOUS
<1>1. PICK a \in M : \A b \in M : a <= b
  <2>1. M \subseteq Nat /\ M # {}
    OBVIOUS
  <2> HIDE DEF M
  <2> QED
    BY <2>1, LeastOf
<1> DEFINE L == {l[x] : x \in {y \in U : m[y] = a}}
<1>2. PICK c \in L : \A b \in L : c <= b
  <2>1. L \subseteq Nat /\ L # {}
    BY <1>1
  <2> HIDE DEF L
  <2> QED
    BY <2>1, LeastOf
<1>3. PICK x \in U : m[x] = a /\ l[x] = c
  BY <1>2
<1>4. ASSUME NEW y \in D, m[y] < m[x] \/ (m[y] = m[x] /\ l[y] < l[x]), y \notin T
      PROVE  FALSE
  <2>1. y \in U /\ m[y] \in M /\ m[y] \in Nat /\ m[x] \in Nat /\ l[y] \in Nat /\ l[x] \in Nat
    BY <1>4
  <2>2. m[x] <= m[y]
    BY <1>1, <1>3, <2>1
  <2>3. m[y] = m[x] /\ l[y] < l[x]
    BY <1>4, <2>1, <2>2
  <2>4. l[y] \in L
    BY <1>3, <2>1, <2>3
  <2>5. l[x] <= l[y]
    BY <1>2, <1>3, <2>4
  <2> QED
    BY ONLY <2>1, <2>3, <2>5
<1> QED
  BY <1>3, <1>4

(* A walk that gets nearer with every step defines what is at its end.      *)
IsWalk(D, m, l, Stop, V, out, onward) ==
  /\ m \in [D -> Nat] /\ l \in [D -> Nat] /\ Stop \in SUBSET D
  /\ out \in [D -> V] /\ onward \in [D -> D]
  /\ \A x \in D \ Stop :
       LET y == onward[x] IN m[y] < m[x] \/ (m[y] = m[x] /\ l[y] < l[x])

IsEnd(D, Stop, V, out, onward, f) ==
  f \in [D -> V] /\ \A x \in D : f[x] = IF x \in Stop THEN out[x] ELSE f[onward[x]]

LEMMA WalkEnds ==
  ASSUME NEW D, NEW m, NEW l, NEW Stop, NEW V, NEW out, NEW onward,
         IsWalk(D, m, l, Stop, V, out, onward)
  PROVE  \E f : IsEnd(D, Stop, V, out, onward, f)
<1>0. /\ m \in [D -> Nat] /\ l \in [D -> Nat] /\ Stop \in SUBSET D
      /\ out \in [D -> V] /\ onward \in [D -> D]
      /\ \A x \in D \ Stop :
           LET y == onward[x] IN m[y] < m[x] \/ (m[y] = m[x] /\ l[y] < l[x])
  BY DEF IsWalk
<1> DEFINE Fits(E, g) ==
             /\ g \in [E -> V]
             /\ \A x \in E : /\ x \in Stop \/ onward[x] \in E
                             /\ g[x] = IF x \in Stop THEN out[x] ELSE g[onward[x]]
           Known == {x \in D : \E E \in SUBSET D : x \in E /\ \E g \in [E -> V] : Fits(E, g)}
           Sure == {x \in D : \A E, G \in SUBSET D : \A g \in [E -> V], h \in [G -> V] :
                      (x \in E /\ x \in G /\ Fits(E, g) /\ Fits(G, h)) => g[x] = h[x]}
<1>1. \A x \in D : x \in Known
  <2>1. ASSUME NEW x \in D, x \in Stop \/ onward[x] \in Known PROVE x \in Known
    <3>1. CASE x \in Stop
      <4> DEFINE g == [y \in {x} |-> out[y]]
      <4>1. g \in [{x} -> V] /\ Fits({x}, g) /\ {x} \in SUBSET D
        BY <1>0, <3>1
      <4> HIDE DEF Fits, g
      <4> QED
        BY <4>1
    <3>2. CASE x \notin Stop
      <4>1. onward[x] \in Known
        BY <2>1, <3>2
      <4>2. PICK E \in SUBSET D : onward[x] \in E /\ \E g \in [E -> V] : Fits(E, g)
        BY <4>1
      <4>3. PICK g \in [E -> V] : Fits(E, g)
        BY <4>2
      <4> DEFINE h == [y \in E \cup {x} |-> IF y \in E THEN g[y] ELSE g[onward[x]]]
      <4>4. h \in [E \cup {x} -> V] /\ \A y \in E : h[y] = g[y]
        BY <4>2
      <4>5. h[x] = h[onward[x]]
        BY <3>2, <4>2, <4>3
      <4> HIDE DEF h
      <4>6. Fits(E \cup {x}, h)
        BY <3>2, <4>2, <4>3, <4>4, <4>5
      <4> HIDE DEF Fits
      <4> QED
        BY <4>4, <4>6, E \cup {x} \in SUBSET D
    <3> QED
      BY <3>1, <3>2
  <2> HIDE DEF Known
  <2> QED
    BY <1>0, <2>1, ByMeasures
<1>2. \A x \in D : x \in Sure
  <2>1. ASSUME NEW x \in D, x \in Stop \/ onward[x] \in Sure PROVE x \in Sure
    BY <2>1
  <2> HIDE DEF Sure
  <2> QED
    BY <1>0, <2>1, ByMeasures
<1> DEFINE Of(x) == CHOOSE E \in SUBSET D : x \in E /\ \E g \in [E -> V] : Fits(E, g)
           By(x) == CHOOSE g \in [Of(x) -> V] : Fits(Of(x), g)
           f == [x \in D |-> By(x)[x]]
<1>3. ASSUME NEW x \in D
      PROVE  Of(x) \in SUBSET D /\ x \in Of(x) /\ By(x) \in [Of(x) -> V] /\ Fits(Of(x), By(x))
  <2>1. \E E \in SUBSET D : x \in E /\ \E g \in [E -> V] : Fits(E, g)
    BY <1>1
  <2> HIDE DEF Fits
  <2>2. Of(x) \in SUBSET D /\ x \in Of(x) /\ \E g \in [Of(x) -> V] : Fits(Of(x), g)
    BY ONLY <2>1
  <2> HIDE DEF Of
  <2> QED
    BY ONLY <2>2
<1> HIDE DEF Of, By
<1>4. f \in [D -> V]
  BY <1>3
<1>5. ASSUME NEW x \in D PROVE f[x] = IF x \in Stop THEN out[x] ELSE f[onward[x]]
  <2>1. By(x)[x] = IF x \in Stop THEN out[x] ELSE By(x)[onward[x]]
    BY <1>3
  <2>2. CASE x \in Stop
    BY <2>1, <2>2
  <2>3. CASE x \notin Stop
    <3>1. onward[x] \in D /\ onward[x] \in Of(x) /\ onward[x] \in Of(onward[x])
      BY <1>3, <2>3
    <3>2. By(x)[onward[x]] = By(onward[x])[onward[x]]
      <4> HIDE DEF Fits
      <4> QED
        BY <1>2, <1>3, <3>1
    <3> QED
      BY <2>1, <2>3, <3>1, <3>2
  <2> QED
    BY <2>2, <2>3
<1> HIDE DEF f
<1> QED
  BY <1>4, <1>5 DEF IsEnd

(* SetToSeq lists a finite set. *)
LEMMA SetAsSeq ==
  ASSUME NEW S, IsFiniteSet(S)
  PROVE  SetToSeq(S) \in Seq(S)
<1>1. Cardinality(S) \in Nat /\ ExistsBijection(1..Cardinality(S), S)
  BY FS_CardinalityType
<1>2. \E f \in [1..Cardinality(S) -> S] : IsInjective(f)
  BY <1>1 DEF ExistsBijection, Bijection, Injection
<1>3. SetToSeq(S) \in [1..Cardinality(S) -> S]
  BY <1>2 DEF SetToSeq
<1> QED
  BY <1>1, <1>3

=============================================================================
