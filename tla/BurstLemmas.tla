---------------------------- MODULE BurstLemmas ----------------------------
(***************************************************************************)
(* What one analysis of a set of bursts gives, whatever the bursts: its    *)
(* clusters have no burst in common, their numbers stand for one cluster   *)
(* each, and the columns of an alignment hold bursts that were aligned.    *)
(***************************************************************************)
EXTENDS BurstAnalysis, DataLemmas

\* The least number of a set.
LEMMA MinIsLeast ==
  ASSUME NEW T \in SUBSET Nat, T # {}
  PROVE  Min(T) \in T /\ \A m \in T : Min(T) <= m
BY LeastNumber DEF Min

-----------------------------------------------------------------------------
\* What grows from a point of C by steps to near points of C.
LEMMA ComponentGrows ==
  ASSUME NEW C, IsFiniteSet(C), NEW near, \A q \in C : q \in near[q], NEW p \in C
  PROVE  /\ p \in Component(C, near, p) /\ Component(C, near, p) \subseteq C
         /\ \A q \in Component(C, near, p) : C \cap near[q] \subseteq Component(C, near, p)
         /\ \A T : p \in T /\ (\A q \in T \cap C : C \cap near[q] \subseteq T)
                 => Component(C, near, p) \subseteq T
<1> DEFINE K == Cardinality(C)
           Step(T) == UNION {C \cap near[q] : q \in T}
           Grow(f) == [k \in 0 .. K |-> IF k = 0 THEN {p} ELSE Step(f[k - 1])]
           grown == CHOOSE f : f = Grow(f)
           Closed(T) == \A q \in T : C \cap near[q] \subseteq T
<1>1. K \in Nat
  BY FS_CardinalityType
<1>2. Component(C, near, p) = grown[K]
  BY DEF Component
<1>3. /\ \A T : \A q \in T : C \cap near[q] \subseteq Step(T)
      /\ \A T : \A x \in Step(T) : \E q \in T : x \in C \cap near[q]
  OBVIOUS
<1> HIDE DEF K, Step
<1>4. \E f : f = Grow(f)
  <2> DEFINE G == [k \in 1 .. K |-> [T \in SUBSET C |-> Step(T)]]
             V == SUBSET C
             start == {p}
  <2>1. \A k \in 1 .. K, T \in V : G[k][T] = Step(T)
    OBVIOUS
  <2>2. \A T \in V, k \in 1 .. K : G[k][T] \in V
    BY <1>3, <2>1
  <2>3. start \in V
    OBVIOUS
  <2> HIDE DEF G, V, start
  <2>4. PICK f \in [0 .. K -> V] : f[0] = start /\ \A k \in 1 .. K : f[k] = G[k][f[k - 1]]
    <3>1. Steppable(K, V, start, G)
      BY <1>1, <2>2, <2>3 DEF Steppable
    <3> QED
      BY <3>1, IterationExists DEF Iterated
  <2>5. ASSUME NEW k \in 0 .. K
        PROVE  f[k] = IF k = 0 THEN {p} ELSE Step(f[k - 1])
    <3>1. CASE k = 0
      BY <2>4, <3>1 DEF start
    <3>2. CASE k # 0
      <4>1. k \in 1 .. K /\ k - 1 \in 0 .. K
        BY <1>1, <3>2
      <4>2. f[k] = G[k][f[k - 1]] /\ f[k - 1] \in V
        BY <2>4, <4>1
      <4> QED
        BY <2>1, <3>2, <4>1, <4>2
    <3> QED
      BY <3>1, <3>2
  <2>6. f = [k \in 0 .. K |-> f[k]]
    OBVIOUS
  <2>7. f = Grow(f)
    BY <2>5, <2>6
  <2> QED
    BY <2>7
<1>5. grown = Grow(grown)
  <2> HIDE DEF Grow
  <2> QED
    BY <1>4
<1> HIDE DEF grown
<1>6. /\ grown[0] = {p}
      /\ \A k \in 1 .. K : grown[k] = Step(grown[k - 1])
  <2>1. \A f : f = Grow(f) => \A k \in 0 .. K : f[k] = IF k = 0 THEN {p} ELSE Step(f[k - 1])
    OBVIOUS
  <2>2. 0 \in 0 .. K /\ \A k \in 1 .. K : k \in 0 .. K /\ k # 0
    BY <1>1
  <2> HIDE DEF Grow
  <2> QED
    BY <1>5, <2>1, <2>2
<1> HIDE DEF Grow
<1>7. \A k \in 0 .. K : grown[k] \subseteq C
  <2> DEFINE S == {k \in 0 .. K : grown[k] \subseteq C}
  <2>1. 0 \in S
    BY <1>1, <1>6
  <2>2. \A k \in 1 .. K : k - 1 \in S => k \in S
    BY <1>3, <1>6
  <2> HIDE DEF S
  <2>3. 0 .. K \subseteq S
    BY <1>1, <2>1, <2>2, BoundedInduction
  <2> QED
    BY <2>3 DEF S
<1>8. /\ \A k \in 1 .. K : grown[k - 1] \subseteq grown[k]
      /\ \A k \in 0 .. K : p \in grown[k]
  <2>1. ASSUME NEW k \in 1 .. K
        PROVE  grown[k - 1] \subseteq grown[k]
    <3>1. k - 1 \in 0 .. K
      BY <1>1
    <3>2. \A q \in grown[k - 1] : q \in C \cap near[q]
      BY <1>7, <3>1
    <3> QED
      BY <1>3, <1>6, <3>2
  <2> DEFINE S == {k \in 0 .. K : p \in grown[k]}
  <2>2. 0 \in S
    BY <1>1, <1>6
  <2>3. \A k \in 1 .. K : k - 1 \in S => k \in S
    BY <2>1
  <2> HIDE DEF S
  <2>4. 0 .. K \subseteq S
    BY <1>1, <2>2, <2>3, BoundedInduction
  <2> QED
    BY <2>1, <2>4 DEF S
<1>9. Closed(grown[K])
  <2> DEFINE S == {k \in 0 .. K : Closed(grown[k]) \/ Cardinality(grown[k]) >= k + 1}
  <2>1. \A k \in 0 .. K : IsFiniteSet(grown[k]) /\ Cardinality(grown[k]) \in Nat
                          /\ Cardinality(grown[k]) <= K
    BY <1>7, FS_Subset, FS_CardinalityType DEF K
  <2>2. 0 \in S
    <3>1. Cardinality(grown[0]) = 1
      BY <1>6, FS_Singleton
    <3> QED
      BY <1>1, <3>1
  <2>3. ASSUME NEW k \in 1 .. K, k - 1 \in S
        PROVE  k \in S
    <3>1. k - 1 \in 0 .. K /\ k \in 0 .. K
      BY <1>1
    <3>2. CASE Closed(grown[k - 1])
      <4>1. grown[k] = grown[k - 1]
        <5>1. \A x \in grown[k] : x \in grown[k - 1]
          BY <1>3, <1>6, <3>2
        <5> QED
          BY <1>8, <5>1
      <4> QED
        BY <3>1, <3>2, <4>1
    <3>3. CASE ~Closed(grown[k - 1])
      <4>1. PICK q \in grown[k - 1] : ~(C \cap near[q] \subseteq grown[k - 1])
        BY <3>3
      <4>2. grown[k] # grown[k - 1]
        BY <1>3, <1>6, <4>1
      <4>3. Cardinality(grown[k - 1]) <= Cardinality(grown[k])
            /\ Cardinality(grown[k - 1]) # Cardinality(grown[k])
        BY <1>8, <2>1, <3>1, <4>2, FS_Subset
      <4>4. Cardinality(grown[k - 1]) >= (k - 1) + 1
        BY <2>3, <3>3
      <4>5. Cardinality(grown[k]) >= k + 1
        BY <1>1, <2>1, <3>1, <4>3, <4>4
      <4> QED
        BY <3>1, <4>5
    <3> QED
      BY <3>2, <3>3
  <2> HIDE DEF S
  <2>4. 0 .. K \subseteq S
    BY <1>1, <2>2, <2>3, BoundedInduction
  <2>5. K \in S /\ K \in 0 .. K
    BY <1>1, <2>4
  <2>6. ~(Cardinality(grown[K]) >= K + 1)
    BY <1>1, <2>1, <2>5
  <2> QED
    BY <2>5, <2>6 DEF S
<1>10. ASSUME NEW T, p \in T, \A q \in T \cap C : C \cap near[q] \subseteq T
      PROVE  grown[K] \subseteq T
  <2> DEFINE S == {k \in 0 .. K : grown[k] \subseteq T}
  <2>1. 0 \in S
    BY <1>1, <1>6, <1>10
  <2>2. ASSUME NEW k \in 1 .. K, k - 1 \in S
        PROVE  k \in S
    <3>1. grown[k - 1] \subseteq T \cap C
      BY <1>7, <2>2
    <3>2. ASSUME NEW x \in grown[k]
          PROVE  x \in T
      <4>1. x \in Step(grown[k - 1])
        BY <1>6
      <4>2. PICK q \in grown[k - 1] : x \in C \cap near[q]
        BY <1>3, <4>1
      <4> QED
        BY <1>10, <3>1, <4>2
    <3> QED
      BY <1>1, <3>2
  <2> HIDE DEF S
  <2>3. 0 .. K \subseteq S
    BY <1>1, <2>1, <2>2, BoundedInduction
  <2> QED
    BY <1>1, <2>3 DEF S
<1>11. K \in 0 .. K
  BY <1>1
<1> QED
  BY <1>2, <1>7, <1>8, <1>9, <1>10, <1>11

\* Components are the same or have no point in common.
LEMMA ComponentsDisjoint ==
  ASSUME NEW C, IsFiniteSet(C), NEW near, \A q \in C : q \in near[q],
         \A x, y \in C : y \in near[x] => x \in near[y],
         NEW p \in C, NEW q \in C,
         Component(C, near, p) \cap Component(C, near, q) # {}
  PROVE  Component(C, near, p) = Component(C, near, q)
<1> DEFINE of == [x \in C |-> Component(C, near, x)]
<1>1. ASSUME NEW x \in C
      PROVE  /\ x \in of[x] /\ of[x] \subseteq C
             /\ \A y \in of[x] : C \cap near[y] \subseteq of[x]
             /\ \A T : x \in T /\ (\A y \in T \cap C : C \cap near[y] \subseteq T)
                     => of[x] \subseteq T
  BY ComponentGrows
<1>2. of[p] = Component(C, near, p) /\ of[q] = Component(C, near, q)
  OBVIOUS
<1> HIDE DEF of
<1>3. ASSUME NEW x \in C, NEW y \in of[x]
      PROVE  of[y] \subseteq of[x] /\ y \in C
  BY <1>1, <1>3
<1>4. ASSUME NEW x \in C, NEW y \in of[x]
      PROVE  of[x] \subseteq of[y]
  <2> DEFINE T == {z \in C : x \in of[z]}
  <2>1. x \in T
    BY <1>1
  <2>2. ASSUME NEW z \in T \cap C, NEW w \in C \cap near[z]
        PROVE  w \in T
    <3>1. z \in of[w]
      BY <1>1, <2>2
    <3> QED
      BY <1>3, <2>2, <3>1
  <2> HIDE DEF T
  <2>3. of[x] \subseteq T
    BY <1>1, <2>1, <2>2
  <2>4. x \in of[y]
    BY <2>3 DEF T
  <2> QED
    BY <1>3, <1>4, <2>4
<1>5. PICK x \in of[p] : x \in of[q]
  BY <1>2
<1>6. /\ of[p] \subseteq of[x] /\ of[x] \subseteq of[p]
      /\ of[q] \subseteq of[x] /\ of[x] \subseteq of[q]
  BY <1>3, <1>4, <1>5
<1> QED
  BY <1>2, <1>6

\* The clusters of an analysis of the bursts S.
Clustering(clusters, S) ==
  /\ IsFiniteSet(clusters)
  /\ clusters \subseteq (SUBSET S) \ {{}}
  /\ \A P, Q \in clusters : P # Q => P \cap Q = {}

\* DBSCAN puts no burst into two clusters, whatever border points it claims for one.
LEMMA ClustersDisjoint ==
  ASSUME NEW S, IsFiniteSet(S), NEW near, DOMAIN near = S,
         \A p \in S : p \in near[p],
         \A p, q \in S : q \in near[p] => p \in near[q],
         NEW minPoints, NEW clusters \in RunDBSCAN(near, minPoints)
  PROVE  Clustering(clusters, S)
<1> DEFINE C == Cores(near, minPoints)
           of == [p \in C |-> Component(C, near, p)]
           parts == {Component(C, near, p) : p \in C}
           border == {p \in DOMAIN near \ C : near[p] \cap C # {}}
<1>1. C \in SUBSET S /\ border \in SUBSET S /\ C \cap border = {}
  BY DEF Cores
<1>2. IsFiniteSet(C)
  BY <1>1, FS_Subset
<1>3. PICK o \in [border -> parts] : clusters = {P \cup {p \in border : o[p] = P} : P \in parts}
  BY DEF RunDBSCAN
<1> DEFINE all == [P \in parts |-> P \cup {p \in border : o[p] = P}]
<1> HIDE DEF C, border
<1>4. \A P \in parts : P # {} /\ P \subseteq C
  BY <1>1, <1>2, ComponentGrows
<1>5. \A P, Q \in parts : P # Q => P \cap Q = {}
  BY <1>1, <1>2, ComponentsDisjoint
<1>6. IsFiniteSet(parts)
  <2>1. \A P \in parts : \E p \in C : of[p] = P
    OBVIOUS
  <2> HIDE DEF parts, of
  <2> QED
    BY <1>2, <2>1, FiniteImage
<1>7. clusters = {all[P] : P \in parts}
      /\ \A P \in parts : all[P] = P \cup {p \in border : o[p] = P}
  BY <1>3
<1> HIDE DEF parts, all
<1>8. IsFiniteSet(clusters)
  <2>1. \A P \in clusters : \E p \in parts : all[p] = P
    BY <1>7
  <2> QED
    BY <1>6, <2>1, FiniteImage
<1>9. \A P \in parts : all[P] # {} /\ all[P] \subseteq S
  BY <1>1, <1>4, <1>7
<1>10. ASSUME NEW P \in parts, NEW Q \in parts, all[P] # all[Q]
       PROVE  all[P] \cap all[Q] = {}
  BY <1>1, <1>4, <1>5, <1>7, <1>10
<1> QED
  BY <1>7, <1>8, <1>9, <1>10 DEF Clustering

\* What belongs to no cluster has too few neighbours; if that is so of all, there is no cluster.
LEMMA NoiseIsSparse ==
  ASSUME NEW near, IsFiniteSet(DOMAIN near), \A p \in DOMAIN near : p \in near[p],
         NEW minPoints, NEW clusters \in RunDBSCAN(near, minPoints)
  PROVE  /\ \A p \in (DOMAIN near) \ UNION clusters : ~(Cardinality(near[p]) >= minPoints)
         /\ (\A p \in DOMAIN near : ~(Cardinality(near[p]) >= minPoints)) => clusters = {}
<1> DEFINE C == Cores(near, minPoints)
           parts == {Component(C, near, p) : p \in C}
           border == {p \in DOMAIN near \ C : near[p] \cap C # {}}
<1>1. /\ C \in SUBSET DOMAIN near /\ \A p \in C : Cardinality(near[p]) >= minPoints
      /\ \A p \in DOMAIN near : Cardinality(near[p]) >= minPoints => p \in C
  BY DEF Cores
<1>2. IsFiniteSet(C)
  BY <1>1, FS_Subset
<1>3. PICK o \in [border -> parts] : clusters = {P \cup {p \in border : o[p] = P} : P \in parts}
  BY DEF RunDBSCAN
<1> HIDE DEF C, border
<1>4. \A p \in C : p \in Component(C, near, p) /\ Component(C, near, p) \in parts
  <2>1. ASSUME NEW p \in C
        PROVE  p \in Component(C, near, p)
    BY <1>1, <1>2, ComponentGrows
  <2> QED
    BY <2>1
<1>5. C = {} => parts = {}
  OBVIOUS
<1> DEFINE with(P) == P \cup {p \in border : o[p] = P}
<1>6. \A P \in parts : \E Q \in clusters : P \subseteq Q
  <2> HIDE DEF parts
  <2>1. \A P : P \subseteq with(P)
    OBVIOUS
  <2>2. clusters = {with(P) : P \in parts}
    BY <1>3
  <2> HIDE DEF with
  <2>3. \A P \in parts : with(P) \in clusters
    BY <2>2
  <2> QED
    BY <2>1, <2>3
<1> HIDE DEF parts
<1>7. C \subseteq UNION clusters
  BY <1>4, <1>6
<1>8. C = {} => clusters = {}
  BY <1>3, <1>5
<1> QED
  BY <1>1, <1>7, <1>8

\* A numbering gives each cluster one number.
Numbering(r, clusters) ==
  /\ Cardinality(clusters) \in Nat /\ r \in [1 .. Cardinality(clusters) -> clusters]
  /\ \A c \in clusters : \E i \in 1 .. Cardinality(clusters) : r[i] = c
  /\ \A i, j \in 1 .. Cardinality(clusters) : r[i] = r[j] => i = j

\* Clusters are numbered one by one.
LEMMA NumbersUnique ==
  ASSUME NEW clusters, IsFiniteSet(clusters), NEW r \in TranslatedIDs(clusters)
  PROVE  Numbering(r, clusters)
<1> DEFINE K == Cardinality(clusters)
<1>1. K \in Nat
  BY FS_CardinalityType
<1>2. /\ r \in [1 .. K -> clusters]
      /\ \A c \in clusters : \E i \in 1 .. K : r[i] = c
  BY DEF TranslatedIDs
<1>3. IsFiniteSet(1 .. K) /\ Cardinality(1 .. K) = K
  BY <1>1, FS_Interval
<1>4. r \in Surjection(1 .. K, clusters)
  BY <1>2 DEF Surjection
<1>5. r \in Injection(1 .. K, clusters)
  BY <1>3, <1>4, FS_SurjSameCardinalityImpliesInj
<1>6. \A i, j \in 1 .. K : r[i] = r[j] => i = j
  BY <1>5 DEF Injection, IsInjective
<1> QED
  BY <1>1, <1>2, <1>6 DEF Numbering

\* The columns of an alignment of T: each burst is in one, no column has two of a task.
Columns(A, T) ==
  /\ A \subseteq SUBSET T
  /\ \A b \in T : \E C \in A : b \in C
  /\ \A C \in A : \A b, c \in C : Task[b] = Task[c] => b = c

\* Alignments are made of such columns.
LEMMA AlignmentColumns ==
  ASSUME NEW S \in SUBSET Nat, IsFiniteSet(S), NEW A \in Alignments(S)
  PROVE  Columns(A, S)
<1> DEFINE First(T) == {b \in T : \A c \in T : Task[c] = Task[b] => b <= c}
           With(C, from) == {B \cup {C} : B \in from}
           Added(T, f) == UNION {With(C, f[T \ C]) : C \in (SUBSET First(T)) \ {{}}}
           Next(f) == [T \in SUBSET S |-> IF T = {} THEN {{}} ELSE Added(T, f)]
           aligned == CHOOSE f : f = Next(f)
           V == SUBSET SUBSET SUBSET S
           G == [T \in SUBSET S |-> [f \in [SUBSET S -> V] |-> IF T = {} THEN {{}} ELSE Added(T, f)]]
<1>1. Alignments(S) = aligned[S]
  BY DEF Alignments
<1>2. /\ \A T : First(T) \subseteq T
      /\ \A T \in SUBSET S : \A b, c \in First(T) : Task[b] = Task[c] => b = c
  OBVIOUS
<1> HIDE DEF First
<1>3. \A C, from, x : x \in With(C, from) <=> \E B \in from : x = B \cup {C}
  OBVIOUS
<1> HIDE DEF With
<1>4. \A T, f, x : x \in Added(T, f) <=>
         \E C \in (SUBSET First(T)) \ {{}} : x \in With(C, f[T \ C])
  OBVIOUS
<1> HIDE DEF Added
<1>5. ASSUME NEW T \in SUBSET S, NEW f \in [SUBSET S -> V]
      PROVE  Added(T, f) \in V
  <2> SUFFICES ASSUME NEW x \in Added(T, f), NEW D \in x
               PROVE  D \in SUBSET S
    OBVIOUS
  <2>1. PICK C \in (SUBSET First(T)) \ {{}} : x \in With(C, f[T \ C])
    BY <1>4
  <2>2. PICK B \in f[T \ C] : x = B \cup {C}
    BY <1>3, <2>1
  <2>3. T \ C \in SUBSET S
    OBVIOUS
  <2>4. f[T \ C] \in V
    BY <2>3
  <2> QED
    BY <1>2, <2>1, <2>2, <2>4
<1>6. ASSUME NEW T \in SUBSET S, NEW f, NEW g, \A U \in SUBSET T : U # T => f[U] = g[U]
      PROVE  Added(T, f) = Added(T, g)
  <2>1. \A C \in (SUBSET First(T)) \ {{}} : f[T \ C] = g[T \ C]
    BY <1>2, <1>6
  <2>2. /\ \A x \in Added(T, f) : x \in Added(T, g)
        /\ \A x \in Added(T, g) : x \in Added(T, f)
    BY <1>4, <2>1
  <2> QED
    BY <2>2
<1>7. SetSteppable(S, V, G)
  <2>1. V # {}
    OBVIOUS
  <2>2. \A T \in SUBSET S, f \in [SUBSET S -> V] : G[T][f] = IF T = {} THEN {{}} ELSE Added(T, f)
    <3> HIDE DEF Added, V
    <3> QED
      OBVIOUS
  <2>3. {{}} \in V
    OBVIOUS
  <2> HIDE DEF G, V, Added
  <2>4. \A T \in SUBSET S, f \in [SUBSET S -> V] : G[T][f] \in V
    <3> SUFFICES ASSUME NEW T \in SUBSET S, NEW f \in [SUBSET S -> V]
                 PROVE  G[T][f] \in V
      OBVIOUS
    <3>1. Added(T, f) \in V
      BY <1>5
    <3> QED
      BY <2>2, <2>3, <3>1
  <2>5. ASSUME NEW T \in SUBSET S, NEW f \in [SUBSET S -> V], NEW g \in [SUBSET S -> V],
               \A U \in SUBSET T : U # T => f[U] = g[U]
        PROVE  G[T][f] = G[T][g]
    <3>1. Added(T, f) = Added(T, g)
      BY <1>6, <2>5
    <3> QED
      BY <2>2, <3>1
  <2> QED
    BY <2>1, <2>4, <2>5 DEF SetSteppable
<1>8. PICK f \in [SUBSET S -> V] : \A T \in SUBSET S : f[T] = G[T][f]
  <2> HIDE DEF G, V
  <2>1. SetIterated(S, V, G)
    BY <1>7, SetRecursionExists
  <2> QED
    BY <2>1 DEF SetIterated
<1>9. \E h : h = Next(h)
  <2>1. \A T \in SUBSET S : f[T] = IF T = {} THEN {{}} ELSE Added(T, f)
    <3> HIDE DEF Added, V
    <3> QED
      BY <1>8
  <2>2. f = [T \in SUBSET S |-> f[T]]
    BY <1>8
  <2> HIDE DEF Added
  <2> QED
    BY <2>1, <2>2
<1>10. aligned = Next(aligned)
  <2> HIDE DEF Next
  <2> QED
    BY <1>9
<1> HIDE DEF aligned
<1>11. \A T \in SUBSET S : aligned[T] = IF T = {} THEN {{}} ELSE Added(T, aligned)
  <2> DEFINE h == aligned
  <2>1. \A h1 : h1 = Next(h1) => \A T \in SUBSET S : h1[T] = IF T = {} THEN {{}} ELSE Added(T, h1)
    <3> HIDE DEF Added
    <3> QED
      OBVIOUS
  <2> HIDE DEF Next, Added
  <2> QED
    BY <1>10, <2>1
<1> HIDE DEF Next, G
<1>12. \A T \in SUBSET S : IsFiniteSet(T) /\ Cardinality(T) \in Nat
  BY FS_Subset, FS_CardinalityType
<1> HIDE DEF V
<1> DEFINE N == {n \in Nat : \A T \in SUBSET S :
                   Cardinality(T) < n => \A x \in aligned[T] : Columns(x, T)}
<1>13. 0 \in N
  BY <1>12
<1>14. ASSUME NEW n \in Nat, n \in N
       PROVE  n + 1 \in N
  <2> SUFFICES ASSUME NEW T \in SUBSET S, Cardinality(T) < n + 1, NEW x \in aligned[T]
               PROVE  Columns(x, T)
    OBVIOUS
  <2>1. CASE T = {}
    <3>1. x = {}
      BY <1>11, <2>1
    <3> QED
      BY <2>1, <3>1 DEF Columns
  <2>2. CASE T # {}
    <3>1. x \in Added(T, aligned)
      BY <1>11, <2>2
    <3>2. PICK C \in (SUBSET First(T)) \ {{}} : x \in With(C, aligned[T \ C])
      BY <1>4, <3>1
    <3>3. PICK B \in aligned[T \ C] : x = B \cup {C}
      BY <1>3, <3>2
    <3>4. C # {} /\ C \subseteq T /\ T \ C \in SUBSET T /\ T \ C # T
      BY <1>2, <3>2
    <3>5. Cardinality(T \ C) <= Cardinality(T) /\ Cardinality(T \ C) # Cardinality(T)
      BY <1>12, <3>4, FS_Subset
    <3>6. Cardinality(T \ C) < n /\ T \ C \in SUBSET S
      <4>1. /\ T \ C \in SUBSET S /\ Cardinality(T \ C) \in Nat
            /\ Cardinality(T) \in Nat /\ Cardinality(T) < n + 1
        BY <1>12, <2>1
      <4> QED
        BY <3>5, <4>1
    <3>7. Columns(B, T \ C)
      BY <1>14, <3>3, <3>6
    <3>8. \A b, c \in C : Task[b] = Task[c] => b = c
      BY <1>2, <3>2
    <3> QED
      BY <3>3, <3>4, <3>7, <3>8 DEF Columns
  <2> QED
    BY <2>1, <2>2
<1> HIDE DEF N
<1>15. Nat \subseteq N
  BY <1>13, <1>14, NumberInduction
<1>16. Cardinality(S) + 1 \in N /\ Cardinality(S) < Cardinality(S) + 1
  BY <1>12, <1>15
<1> QED
  BY <1>1, <1>16 DEF N

-----------------------------------------------------------------------------
\* A sum of numbers.
Sum(f, S) == MapThenSumSet(LAMBDA x : f[x], S)

\* It is a number; that of one element is its own, that of none is 0.
LEMMA SumOfNumbers ==
  ASSUME NEW S, IsFiniteSet(S), NEW f, \A x \in S : f[x] \in Nat
  PROVE  Sum(f, S) \in Nat /\ (S = {} => Sum(f, S) = 0) /\ \A x : S = {x} => Sum(f, S) = f[x]
<1> DEFINE x(s) == CHOOSE y \in s : TRUE
           Add(g, s) == IF s = {} THEN 0 ELSE f[x(s)] + g[s \ {x(s)}]
           Next(g) == [s \in SUBSET S |-> Add(g, s)]
           sum == CHOOSE g : g = Next(g)
           V == Nat
           G == [s \in SUBSET S |-> [g \in [SUBSET S -> V] |-> Add(g, s)]]
<1>1. Sum(f, S) = sum[S]
  BY Zenon DEF Sum, MapThenSumSet, MapThenFoldSet
<1>2. \A s \in SUBSET S : s # {} => x(s) \in s /\ s \ {x(s)} \in SUBSET S /\ f[x(s)] \in Nat
  OBVIOUS
<1> HIDE DEF x, sum
<1>3. ASSUME NEW s \in SUBSET S, NEW g \in [SUBSET S -> Nat]
      PROVE  Add(g, s) \in Nat
  BY <1>2
<1>4. SetSteppable(S, V, G)
  <2>1. \A s \in SUBSET S, g \in [SUBSET S -> V] : G[s][g] = Add(g, s)
    OBVIOUS
  <2> HIDE DEF G
  <2>2. \A s \in SUBSET S, g \in [SUBSET S -> V] : G[s][g] \in V
    BY <1>3, <2>1
  <2>3. ASSUME NEW s \in SUBSET S, NEW g \in [SUBSET S -> V], NEW h \in [SUBSET S -> V],
               \A u \in SUBSET s : u # s => g[u] = h[u]
        PROVE  G[s][g] = G[s][h]
    BY <1>2, <2>1, <2>3
  <2> QED
    BY <2>2, <2>3 DEF SetSteppable
<1>5. PICK g \in [SUBSET S -> V] : \A s \in SUBSET S : g[s] = G[s][g]
  <2> HIDE DEF G, V
  <2>1. SetIterated(S, V, G)
    BY <1>4, SetRecursionExists
  <2> QED
    BY <2>1 DEF SetIterated
<1>6. \E h : h = Next(h)
  <2>1. \A s \in SUBSET S : g[s] = Add(g, s)
    <3> HIDE DEF Add
    <3> QED
      BY <1>5
  <2>2. g = [s \in SUBSET S |-> g[s]]
    BY <1>5
  <2> HIDE DEF Add
  <2> QED
    BY <2>1, <2>2
<1>7. sum = Next(sum)
  <2> HIDE DEF Next
  <2> QED
    BY <1>6 DEF sum
<1> HIDE DEF G, V
<1>8. \A s \in SUBSET S : sum[s] = Add(sum, s)
  <2>1. \A h : h = Next(h) => \A s \in SUBSET S : h[s] = Add(h, s)
    <3> HIDE DEF Add
    <3> QED
      OBVIOUS
  <2> HIDE DEF Next, Add
  <2> QED
    BY <1>7, <2>1
<1> HIDE DEF Next
<1>9. \A s \in SUBSET S : IsFiniteSet(s) /\ Cardinality(s) \in Nat
  BY FS_Subset, FS_CardinalityType
<1> DEFINE N == {n \in Nat : \A s \in SUBSET S : Cardinality(s) < n => sum[s] \in Nat}
<1>10. 0 \in N
  BY <1>9
<1>11. ASSUME NEW n \in Nat, n \in N
       PROVE  n + 1 \in N
  <2> SUFFICES ASSUME NEW s \in SUBSET S, Cardinality(s) < n + 1
               PROVE  sum[s] \in Nat
    OBVIOUS
  <2>1. CASE s = {}
    BY <1>8, <2>1
  <2>2. CASE s # {}
    <3> DEFINE t == s \ {x(s)}
    <3>1. t \in SUBSET s /\ t # s /\ t \in SUBSET S /\ f[x(s)] \in Nat
      BY <1>2, <2>2
    <3>2. sum[s] = f[x(s)] + sum[t]
      BY <1>8, <2>2
    <3> HIDE DEF t
    <3>3. Cardinality(t) <= Cardinality(s) /\ Cardinality(t) # Cardinality(s)
      BY <1>9, <3>1, FS_Subset
    <3>4. Cardinality(t) < n
      BY <1>9, <3>1, <3>3
    <3> QED
      BY <1>11, <3>1, <3>2, <3>4
  <2> QED
    BY <2>1, <2>2
<1> HIDE DEF N
<1>12. Nat \subseteq N
  BY <1>10, <1>11, NumberInduction
<1>13. sum[S] \in Nat
  <2>1. Cardinality(S) + 1 \in N /\ Cardinality(S) < Cardinality(S) + 1
    BY <1>9, <1>12
  <2> QED
    BY <2>1 DEF N
<1>14. sum[{}] = 0
  BY <1>8
<1>15. ASSUME NEW y, S = {y}
       PROVE  sum[S] = f[y]
  <2>1. x(S) = y /\ S \ {x(S)} = {}
    BY <1>2, <1>15
  <2> QED
    BY <1>8, <1>14, <1>15, <2>1
<1> QED
  BY <1>1, <1>13, <1>14, <1>15

\* The greatest number of a finite set.
LEMMA MaxIsGreatest ==
  ASSUME NEW T \in SUBSET Nat, IsFiniteSet(T), T # {}
  PROVE  Max(T) \in T /\ \A m \in T : m <= Max(T)
<1> DEFINE N == {n \in Nat : \A U \in SUBSET T : Cardinality(U) < n /\ U # {} =>
                                \E k \in U : \A m \in U : m <= k}
<1>1. \A U \in SUBSET T : IsFiniteSet(U) /\ Cardinality(U) \in Nat
  BY FS_Subset, FS_CardinalityType
<1>2. 0 \in N
  BY <1>1
<1>3. ASSUME NEW n \in Nat, n \in N
      PROVE  n + 1 \in N
  <2> SUFFICES ASSUME NEW U \in SUBSET T, Cardinality(U) < n + 1, U # {}
               PROVE  \E k \in U : \A m \in U : m <= k
    OBVIOUS
  <2>1. PICK u \in U : TRUE
    OBVIOUS
  <2> DEFINE W == U \ {u}
  <2>2. W \in SUBSET U /\ W # U /\ W \in SUBSET T /\ u \in Nat
    OBVIOUS
  <2>3. Cardinality(W) <= Cardinality(U) /\ Cardinality(W) # Cardinality(U)
    BY <1>1, <2>2, FS_Subset
  <2>4. Cardinality(W) < n
    BY <1>1, <2>2, <2>3
  <2>5. CASE W = {}
    BY <2>5
  <2>6. CASE W # {}
    <3>1. PICK k \in W : \A m \in W : m <= k
      BY <1>3, <2>2, <2>4, <2>6
    <3>2. CASE u <= k
      BY <3>1, <3>2
    <3>3. CASE k < u
      BY <3>1, <3>3
    <3> QED
      BY <2>2, <3>2, <3>3
  <2> QED
    BY <2>5, <2>6
<1> HIDE DEF N
<1>4. Nat \subseteq N
  BY <1>2, <1>3, NumberInduction
<1>5. \E k \in T : \A m \in T : m <= k
  <2>1. Cardinality(T) + 1 \in N /\ Cardinality(T) < Cardinality(T) + 1
    BY <1>1, <1>4
  <2> QED
    BY <2>1 DEF N
<1> QED
  BY <1>5 DEF Max

\* The sets of S have at most s elements each, so that their union has at most s for
\* each of them.
LEMMA UnionSize ==
  ASSUME NEW S, IsFiniteSet(S), NEW s \in Nat,
         \A C \in S : IsFiniteSet(C) /\ Cardinality(C) <= s
  PROVE  Cardinality(UNION S) <= s * Cardinality(S) /\ IsFiniteSet(UNION S)
<1> DEFINE N == {n \in Nat : \A T \in SUBSET S : Cardinality(T) = n =>
                   /\ IsFiniteSet(UNION T) /\ Cardinality(UNION T) <= s * n}
<1>1. \A T \in SUBSET S : IsFiniteSet(T) /\ Cardinality(T) \in Nat
  BY FS_Subset, FS_CardinalityType
<1>2. 0 \in N
  <2> SUFFICES ASSUME NEW T \in SUBSET S, Cardinality(T) = 0
               PROVE  IsFiniteSet(UNION T) /\ Cardinality(UNION T) <= s * 0
    OBVIOUS
  <2>1. T = {}
    BY <1>1, FS_EmptySet
  <2>2. UNION T = {}
    BY <2>1
  <2>3. IsFiniteSet(UNION T) /\ Cardinality(UNION T) = 0
    BY <2>2, FS_EmptySet
  <2> QED
    BY <2>3
<1>3. ASSUME NEW n \in Nat, n \in N
      PROVE  n + 1 \in N
  <2> SUFFICES ASSUME NEW T \in SUBSET S, Cardinality(T) = n + 1
               PROVE  IsFiniteSet(UNION T) /\ Cardinality(UNION T) <= s * (n + 1)
    OBVIOUS
  <2>1. T # {}
    BY FS_EmptySet, <1>1
  <2>2. PICK C \in T : TRUE
    BY <2>1
  <2> DEFINE U == T \ {C}
  <2>3. U \in SUBSET S /\ IsFiniteSet(U) /\ Cardinality(U) = n
    BY <1>1, <2>2, FS_RemoveElement
  <2>4. UNION T = (UNION U) \cup C
    BY <2>2
  <2> HIDE DEF U
  <2>5. IsFiniteSet(UNION U) /\ Cardinality(UNION U) <= s * n /\ Cardinality(UNION U) \in Nat
    BY <1>3, <2>3, FS_CardinalityType
  <2>6. IsFiniteSet(C) /\ Cardinality(C) <= s /\ Cardinality(C) \in Nat
    BY FS_CardinalityType
  <2>7. /\ IsFiniteSet((UNION U) \cup C)
        /\ Cardinality((UNION U) \cup C)
             = Cardinality(UNION U) + Cardinality(C) - Cardinality((UNION U) \cap C)
    BY <2>5, <2>6, FS_Union
  <2>8. Cardinality((UNION U) \cap C) \in Nat
    BY <2>5, FS_Subset, FS_CardinalityType
  <2>9. s * (n + 1) = s * n + s /\ s * n \in Nat
    OBVIOUS
  <2>10. Cardinality((UNION U) \cup C) <= s * (n + 1)
    BY <2>5, <2>6, <2>7, <2>8, <2>9
  <2> QED
    BY <2>4, <2>7, <2>10
<1> HIDE DEF N
<1>4. Nat \subseteq N
  BY <1>2, <1>3, NumberInduction
<1>5. Cardinality(S) \in N
  BY <1>1, <1>4
<1> QED
  BY <1>5 DEF N
=============================================================================
