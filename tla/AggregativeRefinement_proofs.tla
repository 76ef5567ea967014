---------------------- MODULE AggregativeRefinement_proofs ----------------------
(***************************************************************************)
(* What holds of the aggregative refinement for any number of levels and   *)
(* of bursts, wherever they lie and however they are aligned.              *)
(***************************************************************************)
EXTENDS AggregativeRefinement, BurstLemmas

leaves == Leaves(DOMAIN bursts, children)

\* The nodes L share out the bursts.
Shares(B, L) ==
  /\ \A n \in L : B[n] \subseteq Burst
  /\ \A b \in Burst : \E n \in L : b \in B[n]
  /\ \A m, n \in L : m # n => B[m] \cap B[n] = {}

\* P gives each burst the name of its node.
Labels(P, B, L, names) == DOMAIN P = Burst /\ \A n \in L : \A b \in B[n] : P[b] = names[n]

\* Each burst is in one leaf, the node whose id the partition gives it.
Shared == Shares(bursts, leaves) /\ Labels(partition, bursts, leaves, id)

\* A node with the id of one that is not below it has it from a parent, which is not
\* above that one.
Lineage ==
  \A m, n \in DOMAIN id :
    m # n /\ id[m] = id[n] /\ id[n] # NOISE_CLUSTERID /\ m[1] <= n[1] =>
      \E p \in DOMAIN id : /\ <<p, n>> \in children /\ id[p] = id[n]
                           /\ m[1] <= p[1] /\ p[1] < n[1]

\* The tree while levels are added.  Of the nodes with bursts, those of the last level
\* and those with a perfect score are leaves, and no others are.
TreeGrows ==
  /\ level \in 1 .. Steps /\ lastId = partition
  /\ DOMAIN bursts \subseteq (1 .. level) \X Nat
  /\ \A m, n \in DOMAIN bursts :
       m[1] = n[1] /\ m # n => id[m] # id[n] /\ bursts[m] \cap bursts[n] = {}
  /\ \A n \in DOMAIN bursts : id[n] <= maxId /\ (id[n] = NOISE_CLUSTERID <=> n[2] = 0)
  /\ \A n \in DOMAIN bursts :
       bursts[n] # {} => (n \in leaves <=> n[1] = level \/ n \in perfect)
  /\ \A m \in perfect, n \in DOMAIN bursts :
       id[m] = id[n] /\ id[n] # NOISE_CLUSTERID => n[1] <= m[1]

\* Nothing has been analysed.
Fresh ==
  /\ DOMAIN bursts = {} /\ perfect = {} /\ children = {} /\ merges = {} /\ level = 0

IInv ==
  /\ TypeOK /\ IsFiniteSet(DOMAIN bursts)
  /\ ~Analysed => Fresh
  /\ Analysed => Shared /\ PerfectStaysWhole /\ Lineage
  /\ pc = "step" => TreeGrows

-----------------------------------------------------------------------------
(* One analysis *)

\* What the assumption says of the input.
LEMMA InputFacts ==
  ASSUME input \in Inputs
  PROVE  /\ input.n \in 1 .. N /\ N \in Nat /\ Steps \in Nat /\ Steps >= 1
         /\ IsFiniteSet(Burst) /\ Burst \subseteq Nat
<1>1. input.n \in 1 .. N /\ N \in Nat /\ Steps \in Nat \ {0, 1}
  BY RefinementAssumption DEF RefinementAssumption
<1>2. input.n \in Nat
  BY <1>1
<1>3. IsFiniteSet(1 .. input.n)
  BY <1>2, FS_Interval
<1> QED
  BY <1>1, <1>2, <1>3 DEF Burst

\* The nodes that an analysis of the bursts S gives a level: the noise and K clusters.
LevelOf(New, l, S, K) ==
  /\ K \in Nat /\ DOMAIN New = {l} \X (0 .. K)
  /\ \A n \in DOMAIN New : New[n] \subseteq S
  /\ \A m, n \in DOMAIN New : m # n => New[m] \cap New[n] = {}
  /\ \A b \in S : \E n \in DOMAIN New : b \in New[n]

\* A level shares out the bursts that were analysed.
LEMMA AnalysisGivesLevel ==
  ASSUME input \in Inputs, NEW S \in SUBSET Burst, NEW l, NEW k,
         NEW clusters \in RunDBSCAN(Near(S, k), input.minPoints),
         NEW r \in TranslatedIDs(clusters)
  PROVE  LevelOf(GenerateNodes(l, S, r), l, S, Cardinality(clusters))
<1> DEFINE near == Near(S, k)
           K == Cardinality(clusters)
           New == GenerateNodes(l, S, r)
<1>1. IsFiniteSet(S)
  BY InputFacts, FS_Subset
<1>2. /\ DOMAIN near = S /\ \A p \in S : p \in near[p]
      /\ \A p, q \in S : q \in near[p] => p \in near[q]
  <2>1. \A p, q : {p, q} = {q, p}
    OBVIOUS
  <2> QED
    BY <2>1 DEF Near
<1>3. clusters \in RunDBSCAN(near, input.minPoints)
  OBVIOUS
<1> HIDE DEF near
<1>4. Clustering(clusters, S)
  BY <1>1, <1>2, <1>3, ClustersDisjoint
<1>5. Numbering(r, clusters)
  BY <1>4, NumbersUnique DEF Clustering
<1>6. /\ K \in Nat /\ r \in [1 .. K -> clusters] /\ DOMAIN r = 1 .. K
      /\ \A i, j \in 1 .. K : i # j => r[i] \cap r[j] = {}
      /\ \A i \in 1 .. K : r[i] \subseteq S
  BY <1>4, <1>5 DEF Numbering, Clustering
<1>7. Cardinality(DOMAIN r) = K
  BY <1>6, FS_Interval
<1>8. New = [n \in {l} \X (0 .. K) |->
               IF n[2] = NOISE_CLUSTERID THEN {b \in S : \A i \in DOMAIN r : b \notin r[i]}
                                         ELSE r[n[2]]]
  BY <1>7 DEF GenerateNodes
<1> HIDE DEF New, K
<1>9. DOMAIN New = {l} \X (0 .. K)
  BY <1>8
<1>10. ASSUME NEW n \in DOMAIN New
       PROVE  \/ n[2] = 0 /\ New[n] = {b \in S : \A i \in 1 .. K : b \notin r[i]}
              \/ n[2] \in 1 .. K /\ New[n] = r[n[2]]
  <2>1. n \in {l} \X (0 .. K) /\ (n[2] = 0 \/ n[2] \in 1 .. K)
    BY <1>6, <1>9
  <2> QED
    BY <1>6, <1>8, <2>1 DEF NOISE_CLUSTERID
<1>11. \A n \in DOMAIN New : New[n] \subseteq S
  BY <1>6, <1>10
<1>12. ASSUME NEW m \in DOMAIN New, NEW n \in DOMAIN New, m # n
       PROVE  New[m] \cap New[n] = {}
  <2>1. m[2] # n[2]
    BY <1>9, <1>12
  <2> QED
    BY <1>6, <1>10, <2>1
<1>13. ASSUME NEW b \in S
       PROVE  \E n \in DOMAIN New : b \in New[n]
  <2>1. CASE \E i \in 1 .. K : b \in r[i]
    <3>1. PICK i \in 1 .. K : b \in r[i]
      BY <2>1
    <3>2. <<l, i>> \in DOMAIN New /\ i # 0
      BY <1>6, <1>9
    <3>3. New[<<l, i>>] = r[i]
      BY <1>10, <3>2
    <3> QED
      BY <3>1, <3>2, <3>3
  <2>2. CASE \A i \in 1 .. K : b \notin r[i]
    <3>1. <<l, 0>> \in DOMAIN New
      BY <1>6, <1>9
    <3>2. b \in New[<<l, 0>>]
      BY <1>10, <2>2, <3>1
    <3> QED
      BY <3>1, <3>2
  <2> QED
    BY <2>1, <2>2
<1> QED
  BY <1>6, <1>9, <1>11, <1>12, <1>13 DEF LevelOf, K, New

-----------------------------------------------------------------------------
(* The names of the new nodes *)

\* The ids of the nodes of level l, one each, the noise first: those up to first come
\* from a parent.
NamesOf(v, l, count, links, first) ==
  /\ v.max \in Nat /\ first <= v.max
  /\ v.ids \in [{l} \X (0 .. count) -> Nat]
  /\ \A n \in {l} \X (0 .. count) :
       /\ v.ids[n] <= v.max /\ (v.ids[n] = NOISE_CLUSTERID <=> n[2] = 0)
       /\ v.ids[n] # NOISE_CLUSTERID /\ v.ids[n] <= first =>
            \E e \in links : e[2] = n /\ id[e[1]] = v.ids[n]
  /\ \A m, n \in {l} \X (0 .. count) : m # n => v.ids[m] # v.ids[n]

\* RenameNodes gives no id twice, and no old one but to a child of its owner.
LEMMA NamesAreNew ==
  ASSUME NEW l, NEW count \in Nat, NEW links, NEW first \in Nat,
         \A e \in links : id[e[1]] \in Nat /\ id[e[1]] <= first
  PROVE  NamesOf(NamesAfter(l, count, links, first), l, count, links, first)
<1> DEFINE Free(k, v) == {id[e[1]] : e \in {f \in links : f[2] = <<l, k>>}}
                           \ (v.visited \cup {NOISE_CLUSTERID})
           Name(k, v) == IF Free(k, v) # {} THEN Min(Free(k, v)) ELSE v.max + 1
           After(k, v) == [ids     |-> Joined(v.ids, [n \in {<<l, k>>} |-> Name(k, v)]),
                           visited |-> v.visited \cup {Name(k, v)},
                           max     |-> IF Free(k, v) # {} THEN v.max ELSE Name(k, v)]
           Start == [ids |-> [n \in {<<l, 0>>} |-> NOISE_CLUSTERID], visited |-> {}, max |-> first]
           Table(f) == [k \in 0 .. count |-> IF k = 0 THEN Start ELSE After(k, f[k - 1])]
           named == CHOOSE f : f = Table(f)
           Ids == UNION {[D -> Nat] : D \in SUBSET ({l} \X (0 .. count))}
           V == [ids : Ids, visited : SUBSET Nat, max : Nat]
<1>1. NamesAfter(l, count, links, first) = named[count]
  BY DEF NamesAfter
<1>2. ASSUME NEW k, NEW v
      PROVE  /\ Free(k, v) \subseteq Nat
             /\ \A i \in Free(k, v) : /\ i # 0 /\ i \notin v.visited /\ i <= first
                                     /\ \E e \in links : e[2] = <<l, k>> /\ id[e[1]] = i
  BY DEF NOISE_CLUSTERID
<1> HIDE DEF Free
<1>3. ASSUME NEW k, NEW v
      PROVE  \/ Free(k, v) # {} /\ Name(k, v) \in Free(k, v)
             \/ Free(k, v) = {} /\ Name(k, v) = v.max + 1
  <2>1. CASE Free(k, v) = {}
    BY <2>1
  <2>2. CASE Free(k, v) # {}
    <3>1. Min(Free(k, v)) \in Free(k, v)
      BY <1>2, <2>2, MinIsLeast
    <3> QED
      BY <2>2, <3>1
  <2> QED
    BY <2>1, <2>2
<1> HIDE DEF Name
<1>4. ASSUME NEW k \in 1 .. count, NEW v \in V
      PROVE  After(k, v) \in V
  <2>1. v.ids \in Ids /\ v.visited \in SUBSET Nat /\ v.max \in Nat
    OBVIOUS
  <2>2. Name(k, v) \in Nat
    BY <1>2, <1>3, <2>1
  <2>3. PICK D \in SUBSET ({l} \X (0 .. count)) : v.ids \in [D -> Nat]
    BY <2>1
  <2> DEFINE ids == Joined(v.ids, [n \in {<<l, k>>} |-> Name(k, v)])
  <2>4. ids \in [D \cup {<<l, k>>} -> Nat] /\ D \cup {<<l, k>>} \in SUBSET ({l} \X (0 .. count))
    BY <2>2, <2>3 DEF Joined
  <2> HIDE DEF ids
  <2>5. ids \in Ids
    BY <2>4
  <2> HIDE DEF Ids
  <2>6. [ids |-> ids, visited |-> v.visited \cup {Name(k, v)},
         max |-> IF Free(k, v) # {} THEN v.max ELSE Name(k, v)] \in V
    BY <2>1, <2>2, <2>5
  <2> QED
    BY <2>6 DEF ids
<1>5. Start \in V
  <2>1. {<<l, 0>>} \in SUBSET ({l} \X (0 .. count))
    OBVIOUS
  <2>2. [n \in {<<l, 0>>} |-> NOISE_CLUSTERID] \in [{<<l, 0>>} -> Nat]
    BY DEF NOISE_CLUSTERID
  <2>3. [n \in {<<l, 0>>} |-> NOISE_CLUSTERID] \in Ids
    BY <2>1, <2>2
  <2> HIDE DEF Ids
  <2> QED
    BY <2>3
<1> HIDE DEF Ids, V
<1>6. \E f : f = Table(f)
  <2> DEFINE G == [k \in 1 .. count |-> [v \in V |-> After(k, v)]]
  <2>1. \A k \in 1 .. count, v \in V : G[k][v] = After(k, v)
    OBVIOUS
  <2> HIDE DEF G, After, Start
  <2>2. Steppable(count, V, Start, G)
    BY <1>4, <1>5, <2>1 DEF Steppable
  <2>3. PICK f \in [0 .. count -> V] :
          f[0] = Start /\ \A k \in 1 .. count : f[k] = G[k][f[k - 1]]
    <3>1. Iterated(count, V, Start, G)
      BY <2>2, IterationExists
    <3> QED
      BY <3>1 DEF Iterated
  <2>4. ASSUME NEW k \in 0 .. count
        PROVE  f[k] = IF k = 0 THEN Start ELSE After(k, f[k - 1])
    <3>1. CASE k = 0
      BY <2>3, <3>1
    <3>2. CASE k # 0
      <4>1. k \in 1 .. count /\ k - 1 \in 0 .. count
        BY <3>2
      <4> QED
        BY <2>1, <2>3, <3>2, <4>1
    <3> QED
      BY <3>1, <3>2
  <2>5. f = [k \in 0 .. count |-> f[k]]
    BY <2>3
  <2>6. f = Table(f)
    BY <2>4, <2>5
  <2> QED
    BY <2>6
<1>7. named = Table(named)
  <2> HIDE DEF Table
  <2> QED
    BY <1>6
<1> HIDE DEF named
<1>8. /\ named[0] = Start
      /\ \A k \in 1 .. count : named[k] = After(k, named[k - 1])
  <2> HIDE DEF After, Start
  <2>1. \A f : f = Table(f) =>
          \A k \in 0 .. count : f[k] = IF k = 0 THEN Start ELSE After(k, f[k - 1])
    OBVIOUS
  <2>2. 0 \in 0 .. count /\ \A k \in 1 .. count : k \in 0 .. count /\ k # 0
    OBVIOUS
  <2> HIDE DEF Table
  <2> QED
    BY <1>7, <2>1, <2>2
<1> HIDE DEF Table
<1> DEFINE Good(k, v) ==
             /\ NamesOf(v, l, k, links, first)
             /\ v.visited = {v.ids[<<l, j>>] : j \in 1 .. k}
           S == {k \in 0 .. count : Good(k, named[k])}
<1>9. 0 \in S
  <2> DEFINE v == named[0]
  <2>1. /\ v.ids = [n \in {<<l, 0>>} |-> NOISE_CLUSTERID] /\ v.visited = {} /\ v.max = first
    BY <1>8
  <2>2. {l} \X (0 .. 0) = {<<l, 0>>} /\ 1 .. 0 = {} /\ 0 \in 0 .. count
    OBVIOUS
  <2> HIDE DEF v
  <2>3. /\ v.ids \in [{l} \X (0 .. 0) -> Nat] /\ v.ids[<<l, 0>>] = 0
        /\ \A n \in {l} \X (0 .. 0) : n = <<l, 0>>
    BY <2>1, <2>2 DEF NOISE_CLUSTERID
  <2>4. NamesOf(v, l, 0, links, first)
    BY <2>1, <2>3 DEF NamesOf, NOISE_CLUSTERID
  <2>5. v.visited = {v.ids[<<l, j>>] : j \in 1 .. 0}
    BY <2>1, <2>2
  <2> QED
    BY <2>2, <2>4, <2>5 DEF v
<1>10. ASSUME NEW k \in 1 .. count, k - 1 \in S
       PROVE  k \in S
  <2> DEFINE b == named[k - 1]
             v == named[k]
             i == Name(k, b)
  <2>1. k \in Nat /\ k - 1 \in Nat /\ k # 0 /\ (0 .. k) = (0 .. (k - 1)) \cup {k}
        /\ (1 .. k) = (1 .. (k - 1)) \cup {k} /\ k \notin 0 .. (k - 1)
    OBVIOUS
  <2>2. NamesOf(b, l, k - 1, links, first) /\ b.visited = {b.ids[<<l, j>>] : j \in 1 .. (k - 1)}
    BY <1>10
  <2>3. /\ v.ids = Joined(b.ids, [n \in {<<l, k>>} |-> i])
        /\ v.visited = b.visited \cup {i}
        /\ v.max = IF Free(k, b) # {} THEN b.max ELSE i
    <3>1. named[k] = After(k, named[k - 1])
      BY <1>8
    <3>2. \A u : /\ After(k, u).ids = Joined(u.ids, [n \in {<<l, k>>} |-> Name(k, u)])
                 /\ After(k, u).visited = u.visited \cup {Name(k, u)}
                 /\ After(k, u).max = IF Free(k, u) # {} THEN u.max ELSE Name(k, u)
      OBVIOUS
    <3> HIDE DEF After
    <3> QED
      BY <3>1, <3>2
  <2> HIDE DEF S, v, b, i
  <2>4. /\ b.max \in Nat /\ first <= b.max /\ b.ids \in [{l} \X (0 .. (k - 1)) -> Nat]
        /\ \A n \in {l} \X (0 .. (k - 1)) : b.ids[n] \in Nat /\ b.ids[n] <= b.max
    BY <2>2 DEF NamesOf
  <2>5. \/ /\ i \in Nat /\ i # 0 /\ i \notin b.visited /\ i <= first /\ v.max = b.max
           /\ \E e \in links : e[2] = <<l, k>> /\ id[e[1]] = i
        \/ i = b.max + 1 /\ v.max = i
    <3>1. CASE Free(k, b) # {}
      <4>1. i \in Free(k, b)
        BY <1>3, <3>1 DEF i
      <4> QED
        BY <1>2, <2>3, <3>1, <4>1
    <3>2. CASE Free(k, b) = {}
      BY <1>3, <2>3, <3>2 DEF i
    <3> QED
      BY <3>1, <3>2
  <2>6. i \in Nat /\ i # 0 /\ i <= v.max /\ v.max \in Nat /\ b.max <= v.max
    BY <2>4, <2>5
  <2>7. /\ {l} \X (0 .. k) = ({l} \X (0 .. (k - 1))) \cup {<<l, k>>}
        /\ <<l, k>> \notin {l} \X (0 .. (k - 1))
    BY <2>1
  <2>8. /\ v.ids \in [{l} \X (0 .. k) -> Nat] /\ v.ids[<<l, k>>] = i
        /\ \A n \in {l} \X (0 .. (k - 1)) : v.ids[n] = b.ids[n]
    BY <2>3, <2>4, <2>6, <2>7 DEF Joined
  <2>9. \A n \in {l} \X (0 .. (k - 1)) : n[2] # 0 => b.ids[n] \in b.visited
    BY <2>1, <2>2
  <2>10. \A n \in {l} \X (0 .. (k - 1)) : b.ids[n] # i
    <3> SUFFICES ASSUME NEW n \in {l} \X (0 .. (k - 1))
                 PROVE  b.ids[n] # i
      OBVIOUS
    <3>1. CASE n[2] = 0
      BY <2>2, <2>6, <3>1 DEF NamesOf, NOISE_CLUSTERID
    <3>2. CASE n[2] # 0
      BY <2>4, <2>5, <2>9, <3>2
    <3> QED
      BY <3>1, <3>2
  <2>11. ASSUME NEW n \in {l} \X (0 .. k)
         PROVE  /\ v.ids[n] <= v.max /\ (v.ids[n] = NOISE_CLUSTERID <=> n[2] = 0)
                /\ v.ids[n] # NOISE_CLUSTERID /\ v.ids[n] <= first =>
                     \E e \in links : e[2] = n /\ id[e[1]] = v.ids[n]
    <3>1. CASE n = <<l, k>>
      <4>1. v.ids[n] = i /\ n[2] = k
        BY <2>8, <3>1
      <4> QED
        BY <2>1, <2>4, <2>5, <2>6, <3>1, <4>1 DEF NOISE_CLUSTERID
    <3>2. CASE n # <<l, k>>
      <4>1. n \in {l} \X (0 .. (k - 1))
        BY <2>7, <3>2
      <4>2. v.ids[n] = b.ids[n] /\ b.ids[n] \in Nat /\ b.ids[n] <= b.max
        BY <2>4, <2>8, <4>1
      <4>3. v.ids[n] <= v.max
        BY <2>4, <2>6, <4>2
      <4> QED
        BY <2>2, <4>1, <4>2, <4>3 DEF NamesOf
    <3> QED
      BY <3>1, <3>2
  <2>12. ASSUME NEW m \in {l} \X (0 .. k), NEW n \in {l} \X (0 .. k), m # n
         PROVE  v.ids[m] # v.ids[n]
    <3>1. CASE m = <<l, k>>
      <4>1. n \in {l} \X (0 .. (k - 1))
        BY <2>7, <2>12, <3>1
      <4> QED
        BY <2>8, <2>10, <3>1, <4>1
    <3>2. CASE n = <<l, k>>
      <4>1. m \in {l} \X (0 .. (k - 1))
        BY <2>7, <2>12, <3>2
      <4> QED
        BY <2>8, <2>10, <3>2, <4>1
    <3>3. CASE m # <<l, k>> /\ n # <<l, k>>
      <4>1. m \in {l} \X (0 .. (k - 1)) /\ n \in {l} \X (0 .. (k - 1))
        BY <2>7, <3>3
      <4> QED
        BY <2>2, <2>8, <2>12, <4>1 DEF NamesOf
    <3> QED
      BY <3>1, <3>2, <3>3
  <2>13. NamesOf(v, l, k, links, first)
    <3>1. first <= v.max
      BY <2>4, <2>6
    <3> QED
      BY <2>6, <2>8, <2>11, <2>12, <3>1 DEF NamesOf
  <2>14. v.visited = {v.ids[<<l, j>>] : j \in 1 .. k}
    <3>1. \A j \in 1 .. (k - 1) : <<l, j>> \in {l} \X (0 .. (k - 1))
      BY <2>1
    <3>2. \A j \in 1 .. (k - 1) : v.ids[<<l, j>>] = b.ids[<<l, j>>]
      BY <2>8, <3>1
    <3>3. v.visited = {b.ids[<<l, j>>] : j \in 1 .. (k - 1)} \cup {v.ids[<<l, k>>]}
      BY <2>2, <2>3, <2>8
    <3>4. {b.ids[<<l, j>>] : j \in 1 .. (k - 1)} = {v.ids[<<l, j>>] : j \in 1 .. (k - 1)}
      BY <3>2
    <3>5. k \in 1 .. k /\ \A j \in 1 .. k : j = k \/ j \in 1 .. (k - 1)
      BY <2>1
    <3> QED
      BY <2>1, <3>3, <3>4, <3>5
  <2> QED
    BY <2>13, <2>14 DEF S, v
<1> HIDE DEF S
<1>11. 0 .. count \subseteq S
  BY <1>9, <1>10, BoundedInduction
<1> QED
  BY <1>1, <1>11 DEF S

-----------------------------------------------------------------------------
(* The first analysis *)

\* Only new nodes are found perfect.
LEMMA ScoresOfNew ==
  ASSUME NEW New, NEW names, NEW ids, NEW s \in ComputeScores(New, names, ids)
  PROVE  s \subseteq New
BY DEF ComputeScores

\* The assignment is that of the leaves, when they share out the bursts.
LEMMA AssignmentLabels ==
  ASSUME NEW B, NEW names, NEW links, Shares(B, Leaves(DOMAIN B, links))
  PROVE  Labels(GetAssignment(B, names, links), B, Leaves(DOMAIN B, links), names)
<1> DEFINE L == Leaves(DOMAIN B, links)
           P == GetAssignment(B, names, links)
           Of(b) == CHOOSE n \in L : b \in B[n]
<1>1. P = [b \in UNION {B[n] : n \in L} |-> names[Of(b)]]
  BY DEF GetAssignment
<1>2. /\ \A n \in L : B[n] \subseteq Burst
      /\ \A b \in Burst : \E n \in L : b \in B[n]
      /\ \A m, n \in L : m # n => B[m] \cap B[n] = {}
  BY DEF Shares
<1> HIDE DEF L, P
<1>3. UNION {B[n] : n \in L} = Burst
  <2>1. /\ \A b \in Burst : b \in UNION {B[n] : n \in L}
        /\ \A b \in UNION {B[n] : n \in L} : b \in Burst
    BY <1>2
  <2> QED
    BY <2>1
<1>4. ASSUME NEW n \in L, NEW b \in B[n]
      PROVE  P[b] = names[n]
  <2>1. Of(b) \in L /\ b \in B[Of(b)]
    BY <1>4
  <2> HIDE DEF Of
  <2>2. Of(b) = n
    BY <1>2, <1>4, <2>1
  <2>3. b \in Burst
    BY <1>2, <1>4
  <2> QED
    BY <1>1, <1>3, <2>2, <2>3
<1>5. DOMAIN P = Burst
  BY <1>1, <1>3
<1> QED
  BY <1>4, <1>5 DEF Labels, L, P

Function(P) == P = [b \in DOMAIN P |-> P[b]]

\* The assignment is a function.
LEMMA AssignmentIsFunction ==
  ASSUME NEW B, NEW names, NEW links
  PROVE  Function(GetAssignment(B, names, links))
BY DEF GetAssignment, Function

\* A level has finitely many nodes.
LEMMA LevelFinite ==
  ASSUME NEW l, NEW K \in Nat
  PROVE  IsFiniteSet({l} \X (0 .. K))
<1>1. IsFiniteSet(0 .. K)
  BY FS_Interval
<1>2. IsFiniteSet({l})
  BY FS_Singleton
<1> QED
  BY <1>1, <1>2, FS_Product

\* What the leaves call their bursts are numbers if their ids are.
LEMMA LabelsAreNumbers ==
  ASSUME NEW P, NEW B, NEW L, NEW names, Shares(B, L), Labels(P, B, L, names),
         \A n \in L : names[n] \in Nat
  PROVE  \A b \in DOMAIN P : P[b] \in Nat
BY DEF Shares, Labels

\* The first analysis: all its nodes are leaves (RunFirstAnalysis).
LEMMA FirstAnalysisStep ==
  ASSUME IInv, RunFirstAnalysis
  PROVE  IInv'
<1>1. /\ input \in Inputs /\ pc = "first" /\ children = {} /\ merges = {}
      /\ Burst' = Burst /\ level' = 1 /\ pc' \in {"step", "failed"}
      /\ UNCHANGED <<input, children, merges>>
  BY DEF IInv, TypeOK, Fresh, Analysed, RunFirstAnalysis, Return, Burst
<1> DEFINE Result(clusters, r) ==
             /\ bursts' = GenerateNodes(1, Burst, r)
             /\ id' = [n \in DOMAIN bursts' |-> n[2]]
             /\ partition' = GetAssignment(bursts', id', {})
             /\ lastId' = partition' /\ maxId' = Cardinality(clusters)
             /\ perfect' \in ComputeScores(DOMAIN bursts', id', partition')
<1>2. PICK clusters \in RunDBSCAN(Near(Burst, 1), input.minPoints) :
        \E r \in TranslatedIDs(clusters) : Result(clusters, r)
  BY DEF RunFirstAnalysis
<1>3. PICK r \in TranslatedIDs(clusters) : Result(clusters, r)
  BY <1>2
<1> DEFINE K == Cardinality(clusters)
<1>4. /\ bursts' = GenerateNodes(1, Burst, r)
      /\ id' = [n \in DOMAIN bursts' |-> n[2]]
      /\ partition' = GetAssignment(bursts', id', {})
      /\ lastId' = partition' /\ maxId' = K
      /\ perfect' \in ComputeScores(DOMAIN bursts', id', partition')
  BY <1>3
<1>5. LevelOf(bursts', 1, Burst, K)
  BY <1>1, <1>4, AnalysisGivesLevel
<1> HIDE DEF K
<1>6. /\ K \in Nat /\ DOMAIN bursts' = {1} \X (0 .. K)
      /\ \A n \in DOMAIN bursts' : bursts'[n] \subseteq Burst
      /\ \A m, n \in DOMAIN bursts' : m # n => bursts'[m] \cap bursts'[n] = {}
      /\ \A b \in Burst : \E n \in DOMAIN bursts' : b \in bursts'[n]
  BY <1>5 DEF LevelOf
<1>7. \A n \in DOMAIN bursts' :
        n[1] = 1 /\ n[2] \in 0 .. K /\ n = <<1, n[2]>> /\ id'[n] = n[2] /\ n \in Node
  BY <1>4, <1>6, InputFacts, <1>1 DEF Node
<1>8. Leaves(DOMAIN bursts', {}) = DOMAIN bursts'
  BY <1>7 DEF Leaves
<1>9. leaves' = DOMAIN bursts'
  BY <1>1, <1>8 DEF leaves
<1>10. Shares(bursts', DOMAIN bursts')
  BY <1>6 DEF Shares
<1>11. Labels(partition', bursts', DOMAIN bursts', id')
  BY <1>4, <1>8, <1>10, AssignmentLabels
<1>12. Shared'
  BY <1>1, <1>9, <1>10, <1>11 DEF Shared, Shares, Labels
<1>13. perfect' \subseteq DOMAIN bursts'
  BY <1>4, ScoresOfNew
<1>14. PerfectStaysWhole'
  BY <1>11, <1>13 DEF PerfectStaysWhole, Labels
<1>15. \A m, n \in DOMAIN bursts' : m[1] = n[1] /\ id'[m] = id'[n] => m = n
  BY <1>7
<1>16. DOMAIN id' = DOMAIN bursts'
  BY <1>4
<1>17. Lineage'
  BY <1>7, <1>15, <1>16 DEF Lineage
<1>18. TreeGrows'
  <2>1. level' \in 1 .. Steps /\ lastId' = partition'
    BY <1>1, <1>4, InputFacts
  <2>2. DOMAIN bursts' \subseteq (1 .. level') \X Nat
    BY <1>1, <1>6
  <2>3. \A n \in DOMAIN bursts' : id'[n] <= maxId' /\ (id'[n] = NOISE_CLUSTERID <=> n[2] = 0)
    BY <1>4, <1>6, <1>7 DEF NOISE_CLUSTERID
  <2>4. \A m, n \in DOMAIN bursts' :
          m[1] = n[1] /\ m # n => id'[m] # id'[n] /\ bursts'[m] \cap bursts'[n] = {}
    BY <1>6, <1>15
  <2>5. \A n \in DOMAIN bursts' :
          bursts'[n] # {} => (n \in leaves' <=> n[1] = level' \/ n \in perfect')
    BY <1>1, <1>7, <1>9
  <2>6. \A m \in perfect', n \in DOMAIN bursts' : n[1] <= m[1]
    BY <1>7, <1>13
  <2> QED
    BY <2>1, <2>2, <2>3, <2>4, <2>5, <2>6 DEF TreeGrows
<1>19. IsFiniteSet(DOMAIN bursts')
  <2>1. IsFiniteSet({1} \X (0 .. K))
    BY <1>6, LevelFinite
  <2> QED
    BY <1>6, <2>1
<1>20. TypeOK'
  <2>1. \A n \in DOMAIN bursts' : id'[n] \in Nat
    BY <1>7
  <2>2. \A b \in DOMAIN partition' : partition'[b] \in Nat
    BY <1>10, <1>11, <2>1, LabelsAreNumbers
  <2>3. level' \in 0 .. Steps
    BY <1>1, InputFacts
  <2>4. \A n \in DOMAIN bursts' : bursts'[n] \subseteq Burst' /\ n \in Node
    BY <1>1, <1>6, <1>7
  <2> QED
    BY <1>1, <1>4, <1>6, <1>13, <1>16, <2>1, <2>2, <2>3, <2>4 DEF TypeOK
<1> QED
  BY <1>1, <1>12, <1>14, <1>17, <1>18, <1>19, <1>20 DEF IInv, Analysed

-----------------------------------------------------------------------------
(* One more level *)

\* What RunStep does with the answer of the analysis.
Result(New, links, names) ==
  /\ bursts' = Joined(bursts, New)
  /\ children' = children \cup links
  /\ id' = Joined(id, names.ids)
  /\ maxId' = names.max
  /\ partition' = GetAssignment(bursts', id', children')
  /\ lastId' = partition'
  /\ \E s \in ComputeScores(DOMAIN New, id', partition') : perfect' = perfect \cup s

\* The level, its links and its names.
Extended(New, links, names, K) ==
  /\ LevelOf(New, level + 1, BurstsSubset, K)
  /\ links = LinkNodes(New)
  /\ NamesOf(names, level + 1, K, links, maxId)
  /\ Result(New, links, names)

\* A candidate with bursts is the leaf that they are called after.
LEMMA CandidatesAreLeaves ==
  ASSUME IInv, TreeGrows, Shared, NEW c \in Candidates, NEW b \in bursts[c]
  PROVE  c \in leaves /\ lastId[b] = id[c] /\ b \in Burst
<1>1. c \in leaves
  BY DEF TreeGrows, Candidates
<1> QED
  BY <1>1 DEF TreeGrows, Shared, Labels, Shares

\* A step extends the tree.
LEMMA StepExtends ==
  ASSUME IInv, RunStep
  PROVE  /\ TreeGrows /\ Shared /\ level < Steps /\ input \in Inputs /\ level' = level + 1
         /\ pc' \in {"step", "failed"} /\ UNCHANGED <<input, merges>>
         /\ \E New, links, names : \E K \in Nat : Extended(New, links, names, K)
<1>1. /\ TreeGrows /\ Shared /\ TypeOK /\ input \in Inputs /\ level < Steps
      /\ level' = level + 1 /\ pc' \in {"step", "failed"} /\ UNCHANGED <<input, merges>>
  BY DEF IInv, RunStep, MoreSteps, Return, Analysed, TypeOK
<1> DEFINE S == BurstsSubset
           Of(clusters, r, New, links, names) ==
             /\ New = GenerateNodes(level + 1, S, r)
             /\ links = LinkNodes(New)
             /\ names = RenameNodes(level + 1, Cardinality(clusters), links)
<1>2. PICK clusters \in RunDBSCAN(Near(S, level + 1), input.minPoints) :
        \E r \in TranslatedIDs(clusters) :
          \E New, links, names : Of(clusters, r, New, links, names) /\ Result(New, links, names)
  <2>1. \E clusters \in RunDBSCAN(Near(S, level + 1), input.minPoints) :
          \E r \in TranslatedIDs(clusters) :
            LET New == GenerateNodes(level + 1, S, r)
                links == LinkNodes(New)
                names == RenameNodes(level + 1, Cardinality(clusters), links)
            IN  Result(New, links, names)
    BY DEF RunStep, Result
  <2> HIDE DEF S
  <2> QED
    BY <2>1
<1>3. PICK r \in TranslatedIDs(clusters) :
        \E New, links, names : Of(clusters, r, New, links, names) /\ Result(New, links, names)
  BY <1>2
<1>4. PICK New, links, names : Of(clusters, r, New, links, names) /\ Result(New, links, names)
  BY <1>3
<1> DEFINE K == Cardinality(clusters)
<1>5. S \in SUBSET Burst
  BY <1>1 DEF BurstsSubset, Candidates, TypeOK
<1> HIDE DEF S
<1>6. LevelOf(New, level + 1, S, K)
  BY <1>1, <1>4, <1>5, AnalysisGivesLevel
<1>7. K \in Nat
  BY <1>6 DEF LevelOf
<1>8. NamesOf(names, level + 1, K, links, maxId)
  <2>1. maxId \in Nat /\ \A n \in DOMAIN bursts : id[n] \in Nat /\ id[n] <= maxId
    BY <1>1 DEF TypeOK, TreeGrows
  <2>2. \A e \in links : e[1] \in DOMAIN bursts
    BY <1>4 DEF LinkNodes, Candidates
  <2> HIDE DEF K
  <2>3. NamesOf(NamesAfter(level + 1, K, links, maxId), level + 1, K, links, maxId)
    BY <1>7, <2>1, <2>2, NamesAreNew
  <2> QED
    BY <1>4, <2>3 DEF RenameNodes, K
<1>9. Extended(New, links, names, K)
  BY <1>4, <1>6, <1>8 DEF Extended, S
<1> QED
  BY <1>1, <1>7, <1>9

\* A new node is linked if it has bursts, a candidate with bursts gets a child.
LEMMA LinksFollowBursts ==
  ASSUME IInv, TreeGrows, Shared, NEW New, NEW links, NEW names, NEW K \in Nat,
         Extended(New, links, names, K)
  PROVE  /\ links \subseteq Candidates \X (DOMAIN New)
         /\ \A n \in DOMAIN New : New[n] # {} <=> \E e \in links : e[2] = n
         /\ \A c \in Candidates : bursts[c] # {} => \E e \in links : e[1] = c
         /\ \A e \in links : \E b \in bursts[e[1]] : b \in BurstsSubset /\ lastId[b] = id[e[1]]
<1>1. links = {e \in Candidates \X (DOMAIN New) : \E b \in New[e[2]] : lastId[b] = id[e[1]]}
  BY DEF Extended, LinkNodes
<1>2. /\ \A n \in DOMAIN New : New[n] \subseteq BurstsSubset
      /\ \A b \in BurstsSubset : \E n \in DOMAIN New : b \in New[n]
  BY DEF Extended, LevelOf
<1>3. /\ \A b \in BurstsSubset : \E c \in Candidates : b \in bursts[c]
      /\ \A c \in Candidates : \A b \in bursts[c] : b \in BurstsSubset /\ lastId[b] = id[c]
  BY CandidatesAreLeaves DEF BurstsSubset
<1>4. ASSUME NEW c \in Candidates, NEW n \in DOMAIN New, NEW b \in New[n], b \in bursts[c]
      PROVE  <<c, n>> \in links
  BY <1>1, <1>3, <1>4
<1>5. ASSUME NEW n \in DOMAIN New, NEW b \in New[n]
      PROVE  \E e \in links : e[2] = n
  <2>1. PICK c \in Candidates : b \in bursts[c]
    BY <1>2, <1>3
  <2>2. <<c, n>> \in links /\ <<c, n>>[2] = n
    BY <1>4, <2>1
  <2> QED
    BY <2>2
<1>6. ASSUME NEW c \in Candidates, NEW b \in bursts[c]
      PROVE  \E e \in links : e[1] = c
  <2>1. PICK n \in DOMAIN New : b \in New[n]
    BY <1>2, <1>3
  <2>2. <<c, n>> \in links /\ <<c, n>>[1] = c
    BY <1>4, <2>1
  <2> QED
    BY <2>2
<1>7. ASSUME NEW e \in links
      PROVE  \E b \in bursts[e[1]] : b \in BurstsSubset /\ lastId[b] = id[e[1]]
  <2>1. e[1] \in Candidates /\ e[1] \in DOMAIN bursts /\ e[1][1] = level
    BY <1>1 DEF Candidates
  <2>2. PICK b \in New[e[2]] : lastId[b] = id[e[1]]
    BY <1>1
  <2>3. PICK c \in Candidates : b \in bursts[c]
    BY <1>1, <1>2, <1>3, <2>2
  <2>4. id[c] = id[e[1]] /\ c \in DOMAIN bursts /\ c[1] = level
    BY <1>3, <2>2, <2>3 DEF Candidates
  <2>5. c = e[1]
    BY <2>1, <2>4 DEF TreeGrows
  <2> QED
    BY <1>3, <2>3, <2>5
<1> QED
  BY <1>1, <1>5, <1>6, <1>7


\* The id of a burst comes from no earlier partition, or it is new.
NoneRevived ==
  \A b \in DOMAIN partition' :
    \/ partition'[b] = NOISE_CLUSTERID
    \/ partition'[b] > maxId
    \/ \E c \in DOMAIN partition : partition[c] = partition'[b]

\* One more level: the candidates with bursts are no leaves any more, the new nodes with
\* bursts are (RunStep).
LEMMA AnotherLevelStep ==
  ASSUME IInv, RunStep
  PROVE  IInv' /\ NoneRevived
<1>1. /\ TreeGrows /\ Shared /\ level < Steps /\ input \in Inputs /\ level' = level + 1
      /\ pc' \in {"step", "failed"} /\ UNCHANGED <<input, merges>>
      /\ \E New, links, names : \E K \in Nat : Extended(New, links, names, K)
  BY StepExtends
<1>2. PICK New, links, names : \E K \in Nat : Extended(New, links, names, K)
  BY <1>1
<1>3. PICK K \in Nat : Extended(New, links, names, K)
  BY <1>2
<1> DEFINE Old == DOMAIN bursts
           Added == {level + 1} \X (0 .. K)
<1>4. /\ TypeOK /\ Burst' = Burst /\ level \in Nat /\ maxId \in Nat
      /\ IsFiniteSet(Old) /\ Lineage
  BY <1>1 DEF IInv, TypeOK, Burst, TreeGrows, Analysed, RunStep
<1>5. /\ DOMAIN New = Added
      /\ \A n \in Added : New[n] \subseteq BurstsSubset
      /\ \A m, n \in Added : m # n => New[m] \cap New[n] = {}
      /\ \A b \in BurstsSubset : \E n \in Added : b \in New[n]
  BY <1>3 DEF Extended, LevelOf
<1>6. /\ bursts' = Joined(bursts, New) /\ children' = children \cup links
      /\ id' = Joined(id, names.ids) /\ maxId' = names.max
      /\ partition' = GetAssignment(bursts', id', children') /\ lastId' = partition'
      /\ \E s \in ComputeScores(DOMAIN New, id', partition') : perfect' = perfect \cup s
  BY <1>3 DEF Extended, Result
<1>7. NamesOf(names, level + 1, K, links, maxId)
  BY <1>3 DEF Extended
<1>8. /\ links \subseteq Candidates \X Added
      /\ \A n \in Added : New[n] # {} <=> \E e \in links : e[2] = n
      /\ \A c \in Candidates : bursts[c] # {} => \E e \in links : e[1] = c
  BY <1>1, <1>3, <1>5, LinksFollowBursts
<1>9. /\ \A n \in Old : n[1] \in Nat /\ n[1] <= level /\ n \in Node
      /\ \A n \in Added : n[1] = level + 1 /\ n \in Node /\ n = <<n[1], n[2]>>
      /\ DOMAIN id = Old
  <2>1. level + 1 \in 1 .. (Steps + 1)
    BY <1>1, <1>4, InputFacts
  <2>2. \A n \in Added : n[1] = level + 1 /\ n[2] \in Nat /\ n = <<level + 1, n[2]>>
    OBVIOUS
  <2>3. \A n \in Added : n \in Node
    BY <2>1, <2>2 DEF Node
  <2>4. \A n \in Old : n[1] \in Nat /\ n[1] <= level /\ n \in Node
    BY <1>1, <1>4 DEF TreeGrows, TypeOK
  <2> QED
    BY <1>4, <2>2, <2>3, <2>4 DEF TypeOK
<1>10. \A n \in Old : n \notin Added
  BY <1>4, <1>9
<1>11. names.ids \in [Added -> Nat]
  BY <1>7 DEF NamesOf
<1>12. /\ DOMAIN bursts' = Old \cup Added /\ DOMAIN id' = Old \cup Added
       /\ \A n \in Old : bursts'[n] = bursts[n] /\ id'[n] = id[n]
       /\ \A n \in Added : bursts'[n] = New[n] /\ id'[n] = names.ids[n]
  BY <1>5, <1>6, <1>9, <1>10, <1>11 DEF Joined
<1>13. /\ children \subseteq Old \X Old /\ Candidates \subseteq Old
       /\ \A c \in Candidates : c[1] = level /\ c \notin perfect
  BY <1>4 DEF TypeOK, Candidates
<1> HIDE DEF Old, Added
<1>14. leaves = Leaves(Old, children) /\ leaves' = Leaves(Old \cup Added, children \cup links)
  BY <1>6, <1>12 DEF leaves, Old
<1>15. ASSUME NEW n \in Old
       PROVE  n \in leaves' <=> n \in leaves /\ \A e \in links : e[1] # n
  <2>1. \A e \in links : e[2] # n
    BY <1>8, <1>10
  <2> QED
    BY <1>14, <2>1 DEF Leaves
<1>16. ASSUME NEW n \in Added
       PROVE  n \in leaves' <=> New[n] # {}
  <2>1. n[1] # 1
    BY <1>1, <1>9 DEF TreeGrows
  <2>2. \A e \in children : e[1] # n /\ e[2] # n
    BY <1>10, <1>13
  <2>3. \A e \in links : e[1] # n
    BY <1>8, <1>10, <1>13
  <2>4. n \in leaves' <=> \E e \in links : e[2] = n
    BY <1>14, <2>1, <2>2, <2>3 DEF Leaves
  <2> QED
    BY <1>8, <2>4
<1>17. ASSUME NEW n \in Old, bursts[n] # {}
       PROVE  n \in leaves' <=> n \in perfect
  <2>1. n \in leaves <=> n[1] = level \/ n \in perfect
    BY <1>1, <1>17 DEF TreeGrows, Old
  <2>2. CASE n \in perfect
    BY <1>8, <1>13, <1>15, <2>1, <2>2
  <2>3. CASE n \notin perfect /\ n[1] = level
    <3>1. n \in Candidates
      BY <2>3 DEF Candidates, Old
    <3> QED
      BY <1>8, <1>15, <1>17, <2>3, <3>1
  <2>4. CASE n \notin perfect /\ n[1] # level
    BY <1>15, <2>1, <2>4
  <2> QED
    BY <2>2, <2>3, <2>4
<1>18. /\ \A n \in leaves : n \in Old /\ bursts[n] \subseteq Burst
       /\ \A b \in Burst : \E n \in leaves : b \in bursts[n]
       /\ \A m, n \in leaves : m # n => bursts[m] \cap bursts[n] = {}
  BY <1>1, <1>14 DEF Shared, Shares, Leaves
<1>19. ASSUME NEW b \in BurstsSubset
       PROVE  b \in Burst /\ \E c \in leaves : c \in Candidates /\ b \in bursts[c]
  <2>1. PICK c \in Candidates : b \in bursts[c]
    BY DEF BurstsSubset
  <2>2. c \in leaves /\ b \in Burst
    BY <1>1, <2>1, CandidatesAreLeaves
  <2> QED
    BY <2>1, <2>2
<1>20. ASSUME NEW m \in Old, NEW n \in Added, m \in perfect
       PROVE  bursts[m] \cap New[n] = {}
  <2> SUFFICES ASSUME NEW b \in bursts[m], b \in New[n]
               PROVE  FALSE
    OBVIOUS
  <2>1. m \in leaves
    BY <1>15, <1>17, <1>20
  <2>2. PICK c \in leaves : c \in Candidates /\ b \in bursts[c]
    BY <1>5, <1>19
  <2>3. c # m
    BY <1>13, <1>20, <2>2
  <2> QED
    BY <1>18, <2>1, <2>2, <2>3
<1>21. Shares(bursts', leaves')
  <2>1. \A n \in leaves' : n \in Old \cup Added
    BY <1>14 DEF Leaves
  <2>2. ASSUME NEW n \in leaves'
        PROVE  bursts'[n] \subseteq Burst
    BY <1>5, <1>12, <1>15, <1>18, <1>19, <2>1
  <2>3. ASSUME NEW b \in Burst
        PROVE  \E n \in leaves' : b \in bursts'[n]
    <3>1. PICK n \in leaves : b \in bursts[n]
      BY <1>18
    <3>2. n \in Old /\ bursts[n] # {} /\ bursts'[n] = bursts[n]
      BY <1>12, <1>18, <3>1
    <3>3. CASE n \in perfect
      BY <1>17, <3>1, <3>2, <3>3
    <3>4. CASE n \notin perfect
      <4>1. n[1] = level
        BY <1>1, <3>1, <3>2, <3>4 DEF TreeGrows, Old
      <4>2. n \in Candidates
        BY <3>2, <3>4, <4>1 DEF Candidates, Old
      <4>3. b \in BurstsSubset
        BY <3>1, <4>2 DEF BurstsSubset
      <4>4. PICK k \in Added : b \in New[k]
        BY <1>5, <4>3
      <4> QED
        BY <1>12, <1>16, <4>4
    <3> QED
      BY <3>3, <3>4
  <2>4. ASSUME NEW m \in leaves', NEW n \in leaves', m # n, NEW b \in bursts'[m], b \in bursts'[n]
        PROVE  FALSE
    <3>1. ASSUME NEW k \in leaves', k \in Old, b \in bursts'[k]
          PROVE  k \in perfect /\ k \in leaves /\ b \in bursts[k]
      BY <1>12, <1>15, <1>17, <3>1
    <3>2. \A k \in Added : b \in bursts'[k] => b \in New[k]
      BY <1>12
    <3>3. CASE m \in Old /\ n \in Old
      BY <1>18, <2>4, <3>1, <3>3
    <3>4. CASE m \in Old /\ n \in Added
      BY <1>20, <2>4, <3>1, <3>2, <3>4
    <3>5. CASE m \in Added /\ n \in Old
      BY <1>20, <2>4, <3>1, <3>2, <3>5
    <3>6. CASE m \in Added /\ n \in Added
      BY <1>5, <2>4, <3>2, <3>6
    <3> QED
      BY <2>1, <3>3, <3>4, <3>5, <3>6
  <2>5. \A m, n \in leaves' : m # n => bursts'[m] \cap bursts'[n] = {}
    BY <2>4
  <2> QED
    BY <2>2, <2>3, <2>5 DEF Shares
<1>22. Labels(partition', bursts', leaves', id')
  <2>1. leaves' = Leaves(DOMAIN bursts', children')
    BY DEF leaves
  <2> QED
    BY <1>6, <1>21, <2>1, AssignmentLabels
<1>23. Shared'
  BY <1>4, <1>21, <1>22 DEF Shared, Shares, Labels
<1>24. /\ perfect \subseteq Old /\ perfect \subseteq perfect' /\ perfect' \subseteq Old \cup Added
       /\ \A n \in Old : n \in perfect' => n \in perfect
  <2>1. PICK s \in ComputeScores(DOMAIN New, id', partition') : perfect' = perfect \cup s
    BY <1>6
  <2>2. s \subseteq Added
    BY <1>5, ScoresOfNew
  <2>3. perfect \subseteq Old
    BY <1>4 DEF TypeOK, Old
  <2> QED
    BY <1>10, <2>1, <2>2, <2>3
<1>25. PerfectStaysWhole'
  <2>1. ASSUME NEW n \in perfect', NEW b \in bursts'[n]
        PROVE  partition'[b] = id'[n]
    <3>1. n \in leaves'
      BY <1>12, <1>16, <1>17, <1>24, <2>1
    <3> QED
      BY <1>22, <2>1, <3>1 DEF Labels
  <2> QED
    BY <2>1 DEF PerfectStaysWhole
<1>26. \A n \in Old : /\ id[n] \in Nat /\ id[n] <= maxId
                      /\ (id[n] = NOISE_CLUSTERID <=> n[2] = 0)
  BY <1>1, <1>4, <1>9 DEF TreeGrows, TypeOK, Old
<1>27. /\ names.max \in Nat /\ maxId <= names.max
       /\ \A n \in Added : /\ names.ids[n] \in Nat /\ names.ids[n] <= names.max
                           /\ (names.ids[n] = NOISE_CLUSTERID <=> n[2] = 0)
       /\ \A m, n \in Added : m # n => names.ids[m] # names.ids[n]
  BY <1>7, <1>11 DEF NamesOf, Added
<1>28. ASSUME NEW n \in Added, names.ids[n] # NOISE_CLUSTERID, names.ids[n] <= maxId
       PROVE  \E p \in Candidates : <<p, n>> \in links /\ id[p] = names.ids[n]
  <2>1. PICK e \in links : e[2] = n /\ id[e[1]] = names.ids[n]
    BY <1>7, <1>28 DEF NamesOf, Added
  <2>2. e = <<e[1], n>> /\ e[1] \in Candidates
    BY <1>8, <2>1
  <2> QED
    BY <2>1, <2>2
<1>29. ASSUME NEW m \in DOMAIN id', NEW n \in DOMAIN id',
              m # n, id'[m] = id'[n], id'[n] # NOISE_CLUSTERID, m[1] <= n[1]
       PROVE  \E p \in DOMAIN id' : /\ <<p, n>> \in children' /\ id'[p] = id'[n]
                                    /\ m[1] <= p[1] /\ p[1] < n[1]
  <2>1. CASE n \in Old
    <3>1. m \in Old
      BY <1>4, <1>9, <1>12, <1>29, <2>1
    <3>2. id[m] = id[n] /\ id[n] # NOISE_CLUSTERID
      BY <1>12, <1>29, <2>1, <3>1
    <3>3. PICK p \in Old : /\ <<p, n>> \in children /\ id[p] = id[n]
                           /\ m[1] <= p[1] /\ p[1] < n[1]
      BY <1>4, <1>9, <1>29, <2>1, <3>1, <3>2 DEF Lineage
    <3> QED
      BY <1>6, <1>12, <2>1, <3>3
  <2>2. CASE n \in Added /\ m \in Added
    BY <1>12, <1>27, <1>29, <2>2
  <2>3. CASE n \in Added /\ m \in Old
    <3>1. names.ids[n] = id[m] /\ names.ids[n] # NOISE_CLUSTERID
      BY <1>12, <1>29, <2>3
    <3>2. names.ids[n] <= maxId
      BY <1>26, <2>3, <3>1
    <3>3. PICK p \in Candidates : <<p, n>> \in links /\ id[p] = names.ids[n]
      BY <1>28, <2>3, <3>1, <3>2
    <3>4. p \in Old /\ p[1] = level /\ n[1] = level + 1 /\ m[1] <= level
      BY <1>9, <1>13, <2>3, <3>3
    <3>5. p \in DOMAIN id' /\ <<p, n>> \in children' /\ id'[p] = id'[n]
      BY <1>6, <1>12, <2>3, <3>3, <3>4
    <3>6. m[1] <= p[1] /\ p[1] < n[1]
      BY <1>4, <3>4
    <3> QED
      BY <3>5, <3>6
  <2> QED
    BY <1>12, <1>29, <2>1, <2>2, <2>3
<1>30. Lineage'
  BY <1>29 DEF Lineage
<1>31. TreeGrows'
  <2>1. level' \in 1 .. Steps /\ lastId' = partition' /\ DOMAIN bursts' \subseteq (1 .. level') \X Nat
    <3>1. level + 1 \in 1 .. Steps /\ level + 1 \in 1 .. (level + 1)
      BY <1>1, <1>4, InputFacts
    <3>2. Old \subseteq (1 .. (level + 1)) \X Nat /\ Added \subseteq (1 .. (level + 1)) \X Nat
      BY <1>1, <1>4, <3>1 DEF TreeGrows, Old, Added
    <3> QED
      BY <1>1, <1>6, <1>12, <3>1, <3>2
  <2>2. ASSUME NEW m \in DOMAIN bursts', NEW n \in DOMAIN bursts', m[1] = n[1], m # n
        PROVE  id'[m] # id'[n] /\ bursts'[m] \cap bursts'[n] = {}
    <3>1. CASE m \in Old
      <4>1. n \in Old
        BY <1>4, <1>9, <1>12, <2>2, <3>1
      <4> QED
        BY <1>1, <1>12, <2>2, <3>1, <4>1 DEF TreeGrows, Old
    <3>2. CASE m \in Added
      <4>1. n \in Added
        BY <1>4, <1>9, <1>12, <2>2, <3>2
      <4> QED
        BY <1>5, <1>12, <1>27, <2>2, <3>2, <4>1
    <3> QED
      BY <1>12, <3>1, <3>2
  <2>3. ASSUME NEW n \in DOMAIN bursts'
        PROVE  id'[n] <= maxId' /\ (id'[n] = NOISE_CLUSTERID <=> n[2] = 0)
    <3>1. CASE n \in Old
      BY <1>4, <1>6, <1>12, <1>26, <1>27, <3>1
    <3>2. CASE n \in Added
      BY <1>6, <1>12, <1>27, <3>2
    <3> QED
      BY <1>12, <3>1, <3>2
  <2>4. ASSUME NEW n \in DOMAIN bursts', bursts'[n] # {}
        PROVE  n \in leaves' <=> n[1] = level' \/ n \in perfect'
    <3>1. CASE n \in Old
      <4>1. n[1] # level'
        BY <1>1, <1>4, <1>9, <3>1
      <4> QED
        BY <1>12, <1>17, <1>24, <2>4, <3>1, <4>1
    <3>2. CASE n \in Added
      BY <1>1, <1>9, <1>12, <1>16, <2>4, <3>2
    <3> QED
      BY <1>12, <3>1, <3>2
  <2>5. ASSUME NEW m \in perfect', NEW n \in DOMAIN bursts', id'[m] = id'[n],
               id'[n] # NOISE_CLUSTERID
        PROVE  n[1] <= m[1]
    <3>1. CASE m \in Added
      BY <1>4, <1>9, <1>12, <3>1
    <3>2. CASE m \in Old /\ n \in Old
      BY <1>1, <1>12, <1>24, <2>5, <3>2 DEF TreeGrows, Old
    <3>3. CASE m \in Old /\ n \in Added
      <4>1. names.ids[n] = id[m] /\ names.ids[n] # NOISE_CLUSTERID /\ m \in perfect
        BY <1>12, <1>24, <2>5, <3>3
      <4>2. names.ids[n] <= maxId
        BY <1>26, <3>3, <4>1
      <4>3. PICK p \in Candidates : <<p, n>> \in links /\ id[p] = names.ids[n]
        BY <1>28, <3>3, <4>1, <4>2
      <4>4. p \in Old /\ p[1] = level /\ p \notin perfect /\ id[m] = id[p] /\ id[p] # NOISE_CLUSTERID
        BY <1>13, <4>1, <4>3
      <4>5. p[1] <= m[1]
        BY <1>1, <4>1, <4>4 DEF TreeGrows, Old
      <4>6. m[1] = p[1] /\ m # p
        BY <1>4, <1>9, <3>3, <4>1, <4>4, <4>5
      <4> QED
        BY <1>1, <3>3, <4>4, <4>6 DEF TreeGrows, Old
    <3> QED
      BY <1>12, <1>24, <3>1, <3>2, <3>3
  <2> QED
    BY <2>1, <2>2, <2>3, <2>4, <2>5 DEF TreeGrows
<1>32. IsFiniteSet(DOMAIN bursts')
  <2>1. IsFiniteSet(Added)
    BY LevelFinite DEF Added
  <2> QED
    BY <1>4, <1>12, <2>1, FS_Union
<1>33. TypeOK'
  <2>1. \A n \in DOMAIN bursts' : id'[n] \in Nat /\ n \in Node
    BY <1>9, <1>12, <1>26, <1>27
  <2>2. \A b \in DOMAIN partition' : partition'[b] \in Nat
    <3>1. \A n \in leaves' : id'[n] \in Nat
      BY <1>12, <1>14, <2>1 DEF Leaves
    <3> QED
      BY <1>21, <1>22, <3>1, LabelsAreNumbers
  <2>3. level' \in 0 .. Steps
    BY <1>1, <1>4, InputFacts
  <2>4. ASSUME NEW n \in DOMAIN bursts'
        PROVE  bursts'[n] \subseteq Burst'
    <3>1. CASE n \in Old
      BY <1>4, <1>12, <3>1 DEF TypeOK, Old
    <3>2. CASE n \in Added
      BY <1>4, <1>5, <1>12, <1>19, <3>2
    <3> QED
      BY <1>12, <3>1, <3>2
  <2>5. children' \subseteq (DOMAIN bursts') \X (DOMAIN bursts')
    BY <1>6, <1>8, <1>12, <1>13
  <2>6. maxId' \in Nat /\ merges' \subseteq SUBSET Nat /\ perfect' \subseteq DOMAIN bursts'
    BY <1>1, <1>4, <1>6, <1>12, <1>24, <1>27 DEF TypeOK
  <2> QED
    BY <1>1, <1>6, <1>12, <2>1, <2>2, <2>3, <2>4, <2>5, <2>6 DEF TypeOK
<1>34. ASSUME NEW b \in Burst
       PROVE  \/ partition'[b] = NOISE_CLUSTERID
              \/ partition'[b] > maxId
              \/ \E c \in Burst : partition[c] = partition'[b]
  <2>1. PICK n \in leaves' : b \in bursts'[n]
    BY <1>21 DEF Shares
  <2>2. partition'[b] = id'[n] /\ n \in Old \cup Added
    BY <1>14, <1>22, <2>1 DEF Labels, Leaves
  <2>3. CASE n \in Old
    <3>1. n \in leaves /\ b \in bursts[n] /\ id'[n] = id[n]
      BY <1>12, <1>15, <2>1, <2>3
    <3>2. partition[b] = id[n]
      BY <1>1, <3>1 DEF Shared, Labels
    <3> QED
      BY <2>2, <3>1, <3>2
  <2>4. CASE n \in Added /\ names.ids[n] # NOISE_CLUSTERID /\ names.ids[n] <= maxId
    <3>1. PICK p \in Candidates : <<p, n>> \in links /\ id[p] = names.ids[n]
      BY <1>28, <2>4
    <3>2. PICK c \in bursts[p] : c \in BurstsSubset /\ lastId[c] = id[p]
      <4>1. \A e \in links : \E c \in bursts[e[1]] : c \in BurstsSubset /\ lastId[c] = id[e[1]]
        BY <1>1, <1>3, LinksFollowBursts
      <4>2. <<p, n>>[1] = p
        OBVIOUS
      <4> QED
        BY <3>1, <4>1, <4>2
    <3>3. c \in Burst /\ partition[c] = partition'[b]
      BY <1>1, <1>12, <1>19, <2>2, <2>4, <3>1, <3>2 DEF TreeGrows
    <3> QED
      BY <3>3
  <2>5. CASE n \in Added /\ (names.ids[n] = NOISE_CLUSTERID \/ names.ids[n] > maxId)
    BY <1>12, <2>2, <2>5
  <2>6. n \in Added => names.ids[n] \in Nat
    BY <1>27
  <2> QED
    BY <1>4, <2>2, <2>3, <2>4, <2>5, <2>6
<1>35. NoneRevived
  <2>1. DOMAIN partition = Burst /\ DOMAIN partition' = Burst
    BY <1>1, <1>22 DEF Shared, Labels
  <2> QED
    BY <1>34, <2>1 DEF NoneRevived
<1> QED
  BY <1>1, <1>23, <1>25, <1>30, <1>31, <1>32, <1>33, <1>35 DEF IInv, Analysed

-----------------------------------------------------------------------------
(* The merge *)

\* Sets of ids of clusters that can be merged: none is in two of them.
Mergeable(Ms) ==
  /\ \A M \in Ms : M \subseteq ClusterIds /\ M # {}
  /\ \A M, T \in Ms : M \cap T # {} => M = T

\* Two sets that share an id appear in the same columns, so that their union would do.
LEMMA MergesDisjoint ==
  ASSUME IsFiniteSet(Burst), DOMAIN partition = Burst,
         NEW columns, IsFiniteSet(columns), columns \subseteq SUBSET Burst
  PROVE  Mergeable(MergesOf(columns))
<1> DEFINE Clusters(C) == {partition[b] : b \in C} \ {NOISE_CLUSTERID}
           Where(M) == {C \in columns : M \subseteq Clusters(C)}
           App(M) == Cardinality(Where(M))
           together == {M \in UNION {SUBSET Clusters(C) : C \in columns} :
                          /\ Cardinality(M) > 1
                          /\ \A i \in M : App({i}) = App(M)}
<1>1. MergesOf(columns) = {M \in together : \A T \in together : M \subseteq T => M = T}
  BY DEF MergesOf
<1>2. ASSUME NEW C \in columns
      PROVE  IsFiniteSet(Clusters(C)) /\ Clusters(C) \subseteq ClusterIds
  <2>1. IsFiniteSet(C)
    BY FS_Subset
  <2>2. \A t \in Clusters(C) : \E b \in C : partition[b] = t
    OBVIOUS
  <2>3. IsFiniteSet(Clusters(C))
    <3> HIDE DEF Clusters
    <3> QED
      BY <2>1, <2>2, FiniteImage
  <2> QED
    BY <2>3 DEF ClusterIds, Used
<1> HIDE DEF Clusters
<1>3. \A M : /\ M \in together => /\ \E C \in columns : M \subseteq Clusters(C)
                                  /\ Cardinality(M) > 1 /\ \A i \in M : App({i}) = App(M)
             /\ (/\ \E C \in columns : M \subseteq Clusters(C)
                 /\ Cardinality(M) > 1
                 /\ \A i \in M : App({i}) = App(M)) => M \in together
  OBVIOUS
<1> HIDE DEF together
<1>4. ASSUME NEW M \in together
      PROVE  /\ M \subseteq ClusterIds /\ M # {}
             /\ \A i \in M : Where({i}) = Where(M)
  <2>1. PICK C \in columns : M \subseteq Clusters(C)
    BY <1>3
  <2>2. Cardinality(M) > 1 /\ \A i \in M : App({i}) = App(M)
    BY <1>3
  <2>3. M # {}
    <3>1. IsFiniteSet(M)
      BY <1>2, <2>1, FS_Subset
    <3> QED
      BY <2>2, <3>1, FS_EmptySet
  <2>4. ASSUME NEW i \in M
        PROVE  Where({i}) = Where(M)
    <3>1. Where(M) \subseteq Where({i}) /\ Where({i}) \subseteq columns
      OBVIOUS
    <3>2. IsFiniteSet(Where({i}))
      BY <3>1, FS_Subset
    <3>3. Cardinality(Where({i})) = Cardinality(Where(M))
      BY <2>2
    <3> HIDE DEF Where
    <3> QED
      BY <3>1, <3>2, <3>3, FS_Subset
  <2> QED
    BY <1>2, <2>1, <2>3, <2>4
<1>5. ASSUME NEW M \in together, NEW T \in together, NEW i \in M, i \in T
      PROVE  M \cup T \in together
  <2>1. Where(M) = Where({i}) /\ Where(T) = Where({i})
    BY <1>4, <1>5
  <2>2. Where(M \cup T) = Where({i})
    <3>1. Where(M \cup T) = Where(M) \cap Where(T)
      OBVIOUS
    <3> QED
      BY <2>1, <3>1
  <2>3. PICK C \in columns : M \subseteq Clusters(C)
    BY <1>3
  <2>4. M \cup T \subseteq Clusters(C)
    <3>1. C \in Where(M)
      BY <2>3
    <3>2. C \in Where(M \cup T)
      BY <2>1, <2>2, <3>1
    <3> QED
      BY <3>2
  <2>5. Cardinality(M \cup T) > 1
    <3>1. IsFiniteSet(M \cup T)
      BY <1>2, <2>4, FS_Subset
    <3>2. M \in SUBSET (M \cup T) /\ Cardinality(M) > 1
      BY <1>3
    <3>3. /\ Cardinality(M) <= Cardinality(M \cup T)
          /\ Cardinality(M) \in Nat /\ Cardinality(M \cup T) \in Nat
      BY <3>1, <3>2, FS_Subset, FS_CardinalityType
    <3> QED
      BY <3>2, <3>3
  <2>6. ASSUME NEW j \in M \cup T
        PROVE  App({j}) = App(M \cup T)
    <3>1. Where({j}) = Where({i})
      BY <1>4, <2>1, <2>6
    <3> QED
      BY <2>2, <3>1
  <2> QED
    BY <1>3, <2>3, <2>4, <2>5, <2>6
<1>6. ASSUME NEW M \in MergesOf(columns), NEW T \in MergesOf(columns), M \cap T # {}
      PROVE  M = T
  <2>1. M \in together /\ T \in together /\ \E i \in M : i \in T
    BY <1>1, <1>6
  <2>2. M \cup T \in together
    BY <1>5, <2>1
  <2>3. M = M \cup T /\ T = M \cup T
    BY <1>1, <2>2
  <2> QED
    BY <2>3
<1>7. ASSUME NEW M \in MergesOf(columns)
      PROVE  M \subseteq ClusterIds /\ M # {}
  BY <1>1, <1>4, <1>7
<1> QED
  BY <1>6, <1>7 DEF Mergeable

\* Bursts of the same merged set get its smallest id, others keep theirs.
LEMMA MergedIds ==
  ASSUME NEW Ms, Mergeable(Ms), NEW b \in DOMAIN partition, ClusterIds \subseteq Nat
  PROVE  /\ \A M \in Ms : M \subseteq Nat /\ Min(M) \in M
         /\ (\A M \in Ms : partition[b] \notin M) => MergeIDs(Ms)[b] = partition[b]
         /\ \A M \in Ms : partition[b] \in M <=> MergeIDs(Ms)[b] = Min(M)
<1>1. \A M \in Ms : M \in SUBSET Nat /\ M # {}
  BY DEF Mergeable
<1>2. \A M \in Ms : M \subseteq Nat /\ Min(M) \in M
  BY <1>1, MinIsLeast
<1>3. MergeIDs(Ms)[b] = IF \E M \in Ms : partition[b] \in M
                        THEN Min(CHOOSE M \in Ms : partition[b] \in M) ELSE partition[b]
  BY DEF MergeIDs
<1>4. ASSUME NEW M \in Ms, partition[b] \in M
      PROVE  MergeIDs(Ms)[b] = Min(M)
  <2> DEFINE T == CHOOSE T \in Ms : partition[b] \in T
  <2>1. T \in Ms /\ partition[b] \in T
    BY <1>4
  <2>2. MergeIDs(Ms)[b] = Min(T)
    BY <1>3, <1>4
  <2> HIDE DEF T
  <2>3. T = M
    BY <1>4, <2>1 DEF Mergeable
  <2> QED
    BY <2>2, <2>3
<1>5. ASSUME NEW M \in Ms, MergeIDs(Ms)[b] = Min(M), partition[b] \notin M
      PROVE  FALSE
  <2>1. CASE \E T \in Ms : partition[b] \in T
    <3>1. PICK T \in Ms : partition[b] \in T
      BY <2>1
    <3>2. Min(T) = Min(M)
      BY <1>4, <1>5, <3>1
    <3>3. T = M
      BY <1>2, <3>1, <3>2 DEF Mergeable
    <3> QED
      BY <1>5, <3>1, <3>3
  <2>2. CASE ~\E T \in Ms : partition[b] \in T
    BY <1>2, <1>3, <1>5, <2>2
  <2> QED
    BY <2>1, <2>2
<1>6. (\A M \in Ms : partition[b] \notin M) => MergeIDs(Ms)[b] = partition[b]
  BY <1>3
<1> QED
  BY <1>2, <1>4, <1>5, <1>6

\* The leaf of a cluster of the partition: its bursts are those that are called i.
Located(n, i) ==
  /\ n \in leaves /\ id[n] = i
  /\ \A m \in DOMAIN id : id[m] = i => m[1] <= n[1]
  /\ \A m \in leaves : id[m] = i /\ bursts[m] # {} => m = n

\* LocateNode finds that leaf, however deep it is: a perfect cluster was not analysed
\* again, and the others are in the last level.
LEMMA LocatesLeaf ==
  ASSUME IInv, TreeGrows, Shared, NEW i \in ClusterIds
  PROVE  Located(LocateNode(i), i)
<1>1. /\ i # NOISE_CLUSTERID /\ DOMAIN id = DOMAIN bursts /\ leaves \subseteq DOMAIN bursts
      /\ DOMAIN bursts \subseteq (1 .. level) \X Nat /\ level \in Nat
  BY DEF IInv, TypeOK, ClusterIds, leaves, Leaves, TreeGrows
<1>2. PICK b \in Burst : partition[b] = i
  BY DEF ClusterIds, Used
<1>3. ASSUME NEW n \in leaves, id[n] = i, bursts[n] # {}
      PROVE  \A m \in DOMAIN id : id[m] = i => m[1] <= n[1]
  <2>1. n \in DOMAIN bursts /\ (n[1] = level \/ n \in perfect)
    BY <1>1, <1>3 DEF TreeGrows
  <2>2. CASE n[1] = level
    BY <1>1, <2>2
  <2>3. CASE n \in perfect
    BY <1>1, <1>3, <2>3 DEF TreeGrows
  <2> QED
    BY <2>1, <2>2, <2>3
<1>4. PICK n \in leaves : b \in bursts[n] /\ id[n] = i
  BY <1>2 DEF Shared, Shares, Labels
<1>5. \A m, k \in DOMAIN id : m[1] \in Nat /\ (m[1] = k[1] /\ id[m] = id[k] => m = k)
  BY <1>1 DEF TreeGrows
<1>6. ASSUME NEW m \in leaves, id[m] = i, bursts[m] # {}
      PROVE  m = n
  <2>1. m[1] <= n[1] /\ n[1] <= m[1] /\ m \in DOMAIN id /\ n \in DOMAIN id
    BY <1>1, <1>3, <1>4, <1>6
  <2> QED
    BY <1>4, <1>5, <1>6, <2>1
<1>7. LocateNode(i) = n
  <2> DEFINE x == LocateNode(i)
  <2>1. n \in DOMAIN id /\ id[n] = i /\ \A m \in DOMAIN id : id[m] = i => m[1] <= n[1]
    BY <1>1, <1>3, <1>4
  <2>2. x \in DOMAIN id /\ id[x] = i /\ \A m \in DOMAIN id : id[m] = i => m[1] <= x[1]
    BY <2>1 DEF LocateNode
  <2> HIDE DEF x
  <2>3. n[1] <= x[1] /\ x[1] <= n[1]
    BY <2>1, <2>2
  <2>4. n = x
    BY <1>5, <2>1, <2>2, <2>3
  <2> QED
    BY <2>4 DEF x
<1> QED
  BY <1>3, <1>4, <1>6, <1>7 DEF Located

\* The merge: leaves of merged clusters get a common child, which is the new leaf, and
\* the ids of the partition change likewise (GenerateLastPartition).
LEMMA LastPartitionStep ==
  ASSUME IInv, GenerateLastPartition
  PROVE  IInv' /\ partition' = MergeIDs(merges') /\ NoneRevived
<1> DEFINE Ms == merges'
           Old == DOMAIN bursts
           Added == {<<level + 1, Min(M)>> : M \in Ms}
           merged == MergeIDs(Ms)
           New == [n \in Added |-> {b \in DOMAIN merged : merged[b] = n[2]}]
           links == UNION {{<<LocateNode(i), <<level + 1, Min(M)>>>> : i \in M} : M \in Ms}
<1>1. /\ TypeOK /\ TreeGrows /\ Shared /\ PerfectStaysWhole /\ Lineage
      /\ input \in Inputs /\ pc' \in {"rename", "failed"} /\ UNCHANGED <<input, level, maxId>>
      /\ Burst' = Burst /\ IsFiniteSet(Old) /\ level \in Nat /\ level + 1 \in 1 .. (Steps + 1)
  <2>1. /\ pc = "step" /\ pc' \in {"rename", "failed"} /\ UNCHANGED <<input, level, maxId>>
    BY DEF GenerateLastPartition, Return
  <2>2. /\ TypeOK /\ TreeGrows /\ Shared /\ PerfectStaysWhole /\ Lineage /\ IsFiniteSet(Old)
    BY <2>1 DEF IInv, Analysed
  <2>3. input \in Inputs /\ level \in 1 .. Steps
    BY <2>2 DEF TypeOK, TreeGrows
  <2>4. level \in Nat /\ level + 1 \in 1 .. (Steps + 1)
    BY <2>3, InputFacts
  <2> QED
    BY <2>1, <2>2, <2>3, <2>4 DEF Burst
<1>2. /\ bursts' = Joined(bursts, New)
      /\ id' = Joined(id, [n \in DOMAIN New |-> n[2]])
      /\ children' = children \cup links
      /\ partition' = GetAssignment(bursts', id', children')
      /\ lastId' = partition'
      /\ \E s \in ComputeScores(DOMAIN New, id', partition') : perfect' = perfect \cup s
  BY DEF GenerateLastPartition
<1>3. /\ DOMAIN partition = Burst /\ ClusterIds \subseteq Nat /\ Used \subseteq Nat
      /\ \A i \in ClusterIds : i # NOISE_CLUSTERID
      /\ \A b \in Burst : partition[b] # NOISE_CLUSTERID => partition[b] \in ClusterIds
  BY <1>1 DEF Shared, Labels, ClusterIds, Used, TypeOK
<1>4. Mergeable(Ms)
  <2>1. PICK A \in AlignmentsOf[input.n] : Ms = MergesOf(A)
    BY DEF GenerateLastPartition
  <2>2. AlignmentsOf[input.n] = Alignments(Burst)
    BY <1>1 DEF AlignmentsOf, Burst
  <2>3. A \subseteq SUBSET Burst /\ IsFiniteSet(Burst)
    <3>1. IsFiniteSet(Burst) /\ Burst \in SUBSET Nat
      BY <1>1, InputFacts DEF TypeOK
    <3>2. A \in Alignments(Burst)
      BY <2>1, <2>2
    <3> QED
      BY <3>1, <3>2, AlignmentColumns DEF Columns
  <2>4. IsFiniteSet(SUBSET Burst)
    BY <2>3, FS_SUBSET
  <2>5. IsFiniteSet(A)
    BY <2>3, <2>4, FS_Subset
  <2> HIDE DEF Ms
  <2> QED
    BY <1>3, <2>1, <2>3, <2>5, MergesDisjoint
<1>5. /\ \A M \in Ms : M \subseteq ClusterIds /\ M # {}
      /\ \A M, T \in Ms : M \cap T # {} => M = T
  BY <1>4 DEF Mergeable
<1>6. ASSUME NEW b \in Burst
      PROVE  /\ (\A M \in Ms : partition[b] \notin M) => merged[b] = partition[b]
             /\ \A M \in Ms : partition[b] \in M <=> merged[b] = Min(M)
  <2> HIDE DEF Ms
  <2> QED
    BY <1>3, <1>4, MergedIds
<1>7. \A M \in Ms : M \subseteq Nat /\ Min(M) \in M
  <2>1. \A M \in Ms : M \in SUBSET Nat /\ M # {}
    BY <1>3, <1>5
  <2> QED
    BY <2>1, MinIsLeast
<1>8. DOMAIN merged = Burst
  BY <1>3 DEF MergeIDs
<1> HIDE DEF merged, Ms
<1>9. /\ DOMAIN New = Added
      /\ \A M \in Ms : New[<<level + 1, Min(M)>>] = {b \in Burst : partition[b] \in M}
  <2>1. \A n \in Added : New[n] = {b \in Burst : merged[b] = n[2]}
    BY <1>8
  <2>2. ASSUME NEW M \in Ms
        PROVE  New[<<level + 1, Min(M)>>] = {b \in Burst : merged[b] = Min(M)}
    BY <2>1
  <2>3. ASSUME NEW M \in Ms
        PROVE  {b \in Burst : merged[b] = Min(M)} = {b \in Burst : partition[b] \in M}
    BY <1>6
  <2> QED
    BY <2>2, <2>3
<1>10. \A n \in Added : \E M \in Ms : n = <<level + 1, Min(M)>> /\ n[1] = level + 1 /\ n[2] = Min(M)
  OBVIOUS
<1>11. /\ \A e \in links : \E M \in Ms : \E i \in M : e = <<LocateNode(i), <<level + 1, Min(M)>>>>
       /\ \A M \in Ms : \A i \in M : <<LocateNode(i), <<level + 1, Min(M)>>>> \in links
       /\ \A M \in Ms : <<level + 1, Min(M)>> \in Added
  OBVIOUS
<1>12. Added \subseteq Node /\ IsFiniteSet(Added)
  <2>1. Added \subseteq {level + 1} \X Used
    BY <1>5, <1>7, <1>10 DEF ClusterIds
  <2>2. IsFiniteSet(Used)
    <3>1. IsFiniteSet(Burst) /\ \A i \in Used : \E b \in Burst : partition[b] = i
      BY <1>1, InputFacts DEF Used
    <3> QED
      BY <3>1, FiniteImage
  <2>3. IsFiniteSet({level + 1} \X Used)
    BY <2>2, FS_Singleton, FS_Product
  <2> HIDE DEF Added
  <2>4. IsFiniteSet(Added)
    BY <2>1, <2>3, FS_Subset
  <2>5. {level + 1} \X Used \subseteq Node
    BY <1>1, <1>3 DEF Node
  <2> QED
    BY <2>1, <2>4, <2>5
<1> HIDE DEF Added, New, links
<1>13. \A n \in Old : n[1] \in Nat /\ n[1] <= level /\ n \in Node /\ n \notin Added
  <2>1. \A n \in Old : n[1] \in Nat /\ n[1] <= level /\ n \in Node
    BY <1>1 DEF TreeGrows, TypeOK
  <2> QED
    BY <1>1, <1>10, <2>1
<1>14. /\ DOMAIN bursts' = Old \cup Added /\ DOMAIN id' = Old \cup Added
       /\ DOMAIN id = Old
       /\ \A n \in Old : bursts'[n] = bursts[n] /\ id'[n] = id[n]
       /\ \A n \in Added : bursts'[n] = New[n] /\ id'[n] = n[2]
  <2>1. DOMAIN id = Old
    BY <1>1 DEF TypeOK
  <2> DEFINE names == [n \in DOMAIN New |-> n[2]]
  <2>2. DOMAIN names = Added /\ \A n \in Added : names[n] = n[2]
    BY <1>9
  <2>3. id' = Joined(id, names)
    BY <1>2
  <2> HIDE DEF names
  <2> QED
    BY <1>2, <1>9, <1>13, <2>1, <2>2, <2>3 DEF Joined
<1>15. \A i \in ClusterIds : Located(LocateNode(i), i)
  BY <1>1, LocatesLeaf
<1>16. children \subseteq Old \X Old /\ leaves \subseteq Old
  BY <1>1 DEF TypeOK, leaves, Leaves
<1> HIDE DEF Old
<1>17. links \subseteq Old \X Added
  BY <1>5, <1>11, <1>15, <1>16 DEF Located
<1>18. leaves = Leaves(Old, children) /\ leaves' = Leaves(Old \cup Added, children \cup links)
  BY <1>2, <1>14 DEF leaves, Old
<1>19. ASSUME NEW n \in Old
       PROVE  n \in leaves' <=> n \in leaves /\ \A e \in links : e[1] # n
  <2>1. \A e \in links : e[2] # n
    BY <1>13, <1>17
  <2> QED
    BY <1>18, <2>1 DEF Leaves
<1>20. ASSUME NEW n \in Added
       PROVE  n \in leaves'
  <2>1. \A e \in children : e[1] # n
    BY <1>13, <1>16
  <2>2. \A e \in links : e[1] # n
    BY <1>13, <1>17
  <2>3. \E e \in links : e[2] = n
    <3>1. PICK M \in Ms : n = <<level + 1, Min(M)>>
      BY <1>10
    <3>2. <<LocateNode(Min(M)), n>> \in links /\ <<LocateNode(Min(M)), n>>[2] = n
      BY <1>7, <1>11, <3>1
    <3> QED
      BY <3>2
  <2> QED
    BY <1>18, <2>1, <2>2, <2>3 DEF Leaves
<1>21. ASSUME NEW n \in Old, NEW b \in bursts[n], n \in leaves
       PROVE  /\ b \in Burst /\ partition[b] = id[n]
              /\ n \in leaves' <=> \A M \in Ms : id[n] \notin M
  <2>1. b \in Burst /\ partition[b] = id[n]
    BY <1>1, <1>21 DEF Shared, Shares, Labels
  <2>2. ASSUME NEW M \in Ms, id[n] \in M
        PROVE  n \notin leaves'
    <3>1. LocateNode(id[n]) = n
      BY <1>5, <1>15, <1>21, <2>2 DEF Located
    <3>2. <<n, <<level + 1, Min(M)>>>> \in links /\ <<n, <<level + 1, Min(M)>>>>[1] = n
      BY <1>11, <2>2, <3>1
    <3> QED
      BY <1>19, <3>2
  <2>3. ASSUME \A M \in Ms : id[n] \notin M, NEW e \in links
        PROVE  e[1] # n
    <3>1. PICK M \in Ms : \E i \in M : e = <<LocateNode(i), <<level + 1, Min(M)>>>>
      BY <1>11
    <3>2. PICK i \in M : e = <<LocateNode(i), <<level + 1, Min(M)>>>>
      BY <3>1
    <3>3. id[LocateNode(i)] = i /\ i # id[n] /\ e[1] = LocateNode(i)
      BY <1>5, <1>15, <2>3, <3>2 DEF Located
    <3> QED
      BY <3>3
  <2> QED
    BY <1>19, <1>21, <2>1, <2>2, <2>3
<1>22. ASSUME NEW n \in Added, NEW b
       PROVE  b \in New[n] <=> b \in Burst /\ merged[b] = n[2] /\ \E M \in Ms : partition[b] \in M
  <2>1. PICK M \in Ms : n = <<level + 1, Min(M)>> /\ n[2] = Min(M)
    BY <1>10
  <2>2. New[n] = {c \in Burst : partition[c] \in M}
    BY <1>9, <2>1
  <2> QED
    BY <1>6, <2>1, <2>2
<1>23. Shares(bursts', leaves')
  <2>1. leaves' \subseteq Old \cup Added
    BY <1>18 DEF Leaves
  <2>2. \A n \in Old : bursts[n] \subseteq Burst
    BY <1>1 DEF TypeOK, Old
  <2>3. \A n \in leaves' : bursts'[n] \subseteq Burst
    BY <1>14, <1>22, <2>1, <2>2
  <2>4. ASSUME NEW b \in Burst
        PROVE  \E n \in leaves' : b \in bursts'[n]
    <3>1. CASE \E M \in Ms : partition[b] \in M
      <4>1. PICK M \in Ms : partition[b] \in M
        BY <3>1
      <4>2. <<level + 1, Min(M)>> \in Added /\ b \in New[<<level + 1, Min(M)>>]
        BY <1>9, <1>11, <4>1
      <4> QED
        BY <1>14, <1>20, <4>2
    <3>2. CASE \A M \in Ms : partition[b] \notin M
      <4>1. PICK n \in leaves : b \in bursts[n]
        BY <1>1 DEF Shared, Shares
      <4>2. n \in Old /\ partition[b] = id[n] /\ n \in leaves'
        BY <1>16, <1>21, <3>2, <4>1
      <4> QED
        BY <1>14, <4>1, <4>2
    <3> QED
      BY <3>1, <3>2
  <2>5. ASSUME NEW m \in leaves', NEW n \in leaves', m # n, NEW b \in bursts'[m], b \in bursts'[n]
        PROVE  FALSE
    <3>1. ASSUME NEW k \in Old, k \in leaves', b \in bursts'[k]
          PROVE  /\ k \in leaves /\ b \in bursts[k]
                 /\ \A M \in Ms : partition[b] \notin M
      <4>1. k \in leaves /\ b \in bursts[k]
        BY <1>14, <1>19, <3>1
      <4>2. partition[b] = id[k] /\ \A M \in Ms : id[k] \notin M
        BY <1>21, <3>1, <4>1
      <4> QED
        BY <4>1, <4>2
    <3>2. ASSUME NEW k \in Added, b \in bursts'[k]
          PROVE  k = <<level + 1, merged[b]>> /\ \E M \in Ms : partition[b] \in M
      <4>1. b \in New[k]
        BY <1>14, <3>2
      <4>2. merged[b] = k[2] /\ \E M \in Ms : partition[b] \in M
        BY <1>22, <4>1
      <4> QED
        BY <1>10, <4>2
    <3>3. CASE m \in Old /\ n \in Old
      BY <1>1, <2>5, <3>1, <3>3 DEF Shared, Shares
    <3>4. CASE m \in Added \/ n \in Added
      BY <2>1, <2>5, <3>1, <3>2, <3>4
    <3> QED
      BY <2>1, <3>3, <3>4
  <2>6. \A m, n \in leaves' : m # n => bursts'[m] \cap bursts'[n] = {}
    BY <2>5
  <2> QED
    BY <2>3, <2>4, <2>6 DEF Shares
<1>24. Labels(partition', bursts', leaves', id')
  <2>1. leaves' = Leaves(DOMAIN bursts', children')
    BY DEF leaves
  <2> QED
    BY <1>2, <1>23, <2>1, AssignmentLabels
<1>25. Shared'
  BY <1>1, <1>23, <1>24 DEF Shared, Shares, Labels
<1>26. partition' = merged
  <2>1. ASSUME NEW b \in Burst
        PROVE  partition'[b] = merged[b]
    <3>1. PICK n \in leaves' : b \in bursts'[n]
      BY <1>23 DEF Shares
    <3>2. partition'[b] = id'[n] /\ n \in Old \cup Added
      BY <1>18, <1>24, <3>1 DEF Labels, Leaves
    <3>3. CASE n \in Added
      <4>1. b \in New[n] /\ id'[n] = n[2]
        BY <1>14, <3>1, <3>3
      <4> QED
        BY <1>22, <3>2, <3>3, <4>1
    <3>4. CASE n \in Old
      <4>1. n \in leaves /\ b \in bursts[n] /\ id'[n] = id[n]
        BY <1>14, <1>19, <3>1, <3>4
      <4>2. partition[b] = id[n] /\ \A M \in Ms : partition[b] \notin M
        BY <1>21, <3>1, <3>4, <4>1
      <4> QED
        BY <1>6, <3>2, <4>1, <4>2
    <3> QED
      BY <3>2, <3>3, <3>4
  <2>2. DOMAIN partition' = Burst
    BY <1>24 DEF Labels
  <2>3. partition' = [b \in DOMAIN partition' |-> partition'[b]]
    <3>1. Function(partition')
      BY <1>2, AssignmentIsFunction
    <3> QED
      BY <3>1 DEF Function
  <2>4. merged = [b \in DOMAIN merged |-> merged[b]]
    BY DEF merged, MergeIDs
  <2> QED
    BY <1>8, <2>1, <2>2, <2>3, <2>4
<1>27. NoneRevived
  <2>1. ASSUME NEW b \in Burst
        PROVE  \E c \in Burst : partition[c] = merged[b]
    <3>1. CASE \A M \in Ms : partition[b] \notin M
      BY <1>6, <3>1
    <3>2. CASE \E M \in Ms : partition[b] \in M
      <4>1. PICK M \in Ms : partition[b] \in M
        BY <3>2
      <4>2. merged[b] \in M
        BY <1>6, <1>7, <4>1
      <4>3. merged[b] \in Used
        BY <1>5, <4>2 DEF ClusterIds
      <4> QED
        BY <4>3 DEF Used
    <3> QED
      BY <3>1, <3>2
  <2> QED
    BY <1>3, <1>8, <1>26, <2>1 DEF NoneRevived
<1>28. perfect \subseteq Old /\ perfect' \subseteq Old \cup Added
       /\ \A n \in Old : n \in perfect' => n \in perfect
  <2>1. PICK s \in ComputeScores(DOMAIN New, id', partition') : perfect' = perfect \cup s
    BY <1>2
  <2>2. s \subseteq Added
    BY <1>9, ScoresOfNew
  <2>3. perfect \subseteq Old
    BY <1>1 DEF TypeOK, Old
  <2> QED
    BY <1>13, <2>1, <2>2, <2>3
<1>29. PerfectStaysWhole'
  <2>1. ASSUME NEW n \in perfect', id'[n] # NOISE_CLUSTERID, NEW b \in bursts'[n], NEW c \in bursts'[n]
        PROVE  partition'[b] = partition'[c]
    <3>1. CASE n \in Added
      BY <1>20, <1>24, <2>1, <3>1 DEF Labels
    <3>2. CASE n \in Old
      <4>1. /\ n \in perfect /\ id[n] # NOISE_CLUSTERID /\ b \in bursts[n] /\ c \in bursts[n]
            /\ bursts[n] \subseteq Burst
        BY <1>1, <1>14, <1>28, <2>1, <3>2 DEF TypeOK
      <4>2. partition[b] = partition[c] /\ b \in Burst /\ c \in Burst
        BY <1>1, <4>1 DEF PerfectStaysWhole
      <4>3. merged[b] = merged[c]
        <5>1. CASE \E M \in Ms : partition[b] \in M
          BY <1>6, <4>2, <5>1
        <5>2. CASE \A M \in Ms : partition[b] \notin M
          BY <1>6, <4>2, <5>2
        <5> QED
          BY <5>1, <5>2
      <4> QED
        BY <1>26, <4>3
    <3> QED
      BY <1>28, <3>1, <3>2
  <2> QED
    BY <2>1 DEF PerfectStaysWhole
<1>30. ASSUME NEW m \in DOMAIN id', NEW n \in DOMAIN id',
              m # n, id'[m] = id'[n], id'[n] # NOISE_CLUSTERID, m[1] <= n[1]
       PROVE  \E p \in DOMAIN id' : /\ <<p, n>> \in children' /\ id'[p] = id'[n]
                                    /\ m[1] <= p[1] /\ p[1] < n[1]
  <2>1. CASE n \in Old
    <3>1. m \in Old
      BY <1>1, <1>10, <1>13, <1>14, <1>30, <2>1
    <3>2. id[m] = id[n] /\ id[n] # NOISE_CLUSTERID
      BY <1>14, <1>30, <2>1, <3>1
    <3>3. PICK p \in Old : /\ <<p, n>> \in children /\ id[p] = id[n]
                           /\ m[1] <= p[1] /\ p[1] < n[1]
      BY <1>1, <1>14, <1>30, <2>1, <3>1, <3>2 DEF Lineage
    <3> QED
      BY <1>2, <1>14, <2>1, <3>3
  <2>2. CASE n \in Added /\ m \in Added
    <3>1. \A k \in Added : k = <<level + 1, k[2]>> /\ id'[k] = k[2]
      BY <1>10, <1>14
    <3> QED
      BY <1>30, <2>2, <3>1
  <2>3. CASE n \in Added /\ m \in Old
    <3>1. PICK M \in Ms : n = <<level + 1, Min(M)>> /\ n[1] = level + 1 /\ n[2] = Min(M)
      BY <1>10, <2>3
    <3> DEFINE p == LocateNode(Min(M))
    <3>2. Min(M) \in M /\ Min(M) \in ClusterIds
      BY <1>5, <1>7
    <3>3. <<p, n>> \in links
      BY <1>11, <3>1, <3>2
    <3>4. Located(p, Min(M))
      BY <1>15, <3>2
    <3> HIDE DEF p
    <3>5. id[m] = Min(M) /\ id'[n] = Min(M)
      BY <1>14, <1>30, <2>3, <3>1
    <3>6. p \in Old /\ id[p] = Min(M) /\ m[1] <= p[1]
      BY <1>14, <1>16, <2>3, <3>4, <3>5 DEF Located
    <3>7. p \in DOMAIN id' /\ <<p, n>> \in children' /\ id'[p] = id'[n]
      BY <1>2, <1>14, <3>3, <3>5, <3>6
    <3>8. p[1] < n[1]
      BY <1>1, <1>13, <3>1, <3>6
    <3> QED
      BY <3>6, <3>7, <3>8
  <2> QED
    BY <1>14, <1>30, <2>1, <2>2, <2>3
<1>31. Lineage'
  BY <1>30 DEF Lineage
<1>32. IsFiniteSet(DOMAIN bursts')
  BY <1>1, <1>12, <1>14, FS_Union
<1>33. TypeOK'
  <2>1. \A n \in DOMAIN bursts' : id'[n] \in Nat /\ n \in Node
    <3>1. \A n \in Old : id'[n] \in Nat /\ n \in Node
      BY <1>1, <1>13, <1>14 DEF TypeOK
    <3>2. \A n \in Added : id'[n] \in Nat /\ n \in Node
      BY <1>7, <1>10, <1>12, <1>14
    <3> QED
      BY <1>14, <3>1, <3>2
  <2>2. \A b \in DOMAIN partition' : partition'[b] \in Nat
    <3>1. \A n \in leaves' : id'[n] \in Nat
      BY <1>14, <1>18, <2>1 DEF Leaves
    <3> QED
      BY <1>23, <1>24, <3>1, LabelsAreNumbers
  <2>3. ASSUME NEW n \in DOMAIN bursts'
        PROVE  bursts'[n] \subseteq Burst'
    <3>1. CASE n \in Old
      BY <1>1, <1>14, <3>1 DEF TypeOK
    <3>2. CASE n \in Added
      BY <1>1, <1>14, <1>22, <3>2
    <3> QED
      BY <1>14, <3>1, <3>2
  <2>4. children' \subseteq (DOMAIN bursts') \X (DOMAIN bursts')
    BY <1>2, <1>14, <1>16, <1>17
  <2>5. merges' \subseteq SUBSET Nat
    BY <1>3, <1>5 DEF Ms
  <2>6. input' \in Inputs /\ level' \in 0 .. Steps /\ maxId' \in Nat /\ perfect' \subseteq DOMAIN bursts'
    BY <1>1, <1>14, <1>28 DEF TypeOK
  <2> QED
    BY <1>1, <1>2, <1>14, <2>1, <2>2, <2>3, <2>4, <2>5, <2>6 DEF TypeOK
<1> QED
  BY <1>1, <1>25, <1>26, <1>27, <1>29, <1>31, <1>32, <1>33 DEF IInv, Analysed, merged, Ms

-----------------------------------------------------------------------------
(* The definitive ids *)

\* An id of some node has a deepest node.
LEMMA LocatesNode ==
  ASSUME TypeOK, NEW k \in DOMAIN id
  PROVE  LocateNode(id[k]) \in DOMAIN id /\ id[LocateNode(id[k])] = id[k]
<1> DEFINE T == {Steps + 1 - n[1] : n \in {m \in DOMAIN id : id[m] = id[k]}}
<1>1. \A n \in DOMAIN id : n[1] \in Nat /\ Steps + 1 - n[1] \in Nat
  BY InputFacts DEF TypeOK, Node
<1>2. T \in SUBSET Nat /\ T # {}
  BY <1>1
<1>3. PICK t \in T : \A u \in T : t <= u
  BY <1>2, LeastNumber
<1>4. PICK n \in DOMAIN id : id[n] = id[k] /\ t = Steps + 1 - n[1]
  BY <1>3
<1>5. ASSUME NEW m \in DOMAIN id, id[m] = id[k]
      PROVE  m[1] <= n[1]
  <2>1. t <= Steps + 1 - m[1]
    BY <1>3, <1>5
  <2> QED
    BY <1>1, <1>4, <2>1, InputFacts DEF TypeOK
<1> QED
  BY <1>4, <1>5 DEF LocateNode

\* A renaming that keeps ids apart, and the noise what it is.
Renaming(new, Ids) ==
  /\ \A i \in Ids : new[i] \in Nat /\ (new[i] = NOISE_CLUSTERID <=> i = NOISE_CLUSTERID)
  /\ \A i, j \in Ids : new[i] = new[j] => i = j

\* The ids of the partition get numbers up to that of its clusters, the others get the
\* numbers that follow, each one more than those before it.
LEMMA TranslationRenames ==
  ASSUME TypeOK, IsFiniteSet(DOMAIN bursts), IsFiniteSet(Burst), DOMAIN partition = Burst,
         NEW r \in TranslatedIDs({Members(i) : i \in ClusterIds}),
         NEW size \in Nat, size >= Cardinality(ClusterIds)
  PROVE  Renaming(TranslationMap(r, size), {id[n] : n \in DOMAIN id})
<1> DEFINE Ids == {id[n] : n \in DOMAIN id}
           parts == {Members(i) : i \in ClusterIds}
           K == Cardinality(parts)
           others == Ids \ (Used \cup {NOISE_CLUSTERID})
           Before(m, n) == m[1] > n[1] \/ (m[1] = n[1] /\ m[2] <= n[2])
           upto == [i \in Ids |-> {j \in others : Before(LocateNode(j), LocateNode(i))}]
           new == TranslationMap(r, size)
<1>1. IsFiniteSet(ClusterIds) /\ Cardinality(ClusterIds) \in Nat
  <2>1. \A i \in ClusterIds : \E b \in Burst : partition[b] = i
    BY DEF ClusterIds, Used
  <2>2. IsFiniteSet(ClusterIds)
    BY <2>1, FiniteImage
  <2> QED
    BY <2>2, FS_CardinalityType
<1>2. IsFiniteSet(parts) /\ K <= Cardinality(ClusterIds)
  <2> DEFINE f == [i \in ClusterIds |-> Members(i)]
  <2>1. f \in Surjection(ClusterIds, parts)
    BY DEF Surjection
  <2> HIDE DEF f, parts
  <2> QED
    BY <1>1, <2>1, FS_Surjection DEF K
<1>3. Numbering(r, parts)
  BY <1>2, NumbersUnique
<1>4. /\ K \in Nat /\ DOMAIN r = 1 .. K /\ \A i \in ClusterIds : \E k \in 1 .. K : r[k] = Members(i)
  BY <1>3 DEF Numbering
<1>5. ASSUME NEW i \in ClusterIds, NEW j \in ClusterIds, Members(i) = Members(j)
      PROVE  i = j
  <2>1. PICK b \in Burst : partition[b] = i
    BY DEF ClusterIds, Used
  <2>2. b \in Members(i)
    BY <2>1 DEF Members
  <2> QED
    BY <1>5, <2>1, <2>2 DEF Members
<1>6. \A i \in Ids : new[i] =
         IF i = NOISE_CLUSTERID THEN i
         ELSE IF i \in Used THEN CHOOSE k \in DOMAIN r : r[k] = Members(i)
         ELSE size + Cardinality(upto[i])
  BY DEF TranslationMap, Translation
<1>7. /\ \A i \in Ids : i \in Nat /\ \E n \in DOMAIN id : i = id[n]
      /\ \A i \in others : i \in Ids /\ i \notin Used /\ i # NOISE_CLUSTERID
      /\ \A i \in Ids : i = NOISE_CLUSTERID \/ i \in ClusterIds \/ i \in others
      /\ \A i \in Ids : upto[i] = {j \in others : Before(LocateNode(j), LocateNode(i))}
  BY DEF TypeOK, ClusterIds
<1>8. ASSUME NEW i \in Ids
      PROVE  LocateNode(i) \in Nat \X Nat /\ id[LocateNode(i)] = i
  <2>1. PICK k \in DOMAIN id : i = id[k]
    OBVIOUS
  <2>2. LocateNode(i) \in DOMAIN id /\ id[LocateNode(i)] = i
    BY <2>1, LocatesNode
  <2>3. DOMAIN id \subseteq Node /\ Node \subseteq Nat \X Nat
    BY InputFacts DEF TypeOK, Node
  <2> QED
    BY <2>2, <2>3
<1>9. IsFiniteSet(others)
  <2>1. \A i \in others : \E n \in DOMAIN id : id[n] = i
    OBVIOUS
  <2>2. IsFiniteSet(DOMAIN id)
    BY DEF TypeOK
  <2> HIDE DEF others
  <2> QED
    BY <2>1, <2>2, FiniteImage
<1> HIDE DEF new, Ids, others, upto, parts, K
<1>10. ASSUME NEW i \in ClusterIds, i \in Ids
       PROVE  new[i] \in 1 .. K /\ r[new[i]] = Members(i)
  <2>1. new[i] = CHOOSE k \in DOMAIN r : r[k] = Members(i)
    BY <1>6, <1>10 DEF ClusterIds
  <2> QED
    BY <1>4, <2>1
<1>11. ASSUME NEW i \in others
       PROVE  /\ new[i] = size + Cardinality(upto[i])
              /\ IsFiniteSet(upto[i]) /\ Cardinality(upto[i]) \in Nat \ {0}
              /\ new[i] \in Nat /\ new[i] > K
  <2>1. new[i] = size + Cardinality(upto[i])
    BY <1>6, <1>7
  <2>2. IsFiniteSet(upto[i])
    BY <1>7, <1>9, FS_Subset
  <2>3. i \in upto[i]
    BY <1>7, <1>8
  <2>4. Cardinality(upto[i]) \in Nat \ {0}
    BY <2>2, <2>3, FS_CardinalityType, FS_EmptySet
  <2> QED
    BY <1>1, <1>2, <1>4, <2>1, <2>2, <2>4
<1>12. ASSUME NEW i \in others, NEW j \in others, i # j, Before(LocateNode(i), LocateNode(j))
       PROVE  new[i] < new[j]
  <2>1. /\ LocateNode(i) \in Nat \X Nat /\ LocateNode(j) \in Nat \X Nat
        /\ LocateNode(i) # LocateNode(j)
    BY <1>7, <1>8, <1>12
  <2>2. ~Before(LocateNode(j), LocateNode(i))
    BY <1>12, <2>1
  <2>3. /\ \A k \in others : LocateNode(k) \in Nat \X Nat
        /\ \A k \in others : k \in upto[i] <=> Before(LocateNode(k), LocateNode(i))
        /\ \A k \in others : k \in upto[j] <=> Before(LocateNode(k), LocateNode(j))
        /\ upto[i] \subseteq others /\ upto[j] \subseteq others
    BY <1>7, <1>8
  <2>4. ASSUME NEW k \in upto[i]
        PROVE  k \in upto[j]
    <3>1. k \in others /\ LocateNode(k) \in Nat \X Nat /\ Before(LocateNode(k), LocateNode(i))
      BY <2>3
    <3>2. Before(LocateNode(k), LocateNode(j))
      BY <1>12, <2>1, <3>1
    <3> QED
      BY <2>3, <3>1, <3>2
  <2>5. upto[i] \in SUBSET upto[j] /\ j \notin upto[i] /\ j \in upto[j]
    BY <2>1, <2>2, <2>3, <2>4
  <2>6. /\ Cardinality(upto[i]) \in Nat /\ Cardinality(upto[j]) \in Nat
        /\ Cardinality(upto[i]) <= Cardinality(upto[j])
        /\ Cardinality(upto[i]) # Cardinality(upto[j])
    BY <1>11, <2>5, FS_Subset
  <2> QED
    BY <1>11, <2>6
<1>13. ASSUME NEW i \in others, NEW j \in others, new[i] = new[j]
       PROVE  i = j
  <2> SUFFICES ASSUME i # j
               PROVE  FALSE
    OBVIOUS
  <2>1. LocateNode(i) \in Nat \X Nat /\ LocateNode(j) \in Nat \X Nat
    BY <1>7, <1>8
  <2>2. Before(LocateNode(i), LocateNode(j)) \/ Before(LocateNode(j), LocateNode(i))
    BY <2>1
  <2>3. new[i] < new[j] \/ new[j] < new[i]
    BY <1>12, <2>2
  <2> QED
    BY <1>11, <1>13, <2>3
<1>14. \A i \in Ids : i = NOISE_CLUSTERID => new[i] = NOISE_CLUSTERID
  BY <1>6
<1>15. ASSUME NEW i \in Ids
       PROVE  new[i] \in Nat /\ (new[i] = NOISE_CLUSTERID <=> i = NOISE_CLUSTERID)
  <2>1. CASE i = NOISE_CLUSTERID
    BY <1>14, <2>1 DEF NOISE_CLUSTERID
  <2>2. CASE i \in ClusterIds
    <3>1. new[i] \in 1 .. K /\ i # NOISE_CLUSTERID
      BY <1>10, <2>2 DEF ClusterIds
    <3> QED
      BY <1>4, <3>1 DEF NOISE_CLUSTERID
  <2>3. CASE i \in others
    BY <1>4, <1>7, <1>11, <2>3 DEF NOISE_CLUSTERID
  <2> QED
    BY <1>7, <2>1, <2>2, <2>3
<1>16. ASSUME NEW i \in Ids, NEW j \in Ids, new[i] = new[j]
       PROVE  i = j
  <2>1. CASE i = NOISE_CLUSTERID \/ j = NOISE_CLUSTERID
    BY <1>15, <1>16, <2>1
  <2>2. CASE i \in ClusterIds /\ j \in ClusterIds
    BY <1>5, <1>10, <1>16, <2>2
  <2>3. CASE i \in others /\ j \in others
    BY <1>13, <1>16, <2>3
  <2>4. \A x \in ClusterIds, y \in others : x \in Ids => new[x] # new[y]
    BY <1>4, <1>10, <1>11
  <2> QED
    BY <1>7, <1>16, <2>1, <2>2, <2>3, <2>4
<1> QED
  BY <1>15, <1>16 DEF Renaming, Ids, new

\* Partition and tree are renamed alike (RenameLastPartition).
LEMMA RenamingStep ==
  ASSUME IInv, RenameLastPartition
  PROVE  IInv'
<1>1. /\ TypeOK /\ IsFiniteSet(DOMAIN bursts) /\ Shared /\ PerfectStaysWhole /\ Lineage
      /\ pc' \in {"done", "failed"}
      /\ UNCHANGED <<input, level, bursts, children, perfect, maxId, lastId, merges>>
      /\ Burst' = Burst /\ input \in Inputs /\ leaves' = leaves
  BY DEF IInv, Analysed, RenameLastPartition, Return, Burst, leaves, TypeOK
<1> DEFINE Ids == {id[n] : n \in DOMAIN id}
           Renamed(new) == /\ partition' = [b \in Burst |-> new[partition[b]]]
                           /\ id' = [n \in DOMAIN id |-> new[id[n]]]
<1>2. DOMAIN partition = Burst /\ IsFiniteSet(Burst)
  BY <1>1, InputFacts DEF Shared, Labels
<1>3. \E new : Renaming(new, Ids) /\ Renamed(new)
  <2>1. PICK r \in TranslatedIDs({Members(i) : i \in ClusterIds}) :
          \E size \in {Cardinality(ClusterIds), Cardinality(ClusterIds) + 1} :
            Renamed(TranslationMap(r, size))
    BY DEF RenameLastPartition
  <2>2. PICK size \in {Cardinality(ClusterIds), Cardinality(ClusterIds) + 1} :
          Renamed(TranslationMap(r, size))
    BY <2>1
  <2>3. Cardinality(ClusterIds) \in Nat
    <3>1. \A i \in ClusterIds : \E b \in Burst : partition[b] = i
      BY DEF ClusterIds, Used
    <3> QED
      BY <1>2, <3>1, FiniteImage, FS_CardinalityType
  <2>4. size \in Nat /\ size >= Cardinality(ClusterIds)
    BY <2>2, <2>3
  <2>5. Renaming(TranslationMap(r, size), Ids)
    BY <1>1, <1>2, <2>4, TranslationRenames
  <2> HIDE DEF Renamed
  <2> QED
    BY <2>2, <2>5
<1>4. PICK new : Renaming(new, Ids) /\ Renamed(new)
  BY <1>3
<1>5. /\ partition' = [b \in Burst |-> new[partition[b]]]
      /\ id' = [n \in DOMAIN id |-> new[id[n]]]
  BY <1>4
<1>6. /\ \A i \in Ids : new[i] \in Nat /\ (new[i] = NOISE_CLUSTERID <=> i = NOISE_CLUSTERID)
      /\ \A i, j \in Ids : new[i] = new[j] => i = j
  BY <1>4 DEF Renaming
<1>7. \A n \in DOMAIN id : id[n] \in Ids /\ id'[n] = new[id[n]]
  BY <1>5
<1> HIDE DEF Ids
<1>8. Shared'
  BY <1>1, <1>5, <1>7 DEF Shared, Shares, Labels, leaves, Leaves, TypeOK
<1>9. PerfectStaysWhole'
  <2>1. ASSUME NEW n \in perfect, id'[n] # NOISE_CLUSTERID, NEW b \in bursts[n], NEW c \in bursts[n]
        PROVE  partition'[b] = partition'[c]
    <3>1. n \in DOMAIN id /\ b \in Burst /\ c \in Burst
      BY <1>1, <2>1 DEF TypeOK
    <3>2. id[n] # NOISE_CLUSTERID
      BY <1>6, <1>7, <2>1, <3>1
    <3>3. partition[b] = partition[c]
      BY <1>1, <2>1, <3>2 DEF PerfectStaysWhole
    <3> QED
      BY <1>5, <3>1, <3>3
  <2> QED
    BY <1>1, <2>1 DEF PerfectStaysWhole
<1>10. DOMAIN id' = DOMAIN id /\ DOMAIN partition' = Burst
  BY <1>5
<1>11. Lineage'
  <2>1. ASSUME NEW m \in DOMAIN id, NEW n \in DOMAIN id, m # n, id'[m] = id'[n],
               id'[n] # NOISE_CLUSTERID, m[1] <= n[1]
        PROVE  \E p \in DOMAIN id : /\ <<p, n>> \in children /\ id'[p] = id'[n]
                                    /\ m[1] <= p[1] /\ p[1] < n[1]
    <3>1. id[m] = id[n] /\ id[n] # NOISE_CLUSTERID
      BY <1>6, <1>7, <2>1
    <3>2. PICK p \in DOMAIN id : /\ <<p, n>> \in children /\ id[p] = id[n]
                                 /\ m[1] <= p[1] /\ p[1] < n[1]
      BY <1>1, <2>1, <3>1 DEF Lineage
    <3> QED
      BY <1>7, <3>2
  <2> QED
    BY <1>1, <1>10, <2>1 DEF Lineage
<1>12. TypeOK'
  <2>1. \A n \in DOMAIN id : id'[n] \in Nat
    BY <1>6, <1>7
  <2>2. \A b \in Burst : partition'[b] \in Nat
    <3>1. \A n \in leaves : n \in DOMAIN id
      BY <1>1 DEF leaves, Leaves, TypeOK
    <3>2. \A b \in Burst : \E n \in leaves : b \in bursts[n] /\ partition[b] = id[n]
      BY <1>1 DEF Shared, Shares, Labels
    <3> QED
      BY <1>5, <1>6, <1>7, <3>1, <3>2
  <2> QED
    BY <1>1, <1>10, <2>1, <2>2 DEF TypeOK
<1> QED
  BY <1>1, <1>8, <1>9, <1>11, <1>12 DEF IInv, Analysed

-----------------------------------------------------------------------------
(* The theorems *)

\* Nothing holds of the variables before the first analysis but their emptiness.
LEMMA InitInvariant ==
  ASSUME Init
  PROVE  IInv
<1>1. DOMAIN bursts = {} /\ DOMAIN id = {} /\ DOMAIN partition = {} /\ DOMAIN lastId = {}
  BY DEF Init
<1>2. 0 \in 0 .. Steps
  BY InputFacts DEF Init
<1>3. TypeOK
  BY <1>1, <1>2 DEF Init, TypeOK, NOISE_CLUSTERID
<1>4. IsFiniteSet(DOMAIN bursts)
  BY <1>1, FS_EmptySet
<1> QED
  BY <1>1, <1>3, <1>4 DEF Init, IInv, Analysed, Fresh

\* A step without change keeps the invariant.
LEMMA StutterKeeps ==
  ASSUME IInv, UNCHANGED vars
  PROVE  IInv'
<1>1. /\ input' = input /\ pc' = pc /\ level' = level /\ bursts' = bursts /\ id' = id
      /\ perfect' = perfect /\ children' = children /\ maxId' = maxId /\ lastId' = lastId
      /\ partition' = partition /\ merges' = merges
  BY DEF vars, tree
<1>2. leaves' = leaves /\ Burst' = Burst /\ (Analysed' <=> Analysed)
  BY <1>1 DEF leaves, Burst, Analysed
<1>3. TypeOK' <=> TypeOK
  BY <1>1, <1>2 DEF TypeOK
<1>4. Shared' <=> Shared
  BY <1>1, <1>2 DEF Shared, Shares, Labels
<1>5. (PerfectStaysWhole' <=> PerfectStaysWhole) /\ (Lineage' <=> Lineage)
  BY <1>1 DEF PerfectStaysWhole, Lineage
<1>6. (TreeGrows' <=> TreeGrows) /\ (Fresh' <=> Fresh)
  BY <1>1, <1>2 DEF TreeGrows, Fresh
<1> QED
  BY <1>1, <1>2, <1>3, <1>4, <1>5, <1>6 DEF IInv

\* Every step keeps it.
LEMMA NextInvariant ==
  ASSUME IInv, [Next]_vars
  PROVE  IInv'
<1>1. CASE RunFirstAnalysis
  BY <1>1, FirstAnalysisStep
<1>2. CASE RunStep
  BY <1>2, AnotherLevelStep
<1>3. CASE GenerateLastPartition
  BY <1>3, LastPartitionStep
<1>4. CASE RenameLastPartition
  BY <1>4, RenamingStep
<1>5. CASE UNCHANGED vars
  BY <1>5, StutterKeeps
<1> QED
  BY <1>1, <1>2, <1>3, <1>4, <1>5 DEF Next, Terminated

\* The tree and the partition stay as the invariant describes them.
THEOREM Invariant == Spec => []IInv
<1>1. Init => IInv
  BY InitInvariant
<1>2. IInv /\ [Next]_vars => IInv'
  BY NextInvariant
<1> QED
  BY <1>1, <1>2, PTL DEF Spec

\* The variables have their types: levels, positions and ids never go out of their
\* ranges, and links stay between nodes.
THEOREM TypeCorrect == Spec => []TypeOK
<1>1. IInv => TypeOK
  BY DEF IInv
<1> QED
  BY <1>1, Invariant, PTL

\* The walk of GetAssignment reaches each burst in exactly one leaf.
THEOREM OneLeafEach == Spec => []LeavesPartitionBursts
<1>1. ASSUME IInv
      PROVE  LeavesPartitionBursts
  <2> SUFFICES ASSUME Analysed, NEW b \in Burst
               PROVE  Cardinality({n \in Leaves(DOMAIN bursts, children) : b \in bursts[n]}) = 1
    BY DEF LeavesPartitionBursts
  <2>1. Shares(bursts, leaves)
    BY <1>1 DEF IInv, Shared
  <2>2. PICK n \in leaves : b \in bursts[n]
    BY <2>1 DEF Shares
  <2>3. {m \in leaves : b \in bursts[m]} = {n}
    BY <2>1, <2>2 DEF Shares
  <2>4. Cardinality({n}) = 1
    BY FS_Singleton
  <2> QED
    BY <2>3, <2>4 DEF leaves
<1> QED
  BY <1>1, Invariant, PTL

\* The partition gives each burst the id of its leaf: the renaming of partition and tree
\* never diverge.
THEOREM PartitionIsTree == Spec => []PartitionMatchesTree
<1>1. IInv => PartitionMatchesTree
  BY DEF IInv, Shared, Labels, PartitionMatchesTree, leaves
<1> QED
  BY <1>1, Invariant, PTL

\* The bursts of a cluster that had a perfect score stay together.
THEOREM PerfectWhole == Spec => []PerfectStaysWhole
<1>1. ASSUME IInv
      PROVE  PerfectStaysWhole
  <2>1. CASE Analysed
    BY <1>1, <2>1 DEF IInv
  <2>2. CASE ~Analysed
    BY <1>1, <2>2 DEF IInv, Fresh, PerfectStaysWhole
  <2> QED
    BY <2>1, <2>2
<1> QED
  BY <1>1, Invariant, PTL

\* What is below a node, level by level.
LEMMA LevelsBelow ==
  ASSUME TypeOK, NEW n \in DOMAIN bursts
  PROVE  \E below : /\ Descendants(n) = below[Steps + 1] /\ below[0] = {n}
                    /\ \A k \in 1 .. (Steps + 1) :
                         below[k] = below[k - 1]
                           \cup {e[2] : e \in {f \in children : f[1] \in below[k - 1]}}
<1> DEFINE Fan(T) == T \cup {e[2] : e \in {f \in children : f[1] \in T}}
           Table(f) == [k \in 0 .. (Steps + 1) |-> IF k = 0 THEN {n} ELSE Fan(f[k - 1])]
           below == CHOOSE f : f = Table(f)
           V == SUBSET DOMAIN bursts
           G == [k \in 1 .. (Steps + 1) |-> [T \in V |-> Fan(T)]]
<1>1. Descendants(n) = below[Steps + 1]
  BY DEF Descendants
<1>2. Steps + 1 \in Nat
  BY InputFacts DEF TypeOK
<1>3. \A T \in V : Fan(T) \in V
  BY DEF TypeOK
<1> HIDE DEF Fan
<1>4. \A k \in 1 .. (Steps + 1) : \A T \in V : G[k][T] = Fan(T)
  OBVIOUS
<1>5. {n} \in V
  OBVIOUS
<1> HIDE DEF V, G
<1>6. \E f : f = Table(f)
  <2>1. Steppable(Steps + 1, V, {n}, G)
    BY <1>2, <1>3, <1>4, <1>5 DEF Steppable
  <2>2. Iterated(Steps + 1, V, {n}, G)
    BY <2>1, IterationExists
  <2>3. PICK f \in [0 .. (Steps + 1) -> V] :
          f[0] = {n} /\ \A k \in 1 .. (Steps + 1) : f[k] = G[k][f[k - 1]]
    BY <2>2 DEF Iterated
  <2>4. ASSUME NEW k \in 0 .. (Steps + 1)
        PROVE  f[k] = IF k = 0 THEN {n} ELSE Fan(f[k - 1])
    <3>1. CASE k = 0
      BY <2>3, <3>1
    <3>2. CASE k # 0
      <4>1. k \in 1 .. (Steps + 1) /\ k - 1 \in 0 .. (Steps + 1)
        BY <1>2, <3>2
      <4>2. f[k - 1] \in V
        BY <2>3, <4>1
      <4> QED
        BY <1>4, <2>3, <3>2, <4>1, <4>2
    <3> QED
      BY <3>1, <3>2
  <2>5. f = [k \in 0 .. (Steps + 1) |-> f[k]]
    BY <2>3
  <2>6. f = Table(f)
    BY <2>4, <2>5
  <2> QED
    BY <2>6
<1>7. below = Table(below)
  <2> HIDE DEF Table
  <2> QED
    BY <1>6
<1> HIDE DEF below
<1>8. \A f : f = Table(f) =>
        f[0] = {n} /\ \A k \in 1 .. (Steps + 1) : f[k] = Fan(f[k - 1])
  <2>1. 0 \in 0 .. (Steps + 1) /\ \A k \in 1 .. (Steps + 1) : k \in 0 .. (Steps + 1) /\ k # 0
    BY <1>2
  <2> QED
    BY <2>1
<1> HIDE DEF Table
<1>9. below[0] = {n} /\ \A k \in 1 .. (Steps + 1) : below[k] = Fan(below[k - 1])
  BY <1>7, <1>8
<1> QED
  BY <1>1, <1>9 DEF Fan

\* A node with the id of one above it, or next to it, is below that one.
LEMMA LineageLeadsDown ==
  ASSUME TypeOK, Lineage, NEW m \in DOMAIN id, NEW n \in DOMAIN id,
         id[m] = id[n], id[n] # NOISE_CLUSTERID, m[1] <= n[1]
  PROVE  n \in Descendants(m)
<1>1. PICK below : /\ Descendants(m) = below[Steps + 1] /\ below[0] = {m}
                   /\ \A k \in 1 .. (Steps + 1) :
                        below[k] = below[k - 1]
                          \cup {e[2] : e \in {f \in children : f[1] \in below[k - 1]}}
  BY LevelsBelow DEF TypeOK
<1>2. Steps + 1 \in Nat /\ \A x \in DOMAIN id : x[1] \in 1 .. (Steps + 1)
  BY InputFacts DEF TypeOK, Node
<1>3. ASSUME NEW x \in DOMAIN id, id[x] = id[m], m[1] <= x[1], x # m
      PROVE  \E p \in DOMAIN id : /\ <<p, x>> \in children /\ id[p] = id[m]
                                  /\ m[1] <= p[1] /\ p[1] < x[1]
  BY <1>3 DEF Lineage
<1> DEFINE S == {k \in 0 .. (Steps + 1) :
                   \A x \in DOMAIN id :
                     id[x] = id[m] /\ m[1] <= x[1] /\ x[1] <= m[1] + k => x \in below[k]}
<1>4. 0 \in S
  <2>1. ASSUME NEW x \in DOMAIN id, id[x] = id[m], m[1] <= x[1], x[1] <= m[1]
        PROVE  x \in below[0]
    <3>1. x = m
      <4>1. ASSUME NEW p \in DOMAIN id
            PROVE  ~(m[1] <= p[1] /\ p[1] < x[1])
        BY <1>2, <2>1
      <4> QED
        BY <1>3, <2>1, <4>1
    <3> QED
      BY <1>1, <3>1
  <2>2. m[1] + 0 = m[1] /\ 0 \in 0 .. (Steps + 1)
    BY <1>2
  <2> QED
    BY <2>1, <2>2
<1>5. ASSUME NEW k \in 1 .. (Steps + 1), k - 1 \in S
      PROVE  k \in S
  <2> SUFFICES ASSUME NEW x \in DOMAIN id, id[x] = id[m], m[1] <= x[1], x[1] <= m[1] + k
               PROVE  x \in below[k]
    BY <1>2
  <2>1. \A y \in DOMAIN id :
          id[y] = id[m] /\ m[1] <= y[1] /\ y[1] <= m[1] + (k - 1) => y \in below[k - 1]
    BY <1>5
  <2>2. below[k] = below[k - 1] \cup {e[2] : e \in {f \in children : f[1] \in below[k - 1]}}
    BY <1>1
  <2>3. CASE x = m
    <3>1. m[1] <= m[1] + (k - 1)
      BY <1>2
    <3> QED
      BY <1>2, <2>1, <2>2, <2>3, <3>1
  <2>4. CASE x # m
    <3>1. PICK p \in DOMAIN id : /\ <<p, x>> \in children /\ id[p] = id[m]
                                 /\ m[1] <= p[1] /\ p[1] < x[1]
      BY <1>3, <2>4
    <3>2. p[1] <= m[1] + (k - 1)
      BY <1>2, <3>1
    <3>3. p \in below[k - 1]
      BY <2>1, <3>1, <3>2
    <3>4. <<p, x>>[1] = p /\ <<p, x>>[2] = x
      OBVIOUS
    <3> QED
      BY <2>2, <3>1, <3>3, <3>4
  <2> QED
    BY <2>3, <2>4
<1>6. 0 .. (Steps + 1) \subseteq S
  <2> HIDE DEF S
  <2> QED
    BY <1>2, <1>4, <1>5, BoundedInduction
<1>7. Steps + 1 \in S /\ n[1] <= m[1] + (Steps + 1)
  BY <1>2, <1>6
<1> QED
  BY <1>1, <1>7

\* Nodes with the same id, other than the noise, are on one line of the tree.
THEOREM IdsAreLineages == Spec => []IdIsLineage
<1>1. ASSUME IInv
      PROVE  IdIsLineage
  <2> SUFFICES ASSUME NEW m \in DOMAIN id, NEW n \in DOMAIN id,
                      id[m] = id[n], id[m] # NOISE_CLUSTERID
               PROVE  m \in Descendants(n) \/ n \in Descendants(m)
    BY DEF IdIsLineage
  <2>1. Analysed
    BY <1>1 DEF IInv, Fresh, TypeOK
  <2>2. TypeOK /\ Lineage
    BY <1>1, <2>1 DEF IInv
  <2>3. m[1] <= n[1] \/ n[1] <= m[1]
    BY <2>2, InputFacts DEF TypeOK, Node
  <2> QED
    BY <2>2, <2>3, LineageLeadsDown
<1> QED
  BY <1>1, Invariant, PTL

\* An id that has left the partition does not come back for other bursts.
THEOREM NoneComesBack == Spec => NoIdRevived
<1> DEFINE A == pc = "step" =>
                  \A b \in DOMAIN partition' :
                    \/ partition'[b] = NOISE_CLUSTERID
                    \/ partition'[b] > maxId
                    \/ \E c \in DOMAIN partition : partition[c] = partition'[b]
<1>1. ASSUME IInv, [Next]_vars
      PROVE  [A]_vars
  <2>1. CASE RunStep
    BY <1>1, <2>1, AnotherLevelStep DEF NoneRevived
  <2>2. CASE GenerateLastPartition
    BY <1>1, <2>2, LastPartitionStep DEF NoneRevived
  <2>3. CASE RunFirstAnalysis \/ RenameLastPartition
    BY <2>3 DEF RunFirstAnalysis, RenameLastPartition
  <2>4. CASE UNCHANGED vars
    BY <2>4
  <2> QED
    BY <1>1, <2>1, <2>2, <2>3, <2>4 DEF Next, Terminated
<1> QED
  BY <1>1, Invariant, PTL DEF Spec, NoIdRevived

\* Changing ids and walking the tree with the merged nodes give the same last partition.
THEOREM MergeMatchesTree == Spec => MergeAgreesWithTree
<1> DEFINE A == pc = "step" /\ level' = level => partition' = MergeIDs(merges')
<1>1. ASSUME IInv, [Next]_vars
      PROVE  [A]_vars
  <2>1. CASE RunStep
    <3>1. level \in Nat /\ level' = level + 1
      BY <1>1, <2>1 DEF RunStep, IInv, TypeOK
    <3> QED
      BY <3>1
  <2>2. CASE GenerateLastPartition
    BY <1>1, <2>2, LastPartitionStep
  <2>3. CASE RunFirstAnalysis \/ RenameLastPartition
    BY <2>3 DEF RunFirstAnalysis, RenameLastPartition
  <2>4. CASE UNCHANGED vars
    BY <2>4
  <2> QED
    BY <1>1, <2>1, <2>2, <2>3, <2>4 DEF Next, Terminated
<1> QED
  BY <1>1, Invariant, PTL DEF Spec, MergeAgreesWithTree
=============================================================================
