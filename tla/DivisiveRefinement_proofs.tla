------------------------ MODULE DivisiveRefinement_proofs ------------------------
(***************************************************************************)
(* What holds of the divisive refinement for any number of levels and of   *)
(* bursts, wherever they lie and however they are aligned.                 *)
(***************************************************************************)
EXTENDS DivisiveRefinement, BurstLemmas

\* links lead up level by level, from nodes of the first to the root.
Ranked(links) ==
  \A n \in DOMAIN links : \/ n[1] = 1 /\ links[n] = Root
                          \/ n[1] > 1 /\ links[n] \in DOMAIN links /\ n[1] = links[n][1] + 1

\* The nodes L share out the bursts S.
Share(B, L, S) ==
  /\ \A n \in L : B[n] \subseteq S
  /\ \A b \in S : \E n \in L : b \in B[n]
  /\ \A m, n \in L : m # n => B[m] \cap B[n] = {}

\* P gives each burst the name of its node.
Labels(P, B, L, names) == DOMAIN P = Burst /\ \A n \in L : \A b \in B[n] : P[b] = names[n]

\* No burst of S has enough others within Eps at level l.
Sparse(S, l) == \A p \in S : Cardinality(Near(S, l)[p]) < input.minPoints

Under(links, p) == {c \in DOMAIN links : links[c] = p}

\* The tree before it is pruned.  Children share out the bursts of their parent; they are
\* all discarded or none is, and what is discarded has no children.
Forest(B, links, gone) ==
  /\ \A n \in DOMAIN links : B[n] # {}
  /\ Share(B, Under(links, Root), Burst)
  /\ \A p \in DOMAIN links : Under(links, p) # {} => Share(B, Under(links, p), B[p])
  /\ \A p \in DOMAIN links : Under(links, p) \subseteq gone \/ Under(links, p) \cap gone = {}
  /\ \A n \in gone : n \in DOMAIN links /\ links[n] # Root /\ Under(links, n) = {}

\* Its nodes have the first positions of each level.
Tree ==
  /\ Forest(bursts, parent, discarded)
  /\ \A n \in DOMAIN bursts : n[2] <= Cardinality(Level(n[1]))

\* Noise has no cluster in it, nor do its children.
Noisy ==
  \A n \in DOMAIN bursts :
    /\ IsNoise(n) => Sparse(bursts[n], n[1])
    /\ n[1] > 1 /\ IsNoise(parent[n]) => IsNoise(n)

\* The nodes that have their names.
Named == {n \in DOMAIN bursts \ discarded : pc = "step" => n[1] < step}

\* Of the nodes M, one with the id of another that is not below it has it from its parent;
\* and one of the clusters under a node has its id.
LineageOf(names, links, M) ==
  /\ \A m, n \in M :
       m # n /\ names[m] = names[n] /\ names[n] # NOISE_CLUSTERID /\ m[1] <= n[1] =>
         n[1] > 1 /\ names[links[n]] = names[n] /\ m[1] < n[1]
  /\ \A n \in M :
       n[1] > 1 /\ names[n] # NOISE_CLUSTERID =>
         \E c \in M : links[c] = links[n] /\ names[c] = names[links[n]]

Lineage == LineageOf(id, parent, Named)

\* The level that is made has the children of the nodes passed so far.
Growing ==
  /\ step > 1
  /\ \A n \in DOMAIN bursts : n[1] <= step /\ (n[1] = step => parent[n][2] < at)

IInv ==
  /\ TypeOK /\ IsFiniteSet(DOMAIN bursts)
  /\ ~Analysed => DOMAIN bursts = {} /\ discarded = {} /\ step = 1 /\ at = 1
  /\ Analysed => Ranked(parent) /\ Share(bursts, LiveLeaves, Burst)
  /\ pc \in {"step", "prune"} => Tree /\ Noisy /\ Lineage
  /\ pc = "step" => Growing
  /\ LeafIdsUnique /\ FirstLevelKept /\ WholeOrDivided

-----------------------------------------------------------------------------
(* One analysis *)

\* What the assumption says of the input.
LEMMA InputFacts ==
  ASSUME input \in Inputs
  PROVE  /\ input.n \in 1 .. N /\ input.minPoints \in Nat \ {0}
         /\ input.within \in [PairsOf(input.n) -> 0 .. Steps]
         /\ N \in Nat /\ Steps \in Nat /\ Steps >= 2 /\ One \in Nat \ {0}
         /\ Duration \in [1 .. N -> Nat \ {0}]
         /\ IsFiniteSet(Burst) /\ Burst \subseteq Nat /\ Burst \subseteq 1 .. N /\ Burst # {}
<1>1. /\ input.n \in 1 .. N /\ N \in Nat /\ Steps \in Nat \ {0, 1}
      /\ input.minPoints \in Nat \ {0} /\ input.within \in [PairsOf(input.n) -> 0 .. Steps]
      /\ One \in Nat \ {0} /\ Duration \in [1 .. N -> Nat \ {0}]
  BY RefinementAssumption DEF RefinementAssumption
<1>2. input.n \in Nat \ {0}
  BY <1>1
<1>3. IsFiniteSet(1 .. input.n)
  BY <1>2, FS_Interval
<1>4. Burst \subseteq 1 .. N /\ 1 \in Burst /\ Burst \subseteq Nat
  BY <1>1, <1>2 DEF Burst
<1> QED
  BY <1>1, <1>3, <1>4 DEF Burst

\* Distances are those of pairs.
LEMMA WithinIsNumber ==
  ASSUME input \in Inputs, NEW p \in Burst, NEW q \in Burst, p # q
  PROVE  input.within[{p, q}] \in Nat
<1>1. input.n \in Nat /\ Burst = 1 .. input.n /\ Burst \subseteq Nat
  BY InputFacts DEF Burst
<1>2. \A x, y \in Burst : x < y => {x, y} \in PairsOf(input.n)
  <2> SUFFICES ASSUME NEW x \in Burst, NEW y \in Burst, x < y
               PROVE  {x, y} \in PairsOf(input.n)
    OBVIOUS
  <2>1. <<x, y>> \in {f \in (1 .. input.n) \X (1 .. input.n) : f[1] < f[2]}
    BY <1>1
  <2>2. {<<x, y>>[1], <<x, y>>[2]} \in PairsOf(input.n)
    BY <2>1 DEF PairsOf
  <2> QED
    BY <2>2
<1>3. p < q \/ q < p
  BY <1>1
<1>4. {p, q} = {q, p}
  OBVIOUS
<1>5. {p, q} \in PairsOf(input.n)
  BY <1>2, <1>3, <1>4
<1> QED
  BY <1>5, InputFacts

\* With fewer bursts or a smaller Eps they do not get closer.
LEMMA SparseStays ==
  ASSUME input \in Inputs, NEW S \in SUBSET Burst, NEW T \in SUBSET S,
         NEW l \in Nat, NEW k \in Nat, l <= k, Sparse(S, l)
  PROVE  Sparse(T, k)
<1> SUFFICES ASSUME NEW p \in T
             PROVE  Cardinality(Near(T, k)[p]) < input.minPoints
  BY DEF Sparse
<1> DEFINE A == Near(S, l)[p]
           B == Near(T, k)[p]
<1>1. /\ A = {q \in S : p = q \/ input.within[{p, q}] >= l}
      /\ B = {q \in T : p = q \/ input.within[{p, q}] >= k}
  BY DEF Near
<1>2. \A q \in T : p # q => input.within[{p, q}] \in Nat
  BY WithinIsNumber
<1>3. B \in SUBSET A /\ A \in SUBSET Burst
  BY <1>1, <1>2
<1>4. Cardinality(A) < input.minPoints
  BY DEF Sparse
<1> HIDE DEF A, B
<1>5. IsFiniteSet(A) /\ IsFiniteSet(B)
  BY <1>3, InputFacts, FS_Subset
<1>6. Cardinality(B) <= Cardinality(A) /\ Cardinality(A) \in Nat /\ Cardinality(B) \in Nat
  BY <1>3, <1>5, FS_Subset, FS_CardinalityType
<1>7. Cardinality(B) < input.minPoints
  BY <1>4, <1>6, InputFacts
<1> QED
  BY <1>7 DEF B

\* The parts by id of a clustering of S at step k.
PartsOf(part, S, k) ==
  /\ DOMAIN part \subseteq Nat /\ IsFiniteSet(DOMAIN part)
  /\ \A i \in DOMAIN part : part[i] # {}
  /\ Share(part, DOMAIN part, S)
  /\ NOISE_CLUSTERID \in DOMAIN part => Sparse(part[NOISE_CLUSTERID], k)
  /\ Sparse(S, k) => DOMAIN part \subseteq {NOISE_CLUSTERID}

\* Clusters and noise share out the bursts that were analysed.
LEMMA AnalysisGivesParts ==
  ASSUME input \in Inputs, NEW S \in SUBSET Burst, NEW k \in Nat,
         NEW clusters \in RunDBSCAN(Near(S, k), input.minPoints),
         NEW r \in TranslatedIDs(clusters)
  PROVE  PartsOf(Parts(S, r), S, k)
<1> DEFINE near == Near(S, k)
           K == Cardinality(clusters)
           noise == S \ UNION {r[i] : i \in DOMAIN r}
           part == Parts(S, r)
<1>1. IsFiniteSet(S)
  BY InputFacts, FS_Subset
<1>2. /\ DOMAIN near = S /\ \A p \in S : p \in near[p] /\ near[p] \subseteq S
      /\ \A p, q \in S : q \in near[p] => p \in near[q]
  <2>1. \A p, q : {p, q} = {q, p}
    OBVIOUS
  <2> QED
    BY <2>1 DEF Near
<1>3. clusters \in RunDBSCAN(near, input.minPoints)
  OBVIOUS
<1>4. Sparse(S, k) <=> \A p \in S : Cardinality(near[p]) < input.minPoints
  BY DEF Sparse
<1> HIDE DEF near
<1>5. Clustering(clusters, S)
  BY <1>1, <1>2, <1>3, ClustersDisjoint
<1>6. Numbering(r, clusters)
  BY <1>5, NumbersUnique DEF Clustering
<1>7. /\ K \in Nat /\ r \in [1 .. K -> clusters] /\ DOMAIN r = 1 .. K
      /\ \A c \in clusters : \E i \in 1 .. K : r[i] = c
      /\ \A i, j \in 1 .. K : i # j => r[i] \cap r[j] = {}
      /\ \A i \in 1 .. K : r[i] \subseteq S /\ r[i] # {}
  BY <1>5, <1>6 DEF Numbering, Clustering
<1>8. \A p \in S : Cardinality(near[p]) \in Nat /\ input.minPoints \in Nat
  BY <1>1, <1>2, InputFacts, FS_Subset, FS_CardinalityType
<1>9. /\ \A p \in S \ UNION clusters : Cardinality(near[p]) < input.minPoints
      /\ Sparse(S, k) => clusters = {}
  <2>1. /\ \A p \in S \ UNION clusters : ~(Cardinality(near[p]) >= input.minPoints)
        /\ (\A p \in S : ~(Cardinality(near[p]) >= input.minPoints)) => clusters = {}
    BY <1>1, <1>2, <1>3, NoiseIsSparse
  <2> QED
    BY <1>4, <1>8, <2>1
<1>10. noise \in SUBSET S /\ noise \cap UNION clusters = {}
       /\ \A b \in S : b \in noise <=> \A i \in 1 .. K : b \notin r[i]
  BY <1>7
<1>11. part = IF noise = {} THEN r ELSE Joined([i \in {NOISE_CLUSTERID} |-> noise], r)
  BY DEF Parts
<1> HIDE DEF part, noise, K
<1>12. DOMAIN part = IF noise = {} THEN 1 .. K ELSE {0} \cup 1 .. K
  BY <1>7, <1>11 DEF Joined, NOISE_CLUSTERID
<1>13. /\ \A i \in 1 .. K : part[i] = r[i] /\ i # 0
       /\ 0 \in DOMAIN part => part[0] = noise
  <2>1. \A i \in 1 .. K : i # 0
    BY <1>7
  <2> QED
    BY <1>7, <1>11, <1>12, <2>1 DEF Joined, NOISE_CLUSTERID
<1>14. DOMAIN part \subseteq Nat /\ IsFiniteSet(DOMAIN part)
  <2>1. K \in Nat /\ IsFiniteSet(0 .. K) /\ 0 .. K \subseteq Nat
    BY <1>7, FS_Interval DEF K
  <2>2. DOMAIN part \in SUBSET (0 .. K)
    BY <1>12, <2>1
  <2> QED
    BY <2>1, <2>2, FS_Subset
<1>15. \A i \in DOMAIN part : part[i] # {}
  BY <1>7, <1>12, <1>13
<1>16. Share(part, DOMAIN part, S)
  <2>1. \A i \in DOMAIN part : part[i] \subseteq S
    BY <1>7, <1>10, <1>12, <1>13
  <2>2. ASSUME NEW b \in S
        PROVE  \E i \in DOMAIN part : b \in part[i]
    BY <1>10, <1>12, <1>13
  <2>3. ASSUME NEW i \in DOMAIN part, NEW j \in DOMAIN part, i # j
        PROVE  part[i] \cap part[j] = {}
    <3>1. \A m \in 1 .. K : r[m] \cap noise = {}
      BY <1>10
    <3> QED
      BY <1>7, <1>12, <1>13, <2>3, <3>1
  <2> QED
    BY <2>1, <2>2, <2>3 DEF Share
<1>17. ASSUME NOISE_CLUSTERID \in DOMAIN part
       PROVE  Sparse(part[NOISE_CLUSTERID], k)
  <2>1. part[NOISE_CLUSTERID] = noise
    BY <1>13, <1>17 DEF NOISE_CLUSTERID
  <2>2. ASSUME NEW p \in noise
        PROVE  Cardinality(Near(noise, k)[p]) < input.minPoints
    <3>1. Near(noise, k)[p] \in SUBSET near[p]
      BY <1>10 DEF Near, near
    <3>2. IsFiniteSet(near[p])
      BY <1>1, <1>2, <1>10, FS_Subset
    <3>3. /\ Cardinality(Near(noise, k)[p]) <= Cardinality(near[p])
          /\ Cardinality(Near(noise, k)[p]) \in Nat
      BY <3>1, <3>2, FS_Subset, FS_CardinalityType
    <3>4. p \in S \ UNION clusters
      BY <1>10
    <3>5. Cardinality(near[p]) < input.minPoints
      BY <1>9, <3>4
    <3> QED
      BY <1>8, <3>3, <3>4, <3>5
  <2> QED
    BY <2>1, <2>2 DEF Sparse
<1>18. ASSUME Sparse(S, k)
       PROVE  DOMAIN part \subseteq {NOISE_CLUSTERID}
  <2>1. K = 0
    BY <1>9, <1>18, FS_EmptySet DEF K
  <2> QED
    BY <1>12, <2>1 DEF NOISE_CLUSTERID
<1> QED
  BY <1>14, <1>15, <1>16, <1>17, <1>18 DEF PartsOf, part

\* Each part is in a column, and no column has more bursts of it than there are tasks.
LEMMA PartsOccur ==
  ASSUME input \in Inputs, NEW S \in SUBSET Burst, NEW part,
         \A i \in DOMAIN part : part[i] \subseteq S /\ part[i] # {},
         NEW o \in OccurrencesIn(S, part), NEW i \in DOMAIN part
  PROVE  /\ DOMAIN o = DOMAIN part /\ o[i] \in Nat \ {0}
         /\ NumberOfSequences(S) \in Nat \ {0} /\ Cardinality(part[i]) \in Nat
         /\ Cardinality(part[i]) <= NumberOfSequences(S) * o[i]
<1>1. PICK A \in AlignmentsOf[S] :
        o = [j \in DOMAIN part |-> Cardinality({C \in A : C \cap part[j] # {}})]
  BY DEF OccurrencesIn
<1>2. IsFiniteSet(S) /\ S \in SUBSET Nat /\ S \in SUBSET (1 .. N)
  BY InputFacts, FS_Subset
<1>3. A \in Alignments(S)
  BY <1>1, <1>2 DEF AlignmentsOf
<1>4. Columns(A, S)
  BY <1>2, <1>3, AlignmentColumns
<1>5. /\ A \subseteq SUBSET S /\ \A b \in S : \E C \in A : b \in C
      /\ \A C \in A : \A b, c \in C : Task[b] = Task[c] => b = c
  BY <1>4 DEF Columns
<1> DEFINE T == {C \in A : C \cap part[i] # {}}
           tasks == {Task[b] : b \in S}
           s == Cardinality(tasks)
<1>6. DOMAIN o = DOMAIN part /\ o[i] = Cardinality(T)
  BY <1>1
<1>7. IsFiniteSet(T)
  <2>1. IsFiniteSet(SUBSET S)
    BY <1>2, FS_SUBSET
  <2>2. T \in SUBSET SUBSET S
    BY <1>5
  <2> QED
    BY <2>1, <2>2, FS_Subset
<1>8. part[i] \in SUBSET UNION T /\ part[i] # {} /\ T # {} /\ S # {}
  BY <1>5
<1>9. IsFiniteSet(tasks) /\ s \in Nat
  <2>1. \A t \in tasks : \E b \in S : Task[b] = t
    OBVIOUS
  <2> QED
    BY <1>2, <2>1, FiniteImage, FS_CardinalityType
<1>10. s # 0 /\ Cardinality(T) \in Nat \ {0}
  <2>1. tasks # {}
    BY <1>8
  <2> QED
    BY <1>7, <1>8, <1>9, <2>1, FS_EmptySet, FS_CardinalityType
<1>11. ASSUME NEW C \in T
       PROVE  IsFiniteSet(C) /\ Cardinality(C) <= s
  <2> DEFINE f == [b \in C |-> Task[b]]
  <2>1. C \subseteq S /\ \A b, c \in C : Task[b] = Task[c] => b = c
    BY <1>5
  <2>2. f \in Injection(C, tasks)
    BY <2>1 DEF Injection, IsInjective
  <2> HIDE DEF f, tasks
  <2> QED
    BY <1>9, <2>2, FS_Injection
<1> HIDE DEF T
<1>12. IsFiniteSet(UNION T) /\ Cardinality(UNION T) <= s * Cardinality(T)
  <2> HIDE DEF s
  <2> QED
    BY <1>7, <1>9, <1>11, UnionSize
<1>13. /\ Cardinality(part[i]) <= Cardinality(UNION T)
       /\ Cardinality(part[i]) \in Nat /\ Cardinality(UNION T) \in Nat
  BY <1>8, <1>12, FS_Subset, FS_CardinalityType
<1>14. NumberOfSequences(S) = s
  BY DEF NumberOfSequences
<1> HIDE DEF s
<1>15. s * Cardinality(T) \in Nat
  BY <1>9, <1>10
<1>16. Cardinality(part[i]) <= s * Cardinality(T)
  BY <1>12, <1>13, <1>15
<1> QED
  BY <1>6, <1>9, <1>10, <1>13, <1>14, <1>16

\* So that no score exceeds One.
LEMMA ScoreAtMostOne ==
  ASSUME NEW S, NEW B, NEW o \in Nat \ {0}, NumberOfSequences(S) \in Nat \ {0},
         Cardinality(B) \in Nat, Cardinality(B) <= NumberOfSequences(S) * o, One \in Nat
  PROVE  ClusterScore(S, B, o) \in 0 .. One
<1> DEFINE s == NumberOfSequences(S)
           y == s * o
           c == Cardinality(B)
<1>1. y \in Nat \ {0} /\ c \in Nat /\ c <= y
  OBVIOUS
<1>2. ClusterScore(S, B, o) = (c * One) \div y
  BY DEF ClusterScore
<1> HIDE DEF y, c, s
<1>3. c * One <= y * One /\ c * One \in Nat
  BY <1>1
<1>4. \A x \in Nat : x <= y * One => x \div y \in 0 .. One
  BY <1>1
<1> QED
  BY <1>2, <1>3, <1>4

\* Nor is a duration anything but a number.
LEMMA DurationIsNumber ==
  ASSUME input \in Inputs, NEW B \in SUBSET Burst
  PROVE  TotalDuration(B) \in Nat
<1>1. IsFiniteSet(B) /\ \A b \in B : Duration[b] \in Nat
  BY InputFacts, FS_Subset
<1>2. Sum(Duration, B) \in Nat
  BY <1>1, SumOfNumbers
<1>3. TotalDuration(B) = Sum(Duration, B)
  BY Zenon DEF TotalDuration, Sum
<1> QED
  BY <1>2, <1>3

\* What a member of GenerateNodes says of the bursts S at level l.
NewNodes(new, S, l) ==
  /\ PartsOf(new.bursts, S, l)
  /\ DOMAIN new.occurrences = DOMAIN new.bursts
  /\ \A i \in DOMAIN new.bursts :
       /\ new.occurrences[i] \in Nat
       /\ ClusterScore(S, new.bursts[i], new.occurrences[i]) \in 0 .. One
       /\ TotalDuration(new.bursts[i]) \in Nat

LEMMA GeneratedNodes ==
  ASSUME input \in Inputs, NEW S \in SUBSET Burst, NEW l \in Nat, NEW new \in GenerateNodes(S, l)
  PROVE  NewNodes(new, S, l)
<1>1. PICK clusters \in RunDBSCAN(Near(S, l), input.minPoints) :
        new \in UNION {LET part == Parts(S, r)
                       IN  {[bursts |-> part, occurrences |-> o] : o \in OccurrencesIn(S, part)} :
                         r \in TranslatedIDs(clusters)}
  BY DEF GenerateNodes
<1>2. PICK r \in TranslatedIDs(clusters) : \E o \in OccurrencesIn(S, Parts(S, r)) :
        new = [bursts |-> Parts(S, r), occurrences |-> o]
  BY <1>1
<1> DEFINE part == Parts(S, r)
<1>3. PICK o \in OccurrencesIn(S, part) : new = [bursts |-> part, occurrences |-> o]
  BY <1>2
<1>4. PartsOf(part, S, l)
  BY AnalysisGivesParts
<1> HIDE DEF part
<1>5. /\ \A i \in DOMAIN part : part[i] \subseteq S /\ part[i] # {}
      /\ DOMAIN o = DOMAIN part
  BY <1>4 DEF PartsOf, Share, OccurrencesIn
<1>6. ASSUME NEW i \in DOMAIN part
      PROVE  /\ o[i] \in Nat /\ ClusterScore(S, part[i], o[i]) \in 0 .. One
             /\ TotalDuration(part[i]) \in Nat
  <2>1. /\ o[i] \in Nat \ {0} /\ NumberOfSequences(S) \in Nat \ {0}
        /\ Cardinality(part[i]) \in Nat /\ Cardinality(part[i]) <= NumberOfSequences(S) * o[i]
    BY <1>5, PartsOccur
  <2>2. ClusterScore(S, part[i], o[i]) \in 0 .. One
    BY <2>1, ScoreAtMostOne, InputFacts
  <2>3. part[i] \in SUBSET Burst
    BY <1>5
  <2> QED
    BY <2>1, <2>2, <2>3, DurationIsNumber
<1>7. new.bursts = part /\ new.occurrences = o
  BY <1>3
<1> QED
  BY <1>4, <1>5, <1>6, <1>7 DEF NewNodes

-----------------------------------------------------------------------------
(* The new nodes *)

\* How many of S have a key not beyond that of x.
Rank(S, key, x) == Cardinality({y \in S : key[y] <= key[x]})

\* It orders S from 1.
LEMMA RankOrders ==
  ASSUME NEW S, IsFiniteSet(S), NEW key, \A x \in S : key[x] \in Nat, NEW x \in S
  PROVE  /\ Rank(S, key, x) \in 1 .. Cardinality(S) /\ Cardinality(S) \in Nat
         /\ \A y \in S : key[x] < key[y] => Rank(S, key, x) < Rank(S, key, y)
<1> DEFINE upto(y) == {z \in S : key[z] <= key[y]}
<1>1. ASSUME NEW y \in S
      PROVE  /\ y \in upto(y) /\ IsFiniteSet(upto(y)) /\ Cardinality(upto(y)) \in Nat
             /\ Cardinality(upto(y)) <= Cardinality(S) /\ Cardinality(S) \in Nat
             /\ Cardinality(upto(y)) # 0
  <2>1. upto(y) \in SUBSET S /\ y \in upto(y)
    OBVIOUS
  <2> HIDE DEF upto
  <2>2. IsFiniteSet(upto(y)) /\ Cardinality(upto(y)) <= Cardinality(S)
    BY <2>1, FS_Subset
  <2>3. Cardinality(upto(y)) # 0
    BY <2>1, <2>2, FS_EmptySet
  <2> QED
    BY <2>1, <2>2, <2>3, FS_CardinalityType
<1>2. ASSUME NEW y \in S, key[x] < key[y]
      PROVE  Cardinality(upto(x)) < Cardinality(upto(y))
  <2>1. upto(x) \in SUBSET upto(y) /\ y \notin upto(x)
    BY <1>2
  <2> HIDE DEF upto
  <2>2. upto(x) # upto(y)
    BY <1>1, <2>1
  <2>3. Cardinality(upto(x)) <= Cardinality(upto(y)) /\ Cardinality(upto(x)) # Cardinality(upto(y))
    BY <1>1, <2>1, <2>2, FS_Subset
  <2> QED
    BY <1>1, <2>3
<1>3. \A y \in S : Rank(S, key, y) = Cardinality(upto(y))
  BY DEF Rank
<1> HIDE DEF upto
<1>4. Rank(S, key, x) \in 1 .. Cardinality(S) /\ Cardinality(S) \in Nat
  BY <1>1, <1>3
<1> QED
  BY <1>2, <1>3, <1>4

\* The nodes C of level l are new, children of p with the bursts S.
Grown(C, l, p, S) ==
  /\ C \cap DOMAIN bursts = {} /\ IsFiniteSet(C) /\ C \subseteq {l} \X (Nat \ {0})
  /\ DOMAIN bursts' = DOMAIN bursts \cup C /\ DOMAIN id' = DOMAIN id \cup C
  /\ DOMAIN score' = DOMAIN score \cup C /\ DOMAIN occurrences' = DOMAIN occurrences \cup C
  /\ DOMAIN duration' = DOMAIN duration \cup C /\ DOMAIN parent' = DOMAIN parent \cup C
  /\ \A n \in DOMAIN bursts :
       /\ bursts'[n] = bursts[n] /\ id'[n] = id[n] /\ score'[n] = score[n]
       /\ occurrences'[n] = occurrences[n] /\ duration'[n] = duration[n]
       /\ parent'[n] = parent[n]
  /\ \A c \in C :
       /\ bursts'[c] # {} /\ id'[c] \in Nat /\ score'[c] \in 0 .. One
       /\ occurrences'[c] \in Nat /\ duration'[c] \in Nat /\ parent'[c] = p
  /\ \A c, d \in C : c # d => id'[c] # id'[d]
  /\ Share(bursts', C, S)
  /\ \A c \in C : id'[c] = NOISE_CLUSTERID => Sparse(bursts'[c], l)
  /\ Sparse(S, l) => \A c \in C : id'[c] = NOISE_CLUSTERID
  /\ \A n \in C \cup Level(l) : n[2] <= Cardinality(C \cup Level(l))

\* AddNodes adds nodes that were not there.
LEMMA AddedNodes ==
  ASSUME TypeOK, IsFiniteSet(DOMAIN bursts), NEW l \in 1 .. Steps,
         \A n \in Level(l) : n[2] <= Cardinality(Level(l)),
         NEW S \in SUBSET Burst, NEW new \in GenerateNodes(S, l), NEW p, AddNodes(new, l, p, S)
  PROVE  Grown(DOMAIN id' \ DOMAIN id, l, p, S)
<1> DEFINE ids == DOMAIN new.bursts
           L == Cardinality(Level(l))
           key == [i \in ids |-> i]
           place == [i \in ids |-> <<l, L + Cardinality({j \in ids : j <= i})>>]
           C == {place[i] : i \in ids}
           Which(c) == CHOOSE i \in ids : place[i] = c
<1>1. /\ input \in Inputs /\ DOMAIN bursts \subseteq (1 .. Steps) \X (Nat \ {0})
      /\ DOMAIN id = DOMAIN bursts /\ DOMAIN score = DOMAIN bursts
      /\ DOMAIN occurrences = DOMAIN bursts /\ DOMAIN duration = DOMAIN bursts
      /\ DOMAIN parent = DOMAIN bursts
  BY DEF TypeOK
<1>2. NewNodes(new, S, l)
  <2>1. l \in Nat
    BY <1>1, InputFacts
  <2> QED
    BY <1>1, <2>1, GeneratedNodes
<1>3. /\ ids \subseteq Nat /\ IsFiniteSet(ids) /\ \A i \in ids : new.bursts[i] # {}
      /\ Share(new.bursts, ids, S)
      /\ 0 \in ids => Sparse(new.bursts[0], l)
      /\ Sparse(S, l) => \A i \in ids : i = 0
      /\ DOMAIN new.occurrences = ids
      /\ \A i \in ids : /\ new.occurrences[i] \in Nat
                        /\ ClusterScore(S, new.bursts[i], new.occurrences[i]) \in 0 .. One
                        /\ TotalDuration(new.bursts[i]) \in Nat
  BY <1>2 DEF NewNodes, PartsOf, NOISE_CLUSTERID
<1>4. /\ bursts' = Joined(bursts, [c \in C |-> new.bursts[Which(c)]])
      /\ id' = Joined(id, [c \in C |-> Which(c)])
      /\ occurrences' = Joined(occurrences, [c \in C |-> new.occurrences[Which(c)]])
      /\ score' = Joined(score, [c \in C |->
                    ClusterScore(S, new.bursts[Which(c)], new.occurrences[Which(c)])])
      /\ duration' = Joined(duration, [c \in C |-> TotalDuration(new.bursts[Which(c)])])
      /\ parent' = Joined(parent, [c \in C |-> p])
  BY DEF AddNodes
<1>5. IsFiniteSet(Level(l)) /\ L \in Nat
  <2>1. Level(l) \in SUBSET DOMAIN bursts
    BY <1>1 DEF Level
  <2> QED
    BY <2>1, FS_Subset, FS_CardinalityType
<1>6. ASSUME NEW i \in ids
      PROVE  /\ place[i] = <<l, L + Rank(ids, key, i)>>
             /\ Rank(ids, key, i) \in 1 .. Cardinality(ids) /\ Cardinality(ids) \in Nat
             /\ \A j \in ids : i < j => Rank(ids, key, i) < Rank(ids, key, j)
  <2>1. {j \in ids : j <= i} = {j \in ids : key[j] <= key[i]}
    OBVIOUS
  <2>2. place[i] = <<l, L + Rank(ids, key, i)>>
    BY <2>1 DEF Rank
  <2>3. \A j \in ids : key[j] = j /\ key[j] \in Nat
    BY <1>3
  <2> HIDE DEF ids, key
  <2> QED
    BY <1>3, <2>2, <2>3, RankOrders
<1>7. \A i, j \in ids : place[i] = place[j] => i = j
  <2> SUFFICES ASSUME NEW i \in ids, NEW j \in ids, i # j
               PROVE  place[i] # place[j]
    OBVIOUS
  <2>1. i < j \/ j < i
    BY <1>3
  <2> HIDE DEF ids, key, place, L
  <2>2. /\ Rank(ids, key, i) \in 1 .. Cardinality(ids) /\ Rank(ids, key, j) \in 1 .. Cardinality(ids)
        /\ Cardinality(ids) \in Nat
        /\ i < j => Rank(ids, key, i) < Rank(ids, key, j)
        /\ j < i => Rank(ids, key, j) < Rank(ids, key, i)
    BY <1>6
  <2>3. Rank(ids, key, i) # Rank(ids, key, j)
    BY <2>1, <2>2
  <2>4. place[i] = <<l, L + Rank(ids, key, i)>> /\ place[j] = <<l, L + Rank(ids, key, j)>>
    BY <1>6
  <2> QED
    BY <1>5, <2>2, <2>3, <2>4
<1>8. ASSUME NEW c \in C
      PROVE  Which(c) \in ids /\ place[Which(c)] = c
  OBVIOUS
<1>9. \A i \in ids : place[i] \in C /\ Which(place[i]) = i
  <2> SUFFICES ASSUME NEW i \in ids
               PROVE  Which(place[i]) = i
    OBVIOUS
  <2>1. place[i] \in C
    OBVIOUS
  <2>2. Which(place[i]) \in ids /\ place[Which(place[i])] = place[i]
    BY <1>8, <2>1
  <2> HIDE DEF Which, place
  <2> QED
    BY <1>7, <2>2
<1>10. ids \subseteq Nat /\ IsFiniteSet(C) /\ Cardinality(ids) <= Cardinality(C)
  <2>1. \A c \in C : \E i \in ids : place[i] = c
    OBVIOUS
  <2>2. IsFiniteSet(C)
    <3> HIDE DEF C, place
    <3> QED
      BY <1>3, <2>1, FiniteImage
  <2>3. place \in Injection(ids, C)
    BY <1>7 DEF Injection, IsInjective
  <2> HIDE DEF C, place
  <2> QED
    BY <1>3, <2>2, <2>3, FS_Injection
<1> HIDE DEF Which, place, key
<1>11. \A c \in C : c = <<l, c[2]>> /\ c[2] \in Nat \ {0} /\ c[2] > L
                     /\ c[2] <= L + Cardinality(ids) /\ c \in {l} \X (Nat \ {0})
  <2> SUFFICES ASSUME NEW i \in ids
               PROVE  LET c == place[i]
                      IN  /\ c = <<l, c[2]>> /\ c[2] \in Nat \ {0} /\ c[2] > L
                          /\ c[2] <= L + Cardinality(ids) /\ c \in {l} \X (Nat \ {0})
    OBVIOUS
  <2>1. place[i] = <<l, L + Rank(ids, key, i)>> /\ Rank(ids, key, i) \in 1 .. Cardinality(ids)
        /\ Cardinality(ids) \in Nat
    BY <1>6
  <2> HIDE DEF ids, L
  <2> QED
    BY <1>5, <2>1
<1> HIDE DEF C
<1>12. C \cap DOMAIN bursts = {}
  <2> SUFFICES ASSUME NEW c \in C, c \in DOMAIN bursts
               PROVE  FALSE
    OBVIOUS
  <2>1. c \in Level(l)
    BY <1>1, <1>11 DEF Level
  <2>2. c[2] <= L /\ c[2] > L /\ c[2] \in Nat
    BY <1>11, <2>1
  <2> HIDE DEF L
  <2> QED
    BY <1>5, <2>2
<1>13. /\ DOMAIN bursts' = DOMAIN bursts \cup C /\ DOMAIN id' = DOMAIN id \cup C
       /\ DOMAIN score' = DOMAIN score \cup C /\ DOMAIN occurrences' = DOMAIN occurrences \cup C
       /\ DOMAIN duration' = DOMAIN duration \cup C /\ DOMAIN parent' = DOMAIN parent \cup C
  BY <1>4 DEF Joined
<1>14. ASSUME NEW n \in DOMAIN bursts
       PROVE  /\ bursts'[n] = bursts[n] /\ id'[n] = id[n] /\ score'[n] = score[n]
              /\ occurrences'[n] = occurrences[n] /\ duration'[n] = duration[n]
              /\ parent'[n] = parent[n]
  BY <1>1, <1>4 DEF Joined
<1>15. ASSUME NEW c \in C
       PROVE  /\ bursts'[c] = new.bursts[Which(c)] /\ id'[c] = Which(c)
              /\ score'[c] = ClusterScore(S, new.bursts[Which(c)], new.occurrences[Which(c)])
              /\ occurrences'[c] = new.occurrences[Which(c)]
              /\ duration'[c] = TotalDuration(new.bursts[Which(c)])
              /\ parent'[c] = p
  BY <1>1, <1>4, <1>12 DEF Joined
<1> HIDE DEF ids
<1>16. ASSUME NEW c \in C
       PROVE  /\ bursts'[c] # {} /\ id'[c] \in Nat /\ score'[c] \in 0 .. One
              /\ occurrences'[c] \in Nat /\ duration'[c] \in Nat /\ parent'[c] = p
              /\ id'[c] = NOISE_CLUSTERID => Sparse(bursts'[c], l)
              /\ Sparse(S, l) => id'[c] = NOISE_CLUSTERID
  <2>1. Which(c) \in ids
    BY <1>8
  <2>2. /\ bursts'[c] # {} /\ id'[c] \in Nat /\ score'[c] \in 0 .. One
        /\ occurrences'[c] \in Nat /\ duration'[c] \in Nat /\ parent'[c] = p
    BY <1>3, <1>15, <2>1
  <2>3. id'[c] = NOISE_CLUSTERID => Sparse(bursts'[c], l)
    <3> SUFFICES ASSUME id'[c] = NOISE_CLUSTERID
                 PROVE  Sparse(bursts'[c], l)
      OBVIOUS
    <3>1. Which(c) = 0
      BY <1>15 DEF NOISE_CLUSTERID
    <3>2. bursts'[c] = new.bursts[0] /\ 0 \in ids
      BY <1>15, <2>1, <3>1
    <3> QED
      BY <1>3, <3>2
  <2> QED
    BY <1>3, <1>15, <2>1, <2>2, <2>3 DEF NOISE_CLUSTERID
<1>17. \A c, d \in C : c # d => Which(c) # Which(d)
  BY <1>8
<1>18. Share(bursts', C, S)
  <2>1. \A c \in C : bursts'[c] \subseteq S
    BY <1>3, <1>8, <1>15 DEF Share
  <2>2. ASSUME NEW b \in S
        PROVE  \E c \in C : b \in bursts'[c]
    <3>1. PICK i \in ids : b \in new.bursts[i]
      BY <1>3 DEF Share
    <3>2. place[i] \in C /\ Which(place[i]) = i
      BY <1>9
    <3>3. bursts'[place[i]] = new.bursts[i]
      BY <1>15, <3>2
    <3> QED
      BY <3>1, <3>2, <3>3
  <2>3. ASSUME NEW c \in C, NEW d \in C, c # d
        PROVE  bursts'[c] \cap bursts'[d] = {}
    <3>1. Which(c) # Which(d) /\ Which(c) \in ids /\ Which(d) \in ids
      BY <1>8, <1>17, <2>3
    <3>2. new.bursts[Which(c)] \cap new.bursts[Which(d)] = {}
      BY <1>3, <3>1 DEF Share
    <3> QED
      BY <1>15, <3>2
  <2> QED
    BY <2>1, <2>2, <2>3 DEF Share
<1>19. \A n \in C \cup Level(l) : n[2] <= Cardinality(C \cup Level(l))
  <2>1. C \cap Level(l) = {}
    BY <1>1, <1>12 DEF Level
  <2>2. Cardinality(C \cup Level(l)) = Cardinality(C) + L /\ Cardinality(C) \in Nat
    BY <1>5, <1>10, <2>1, DisjointUnion
  <2>3. Cardinality(ids) \in Nat
    BY <1>3, FS_CardinalityType
  <2>4. \A n \in Level(l) : n[2] \in Nat /\ n[2] <= L
    BY <1>1 DEF Level
  <2> HIDE DEF L
  <2>5. ASSUME NEW n \in C
        PROVE  n[2] <= Cardinality(C) + L
    BY <1>5, <1>10, <1>11, <2>2, <2>3
  <2>6. ASSUME NEW n \in Level(l)
        PROVE  n[2] <= Cardinality(C) + L
    BY <1>5, <2>2, <2>4
  <2> QED
    BY <2>2, <2>5, <2>6
<1>20. DOMAIN id' \ DOMAIN id = C
  BY <1>1, <1>12, <1>13
<1>21. C \subseteq {l} \X (Nat \ {0})
  BY <1>11
<1>22. \A c, d \in C : c # d => id'[c] # id'[d]
  BY <1>15, <1>17
<1> QED
  BY <1>10, <1>12, <1>13, <1>14, <1>16, <1>18, <1>19, <1>20, <1>21, <1>22 DEF Grown

-----------------------------------------------------------------------------
(* The walk from the top *)

\* The nodes of levels 1 .. Steps.
Nodes(links) == DOMAIN links \subseteq (1 .. Steps) \X (Nat \ {0}) /\ Steps \in Nat

\* A node is of one of the levels and has a parent one level above, or the root.
LEMMA ParentsAbove ==
  ASSUME NEW links, Nodes(links), Ranked(links), NEW n \in DOMAIN links
  PROVE  /\ n[1] \in 1 .. Steps /\ n[1] \in Nat /\ n[2] \in Nat \ {0} /\ n # Root
         /\ \/ links[n] = Root /\ n[1] = 1
            \/ links[n] \in DOMAIN links /\ links[n] # Root /\ n[1] > 1
               /\ links[n][1] = n[1] - 1 /\ links[n][1] \in 1 .. Steps
<1>1. \A m \in DOMAIN links : m[1] \in 1 .. Steps /\ m[2] \in Nat \ {0} /\ m # Root
  <2>1. \A x \in (1 .. Steps) \X (Nat \ {0}) : x[1] \in 1 .. Steps /\ x[2] \in Nat \ {0}
    OBVIOUS
  <2>2. Root[1] = 0
    BY DEF Root
  <2> QED
    BY <2>1, <2>2 DEF Nodes
<1>2. Steps \in Nat
  BY DEF Nodes
<1> QED
  BY <1>1, <1>2 DEF Ranked

\* What holds of the nodes without a parent, and of a node when of its parent, holds of all.
LEMMA DownTheLevels ==
  ASSUME NEW links, Nodes(links), Ranked(links), NEW X,
         \A n \in DOMAIN links : links[n] = Root => n \in X,
         \A n \in DOMAIN links : links[n] \in DOMAIN links \cap X => n \in X
  PROVE  DOMAIN links \subseteq X
<1> DEFINE S == {l \in 0 .. Steps : \A n \in DOMAIN links : n[1] = l => n \in X}
<1>1. 0 \in S
  BY ParentsAbove DEF Nodes
<1>2. ASSUME NEW l \in 1 .. Steps, l - 1 \in S
      PROVE  l \in S
  <2>1. l \in 0 .. Steps
    BY DEF Nodes
  <2> SUFFICES ASSUME NEW n \in DOMAIN links, n[1] = l
               PROVE  n \in X
    BY <2>1
  <2>2. CASE links[n] = Root
    BY <2>2
  <2>3. CASE links[n] # Root
    <3>1. links[n] \in DOMAIN links /\ links[n][1] = l - 1
      BY <2>3, ParentsAbove
    <3> QED
      BY <1>2, <3>1
  <2> QED
    BY <2>2, <2>3
<1> HIDE DEF S
<1>3. 0 .. Steps \subseteq S
  BY <1>1, <1>2, BoundedInduction DEF Nodes
<1>4. \A n \in DOMAIN links : n[1] \in 0 .. Steps
  BY ParentsAbove DEF Nodes
<1> QED
  BY <1>3, <1>4 DEF S

\* What holds of a node when of its children holds of all.
LEMMA UpTheLevels ==
  ASSUME NEW links, Nodes(links), Ranked(links), NEW X,
         \A n \in DOMAIN links : (\A c \in Under(links, n) : c \in X) => n \in X
  PROVE  DOMAIN links \subseteq X
<1> DEFINE S == {l \in 0 .. Steps : \A n \in DOMAIN links : n[1] > Steps - l => n \in X}
<1>1. 0 \in S
  BY ParentsAbove DEF Nodes
<1>2. ASSUME NEW l \in 1 .. Steps, l - 1 \in S
      PROVE  l \in S
  <2>1. l \in 0 .. Steps /\ Steps \in Nat
    BY DEF Nodes
  <2> SUFFICES ASSUME NEW n \in DOMAIN links, n[1] > Steps - l
               PROVE  n \in X
    BY <2>1
  <2> SUFFICES ASSUME NEW c \in Under(links, n)
               PROVE  c \in X
    OBVIOUS
  <2>2. c \in DOMAIN links /\ links[c] = n
    BY DEF Under
  <2>3. n # Root /\ n[1] \in Nat
    BY ParentsAbove
  <2>4. c[1] \in Nat /\ n[1] = c[1] - 1
    BY <2>2, <2>3, ParentsAbove
  <2>5. c[1] > Steps - (l - 1)
    BY <2>1, <2>3, <2>4
  <2> QED
    BY <1>2, <2>2, <2>5
<1> HIDE DEF S
<1>3. 0 .. Steps \subseteq S
  BY <1>1, <1>2, BoundedInduction DEF Nodes
<1>4. \A n \in DOMAIN links : n[1] > Steps - Steps /\ Steps \in 0 .. Steps
  BY ParentsAbove DEF Nodes
<1> QED
  BY <1>3, <1>4 DEF S

\* A holds the nodes that are led to by nodes that are not gone.
Walk(A, links, gone) ==
  /\ A \subseteq DOMAIN links
  /\ \A c \in DOMAIN links : c \in A <=> c \notin gone /\ (links[c] = Root \/ links[c] \in A)

Ends(A, links) == {n \in A : \A c \in A : links[c] # n}

\* There is one such set.
LEMMA WalkUnique ==
  ASSUME NEW links, Nodes(links), Ranked(links), NEW gone,
         NEW A, Walk(A, links, gone), NEW B, Walk(B, links, gone)
  PROVE  A = B
<1> DEFINE X == {n \in DOMAIN links : n \in A <=> n \in B}
<1>1. \A n \in DOMAIN links : links[n] = Root => n \in X
  BY DEF Walk
<1>2. \A n \in DOMAIN links : links[n] \in DOMAIN links \cap X => n \in X
  <2> SUFFICES ASSUME NEW n \in DOMAIN links, links[n] \in DOMAIN links \cap X
               PROVE  n \in A <=> n \in B
    OBVIOUS
  <2>1. links[n] \in A <=> links[n] \in B
    OBVIOUS
  <2> QED
    BY <2>1 DEF Walk
<1> HIDE DEF X
<1>3. DOMAIN links \subseteq X
  BY <1>1, <1>2, DownTheLevels
<1> QED
  BY <1>3 DEF X, Walk

\* The leaves are its ends.
LEMMA LeavesAreEnds ==
  ASSUME NEW links, Nodes(links), Ranked(links), NEW gone
  PROVE  \E A : Walk(A, links, gone) /\ Leaves(links, gone) = Ends(A, links)
<1> DEFINE D == DOMAIN links
           Onwards(v) == {c \in D : c \notin gone /\ links[c] \in v}
           Table(f) == [l \in 0 .. Steps |-> IF l = 0 THEN {Root} ELSE Onwards(f[l - 1])]
           live == CHOOSE f : f = Table(f)
           all == UNION {live[l] : l \in 1 .. Steps}
<1>1. Leaves(links, gone) = Ends(all, links)
  BY DEF Leaves, Ends
<1>2. \A v, c : c \in Onwards(v) <=> c \in D /\ c \notin gone /\ links[c] \in v
  OBVIOUS
<1> HIDE DEF Onwards
<1>3. \E f : f = Table(f)
  <2> DEFINE V == SUBSET (D \cup {Root})
             G == [k \in 1 .. Steps |-> [v \in V |-> Onwards(v)]]
  <2>1. /\ \A k \in 1 .. Steps, v \in V : G[k][v] = Onwards(v)
        /\ \A v \in V : Onwards(v) \in V
    BY <1>2
  <2>2. {Root} \in V
    OBVIOUS
  <2> HIDE DEF G, V
  <2>3. Steppable(Steps, V, {Root}, G)
    BY <2>1, <2>2 DEF Steppable, Nodes
  <2>4. PICK f \in [0 .. Steps -> V] : f[0] = {Root} /\ \A k \in 1 .. Steps : f[k] = G[k][f[k - 1]]
    <3>1. Iterated(Steps, V, {Root}, G)
      BY <2>3, IterationExists
    <3> QED
      BY <3>1 DEF Iterated
  <2>5. ASSUME NEW k \in 0 .. Steps
        PROVE  f[k] = IF k = 0 THEN {Root} ELSE Onwards(f[k - 1])
    <3>1. CASE k = 0
      BY <2>4, <3>1
    <3>2. CASE k # 0
      <4>1. k \in 1 .. Steps /\ k - 1 \in 0 .. Steps
        BY <3>2 DEF Nodes
      <4> QED
        BY <2>1, <2>4, <3>2, <4>1
    <3> QED
      BY <3>1, <3>2
  <2>6. f = [k \in 0 .. Steps |-> f[k]]
    BY <2>4
  <2>7. f = Table(f)
    BY <2>5, <2>6
  <2> QED
    BY <2>7
<1>4. live = Table(live)
  <2> HIDE DEF Table
  <2> QED
    BY <1>3
<1> HIDE DEF live
<1>5. live[0] = {Root} /\ \A k \in 1 .. Steps : live[k] = Onwards(live[k - 1])
  <2>1. \A f : f = Table(f) =>
          \A k \in 0 .. Steps : f[k] = IF k = 0 THEN {Root} ELSE Onwards(f[k - 1])
    OBVIOUS
  <2>2. 0 \in 0 .. Steps /\ \A k \in 1 .. Steps : k \in 0 .. Steps /\ k # 0
    BY DEF Nodes
  <2> HIDE DEF Table
  <2> QED
    BY <1>4, <2>1, <2>2
<1> HIDE DEF Table
<1> DEFINE S == {l \in 0 .. Steps : \A n \in live[l] : n[1] = l /\ (l > 0 => n \in D)}
<1>6. 0 .. Steps \subseteq S
  <2>1. 0 \in S
    BY <1>5 DEF Nodes, Root
  <2>2. ASSUME NEW k \in 1 .. Steps, k - 1 \in S
        PROVE  k \in S
    <3>1. k \in 0 .. Steps /\ k - 1 \in Nat /\ k \in Nat /\ k > 0
      BY DEF Nodes
    <3> SUFFICES ASSUME NEW n \in live[k]
                 PROVE  n[1] = k /\ n \in D
      BY <3>1
    <3>2. n \in D /\ links[n] \in live[k - 1]
      BY <1>2, <1>5
    <3>3. links[n][1] = k - 1
      BY <2>2, <3>2
    <3>4. CASE links[n] = Root
      <4>1. n[1] = 1 /\ links[n][1] = 0
        BY <3>2, <3>4, ParentsAbove DEF Root
      <4> QED
        BY <3>1, <3>2, <3>3, <4>1
    <3>5. CASE links[n] # Root
      <4>1. links[n][1] = n[1] - 1 /\ n[1] \in Nat
        BY <3>2, <3>5, ParentsAbove
      <4> QED
        BY <3>1, <3>2, <3>3, <4>1
    <3> QED
      BY <3>4, <3>5
  <2> HIDE DEF S
  <2> QED
    BY <2>1, <2>2, BoundedInduction DEF Nodes
<1>7. \A l \in 1 .. Steps : \A n \in live[l] : n \in D /\ n[1] = l
  BY <1>6 DEF Nodes
<1>8. \A n : n \in all <=> \E l \in 1 .. Steps : n \in live[l]
  OBVIOUS
<1> HIDE DEF all, S
<1>9. all \subseteq D
  BY <1>7, <1>8
<1>10. ASSUME NEW c \in D, c \in all
       PROVE  c \notin gone /\ (links[c] = Root \/ links[c] \in all)
  <2>1. PICK l \in 1 .. Steps : c \in live[l]
    BY <1>8, <1>10
  <2>2. c \notin gone /\ links[c] \in live[l - 1]
    BY <1>2, <1>5, <2>1
  <2>3. CASE l = 1
    BY <1>5, <2>2, <2>3
  <2>4. CASE l # 1
    <3>1. l - 1 \in 1 .. Steps
      BY <2>4 DEF Nodes
    <3> QED
      BY <1>8, <2>2, <3>1
  <2> QED
    BY <2>3, <2>4
<1>11. ASSUME NEW c \in D, c \notin gone, links[c] = Root \/ links[c] \in all
       PROVE  c \in all
  <2>1. CASE links[c] = Root
    <3>1. 1 \in 1 .. Steps /\ 1 - 1 = 0
      BY ParentsAbove DEF Nodes
    <3>2. c \in live[1]
      BY <1>2, <1>5, <1>11, <2>1, <3>1
    <3> QED
      BY <1>8, <3>1, <3>2
  <2>2. CASE links[c] \in all
    <3>1. PICK l \in 1 .. Steps : links[c] \in live[l]
      BY <1>8, <2>2
    <3>2. links[c][1] = l /\ links[c] \in D
      BY <1>7, <3>1
    <3>3. l + 1 \in 1 .. Steps /\ (l + 1) - 1 = l
      <4>1. links[c] # Root
        BY <3>2, ParentsAbove
      <4> QED
        BY <3>2, <4>1, ParentsAbove DEF Nodes
    <3>4. c \in live[l + 1]
      BY <1>2, <1>5, <1>11, <3>1, <3>3
    <3> QED
      BY <1>8, <3>3, <3>4
  <2> QED
    BY <1>11, <2>1, <2>2
<1>12. Walk(all, links, gone)
  BY <1>9, <1>10, <1>11 DEF Walk
<1> QED
  BY <1>1, <1>12

\* The live children of a node share out its bursts, if it has any.
Divided(B, A, links) ==
  /\ Share(B, A \cap Under(links, Root), Burst)
  /\ \A p \in A : A \cap Under(links, p) = {} \/ Share(B, A \cap Under(links, p), B[p])

\* Then so do the leaves those of the whole.
LEMMA EndsShare ==
  ASSUME NEW links, Nodes(links), Ranked(links), NEW gone, NEW A, Walk(A, links, gone),
         NEW B, Divided(B, A, links)
  PROVE  Share(B, Ends(A, links), Burst)
<1> DEFINE D == DOMAIN links
<1>1. /\ A \subseteq D /\ \A n \in A : links[n] = Root \/ links[n] \in A
      /\ \A n \in D : \A p : n \in Under(links, p) <=> links[n] = p
  BY DEF Walk, Under
<1>2. /\ \A n \in A : links[n] = Root => B[n] \subseteq Burst
      /\ \A n \in A : links[n] \in A => B[n] \subseteq B[links[n]]
      /\ \A m, n \in A : m # n /\ links[m] = links[n] => B[m] \cap B[n] = {}
      /\ \A b \in Burst : \E n \in A : b \in B[n]
      /\ \A p \in A : \A b \in B[p] : p \in Ends(A, links) \/ \E c \in A : links[c] = p /\ b \in B[c]
  <2>1. ASSUME NEW n \in A, links[n] = Root
        PROVE  B[n] \subseteq Burst
    BY <1>1, <2>1 DEF Divided, Share
  <2>2. ASSUME NEW n \in A, links[n] \in A
        PROVE  B[n] \subseteq B[links[n]]
    BY <1>1, <2>2 DEF Divided, Share
  <2>3. ASSUME NEW m \in A, NEW n \in A, m # n, links[m] = links[n]
        PROVE  B[m] \cap B[n] = {}
    <3>1. /\ links[m] = Root \/ links[m] \in A
          /\ m \in A \cap Under(links, links[m]) /\ n \in A \cap Under(links, links[m])
      BY <1>1, <2>3
    <3> QED
      BY <2>3, <3>1 DEF Divided, Share
  <2>4. \A b \in Burst : \E n \in A : b \in B[n]
    BY DEF Divided, Share
  <2>5. ASSUME NEW p \in A, NEW b \in B[p], p \notin Ends(A, links)
        PROVE  \E c \in A : links[c] = p /\ b \in B[c]
    <3>1. A \cap Under(links, p) # {}
      BY <1>1, <2>5 DEF Ends
    <3>2. PICK c \in A \cap Under(links, p) : b \in B[c]
      BY <3>1 DEF Divided, Share
    <3> QED
      BY <1>1, <3>2
  <2> QED
    BY <2>1, <2>2, <2>3, <2>4, <2>5
<1>3. ASSUME NEW n \in A
      PROVE  B[n] \subseteq Burst
  <2> DEFINE X == {m \in D : m \in A => B[m] \subseteq Burst}
  <2>1. \A m \in D : links[m] = Root => m \in X
    BY <1>2
  <2>2. \A m \in D : links[m] \in D \cap X => m \in X
    <3> SUFFICES ASSUME NEW m \in D, links[m] \in D, links[m] \in X, m \in A
                 PROVE  B[m] \subseteq Burst
      OBVIOUS
    <3>1. links[m] \in A
      BY <1>1, ParentsAbove
    <3> QED
      BY <1>2, <3>1
  <2> HIDE DEF X
  <2>3. D \subseteq X
    BY <2>1, <2>2, DownTheLevels
  <2> QED
    BY <1>1, <2>3 DEF X
<1>4. ASSUME NEW b \in Burst
      PROVE  \E n \in Ends(A, links) : b \in B[n]
  <2> DEFINE X == {m \in D : m \in A /\ b \in B[m] => \E n \in Ends(A, links) : b \in B[n]}
  <2>1. \A m \in D : (\A c \in Under(links, m) : c \in X) => m \in X
    <3> SUFFICES ASSUME NEW m \in D, \A c \in Under(links, m) : c \in X, m \in A, b \in B[m]
                 PROVE  \E n \in Ends(A, links) : b \in B[n]
      OBVIOUS
    <3>1. CASE m \in Ends(A, links)
      BY <3>1
    <3>2. CASE m \notin Ends(A, links)
      <4>1. PICK c \in A : links[c] = m /\ b \in B[c]
        BY <1>2, <3>2
      <4>2. c \in X
        BY <1>1, <4>1
      <4> QED
        BY <4>1, <4>2
    <3> QED
      BY <3>1, <3>2
  <2> HIDE DEF X
  <2>2. D \subseteq X
    BY <2>1, UpTheLevels
  <2>3. PICK m \in A : b \in B[m]
    BY <1>2
  <2> QED
    BY <1>1, <2>2, <2>3 DEF X
<1>5. ASSUME NEW b, NEW m \in A, NEW n \in A, b \in B[m], b \in B[n], m[1] = n[1]
      PROVE  m = n
  <2> DEFINE X == {y \in D : y \in A /\ b \in B[y] =>
                     \A x \in A : x[1] = y[1] /\ b \in B[x] => x = y}
  <2>1. \A y \in D : links[y] = Root => y \in X
    <3> SUFFICES ASSUME NEW y \in D, links[y] = Root, y \in A, b \in B[y],
                        NEW x \in A, x[1] = y[1], b \in B[x]
                 PROVE  x = y
      OBVIOUS
    <3>1. y[1] = 1 /\ links[x] = Root
      <4>1. y[1] = 1
        BY ParentsAbove
      <4> QED
        BY <1>1, <4>1, ParentsAbove
    <3> QED
      BY <1>2, <3>1
  <2>2. \A y \in D : links[y] \in D \cap X => y \in X
    <3> SUFFICES ASSUME NEW y \in D, links[y] \in D, links[y] \in X, y \in A, b \in B[y],
                        NEW x \in A, x[1] = y[1], b \in B[x]
                 PROVE  x = y
      OBVIOUS
    <3>1. links[y] \in A /\ y[1] > 1 /\ links[y][1] = y[1] - 1
      BY <1>1, ParentsAbove
    <3>2. links[x] \in A /\ links[x][1] = x[1] - 1
      BY <1>1, <3>1, ParentsAbove
    <3>3. links[x] = links[y]
      BY <1>2, <3>1, <3>2
    <3> QED
      BY <1>2, <3>3
  <2> HIDE DEF X
  <2>3. D \subseteq X
    BY <2>1, <2>2, DownTheLevels
  <2> QED
    BY <1>1, <1>5, <2>3 DEF X
<1>6. ASSUME NEW b, NEW m \in A, NEW n \in A, b \in B[m], b \in B[n], m[1] < n[1]
      PROVE  \E c \in A : links[c] = m
  <2> DEFINE X == {y \in D : y \in A /\ b \in B[y] /\ m[1] < y[1] => \E c \in A : links[c] = m}
  <2>1. \A y \in D : links[y] = Root => y \in X
    <3> SUFFICES ASSUME NEW y \in D, links[y] = Root, m[1] < y[1]
                 PROVE  FALSE
      OBVIOUS
    <3>1. y[1] = 1 /\ m[1] \in 1 .. Steps
      BY <1>1, ParentsAbove
    <3> QED
      BY <3>1
  <2>2. \A y \in D : links[y] \in D \cap X => y \in X
    <3> SUFFICES ASSUME NEW y \in D, links[y] \in D, links[y] \in X, y \in A, b \in B[y], m[1] < y[1]
                 PROVE  \E c \in A : links[c] = m
      OBVIOUS
    <3>1. /\ links[y] \in A /\ b \in B[links[y]] /\ links[y][1] = y[1] - 1 /\ y[1] \in Nat
          /\ m[1] \in Nat
      <4>1. links[y] # Root /\ links[y][1] = y[1] - 1 /\ y[1] \in Nat
        BY ParentsAbove
      <4>2. links[y] \in A
        BY <1>1, <4>1
      <4>3. m[1] \in Nat
        BY <1>1, ParentsAbove
      <4>4. B[y] \subseteq B[links[y]]
        BY <1>2, <4>2
      <4> QED
        BY <4>1, <4>2, <4>3, <4>4
    <3>2. CASE m[1] = links[y][1]
      <4>1. \A x \in A : b \in B[x] /\ m[1] = x[1] => m = x
        BY <1>5, <1>6
      <4>2. m = links[y]
        BY <3>1, <3>2, <4>1
      <4> QED
        BY <4>2
    <3>3. CASE m[1] # links[y][1]
      <4>1. m[1] < links[y][1]
        BY <3>1, <3>3
      <4> QED
        BY <3>1, <4>1
    <3> QED
      BY <3>2, <3>3
  <2> HIDE DEF X
  <2>3. D \subseteq X
    BY <2>1, <2>2, DownTheLevels
  <2> QED
    BY <1>1, <1>6, <2>3 DEF X
<1>7. ASSUME NEW m \in Ends(A, links), NEW n \in Ends(A, links), m # n
      PROVE  B[m] \cap B[n] = {}
  <2> SUFFICES ASSUME NEW b \in B[m] \cap B[n]
               PROVE  FALSE
    OBVIOUS
  <2>1. /\ m \in A /\ n \in A
        /\ \A c \in A : links[c] # m /\ links[c] # n
    BY DEF Ends
  <2>2. m[1] \in Nat /\ n[1] \in Nat
    BY <1>1, <2>1, ParentsAbove
  <2>3. m[1] = n[1] \/ m[1] < n[1] \/ n[1] < m[1]
    BY <2>2
  <2> QED
    BY <1>5, <1>6, <1>7, <2>1, <2>3
<1>8. Ends(A, links) \subseteq A
  BY DEF Ends
<1> QED
  BY <1>3, <1>4, <1>7, <1>8 DEF Share

\* In a forest the walk leads to everything that is not discarded.
LEMMA ForestWalk ==
  ASSUME NEW links, Nodes(links), Ranked(links), NEW gone, NEW B, Forest(B, links, gone)
  PROVE  /\ Walk(DOMAIN links \ gone, links, gone)
         /\ Divided(B, DOMAIN links \ gone, links)
         /\ Leaves(links, gone) = Ends(DOMAIN links \ gone, links)
         /\ Share(B, Leaves(links, gone), Burst)
<1> DEFINE A == DOMAIN links \ gone
<1>1. Walk(A, links, gone)
  <2>1. ASSUME NEW c \in DOMAIN links, c \notin gone
        PROVE  links[c] = Root \/ links[c] \in A
    <3>1. c \in Under(links, links[c])
      BY DEF Under
    <3> QED
      BY <3>1, ParentsAbove DEF Forest
  <2> QED
    BY <2>1 DEF Walk
<1>2. Divided(B, A, links)
  <2>1. A \cap Under(links, Root) = Under(links, Root)
    BY DEF Forest, Under
  <2>2. ASSUME NEW p \in A
        PROVE  A \cap Under(links, p) = {} \/ Share(B, A \cap Under(links, p), B[p])
    <3>1. CASE Under(links, p) \subseteq gone
      BY <3>1
    <3>2. CASE Under(links, p) \cap gone = {}
      <4>1. A \cap Under(links, p) = Under(links, p)
        BY <3>2 DEF Under
      <4> QED
        BY <4>1 DEF Forest
    <3> QED
      BY <3>1, <3>2 DEF Forest
  <2>3. Share(B, A \cap Under(links, Root), Burst)
    BY <2>1 DEF Forest
  <2> QED
    BY <2>2, <2>3 DEF Divided
<1>3. PICK W : Walk(W, links, gone) /\ Leaves(links, gone) = Ends(W, links)
  BY LeavesAreEnds
<1>4. W = A
  BY <1>1, <1>3, WalkUnique
<1> HIDE DEF A
<1>5. Share(B, Ends(A, links), Burst)
  BY <1>1, <1>2, EndsShare
<1> QED
  BY <1>1, <1>2, <1>3, <1>4, <1>5 DEF A

\* Where ids keep to lines of the tree the ends of a walk have different ones.
LEMMA EndsNamedApart ==
  ASSUME NEW links, Nodes(links), Ranked(links), NEW gone, NEW A, Walk(A, links, gone),
         NEW M, A \subseteq M, NEW names, LineageOf(names, links, M),
         NEW m \in Ends(A, links), NEW n \in Ends(A, links), m # n, names[m] = names[n]
  PROVE  names[m] = NOISE_CLUSTERID
<1> DEFINE D == DOMAIN links
<1>1. A \subseteq D /\ \A x \in A : links[x] = Root \/ links[x] \in A
  BY DEF Walk
<1>2. ASSUME NEW x \in A, NEW y \in A, x # y, names[x] = names[y],
             names[x] # NOISE_CLUSTERID, x[1] <= y[1]
      PROVE  \E c \in A : links[c] = x
  <2> DEFINE Other(z) == /\ z \in A /\ x # z /\ names[x] = names[z] /\ x[1] <= z[1]
             X == {z \in D : Other(z) => \E c \in A : links[c] = x}
  <2>1. \A z \in A : Other(z) => z[1] > 1 /\ names[links[z]] = names[z] /\ x[1] < z[1]
    BY <1>2 DEF LineageOf
  <2>2. \A z \in D : links[z] = Root => z \in X
    <3> SUFFICES ASSUME NEW z \in D, links[z] = Root, Other(z)
                 PROVE  FALSE
      OBVIOUS
    <3>1. z[1] = 1 /\ z[1] > 1
      BY <2>1, ParentsAbove
    <3> QED
      BY <3>1
  <2>3. \A z \in D : links[z] \in D \cap X => z \in X
    <3> SUFFICES ASSUME NEW z \in D, links[z] \in D, links[z] \in X, Other(z)
                 PROVE  \E c \in A : links[c] = x
      OBVIOUS
    <3>1. z[1] > 1 /\ names[links[z]] = names[z] /\ x[1] < z[1]
      BY <2>1
    <3>2. links[z] # Root /\ links[z][1] = z[1] - 1 /\ z[1] \in Nat /\ x[1] \in Nat
      BY <1>1, <3>1, ParentsAbove
    <3>3. links[z] \in A /\ x[1] <= links[z][1]
      BY <1>1, <3>1, <3>2
    <3>4. CASE links[z] = x
      BY <3>4
    <3>5. CASE links[z] # x
      <4>1. Other(links[z])
        BY <3>1, <3>3, <3>5
      <4> QED
        BY <4>1
    <3> QED
      BY <3>4, <3>5
  <2> HIDE DEF X
  <2>4. D \subseteq X
    BY <2>2, <2>3, DownTheLevels
  <2>5. y \in X
    BY <1>1, <2>4
  <2> QED
    BY <1>2, <2>5 DEF X
<1>3. m \in A /\ n \in A /\ \A c \in A : links[c] # m /\ links[c] # n
  BY DEF Ends
<1>4. m[1] \in Nat /\ n[1] \in Nat
  BY <1>1, <1>3, ParentsAbove
<1>5. m[1] <= n[1] \/ n[1] <= m[1]
  BY <1>4
<1>6. CASE m[1] <= n[1]
  BY <1>2, <1>3, <1>6
<1>7. CASE n[1] <= m[1]
  BY <1>2, <1>3, <1>7
<1> QED
  BY <1>5, <1>6, <1>7

\* The assignment gives each burst the name of its leaf.
LEMMA AssignmentLabels ==
  ASSUME NEW B, NEW names, NEW links, NEW gone, Share(B, Leaves(links, gone), Burst)
  PROVE  Labels(GetAssignment(B, names, links, gone), B, Leaves(links, gone), names)
<1> DEFINE L == Leaves(links, gone)
           P == GetAssignment(B, names, links, gone)
           Of(b) == CHOOSE n \in L : b \in B[n]
<1>1. P = [b \in UNION {B[n] : n \in L} |-> names[Of(b)]]
  BY DEF GetAssignment
<1>2. /\ \A n \in L : B[n] \subseteq Burst
      /\ \A b \in Burst : \E n \in L : b \in B[n]
      /\ \A m, n \in L : m # n => B[m] \cap B[n] = {}
  BY DEF Share
<1> HIDE DEF L, P
<1>3. UNION {B[n] : n \in L} = Burst
  <2>1. /\ \A b \in Burst : b \in UNION {B[n] : n \in L}
        /\ \A b \in UNION {B[n] : n \in L} : b \in Burst
    BY <1>2
  <2> QED
    BY <2>1
<1>4. ASSUME NEW n \in L, NEW b \in B[n]
      PROVE  P[b] = names[n]
  <2>1. Of(b) \in L /\ b \in B[Of(b)]
    BY <1>4
  <2> HIDE DEF Of
  <2>2. Of(b) = n
    BY <1>2, <1>4, <2>1
  <2>3. b \in Burst
    BY <1>2, <1>4
  <2> QED
    BY <1>1, <1>3, <2>2, <2>3
<1>5. DOMAIN P = Burst
  BY <1>1, <1>3
<1> QED
  BY <1>4, <1>5 DEF Labels, L, P

\* The partition it makes has the types of one.
LEMMA LabelsAreNumbers ==
  ASSUME NEW P, NEW B, NEW L, NEW names, Labels(P, B, L, names), Share(B, L, Burst),
         \A n \in L : names[n] \in Nat
  PROVE  \A b \in DOMAIN P : b \in Burst /\ P[b] \in Nat
BY DEF Labels, Share

-----------------------------------------------------------------------------
(* The steps *)

\* The types of the nodes.
NodesTyped ==
  /\ DOMAIN bursts \subseteq (1 .. Steps) \X (Nat \ {0})
  /\ DOMAIN id = DOMAIN bursts /\ DOMAIN score = DOMAIN bursts
  /\ DOMAIN occurrences = DOMAIN bursts /\ DOMAIN duration = DOMAIN bursts
  /\ DOMAIN parent = DOMAIN bursts
  /\ \A n \in DOMAIN bursts :
       /\ bursts[n] \subseteq Burst
       /\ id[n] \in Nat /\ score[n] \in 0 .. One
       /\ occurrences[n] \in Nat /\ duration[n] \in Nat
       /\ parent[n] = Root \/ parent[n] \in DOMAIN bursts

LEMMA GrownTyped ==
  ASSUME NodesTyped, IsFiniteSet(DOMAIN bursts), input' = input,
         NEW l \in 1 .. Steps, NEW p, p = Root \/ p \in DOMAIN bursts,
         NEW S \in SUBSET Burst, NEW C, Grown(C, l, p, S)
  PROVE  NodesTyped' /\ IsFiniteSet(DOMAIN bursts')
<1>1. DOMAIN bursts' = DOMAIN bursts \cup C /\ IsFiniteSet(DOMAIN bursts')
  <2>1. IsFiniteSet(C) /\ DOMAIN bursts' = DOMAIN bursts \cup C
    BY DEF Grown
  <2>2. IsFiniteSet(DOMAIN bursts \cup C)
    BY <2>1, FS_Union
  <2> QED
    BY <2>1, <2>2
<1>2. DOMAIN bursts' \subseteq (1 .. Steps) \X (Nat \ {0})
  BY <1>1 DEF Grown, NodesTyped
<1>3. /\ DOMAIN id' = DOMAIN bursts' /\ DOMAIN score' = DOMAIN bursts'
      /\ DOMAIN occurrences' = DOMAIN bursts' /\ DOMAIN duration' = DOMAIN bursts'
      /\ DOMAIN parent' = DOMAIN bursts'
  BY <1>1 DEF Grown, NodesTyped
<1>4. Burst' = Burst
  BY DEF Burst
<1>5. ASSUME NEW n \in DOMAIN bursts'
      PROVE  /\ bursts'[n] \subseteq Burst
             /\ id'[n] \in Nat /\ score'[n] \in 0 .. One
             /\ occurrences'[n] \in Nat /\ duration'[n] \in Nat
             /\ parent'[n] = Root \/ parent'[n] \in DOMAIN bursts'
  <2>1. CASE n \in DOMAIN bursts
    BY <1>1, <2>1 DEF Grown, NodesTyped
  <2>2. CASE n \in C
    BY <1>1, <2>2 DEF Grown, Share
  <2> QED
    BY <1>1, <2>1, <2>2
<1> QED
  BY <1>1, <1>2, <1>3, <1>4, <1>5 DEF NodesTyped

\* Sharing out depends on the bursts of the nodes in question alone.
LEMMA ShareSame ==
  ASSUME NEW B, NEW B2, NEW L, NEW S, Share(B, L, S), \A n \in L : B2[n] = B[n]
  PROVE  Share(B2, L, S)
BY DEF Share

\* The parts of the type invariant.
LEMMA TypesAre ==
  TypeOK <=> /\ input \in Inputs
             /\ pc \in {"first", "step", "prune", "done", "failed", "crashed"}
             /\ step \in 1 .. Steps /\ at \in Nat \ {0} /\ stop \in BOOLEAN
             /\ NodesTyped /\ discarded \subseteq DOMAIN bursts
             /\ \A b \in DOMAIN partition : b \in Burst /\ partition[b] \in Nat
BY DEF TypeOK, NodesTyped

\* The links of a typed tree are links between nodes.
LEMMA TypedLinks ==
  ASSUME input \in Inputs, NodesTyped
  PROVE  Nodes(parent) /\ DOMAIN parent = DOMAIN bursts /\ DOMAIN id = DOMAIN bursts
BY InputFacts DEF NodesTyped, Nodes

\* After the first analysis the nodes of the first level share out the bursts.
LEMMA FirstStepKeeps ==
  ASSUME IInv, RunFirstStep
  PROVE  IInv'
<1>1. /\ TypeOK /\ input \in Inputs /\ NodesTyped /\ IsFiniteSet(DOMAIN bursts)
      /\ DOMAIN bursts = {} /\ DOMAIN id = {} /\ discarded = {} /\ step = 1 /\ at = 1
  BY TypesAre DEF IInv, RunFirstStep, Analysed, NodesTyped
<1>2. /\ discarded' = {} /\ step' = 2 /\ stop' = TRUE /\ at' = 1 /\ input' = input
      /\ pc' \in {"step", "failed"}
      /\ partition' = GetAssignment(bursts', id', parent', discarded')
  BY <1>1 DEF RunFirstStep, Return, GeneratePartition
<1>3. PICK new \in GenerateNodes(Burst, 1) : AddNodes(new, 1, Root, Burst)
  BY DEF RunFirstStep
<1> DEFINE C == DOMAIN id' \ DOMAIN id
           D == DOMAIN bursts'
<1>4. 1 \in 1 .. Steps /\ Level(1) = {} /\ 2 \in 1 .. Steps
  BY <1>1, InputFacts DEF Level
<1>5. Grown(C, 1, Root, Burst)
  BY <1>1, <1>3, <1>4, AddedNodes
<1>6. NodesTyped' /\ IsFiniteSet(D)
  BY <1>1, <1>2, <1>4, <1>5, GrownTyped
<1>7. Burst' = Burst
  BY <1>2 DEF Burst
<1>8. /\ D = C /\ DOMAIN parent' = C /\ DOMAIN id' = C /\ C \subseteq {1} \X (Nat \ {0})
      /\ \A c \in C : /\ bursts'[c] # {} /\ parent'[c] = Root /\ id'[c] \in Nat
                      /\ id'[c] = NOISE_CLUSTERID => Sparse(bursts'[c], 1)
      /\ \A c, d \in C : c # d => id'[c] # id'[d]
      /\ Share(bursts', C, Burst)
      /\ \A c \in C : c[2] <= Cardinality(C)
  <2>1. DOMAIN parent' = D /\ DOMAIN id' = D
    BY <1>6 DEF NodesTyped
  <2>2. C = D
    BY <1>1, <2>1
  <2>3. C \cup Level(1) = C
    BY <1>4
  <2> HIDE DEF C, D
  <2> QED
    BY <1>5, <2>1, <2>2, <2>3 DEF Grown
<1> HIDE DEF C
<1>9. \A c \in C : c[1] = 1 /\ c # Root
  BY <1>8 DEF Root
<1>10. Ranked(parent') /\ Nodes(parent')
  <2>1. Nodes(parent')
    BY <1>6, <1>8, InputFacts, <1>1 DEF NodesTyped, Nodes
  <2> QED
    BY <1>8, <1>9, <2>1 DEF Ranked
<1>11. Forest(bursts', parent', discarded')
  <2>1. Under(parent', Root) = C /\ \A p \in C : Under(parent', p) = {}
    BY <1>8, <1>9 DEF Under
  <2> QED
    BY <1>2, <1>8, <2>1 DEF Forest
<1>12. Share(bursts', Leaves(parent', discarded'), Burst) /\ Leaves(parent', discarded') \subseteq C
  <2>1. /\ Share(bursts', Leaves(parent', discarded'), Burst)
        /\ Leaves(parent', discarded') = Ends(DOMAIN parent' \ discarded', parent')
    BY <1>10, <1>11, ForestWalk
  <2> QED
    BY <1>8, <2>1 DEF Ends
<1>13. \A b \in DOMAIN partition' : b \in Burst /\ partition'[b] \in Nat
  <2> DEFINE L == Leaves(parent', discarded')
  <2>1. Labels(partition', bursts', L, id')
    BY <1>2, <1>12, AssignmentLabels
  <2>2. \A n \in L : id'[n] \in Nat
    BY <1>8, <1>12
  <2> HIDE DEF L
  <2> QED
    BY <1>12, <2>1, <2>2, LabelsAreNumbers DEF L
<1>14. TypeOK'
  <2>1. discarded' \subseteq DOMAIN bursts' /\ step' \in 1 .. Steps /\ at' \in Nat \ {0}
        /\ stop' \in BOOLEAN
    BY <1>2, <1>4
  <2> QED
    BY <1>1, <1>2, <1>6, <1>7, <1>13, <2>1 DEF TypeOK, NodesTyped
<1>15. Tree'
  <2>1. Level(1)' = C
    BY <1>8, <1>9 DEF Level
  <2>2. \A n \in D : n[2] <= Cardinality(Level(n[1])')
    BY <1>8, <1>9, <2>1
  <2> QED
    BY <1>7, <1>11, <2>2 DEF Tree, Forest
<1>16. Noisy'
  <2>1. ASSUME NEW n \in C
        PROVE  /\ (IsNoise(n) => Sparse(bursts[n], n[1]))'
               /\ (n[1] > 1 /\ IsNoise(parent[n]) => IsNoise(n))'
    <3>1. id'[n] = NOISE_CLUSTERID => Sparse(bursts'[n], n[1])
      BY <1>8, <1>9
    <3>2. Sparse(bursts'[n], n[1]) => Sparse(bursts[n], n[1])'
      BY <1>2 DEF Sparse, Near
    <3>3. IsNoise(n)' <=> id'[n] = NOISE_CLUSTERID
      BY DEF IsNoise
    <3> QED
      BY <1>9, <3>1, <3>2, <3>3
  <2> QED
    BY <1>8, <2>1 DEF Noisy
<1>17. Lineage'
  BY <1>8, <1>9 DEF Lineage, LineageOf, Named
<1>18. Growing'
  BY <1>2, <1>8, <1>9 DEF Growing
<1>19. LeafIdsUnique'
  <2> SUFFICES ASSUME NEW m \in C, NEW n \in C, m # n, id'[m] = id'[n]
               PROVE  FALSE
    BY <1>12 DEF LeafIdsUnique, LiveLeaves
  <2> QED
    BY <1>8
<1>20. FirstLevelKept' /\ WholeOrDivided'
  BY <1>2 DEF FirstLevelKept, WholeOrDivided
<1>21. Analysed' /\ LiveLeaves' = Leaves(parent', discarded')
  BY <1>2 DEF Analysed, LiveLeaves
<1> QED
  BY <1>6, <1>7, <1>10, <1>12, <1>14, <1>15, <1>16, <1>17, <1>18, <1>19, <1>20, <1>21 DEF IInv, D

\* What every step of the loop starts from.
LEMMA LoopStart ==
  ASSUME IInv, pc = "step" \/ pc = "prune"
  PROVE  /\ TypeOK /\ input \in Inputs /\ NodesTyped /\ IsFiniteSet(DOMAIN bursts)
         /\ Nodes(parent) /\ Ranked(parent) /\ Tree /\ Forest(bursts, parent, discarded)
         /\ Noisy /\ Lineage /\ DOMAIN parent = DOMAIN bursts /\ DOMAIN id = DOMAIN bursts
         /\ discarded \subseteq DOMAIN bursts
         /\ LiveLeaves = Ends(DOMAIN bursts \ discarded, parent)
         /\ \A n \in DOMAIN bursts : n # Root /\ bursts[n] \in SUBSET Burst /\ id[n] \in Nat
         /\ (pc = "step" => Growing)
<1>1. /\ TypeOK /\ IsFiniteSet(DOMAIN bursts) /\ Ranked(parent) /\ Tree /\ Noisy /\ Lineage
      /\ (pc = "step" => Growing)
  BY DEF IInv, Analysed
<1>2. input \in Inputs /\ NodesTyped /\ discarded \subseteq DOMAIN bursts
  BY <1>1, TypesAre
<1>3. Nodes(parent) /\ DOMAIN parent = DOMAIN bursts /\ DOMAIN id = DOMAIN bursts
  BY <1>2, TypedLinks
<1>4. Forest(bursts, parent, discarded)
  BY <1>1 DEF Tree
<1>5. Leaves(parent, discarded) = Ends(DOMAIN bursts \ discarded, parent)
  BY <1>1, <1>3, <1>4, ForestWalk
<1>6. \A n \in DOMAIN bursts : n # Root
  BY <1>1, <1>3, ParentsAbove
<1>7. \A n \in DOMAIN bursts : bursts[n] \in SUBSET Burst /\ id[n] \in Nat
  BY <1>2 DEF NodesTyped
<1> QED
  BY <1>1, <1>2, <1>3, <1>4, <1>5, <1>6, <1>7 DEF LiveLeaves

\* What OnlySplits says of a step.
Splits ==
  \A n \in LiveLeaves' :
    \E m \in LiveLeaves : /\ bursts'[n] \subseteq bursts[m]
                         /\ IsNoise(m) => id'[n] = NOISE_CLUSTERID

\* The node analysed had no children, was not discarded, and gets all it is given.
LEMMA AnalyseKeeps ==
  ASSUME IInv, AnalyseNode
  PROVE  IInv' /\ Splits
<1> DEFINE p == Parent
           C == DOMAIN id' \ DOMAIN id
           D == DOMAIN bursts
<1>1. /\ pc = "step" /\ p \in DOMAIN id /\ p \notin discarded
      /\ at' = at + 1 /\ input' = input /\ pc' = pc /\ step' = step /\ partition' = partition
      /\ stop' \in {FALSE, stop}
      /\ discarded' = discarded \/ discarded' = discarded \cup C
  BY DEF AnalyseNode, MoreParents, IsCandidate
<1>2. PICK new \in GenerateNodes(bursts[p], step) : AddNodes(new, step, p, bursts[p])
  BY DEF AnalyseNode
<1>3. /\ TypeOK /\ input \in Inputs /\ NodesTyped /\ IsFiniteSet(D)
      /\ Nodes(parent) /\ Ranked(parent) /\ Tree /\ Forest(bursts, parent, discarded)
      /\ Noisy /\ Lineage /\ DOMAIN parent = D /\ DOMAIN id = D /\ discarded \subseteq D
      /\ LiveLeaves = Ends(D \ discarded, parent)
      /\ \A n \in D : n # Root /\ bursts[n] \in SUBSET Burst /\ id[n] \in Nat
      /\ Growing
  BY <1>1, LoopStart
<1>4. step \in 1 .. Steps /\ at \in Nat \ {0} /\ stop \in BOOLEAN /\ step > 1 /\ step \in Nat
  BY <1>3, TypesAre, InputFacts DEF Growing
<1>5. p[1] = step - 1 /\ p[2] = at /\ p \in D /\ bursts[p] \in SUBSET Burst
  BY <1>1, <1>3 DEF Parent
<1> HIDE DEF p
<1>6. Under(parent, p) = {}
  <2> SUFFICES ASSUME NEW c \in D, parent[c] = p
               PROVE  FALSE
    BY <1>3 DEF Under
  <2>1. c[1] = step
    BY <1>3, <1>4, <1>5, ParentsAbove
  <2> QED
    BY <1>3, <1>4, <1>5, <2>1 DEF Growing
<1>7. \A n \in Level(step) : n[2] <= Cardinality(Level(step))
  BY <1>3 DEF Tree, Level
<1>8. Grown(C, step, p, bursts[p])
  BY <1>2, <1>3, <1>4, <1>5, <1>7, AddedNodes
<1> HIDE DEF C
<1>9. /\ C \cap D = {} /\ C \subseteq {step} \X (Nat \ {0})
      /\ DOMAIN bursts' = D \cup C /\ DOMAIN id' = D \cup C /\ DOMAIN parent' = D \cup C
      /\ \A n \in D : bursts'[n] = bursts[n] /\ id'[n] = id[n] /\ parent'[n] = parent[n]
      /\ \A c \in C : bursts'[c] # {} /\ id'[c] \in Nat /\ parent'[c] = p
      /\ \A c \in C : id'[c] = NOISE_CLUSTERID => Sparse(bursts'[c], step)
      /\ Sparse(bursts[p], step) => \A c \in C : id'[c] = NOISE_CLUSTERID
      /\ Share(bursts', C, bursts[p])
      /\ \A n \in C \cup Level(step) : n[2] <= Cardinality(C \cup Level(step))
  BY <1>3, <1>8 DEF Grown
<1>10. \A c \in C : c[1] = step /\ c # Root
  BY <1>4, <1>9 DEF Root
<1>11. NodesTyped' /\ IsFiniteSet(DOMAIN bursts')
  BY <1>1, <1>3, <1>4, <1>5, <1>8, GrownTyped
<1>12. Burst' = Burst
  BY <1>1 DEF Burst
<1>13. TypeOK'
  <2>1. discarded' \subseteq DOMAIN bursts'
    BY <1>1, <1>3, <1>9
  <2>2. \A b \in DOMAIN partition' : b \in Burst' /\ partition'[b] \in Nat
    <3>1. \A b \in DOMAIN partition : b \in Burst /\ partition[b] \in Nat
      BY <1>3, TypesAre
    <3> QED
      BY <1>1, <1>12, <3>1
  <2>3. at' \in Nat \ {0}
    BY <1>1, <1>4
  <2>4. stop' \in BOOLEAN
    <3>1. stop' = FALSE \/ stop' = stop
      BY <1>1
    <3> QED
      BY <1>4, <3>1
  <2> QED
    BY <1>1, <1>3, <1>4, <1>11, <2>1, <2>2, <2>3, <2>4 DEF TypeOK, NodesTyped
<1>14. Nodes(parent') /\ Ranked(parent')
  <2>1. Nodes(parent')
    BY <1>3, <1>9, <1>11 DEF Nodes, NodesTyped
  <2>2. ASSUME NEW n \in D \cup C
        PROVE  \/ n[1] = 1 /\ parent'[n] = Root
               \/ n[1] > 1 /\ parent'[n] \in D \cup C /\ n[1] = parent'[n][1] + 1
    <3>1. CASE n \in D
      BY <1>3, <1>9, <3>1 DEF Ranked
    <3>2. CASE n \in C
      BY <1>4, <1>5, <1>9, <1>10, <3>2
    <3> QED
      BY <3>1, <3>2
  <2> QED
    BY <1>9, <2>1, <2>2 DEF Ranked
<1>15. /\ Under(parent', p) = C
       /\ \A n \in D : n # p => Under(parent', n) = Under(parent, n)
       /\ Under(parent', Root) = Under(parent, Root)
       /\ \A c \in C : Under(parent', c) = {}
  <2>1. \A n : n \in Under(parent', p) <=> n \in D \cup C /\ parent'[n] = p
    BY <1>9 DEF Under
  <2>2. Under(parent', p) = C
    BY <1>3, <1>6, <1>9, <2>1 DEF Under
  <2>3. p # Root
    BY <1>3, <1>5
  <2>4. \A n : n # p /\ n \notin C => Under(parent', n) = Under(parent, n)
    BY <1>3, <1>9 DEF Under
  <2>5. ASSUME NEW c \in C, NEW n \in D \cup C, parent'[n] = c
        PROVE  FALSE
    <3>1. c \notin D /\ c # Root /\ c # p
      BY <1>5, <1>9, <1>10
    <3>2. n \in D /\ parent[n] = c
      BY <1>9, <2>5, <3>1
    <3> QED
      BY <1>3, <3>1, <3>2, ParentsAbove
  <2>6. \A c \in C : Under(parent', c) = {}
    BY <1>9, <2>5 DEF Under
  <2>7. \A n \in D : n \notin C
    BY <1>9
  <2>8. Root \notin C
    BY <1>10
  <2> QED
    BY <2>2, <2>3, <2>4, <2>6, <2>7, <2>8
<1>16. Forest(bursts', parent', discarded')
  <2>1. \A n \in D \cup C : bursts'[n] # {}
    BY <1>3, <1>9 DEF Forest
  <2>2. \A n : Under(parent, n) \subseteq D
    BY <1>3 DEF Under
  <2>3. Share(bursts', Under(parent', Root), Burst)
    <3>1. Share(bursts, Under(parent, Root), Burst)
      BY <1>3 DEF Forest
    <3>2. \A n \in Under(parent, Root) : bursts'[n] = bursts[n]
      BY <1>9, <2>2
    <3>3. Share(bursts', Under(parent, Root), Burst)
      BY <3>1, <3>2, ShareSame
    <3> QED
      BY <1>15, <3>3
  <2>4. ASSUME NEW n \in D \cup C, Under(parent', n) # {}
        PROVE  Share(bursts', Under(parent', n), bursts'[n])
    <3>1. CASE n = p
      BY <1>5, <1>9, <1>15, <3>1
    <3>2. CASE n # p
      <4>1. n \in D /\ Under(parent', n) = Under(parent, n) /\ bursts'[n] = bursts[n]
        BY <1>9, <1>15, <2>4, <3>2
      <4>2. Share(bursts, Under(parent, n), bursts[n])
        BY <1>3, <2>4, <4>1 DEF Forest
      <4>3. \A m \in Under(parent, n) : bursts'[m] = bursts[m]
        BY <1>9, <2>2
      <4>4. Share(bursts', Under(parent, n), bursts[n])
        BY <4>2, <4>3, ShareSame
      <4> QED
        BY <4>1, <4>4
    <3> QED
      BY <3>1, <3>2
  <2>5. ASSUME NEW n \in D \cup C
        PROVE  Under(parent', n) \subseteq discarded' \/ Under(parent', n) \cap discarded' = {}
    <3>1. CASE n = p
      BY <1>1, <1>3, <1>9, <1>15, <3>1
    <3>2. CASE n \in D /\ n # p
      <4>1. Under(parent', n) = Under(parent, n)
        BY <1>15, <3>2
      <4>2. Under(parent, n) \cap C = {}
        BY <1>9, <2>2
      <4>3. Under(parent, n) \subseteq discarded \/ Under(parent, n) \cap discarded = {}
        BY <1>3, <3>2 DEF Forest
      <4> QED
        BY <1>1, <4>1, <4>2, <4>3
    <3>3. CASE n \in C
      BY <1>15, <3>3
    <3> QED
      BY <3>1, <3>2, <3>3
  <2>6. ASSUME NEW n \in discarded'
        PROVE  n \in D \cup C /\ parent'[n] # Root /\ Under(parent', n) = {}
    <3>1. CASE n \in discarded
      <4>1. n \in D /\ n # p /\ parent[n] # Root /\ Under(parent, n) = {}
        BY <1>1, <1>3, <3>1 DEF Forest, p
      <4> QED
        BY <1>9, <1>15, <4>1
    <3>2. CASE n \in C
      BY <1>3, <1>5, <1>9, <1>15, <3>2
    <3> QED
      BY <1>1, <3>1, <3>2
  <2> QED
    BY <1>9, <2>1, <2>3, <2>4, <2>5, <2>6 DEF Forest
<1>17. Tree'
  <2>1. ASSUME NEW n \in D \cup C
        PROVE  n[2] <= Cardinality(Level(n[1])')
    <3>1. CASE n[1] = step
      <4>1. Level(step)' = C \cup Level(step)
        <5>1. Level(step)' = {m \in D \cup C : m[1] = step}
          BY <1>1, <1>9 DEF Level
        <5>2. Level(step) = {m \in D : m[1] = step}
          BY <1>3 DEF Level
        <5> QED
          BY <1>10, <5>1, <5>2
      <4>2. n \in C \cup Level(step)
        BY <1>3, <3>1 DEF Level
      <4>3. Level(n[1])' = C \cup Level(step)
        <5>1. Level(n[1])' = Level(step)'
          BY <1>1, <3>1 DEF Level
        <5> QED
          BY <4>1, <5>1
      <4> QED
        BY <1>9, <4>2, <4>3
    <3>2. CASE n[1] # step
      <4>1. n \in D /\ Level(n[1])' = Level(n[1])
        BY <1>3, <1>9, <1>10, <3>2 DEF Level
      <4> QED
        BY <1>3, <4>1 DEF Tree
    <3> QED
      BY <3>1, <3>2
  <2>2. Forest(bursts, parent, discarded)'
    BY <1>12, <1>16 DEF Forest
  <2> QED
    BY <1>9, <2>1, <2>2 DEF Tree
<1>18. \A c \in C : id[p] = NOISE_CLUSTERID => id'[c] = NOISE_CLUSTERID
  <2> SUFFICES ASSUME id[p] = NOISE_CLUSTERID
               PROVE  \A c \in C : id'[c] = NOISE_CLUSTERID
    OBVIOUS
  <2>1. Sparse(bursts[p], step - 1) /\ step - 1 \in Nat /\ step - 1 <= step
    BY <1>3, <1>4, <1>5 DEF Noisy, IsNoise
  <2>2. Sparse(bursts[p], step)
    BY <1>3, <1>4, <1>5, <2>1, SparseStays
  <2> QED
    BY <1>9, <2>2
<1>19. Noisy'
  <2>1. ASSUME NEW n \in D \cup C
        PROVE  /\ (IsNoise(n) => Sparse(bursts[n], n[1]))'
               /\ (n[1] > 1 /\ IsNoise(parent[n]) => IsNoise(n))'
    <3>1. id'[n] = NOISE_CLUSTERID => Sparse(bursts'[n], n[1])
      BY <1>3, <1>9, <1>10 DEF Noisy, IsNoise
    <3>2. Sparse(bursts'[n], n[1]) => Sparse(bursts[n], n[1])'
      BY <1>1 DEF Sparse, Near
    <3>3. n[1] > 1 /\ id'[parent'[n]] = NOISE_CLUSTERID => id'[n] = NOISE_CLUSTERID
      <4>1. CASE n \in D
        <5>1. n[1] > 1 => parent[n] \in D
          BY <1>3, <4>1, ParentsAbove
        <5> QED
          BY <1>3, <1>9, <4>1, <5>1 DEF Noisy, IsNoise
      <4>2. CASE n \in C
        BY <1>5, <1>9, <1>18, <4>2
      <4> QED
        BY <4>1, <4>2
    <3> QED
      BY <3>1, <3>2, <3>3 DEF IsNoise
  <2> QED
    BY <1>9, <2>1 DEF Noisy
<1>20. Lineage'
  <2>1. Named' = Named
    BY <1>1, <1>4, <1>9, <1>10 DEF Named
  <2>2. \A n \in Named : /\ n \in D /\ id'[n] = id[n] /\ parent'[n] = parent[n]
                         /\ n[1] > 1 => id'[parent[n]] = id[parent[n]]
    <3> SUFFICES ASSUME NEW n \in Named
                 PROVE  /\ n \in D /\ id'[n] = id[n] /\ parent'[n] = parent[n]
                        /\ n[1] > 1 => id'[parent[n]] = id[parent[n]]
      OBVIOUS
    <3>1. n \in D
      BY DEF Named
    <3>2. n[1] > 1 => parent[n] \in D
      BY <1>3, <3>1, ParentsAbove
    <3> QED
      BY <1>9, <3>1, <3>2
  <2>3. LineageOf(id, parent, Named)
    BY <1>3 DEF Lineage
  <2>4. LineageOf(id', parent', Named)
    BY <2>2, <2>3 DEF LineageOf
  <2> QED
    BY <2>1, <2>4 DEF Lineage, LineageOf
<1>21. Growing'
  <2>1. \A n \in D : n[1] = step => parent[n] \in D /\ parent[n][2] \in Nat
    BY <1>3, <1>4, ParentsAbove
  <2>2. ASSUME NEW n \in D \cup C
        PROVE  n[1] <= step /\ (n[1] = step => parent'[n][2] < at + 1)
    <3>1. CASE n \in D
      <4>1. n[1] <= step /\ (n[1] = step => parent[n][2] < at) /\ parent'[n] = parent[n]
        BY <1>3, <1>9, <3>1 DEF Growing
      <4> QED
        BY <1>4, <2>1, <3>1, <4>1
    <3>2. CASE n \in C
      BY <1>4, <1>5, <1>9, <1>10, <3>2
    <3> QED
      BY <3>1, <3>2
  <2> QED
    BY <1>1, <1>4, <1>9, <2>2 DEF Growing
<1>22. /\ Share(bursts', Leaves(parent', discarded'), Burst)
       /\ Leaves(parent', discarded') = Ends((D \cup C) \ discarded', parent')
  BY <1>9, <1>14, <1>16, ForestWalk
<1>23. LeafIdsUnique' /\ FirstLevelKept' /\ WholeOrDivided'
  BY <1>1, <1>4 DEF LeafIdsUnique, FirstLevelKept, WholeOrDivided
<1>24. Analysed' /\ LiveLeaves' = Leaves(parent', discarded')
  BY <1>1 DEF Analysed, LiveLeaves
<1>25. IInv'
  BY <1>1, <1>11, <1>12, <1>13, <1>14, <1>17, <1>19, <1>20, <1>21, <1>22, <1>23, <1>24 DEF IInv
<1>26. Splits
  <2> SUFFICES ASSUME NEW n \in Ends((D \cup C) \ discarded', parent')
               PROVE  \E m \in LiveLeaves : /\ bursts'[n] \subseteq bursts[m]
                                            /\ IsNoise(m) => id'[n] = NOISE_CLUSTERID
    BY <1>22, <1>24 DEF Splits
  <2>1. n \in (D \cup C) \ discarded' /\ \A c \in (D \cup C) \ discarded' : parent'[c] # n
    BY DEF Ends
  <2>2. p \in LiveLeaves
    BY <1>1, <1>3, <1>5, <1>6 DEF Ends, Under, p
  <2>3. CASE n \in C
    <3>1. bursts'[n] \subseteq bursts[p] /\ (IsNoise(p) => id'[n] = NOISE_CLUSTERID)
      BY <1>9, <1>18, <2>3 DEF Share, IsNoise
    <3> QED
      BY <2>2, <3>1
  <2>4. CASE n \in D
    <3>1. n \in D \ discarded /\ \A c \in D \ discarded : parent[c] # n
      <4>1. \A c \in D : c \notin discarded <=> c \notin discarded'
        BY <1>1, <1>9
      <4> QED
        BY <1>9, <2>1, <2>4, <4>1
    <3>2. n \in LiveLeaves
      BY <1>3, <3>1 DEF Ends
    <3>3. bursts'[n] \subseteq bursts[n] /\ (IsNoise(n) => id'[n] = NOISE_CLUSTERID)
      BY <1>9, <2>4 DEF IsNoise
    <3> QED
      BY <3>2, <3>3
  <2> QED
    BY <2>1, <2>3, <2>4
<1> QED
  BY <1>25, <1>26

\* What depends on the tree alone.
LEMMA SameTree ==
  ASSUME UNCHANGED <<input, nodes, discarded>>
  PROVE  /\ Burst' = Burst /\ LiveLeaves' = LiveLeaves /\ DOMAIN bursts' = DOMAIN bursts
         /\ NodesTyped' = NodesTyped /\ Ranked(parent)' = Ranked(parent)
         /\ Share(bursts, LiveLeaves, Burst)' = Share(bursts, LiveLeaves, Burst)
         /\ Tree' = Tree /\ Noisy' = Noisy
         /\ \A l : Level(l)' = Level(l)
         /\ \A n : IsNoise(n)' = IsNoise(n)
<1>1. /\ input' = input /\ bursts' = bursts /\ id' = id /\ score' = score /\ parent' = parent
      /\ occurrences' = occurrences /\ duration' = duration /\ discarded' = discarded
  BY DEF nodes
<1>2. Burst' = Burst
  BY <1>1 DEF Burst
<1>3. NodesTyped' = NodesTyped
  BY <1>1, <1>2 DEF NodesTyped
<1>4. Ranked(parent)' = Ranked(parent)
  BY <1>1 DEF Ranked
<1>5. LiveLeaves' = LiveLeaves
  BY <1>1 DEF LiveLeaves
<1>6. Share(bursts, LiveLeaves, Burst)' = Share(bursts, LiveLeaves, Burst)
  BY <1>1, <1>2, <1>5 DEF Share
<1>7. \A l : Level(l)' = Level(l)
  BY <1>1 DEF Level
<1>8. \A n : IsNoise(n)' = IsNoise(n)
  BY <1>1 DEF IsNoise
<1>9. Forest(bursts, parent, discarded)' = Forest(bursts, parent, discarded)
  BY <1>1, <1>2 DEF Forest, Share
<1>10. Tree' = Tree
  BY <1>1, <1>7, <1>9 DEF Tree
<1>11. \A S, l : Sparse(S, l)' = Sparse(S, l)
  BY <1>1 DEF Sparse, Near
<1>12. Noisy' = Noisy
  BY <1>1, <1>8, <1>11 DEF Noisy
<1> QED
  BY <1>1, <1>2, <1>3, <1>4, <1>5, <1>6, <1>7, <1>8, <1>10, <1>12

\* A node that is passed over changes nothing.
LEMMA SkipKeeps ==
  ASSUME IInv, SkipNode
  PROVE  IInv' /\ Splits
<1>1. /\ pc = "step" /\ at' = at + 1 /\ pc' = pc /\ step' = step /\ stop' = stop
      /\ partition' = partition /\ input' = input /\ UNCHANGED <<input, nodes, discarded>>
      /\ discarded' = discarded /\ bursts' = bursts /\ id' = id /\ parent' = parent
  BY DEF SkipNode, nodes
<1>2. /\ TypeOK /\ NodesTyped /\ IsFiniteSet(DOMAIN bursts) /\ Ranked(parent) /\ Tree
      /\ Noisy /\ Lineage /\ Growing /\ Nodes(parent) /\ DOMAIN parent = DOMAIN bursts
      /\ Share(bursts, LiveLeaves, Burst)
  BY <1>1, LoopStart DEF IInv, Analysed
<1>3. /\ NodesTyped' /\ IsFiniteSet(DOMAIN bursts') /\ Ranked(parent)' /\ Tree' /\ Noisy'
      /\ Share(bursts, LiveLeaves, Burst)' /\ Burst' = Burst /\ LiveLeaves' = LiveLeaves
  BY <1>1, <1>2, SameTree
<1>4. step \in 1 .. Steps /\ step \in Nat /\ step > 1 /\ at \in Nat \ {0}
  BY <1>2, TypesAre, InputFacts DEF Growing
<1>5. TypeOK'
  <2>1. at' \in Nat \ {0}
    BY <1>1, <1>4
  <2>2. \A b \in DOMAIN partition' : b \in Burst' /\ partition'[b] \in Nat
    <3>1. \A b \in DOMAIN partition : b \in Burst /\ partition[b] \in Nat
      BY <1>2, TypesAre
    <3> QED
      BY <1>1, <1>3, <3>1
  <2>3. /\ input' \in Inputs /\ step' \in 1 .. Steps /\ stop' \in BOOLEAN
        /\ pc' \in {"first", "step", "prune", "done", "failed", "crashed"}
        /\ discarded' \subseteq DOMAIN bursts'
    BY <1>1, <1>2 DEF TypeOK
  <2> QED
    BY <1>3, <2>1, <2>2, <2>3 DEF TypeOK, NodesTyped
<1>6. Lineage'
  BY <1>1, <1>2 DEF Lineage, LineageOf, Named
<1>7. Growing'
  <2>1. \A n \in DOMAIN bursts : n[1] = step => parent[n][2] \in Nat
    BY <1>2, <1>4, ParentsAbove
  <2>2. ASSUME NEW n \in DOMAIN bursts
        PROVE  n[1] <= step /\ (n[1] = step => parent[n][2] < at + 1)
    BY <1>2, <1>4, <2>1 DEF Growing
  <2> QED
    BY <1>1, <1>4, <2>2 DEF Growing
<1>8. LeafIdsUnique' /\ FirstLevelKept' /\ WholeOrDivided'
  <2>1. pc' = "step" /\ at' # 1
    BY <1>1, <1>4
  <2> QED
    BY <2>1 DEF LeafIdsUnique, FirstLevelKept, WholeOrDivided
<1>9. Analysed'
  BY <1>1 DEF Analysed
<1>10. IInv'
  BY <1>1, <1>3, <1>5, <1>6, <1>7, <1>8, <1>9 DEF IInv
<1>11. Splits
  BY <1>1, <1>3 DEF Splits, IsNoise
<1> QED
  BY <1>10, <1>11

\* Nor does an end without a result.
LEMMA CrashKeeps ==
  ASSUME IInv, CrashOnCandidate \/ CrashOnReclassify
  PROVE  IInv' /\ Splits
<1>1. /\ pc # "first" /\ pc' = "crashed"
      /\ UNCHANGED <<input, step, at, stop, nodes, discarded, partition>>
      /\ UNCHANGED <<input, nodes, discarded>>
      /\ discarded' = discarded /\ bursts' = bursts /\ id' = id /\ parent' = parent
  BY DEF CrashOnCandidate, CrashOnReclassify, nodes
<1>2. /\ TypeOK /\ NodesTyped /\ IsFiniteSet(DOMAIN bursts) /\ Ranked(parent)
      /\ Share(bursts, LiveLeaves, Burst)
  BY <1>1, TypesAre DEF IInv, Analysed
<1>3. /\ NodesTyped' /\ IsFiniteSet(DOMAIN bursts') /\ Ranked(parent)'
      /\ Share(bursts, LiveLeaves, Burst)' /\ Burst' = Burst /\ LiveLeaves' = LiveLeaves
  BY <1>1, <1>2, SameTree
<1>4. TypeOK'
  <2>1. \A b \in DOMAIN partition' : b \in Burst' /\ partition'[b] \in Nat
    <3>1. \A b \in DOMAIN partition : b \in Burst /\ partition[b] \in Nat
      BY <1>2, TypesAre
    <3> QED
      BY <1>1, <1>3, <3>1
  <2>2. /\ input' \in Inputs /\ step' \in 1 .. Steps /\ stop' \in BOOLEAN
        /\ pc' \in {"first", "step", "prune", "done", "failed", "crashed"}
        /\ discarded' \subseteq DOMAIN bursts' /\ at' \in Nat \ {0}
    BY <1>1, <1>2 DEF TypeOK
  <2> QED
    BY <1>3, <2>1, <2>2 DEF TypeOK, NodesTyped
<1>5. LeafIdsUnique' /\ FirstLevelKept' /\ WholeOrDivided'
  BY <1>1 DEF LeafIdsUnique, FirstLevelKept, WholeOrDivided
<1>6. Analysed'
  BY <1>1 DEF Analysed
<1>7. IInv'
  BY <1>1, <1>3, <1>4, <1>5, <1>6 DEF IInv
<1>8. Splits
  BY <1>1, <1>3 DEF Splits, IsNoise
<1> QED
  BY <1>7, <1>8

\* Nor does a step in which nothing happens.
LEMMA StutterKeeps ==
  ASSUME IInv, UNCHANGED vars
  PROVE  IInv' /\ Splits
<1>1. /\ UNCHANGED <<input, nodes, discarded>> /\ pc' = pc /\ step' = step /\ at' = at
      /\ stop' = stop /\ partition' = partition /\ input' = input
      /\ discarded' = discarded /\ bursts' = bursts /\ id' = id /\ parent' = parent
  BY DEF vars, nodes
<1>2. /\ Burst' = Burst /\ LiveLeaves' = LiveLeaves /\ NodesTyped' = NodesTyped
      /\ Ranked(parent)' = Ranked(parent) /\ Tree' = Tree /\ Noisy' = Noisy
      /\ Share(bursts, LiveLeaves, Burst)' = Share(bursts, LiveLeaves, Burst)
      /\ \A l : Level(l)' = Level(l)
      /\ \A n : IsNoise(n)' = IsNoise(n)
  BY <1>1, SameTree
<1>3. TypeOK'
  <2>1. /\ input \in Inputs
        /\ pc \in {"first", "step", "prune", "done", "failed", "crashed"}
        /\ step \in 1 .. Steps /\ at \in Nat \ {0} /\ stop \in BOOLEAN
        /\ NodesTyped /\ discarded \subseteq DOMAIN bursts
        /\ \A b \in DOMAIN partition : b \in Burst /\ partition[b] \in Nat
    BY TypesAre DEF IInv
  <2> QED
    BY <1>1, <1>2, <2>1 DEF TypeOK, NodesTyped
<1>4. Lineage' = Lineage /\ Growing' = Growing
  BY <1>1 DEF Lineage, LineageOf, Named, Growing
<1>5. LeafIdsUnique' = LeafIdsUnique
  BY <1>1, <1>2 DEF LeafIdsUnique
<1>6. FirstLevelKept' = FirstLevelKept
  BY <1>1, <1>2 DEF FirstLevelKept, FirstLevel
<1>7. WholeOrDivided' = WholeOrDivided
  <2>1. TopClusters' = TopClusters
    BY <1>2 DEF TopClusters, Clusters
  <2> QED
    BY <1>1, <2>1 DEF WholeOrDivided
<1>8. Analysed' = Analysed
  BY <1>1 DEF Analysed
<1>9. IInv'
  BY <1>1, <1>2, <1>3, <1>4, <1>5, <1>6, <1>7, <1>8 DEF IInv
<1>10. Splits
  BY <1>1, <1>2 DEF Splits, IsNoise
<1> QED
  BY <1>9, <1>10

\* Ids that a renaming of the level that is made may give.
Renamed(new) ==
  /\ DOMAIN new = DOMAIN bursts
  /\ \A n \in DOMAIN bursts : new[n] \in Nat /\ (new[n] = NOISE_CLUSTERID <=> IsNoise(n))
  /\ LineageOf(new, parent, DOMAIN bursts \ discarded)

\* One cluster under each node gets its id, the others get ids that no node has.
LEMMA ChildrenAreRenamed ==
  ASSUME IInv, pc = "step"
  PROVE  Renamed(RenameChildren(step))
<1> DEFINE D == DOMAIN bursts
           M == D \ discarded
           lower == {id[n] : n \in {m \in DOMAIN id : m[1] < step} \ discarded}
           top == Max({NOISE_CLUSTERID} \cup lower)
           named == {c \in Level(step) : ~IsNoise(c) /\ c \notin discarded}
           others == {c \in named : \E d \in named : parent[d] = parent[c] /\ d[2] < c[2]}
           key == [c \in others |-> c[2]]
           new == RenameChildren(step)
<1>1. /\ NodesTyped /\ IsFiniteSet(D) /\ Nodes(parent) /\ Ranked(parent)
      /\ Forest(bursts, parent, discarded) /\ Noisy /\ Growing
      /\ DOMAIN parent = D /\ DOMAIN id = D /\ discarded \subseteq D
      /\ \A n \in D : id[n] \in Nat
      /\ LineageOf(id, parent, {n \in M : n[1] < step})
  <2>1. Named = {n \in M : n[1] < step}
    BY DEF Named
  <2> QED
    BY <2>1, LoopStart DEF Lineage
<1>2. step \in Nat /\ step > 1
  BY LoopStart, TypesAre, InputFacts DEF Growing
<1>3. /\ \A n \in D : n[1] \in Nat /\ n[2] \in Nat /\ n[1] <= step
      /\ \A n \in D : n[1] > 1 => parent[n] \in M /\ parent[n][1] = n[1] - 1
      /\ \A n \in D : n[1] < step \/ n[1] = step
      /\ \A m, n \in D : m[1] = n[1] /\ m[2] = n[2] => m = n
  <2>1. ASSUME NEW n \in D
        PROVE  n[1] \in Nat /\ n[2] \in Nat /\ n[1] <= step
    BY <1>1, ParentsAbove DEF Growing
  <2>2. ASSUME NEW n \in D, n[1] > 1
        PROVE  parent[n] \in M /\ parent[n][1] = n[1] - 1
    <3>1. parent[n] \in D /\ parent[n][1] = n[1] - 1 /\ n \in Under(parent, parent[n])
      BY <1>1, <2>2, ParentsAbove DEF Under
    <3> QED
      BY <1>1, <3>1 DEF Forest
  <2>3. \A m, n \in D : m[1] = n[1] /\ m[2] = n[2] => m = n
    BY <1>1 DEF NodesTyped
  <2> QED
    BY <1>2, <2>1, <2>2, <2>3
<1>4. \A c : c \in named <=> c \in M /\ c[1] = step /\ id[c] # NOISE_CLUSTERID
  BY <1>1 DEF Level, IsNoise
<1>5. top \in Nat /\ \A n \in M : n[1] < step => id[n] <= top
  <2>1. lower \subseteq Nat /\ \A n \in M : n[1] < step => id[n] \in lower
    BY <1>1
  <2>2. IsFiniteSet(lower)
    <3>1. \A x \in lower : \E n \in D : id[n] = x
      BY <1>1
    <3> HIDE DEF lower
    <3> QED
      BY <1>1, <3>1, FiniteImage
  <2> HIDE DEF lower
  <2>3. IsFiniteSet({NOISE_CLUSTERID}) /\ IsFiniteSet({NOISE_CLUSTERID} \cup lower)
    BY <2>2, FS_Singleton, FS_Union
  <2>4. {NOISE_CLUSTERID} \cup lower \in SUBSET Nat /\ {NOISE_CLUSTERID} \cup lower # {}
    BY <2>1 DEF NOISE_CLUSTERID
  <2>5. /\ top \in {NOISE_CLUSTERID} \cup lower
        /\ \A m \in {NOISE_CLUSTERID} \cup lower : m <= top
    BY <2>3, <2>4, MaxIsGreatest
  <2> QED
    BY <2>1, <2>4, <2>5
<1>6. new = [c \in DOMAIN id |->
               IF c \in others THEN top + Cardinality({d \in others : d[2] <= c[2]})
               ELSE IF c \in named THEN id[parent[c]] ELSE id[c]]
  BY DEF RenameChildren, ChildrenRenamed
<1>7. /\ others \in SUBSET named /\ others \in SUBSET D
      /\ \A c \in named : c \in others <=> \E d \in named : parent[d] = parent[c] /\ d[2] < c[2]
  BY <1>4
<1> HIDE DEF lower, top, named, new
<1>8. ASSUME NEW c \in others
      PROVE  /\ new[c] \in Nat /\ new[c] > top
             /\ \A d \in others : c # d => new[c] # new[d]
  <2>1. IsFiniteSet(others) /\ \A x \in others : key[x] \in Nat /\ key[x] = x[2]
    BY <1>1, <1>3, <1>7, FS_Subset
  <2>2. \A x \in others : new[x] = top + Rank(others, key, x)
    <3> SUFFICES ASSUME NEW x \in others
                 PROVE  new[x] = top + Rank(others, key, x)
      OBVIOUS
    <3>1. {d \in others : d[2] <= x[2]} = {d \in others : key[d] <= key[x]}
      OBVIOUS
    <3>2. x \in DOMAIN id
      BY <1>1, <1>7
    <3> QED
      BY <1>6, <3>1, <3>2 DEF Rank
  <2> HIDE DEF others, key
  <2>3. \A x \in others : /\ Rank(others, key, x) \in 1 .. Cardinality(others)
                          /\ Cardinality(others) \in Nat
                          /\ \A y \in others : key[x] < key[y] =>
                               Rank(others, key, x) < Rank(others, key, y)
    BY <2>1, RankOrders
  <2>4. new[c] \in Nat /\ new[c] > top
    BY <1>5, <2>2, <2>3
  <2>5. ASSUME NEW d \in others, c # d
        PROVE  new[c] # new[d]
    <3>1. c \in D /\ d \in D /\ c[1] = step /\ d[1] = step
      BY <1>4, <1>7
    <3>2. key[c] < key[d] \/ key[d] < key[c]
      BY <1>3, <2>1, <2>5, <3>1
    <3>3. Rank(others, key, c) # Rank(others, key, d)
      BY <2>3, <3>2
    <3>4. Rank(others, key, c) \in Nat /\ Rank(others, key, d) \in Nat
      BY <2>3
    <3> QED
      BY <1>5, <2>2, <3>3, <3>4
  <2> QED
    BY <2>4, <2>5
<1>9. /\ \A c \in named : c \notin others => new[c] = id[parent[c]]
      /\ \A c \in D : c \notin named => new[c] = id[c]
      /\ DOMAIN new = D
  BY <1>1, <1>4, <1>6, <1>7
<1> HIDE DEF others
<1>10. ASSUME NEW c \in named
       PROVE  /\ c \in M /\ c \in D /\ c[1] = step /\ parent[c] \in M /\ parent[c] \in D
              /\ parent[c][1] < step /\ parent[c][1] = step - 1
              /\ id[parent[c]] # NOISE_CLUSTERID /\ id[parent[c]] <= top
              /\ new[parent[c]] = id[parent[c]]
  <2>1. c \in M /\ c \in D /\ c[1] = step /\ c[1] > 1 /\ id[c] # NOISE_CLUSTERID
    BY <1>2, <1>4
  <2>2. parent[c] \in M /\ parent[c] \in D /\ parent[c][1] = step - 1
    BY <1>3, <2>1
  <2>3. parent[c][1] < step /\ parent[c] \notin named
    BY <1>2, <1>4, <2>2
  <2>4. id[parent[c]] # NOISE_CLUSTERID
    BY <1>1, <2>1 DEF Noisy, IsNoise
  <2> QED
    BY <1>5, <1>9, <2>1, <2>2, <2>3, <2>4
<1>11. ASSUME NEW n \in D
       PROVE  new[n] \in Nat /\ (new[n] = NOISE_CLUSTERID <=> id[n] = NOISE_CLUSTERID)
  <2>1. CASE n \in others
    <3>1. id[n] # NOISE_CLUSTERID
      BY <1>4, <1>7, <2>1
    <3> QED
      BY <1>5, <1>8, <2>1, <3>1 DEF NOISE_CLUSTERID
  <2>2. CASE n \in named /\ n \notin others
    BY <1>1, <1>4, <1>9, <1>10, <2>2
  <2>3. CASE n \notin named
    BY <1>1, <1>9, <2>3
  <2> QED
    BY <2>1, <2>2, <2>3
<1>12. ASSUME NEW m \in M, NEW n \in M, m # n, new[m] = new[n], new[n] # NOISE_CLUSTERID,
              m[1] <= n[1]
       PROVE  n[1] > 1 /\ new[parent[n]] = new[n] /\ m[1] < n[1]
  <2>1. id[m] # NOISE_CLUSTERID /\ id[n] # NOISE_CLUSTERID /\ m \in D /\ n \in D
    BY <1>11, <1>12
  <2>2. CASE n[1] < step
    <3>1. m[1] < step /\ m \notin named /\ n \notin named
      BY <1>2, <1>3, <1>4, <1>12, <2>1, <2>2
    <3>2. new[m] = id[m] /\ new[n] = id[n]
      BY <1>9, <2>1, <3>1
    <3>3. n[1] > 1 /\ id[parent[n]] = id[n] /\ m[1] < n[1]
      BY <1>1, <1>12, <2>1, <2>2, <3>1, <3>2 DEF LineageOf
    <3>4. parent[n] \in D /\ parent[n][1] < step
      BY <1>2, <1>3, <2>1, <2>2, <3>3
    <3>5. new[parent[n]] = id[parent[n]]
      BY <1>2, <1>4, <1>9, <3>4
    <3> QED
      BY <3>2, <3>3, <3>5
  <2>3. CASE n[1] = step
    <3>1. n \in named
      BY <1>4, <2>1, <2>3
    <3>2. m[1] < step => new[m] <= top
      BY <1>2, <1>4, <1>5, <1>9, <2>1
    <3>3. m[1] = step => m \in named
      BY <1>4, <2>1
    <3>4. n \notin others
      <4> SUFFICES ASSUME n \in others
                   PROVE  FALSE
        OBVIOUS
      <4>1. new[n] > top /\ new[n] \in Nat
        BY <1>8
      <4>2. m[1] = step /\ m \in named
        BY <1>3, <1>5, <1>12, <2>1, <3>2, <3>3, <4>1
      <4>3. m \notin others
        BY <1>8, <1>12
      <4>4. new[m] <= top
        BY <1>9, <1>10, <4>2, <4>3
      <4> QED
        BY <1>5, <1>12, <4>1, <4>4
    <3>5. new[n] = id[parent[n]] /\ new[parent[n]] = new[n]
      BY <1>9, <1>10, <3>1, <3>4
    <3>6. m[1] # step
      <4> SUFFICES ASSUME m[1] = step
                   PROVE  FALSE
        OBVIOUS
      <4>1. m \in named
        BY <3>3
      <4>2. m \notin others
        <5> SUFFICES ASSUME m \in others
                     PROVE  FALSE
          OBVIOUS
        <5>1. new[m] > top /\ new[m] \in Nat
          BY <1>8
        <5>2. new[n] <= top
          BY <1>10, <3>1, <3>5
        <5> QED
          BY <1>5, <1>12, <5>1, <5>2
      <4>3. new[m] = id[parent[m]]
        BY <1>9, <4>1, <4>2
      <4>4. /\ parent[m] \in M /\ parent[n] \in M
            /\ parent[m][1] = step - 1 /\ parent[n][1] = step - 1
        BY <1>10, <3>1, <4>1
      <4>5. CASE parent[m] = parent[n]
        <5>1. m[2] < n[2] \/ n[2] < m[2]
          BY <1>3, <1>12, <2>1, <2>3
        <5> QED
          BY <1>7, <3>1, <3>4, <4>1, <4>2, <4>5, <5>1
      <4>6. CASE parent[m] # parent[n]
        <5>1. id[parent[m]] = id[parent[n]] /\ id[parent[n]] # NOISE_CLUSTERID
          BY <1>12, <3>5, <4>3
        <5>2. parent[m][1] < step /\ parent[n][1] < step /\ parent[m][1] <= parent[n][1]
              /\ ~(parent[m][1] < parent[n][1])
          BY <1>2, <4>4
        <5> QED
          BY <1>1, <4>4, <4>6, <5>1, <5>2 DEF LineageOf
      <4> QED
        BY <4>5, <4>6
    <3>7. m[1] < n[1]
      BY <1>3, <1>12, <2>1, <2>3, <3>6
    <3> QED
      BY <1>2, <2>3, <3>5, <3>7
  <2> QED
    BY <1>3, <2>1, <2>2, <2>3
<1>13. ASSUME NEW n \in M, n[1] > 1, new[n] # NOISE_CLUSTERID
       PROVE  \E c \in M : parent[c] = parent[n] /\ new[c] = new[parent[n]]
  <2>1. id[n] # NOISE_CLUSTERID /\ n \in D /\ parent[n] \in D
    BY <1>3, <1>11, <1>13
  <2>2. CASE n[1] < step
    <3>1. PICK c \in M : parent[c] = parent[n] /\ id[c] = id[parent[n]] /\ c[1] < step
      BY <1>1, <1>13, <2>1, <2>2 DEF LineageOf
    <3>2. parent[n][1] < step
      BY <1>2, <1>3, <1>13, <2>1, <2>2
    <3>3. c \in D /\ c \notin named /\ parent[n] \notin named
      BY <1>2, <1>4, <3>1, <3>2
    <3>4. new[c] = id[c] /\ new[parent[n]] = id[parent[n]]
      BY <1>9, <2>1, <3>3
    <3> QED
      BY <3>1, <3>4
  <2>3. CASE n[1] = step
    <3>1. n \in named
      BY <1>4, <2>1, <2>3
    <3> DEFINE T == {d[2] : d \in {e \in named : parent[e] = parent[n]}}
    <3>2. T \in SUBSET Nat /\ T # {}
      BY <1>3, <1>10, <3>1
    <3>3. PICK k \in T : \A j \in T : k <= j
      BY <3>2, LeastNumber
    <3>4. PICK c \in named : parent[c] = parent[n] /\ c[2] = k
      BY <3>3
    <3>5. \A d \in named : parent[d] = parent[c] => c[2] <= d[2]
      BY <3>3, <3>4
    <3>6. \A d \in named : d[2] \in Nat
      BY <1>3, <1>10
    <3>7. c \notin others
      BY <1>7, <3>4, <3>5, <3>6
    <3>8. new[c] = new[parent[n]] /\ c \in M
      BY <1>9, <1>10, <3>4, <3>7
    <3> QED
      BY <3>4, <3>8
  <2> QED
    BY <1>3, <2>1, <2>2, <2>3
<1>14. LineageOf(new, parent, M)
  BY <1>12, <1>13 DEF LineageOf
<1> QED
  BY <1>9, <1>11, <1>14 DEF Renamed, IsNoise, new

\* The step ends with clusters named apart.
LEMMA FinishKeeps ==
  ASSUME IInv, FinishStep
  PROVE  IInv' /\ Splits
<1> DEFINE D == DOMAIN bursts
           M == D \ discarded
<1>1. /\ pc = "step" /\ input' = input /\ bursts' = bursts /\ score' = score
      /\ occurrences' = occurrences /\ duration' = duration /\ parent' = parent
      /\ discarded' = discarded
      /\ pc' \in {"step", "prune", "failed"} /\ (pc' = "step" => step # Steps)
      /\ IF pc' = "step" THEN step' = step + 1 /\ at' = 1 /\ stop' = TRUE
                         ELSE step' = step /\ at' = at /\ stop' = stop
      /\ \/ Level(step) = {} /\ id' = id /\ partition' = << >>
         \/ id' = RenameChildren(step) /\ GeneratePartition
  BY DEF FinishStep, Return
<1>2. /\ TypeOK /\ input \in Inputs /\ NodesTyped /\ IsFiniteSet(D)
      /\ Nodes(parent) /\ Ranked(parent) /\ Tree /\ Forest(bursts, parent, discarded)
      /\ Noisy /\ Lineage /\ DOMAIN parent = D /\ DOMAIN id = D /\ discarded \subseteq D
      /\ LiveLeaves = Ends(M, parent) /\ Growing
      /\ \A n \in D : n # Root /\ bursts[n] \in SUBSET Burst /\ id[n] \in Nat
  BY <1>1, LoopStart
<1>3. step \in 1 .. Steps /\ step \in Nat /\ step > 1 /\ Steps \in Nat /\ at \in Nat \ {0}
      /\ stop \in BOOLEAN
  BY <1>2, TypesAre, InputFacts DEF Growing
<1>4. \A n \in D : n[1] \in Nat /\ n[1] <= step
  BY <1>2, ParentsAbove DEF Growing
<1>5. Renamed(id')
  <2>1. CASE Level(step) = {} /\ id' = id
    <3>1. \A n \in D : n[1] # step
      BY <1>2, <2>1 DEF Level
    <3>2. Named = M
      BY <1>1, <1>3, <1>4, <3>1 DEF Named
    <3>3. LineageOf(id', parent, M)
      BY <1>2, <2>1, <3>2 DEF Lineage
    <3> QED
      BY <1>2, <2>1, <3>3 DEF Renamed, IsNoise
  <2>2. CASE id' = RenameChildren(step)
    BY <1>1, <2>2, ChildrenAreRenamed
  <2> QED
    BY <1>1, <2>1, <2>2
<1>6. /\ DOMAIN id' = D /\ LineageOf(id', parent, M)
      /\ \A n \in D : id'[n] \in Nat /\ (id'[n] = NOISE_CLUSTERID <=> IsNoise(n))
  BY <1>5 DEF Renamed
<1>7. /\ Burst' = Burst /\ LiveLeaves' = LiveLeaves /\ \A l : Level(l)' = Level(l)
      /\ NodesTyped' /\ Ranked(parent)'
      /\ \A n \in D : IsNoise(n)' <=> IsNoise(n)
  <2>1. Burst' = Burst /\ LiveLeaves' = LiveLeaves /\ Ranked(parent)'
    BY <1>1, <1>2 DEF Burst, LiveLeaves, Ranked
  <2>2. \A l : Level(l)' = Level(l)
    BY <1>2, <1>6 DEF Level
  <2>3. NodesTyped'
    BY <1>1, <1>2, <1>6, <2>1 DEF NodesTyped
  <2>4. \A n \in D : IsNoise(n)' <=> IsNoise(n)
    BY <1>6 DEF IsNoise
  <2> QED
    BY <2>1, <2>2, <2>3, <2>4
<1>8. Walk(M, parent, discarded) /\ Share(bursts, LiveLeaves, Burst)
  BY <1>2, ForestWalk DEF LiveLeaves
<1>9. Share(bursts, LiveLeaves, Burst)'
  BY <1>1, <1>7, <1>8 DEF Share
<1>10. \A b \in DOMAIN partition' : b \in Burst' /\ partition'[b] \in Nat
  <2>1. CASE partition' = << >>
    BY <2>1
  <2>2. CASE GeneratePartition
    <3>1. partition' = GetAssignment(bursts, id', parent, discarded)
      BY <1>1, <2>2 DEF GeneratePartition
    <3>2. Share(bursts, Leaves(parent, discarded), Burst)
      BY <1>8 DEF LiveLeaves
    <3>3. Labels(partition', bursts, Leaves(parent, discarded), id')
      BY <3>1, <3>2, AssignmentLabels
    <3>4. Leaves(parent, discarded) \subseteq D
      BY <1>2 DEF LiveLeaves, Ends
    <3>5. \A n \in Leaves(parent, discarded) : id'[n] \in Nat
      BY <1>6, <3>4
    <3>6. \A b \in DOMAIN partition' : b \in Burst /\ partition'[b] \in Nat
      BY <3>2, <3>3, <3>5, LabelsAreNumbers
    <3> QED
      BY <1>7, <3>6
  <2> QED
    BY <1>1, <2>1, <2>2
<1>11. TypeOK'
  <2>1. step' \in 1 .. Steps /\ at' \in Nat \ {0} /\ stop' \in BOOLEAN
    <3>1. CASE pc' = "step"
      BY <1>1, <1>3, <3>1
    <3>2. CASE pc' # "step"
      BY <1>1, <1>3, <3>2
    <3> QED
      BY <3>1, <3>2
  <2>2. /\ input' \in Inputs /\ discarded' \subseteq DOMAIN bursts'
        /\ pc' \in {"first", "step", "prune", "done", "failed", "crashed"}
    BY <1>1, <1>2
  <2> QED
    BY <1>7, <1>10, <2>1, <2>2 DEF TypeOK, NodesTyped
<1>12. Tree'
  <2>1. Forest(bursts, parent, discarded)'
    BY <1>1, <1>2, <1>7 DEF Forest, Share
  <2> QED
    BY <1>1, <1>2, <1>7, <2>1 DEF Tree
<1>13. Noisy'
  <2>1. \A S, l : Sparse(S, l)' = Sparse(S, l)
    BY <1>1 DEF Sparse, Near
  <2>2. ASSUME NEW n \in D
        PROVE  /\ (IsNoise(n) => Sparse(bursts[n], n[1]))'
               /\ (n[1] > 1 /\ IsNoise(parent[n]) => IsNoise(n))'
    <3>1. (IsNoise(n) => Sparse(bursts[n], n[1]))'
      BY <1>1, <1>2, <1>7, <2>1 DEF Noisy
    <3>2. n[1] > 1 => parent[n] \in D
      BY <1>2, ParentsAbove
    <3>3. (n[1] > 1 /\ IsNoise(parent[n]) => IsNoise(n))'
      BY <1>1, <1>2, <1>6, <3>2 DEF Noisy, IsNoise
    <3> QED
      BY <3>1, <3>3
  <2> QED
    BY <1>1, <2>2 DEF Noisy
<1>14. pc' \in {"step", "prune"} => Lineage'
  <2> SUFFICES ASSUME pc' \in {"step", "prune"}
               PROVE  Lineage'
    OBVIOUS
  <2>1. \A n \in D : pc' = "step" => n[1] < step'
    BY <1>1, <1>3, <1>4
  <2>2. Named' = M
    BY <1>1, <2>1 DEF Named
  <2> QED
    BY <1>1, <1>6, <2>2 DEF Lineage, LineageOf
<1>15. pc' = "step" => Growing'
  <2> SUFFICES ASSUME pc' = "step"
               PROVE  Growing'
    OBVIOUS
  <2>1. step' = step + 1 /\ \A n \in D : n[1] < step + 1
    BY <1>1, <1>3, <1>4
  <2>2. step + 1 > 1 /\ \A n \in D : n[1] <= step + 1 /\ n[1] # step + 1
    BY <1>3, <1>4, <2>1
  <2> QED
    BY <1>1, <2>1, <2>2 DEF Growing
<1>16. \A m, n \in LiveLeaves : m # n /\ id'[m] = id'[n] => id'[m] = NOISE_CLUSTERID
  <2> SUFFICES ASSUME NEW m \in Ends(M, parent), NEW n \in Ends(M, parent),
                      m # n, id'[m] = id'[n]
               PROVE  id'[m] = NOISE_CLUSTERID
    BY <1>2
  <2> HIDE DEF M
  <2> QED
    BY <1>2, <1>6, <1>8, EndsNamedApart
<1>17. LeafIdsUnique' /\ FirstLevelKept' /\ WholeOrDivided'
  <2>1. LeafIdsUnique'
    BY <1>7, <1>16 DEF LeafIdsUnique, IsNoise
  <2> QED
    BY <1>1, <2>1 DEF FirstLevelKept, WholeOrDivided
<1>18. Analysed' /\ IsFiniteSet(DOMAIN bursts')
  BY <1>1, <1>2 DEF Analysed
<1>19. IInv'
  BY <1>1, <1>7, <1>9, <1>11, <1>12, <1>13, <1>14, <1>15, <1>17, <1>18 DEF IInv
<1>20. Splits
  <2>1. \A n \in LiveLeaves : n \in D
    BY <1>2 DEF Ends
  <2>2. \A n \in LiveLeaves : IsNoise(n) => id'[n] = NOISE_CLUSTERID
    BY <1>6, <2>1
  <2> QED
    BY <1>1, <1>7, <2>2 DEF Splits
<1> QED
  BY <1>19, <1>20

-----------------------------------------------------------------------------
(* What pruning finds *)

\* A function on the levels whose values depend on those above.
Descending(K, V, first, H) == K \in Nat /\ first \in V /\ \A v \in V : H[v] \in V

Levelled(K, V, first, H) ==
  \E f \in [1 .. K -> V] : \A l \in 1 .. K : f[l] = IF l = 1 THEN first ELSE H[f[l - 1]]

\* There is such a function.
LEMMA LevelsExist ==
  ASSUME NEW K, NEW V, NEW first, NEW H, Descending(K, V, first, H)
  PROVE  Levelled(K, V, first, H)
<1> USE DEF Descending, Levelled
<1> DEFINE G == [k \in 1 .. K |-> [v \in V |-> IF k = 1 THEN first ELSE H[v]]]
<1>1. \A k \in 1 .. K, v \in V : G[k][v] = IF k = 1 THEN first ELSE H[v]
  OBVIOUS
<1> HIDE DEF G
<1>2. Steppable(K, V, first, G)
  BY <1>1 DEF Steppable
<1>3. PICK g \in [0 .. K -> V] : \A k \in 1 .. K : g[k] = G[k][g[k - 1]]
  <2>1. Iterated(K, V, first, G)
    BY <1>2, IterationExists
  <2> QED
    BY <2>1 DEF Iterated
<1> DEFINE f == [l \in 1 .. K |-> g[l]]
<1>4. f \in [1 .. K -> V]
  OBVIOUS
<1>5. ASSUME NEW l \in 1 .. K
      PROVE  f[l] = IF l = 1 THEN first ELSE H[f[l - 1]]
  <2>1. f[l] = g[l] /\ g[l - 1] \in V /\ l - 1 \in 0 .. K
    OBVIOUS
  <2>2. g[l] = IF l = 1 THEN first ELSE H[g[l - 1]]
    BY <1>1, <1>3, <2>1
  <2>3. l # 1 => f[l - 1] = g[l - 1]
    OBVIOUS
  <2> QED
    BY <2>1, <2>2, <2>3
<1> HIDE DEF f
<1> QED
  BY <1>4, <1>5

\* The links are between nodes of the levels.
Linked ==
  /\ DOMAIN parent = DOMAIN bursts /\ DOMAIN id = DOMAIN bursts /\ IsFiniteSet(DOMAIN bursts)
  /\ Nodes(parent) /\ Ranked(parent)

\* What is at the top and what is under a node.
LEMMA LinksAre ==
  ASSUME Linked
  PROVE  /\ \A n, c : c \in ChildrenOf(n) <=> c \in DOMAIN bursts /\ parent[c] = n
         /\ \A n : ChildrenOf(n) = Under(parent, n)
         /\ \A n : n \in TopClusters <=> n \in DOMAIN bursts /\ n[1] = 1 /\ ~IsNoise(n)
         /\ \A n : n \in Level(1) <=> n \in DOMAIN bursts /\ parent[n] = Root
         /\ \A n \in DOMAIN bursts : n[1] = 1 <=> parent[n] = Root
         /\ \A n \in DOMAIN bursts : parent[n] # Root => parent[n] \in DOMAIN bursts
         /\ Root \notin DOMAIN bursts
<1>1. DOMAIN parent = DOMAIN bursts /\ DOMAIN id = DOMAIN bursts
  BY DEF Linked
<1>2. \A n, c : c \in ChildrenOf(n) <=> c \in DOMAIN bursts /\ parent[c] = n
  BY <1>1 DEF ChildrenOf
<1>3. \A n : ChildrenOf(n) = Under(parent, n)
  BY DEF ChildrenOf, Under
<1>4. \A n : n \in TopClusters <=> n \in DOMAIN bursts /\ n[1] = 1 /\ ~IsNoise(n)
  BY <1>1 DEF TopClusters, Clusters, Level
<1>5. ASSUME NEW n \in DOMAIN bursts
      PROVE  /\ n # Root /\ (n[1] = 1 <=> parent[n] = Root)
             /\ parent[n] # Root => parent[n] \in DOMAIN bursts
  BY <1>1, ParentsAbove DEF Linked
<1>6. \A n : n \in Level(1) <=> n \in DOMAIN bursts /\ parent[n] = Root
  BY <1>1, <1>5 DEF Level
<1> QED
  BY <1>2, <1>3, <1>4, <1>5, <1>6

\* Where noise is given away the nodes are clusters whose children have nothing left under
\* them, and none is under another.
LEMMA LeafParentsAre ==
  ASSUME Linked, NEW gone, NEW n \in LeafParents(gone)
  PROVE  /\ n \in DOMAIN bursts /\ ~IsNoise(n)
         /\ \A c \in ChildrenOf(n) : ChildrenOf(c) \subseteq gone
         /\ parent[n] \notin LeafParents(gone)
<1> DEFINE D == DOMAIN bursts
           Bottom(m) == \A c \in ChildrenOf(m) : ChildrenOf(c) \subseteq gone
           Onwards(v) == UNION {Clusters(ChildrenOf(m)) : m \in {x \in v : ~Bottom(x)}}
           Table(f) == [l \in 1 .. Steps |-> IF l = 1 THEN TopClusters ELSE Onwards(f[l - 1])]
           reached == CHOOSE f : f = Table(f)
           all == UNION {reached[l] : l \in 1 .. Steps}
           V == SUBSET D
           H == [v \in V |-> Onwards(v)]
<1>1. LeafParents(gone) = {m \in all : ChildrenOf(m) # {} /\ Bottom(m)}
  BY DEF LeafParents
<1>2. \A v, c : c \in Onwards(v) <=>
                  \E m \in v : ~Bottom(m) /\ c \in D /\ parent[c] = m /\ ~IsNoise(c)
  BY LinksAre DEF Clusters
<1>3. Steps \in Nat
  BY DEF Linked, Nodes
<1>4. TopClusters \in V /\ \A v \in V : H[v] = Onwards(v) /\ H[v] \in V
  <2>1. TopClusters \in V
    BY LinksAre
  <2>2. \A v \in V : Onwards(v) \in V
    <3> HIDE DEF Onwards
    <3> QED
      BY <1>2
  <2> QED
    BY <2>1, <2>2
<1> HIDE DEF Onwards, H, V, all
<1>5. \E f : f = Table(f)
  <2>1. PICK f \in [1 .. Steps -> V] :
          \A l \in 1 .. Steps : f[l] = IF l = 1 THEN TopClusters ELSE H[f[l - 1]]
    <3>1. Descending(Steps, V, TopClusters, H)
      BY <1>3, <1>4 DEF Descending
    <3>2. Levelled(Steps, V, TopClusters, H)
      BY <3>1, LevelsExist
    <3> QED
      BY <3>2 DEF Levelled
  <2>2. \A l \in 1 .. Steps : f[l] = IF l = 1 THEN TopClusters ELSE Onwards(f[l - 1])
    <3> SUFFICES ASSUME NEW l \in 1 .. Steps
                 PROVE  f[l] = IF l = 1 THEN TopClusters ELSE Onwards(f[l - 1])
      OBVIOUS
    <3>1. l # 1 => l - 1 \in 1 .. Steps /\ f[l - 1] \in V
      BY <1>3
    <3> QED
      BY <1>4, <2>1, <3>1
  <2>3. f = [l \in 1 .. Steps |-> f[l]]
    BY <2>1
  <2>4. f = Table(f)
    BY <2>2, <2>3
  <2> QED
    BY <2>4
<1>6. reached = Table(reached)
  <2> HIDE DEF Table
  <2> QED
    BY <1>5
<1>7. \A l \in 1 .. Steps : reached[l] = IF l = 1 THEN TopClusters ELSE Onwards(reached[l - 1])
  <2>1. \A f : f = Table(f) =>
          \A l \in 1 .. Steps : f[l] = IF l = 1 THEN TopClusters ELSE Onwards(f[l - 1])
    OBVIOUS
  <2> HIDE DEF Table, reached
  <2> QED
    BY <1>6, <2>1
<1> HIDE DEF Table, reached
<1>8. ASSUME NEW x \in all
      PROVE  x \in D /\ ~IsNoise(x) /\ (parent[x] = Root \/ ~Bottom(parent[x]))
  <2>1. PICK l \in 1 .. Steps : x \in reached[l]
    BY DEF all
  <2>2. CASE l = 1
    BY <1>7, <2>1, <2>2, LinksAre
  <2>3. CASE l # 1
    <3>1. x \in Onwards(reached[l - 1])
      BY <1>7, <2>1, <2>3
    <3> HIDE DEF Bottom
    <3> QED
      BY <1>2, <3>1
  <2> QED
    BY <2>2, <2>3
<1>9. n \in all /\ Bottom(n)
  BY <1>1
<1> HIDE DEF Bottom
<1>10. n \in D /\ ~IsNoise(n) /\ (parent[n] = Root \/ ~Bottom(parent[n]))
  BY <1>8, <1>9
<1>11. parent[n] \notin LeafParents(gone)
  <2>1. CASE parent[n] = Root
    BY <1>1, <1>8, <2>1, LinksAre
  <2>2. CASE ~Bottom(parent[n])
    BY <1>1, <2>2
  <2> QED
    BY <1>10, <2>1, <2>2
<1> QED
  BY <1>9, <1>10, <1>11 DEF Bottom

\* The visit goes to all clusters that are led to from the top by clusters.
LEMMA VisitedAre ==
  ASSUME Linked
  PROVE  /\ Visited \subseteq DOMAIN bursts /\ TopClusters \subseteq Visited
         /\ \A n \in Visited : Clusters(LiveChildren(n)) \subseteq Visited
<1> DEFINE D == DOMAIN bursts
           Onwards(v) == UNION {Clusters(LiveChildren(m)) : m \in v}
           Table(f) == [l \in 1 .. Steps |-> IF l = 1 THEN TopClusters ELSE Onwards(f[l - 1])]
           visited == CHOOSE f : f = Table(f)
           V == SUBSET D
           H == [v \in V |-> Onwards(v)]
<1>1. Visited = UNION {visited[l] : l \in 1 .. Steps}
  BY DEF Visited
<1>2. /\ \A n, c : c \in Clusters(LiveChildren(n)) <=>
                     c \in D /\ parent[c] = n /\ c \notin discarded /\ ~IsNoise(c)
      /\ \A v, c : c \in Onwards(v) <=> \E m \in v : c \in Clusters(LiveChildren(m))
  BY LinksAre DEF Clusters, LiveChildren
<1>3. Steps \in Nat /\ \A n \in D : n[1] \in 1 .. Steps
  BY ParentsAbove DEF Linked, Nodes
<1>4. TopClusters \in V /\ \A v \in V : H[v] = Onwards(v) /\ H[v] \in V
  <2>1. TopClusters \in V
    BY LinksAre
  <2>2. \A v \in V : Onwards(v) \in V
    <3> HIDE DEF Onwards
    <3> QED
      BY <1>2
  <2> QED
    BY <2>1, <2>2
<1> HIDE DEF Onwards, H, V
<1>5. \E f : f = Table(f)
  <2>1. PICK f \in [1 .. Steps -> V] :
          \A l \in 1 .. Steps : f[l] = IF l = 1 THEN TopClusters ELSE H[f[l - 1]]
    <3>1. Descending(Steps, V, TopClusters, H)
      BY <1>3, <1>4 DEF Descending
    <3>2. Levelled(Steps, V, TopClusters, H)
      BY <3>1, LevelsExist
    <3> QED
      BY <3>2 DEF Levelled
  <2>2. \A l \in 1 .. Steps : f[l] = IF l = 1 THEN TopClusters ELSE Onwards(f[l - 1])
    <3> SUFFICES ASSUME NEW l \in 1 .. Steps
                 PROVE  f[l] = IF l = 1 THEN TopClusters ELSE Onwards(f[l - 1])
      OBVIOUS
    <3>1. l # 1 => l - 1 \in 1 .. Steps /\ f[l - 1] \in V
      BY <1>3
    <3> QED
      BY <1>4, <2>1, <3>1
  <2>3. f = [l \in 1 .. Steps |-> f[l]]
    BY <2>1
  <2>4. f = Table(f)
    BY <2>2, <2>3
  <2> QED
    BY <2>4
<1>6. visited = Table(visited)
  <2> HIDE DEF Table
  <2> QED
    BY <1>5
<1>7. \A l \in 1 .. Steps : visited[l] = IF l = 1 THEN TopClusters ELSE Onwards(visited[l - 1])
  <2>1. \A f : f = Table(f) =>
          \A l \in 1 .. Steps : f[l] = IF l = 1 THEN TopClusters ELSE Onwards(f[l - 1])
    OBVIOUS
  <2> HIDE DEF Table, visited
  <2> QED
    BY <1>6, <2>1
<1> HIDE DEF Table, visited
<1> DEFINE S == {l \in 0 .. Steps : l > 0 => \A x \in visited[l] : x \in D /\ x[1] = l}
<1>8. 0 .. Steps \subseteq S
  <2>1. 0 \in S
    BY <1>3
  <2>2. ASSUME NEW k \in 1 .. Steps, k - 1 \in S
        PROVE  k \in S
    <3>1. k \in 0 .. Steps
      BY <1>3
    <3> SUFFICES ASSUME NEW x \in visited[k]
                 PROVE  x \in D /\ x[1] = k
      BY <3>1
    <3>2. CASE k = 1
      BY <1>7, <3>2, LinksAre
    <3>3. CASE k # 1
      <4>1. k - 1 > 0 /\ k - 1 \in Nat
        BY <1>3, <3>3
      <4>2. x \in Onwards(visited[k - 1])
        BY <1>7, <3>3
      <4>3. PICK m \in visited[k - 1] : x \in D /\ parent[x] = m
        BY <1>2, <4>2
      <4>4. m \in D /\ m[1] = k - 1
        BY <2>2, <4>1
      <4>5. x[1] \in Nat /\ m # Root /\ m[1] = x[1] - 1
        BY <4>3, <4>4, ParentsAbove DEF Linked
      <4> QED
        BY <4>3, <4>4, <4>5
    <3> QED
      BY <3>2, <3>3
  <2> HIDE DEF S
  <2> QED
    BY <1>3, <2>1, <2>2, BoundedInduction
<1>9. \A l \in 1 .. Steps : \A x \in visited[l] : x \in D /\ x[1] = l
  BY <1>3, <1>8
<1> HIDE DEF S
<1>10. Visited \subseteq D
  BY <1>1, <1>9
<1>11. TopClusters \subseteq Visited
  <2>1. CASE Steps = 0
    BY <1>3, <2>1, LinksAre
  <2>2. CASE Steps # 0
    <3>1. 1 \in 1 .. Steps
      BY <1>3, <2>2
    <3> QED
      BY <1>1, <1>7, <3>1
  <2> QED
    BY <2>1, <2>2
<1>12. ASSUME NEW n \in Visited, NEW c \in Clusters(LiveChildren(n))
       PROVE  c \in Visited
  <2>1. PICK l \in 1 .. Steps : n \in visited[l]
    BY <1>1
  <2>2. n \in D /\ n[1] = l /\ c \in D /\ parent[c] = n
    BY <1>2, <1>9, <1>12, <2>1
  <2>3. c[1] \in 1 .. Steps /\ c[1] = l + 1
    BY <1>3, <2>2, LinksAre, ParentsAbove DEF Linked
  <2>4. l + 1 \in 1 .. Steps /\ l + 1 # 1 /\ (l + 1) - 1 = l
    BY <2>3, <1>3
  <2>5. visited[l + 1] = Onwards(visited[l])
    BY <1>7, <2>4
  <2>6. c \in visited[l + 1]
    BY <1>2, <1>12, <2>1, <2>5
  <2> QED
    BY <1>1, <2>4, <2>6
<1> QED
  BY <1>10, <1>11, <1>12

\* The greater of two numbers.
LEMMA MaxOfTwo ==
  ASSUME NEW x \in Nat
  PROVE  Max({1, x}) \in Nat \ {0} /\ Max({1, x}) = IF x = 0 THEN 1 ELSE x
<1>1. IsFiniteSet({1} \cup {x}) /\ {1, x} = {1} \cup {x}
  BY FS_Singleton, FS_Union
<1>2. {1, x} \in SUBSET Nat /\ {1, x} # {}
  OBVIOUS
<1>3. IsFiniteSet({1, x})
  BY <1>1
<1>4. Max({1, x}) \in {1, x} /\ \A m \in {1, x} : m <= Max({1, x})
  BY <1>2, <1>3, MaxIsGreatest
<1>5. (Max({1, x}) = 1 \/ Max({1, x}) = x) /\ 1 <= Max({1, x}) /\ x <= Max({1, x})
  BY <1>4
<1> QED
  BY <1>5

\* A subtree without clusters is not divided, with one as often as that of the cluster.
LEMMA DivisionsAre ==
  ASSUME Linked, NEW n \in DOMAIN bursts
  PROVE  /\ Divisions[n] \in Nat \ {0}
         /\ Clusters(LiveChildren(n)) = {} => Divisions[n] = 1
         /\ \A k : Clusters(LiveChildren(n)) = {k} => Divisions[n] = Divisions[k]
<1> DEFINE D == DOMAIN bursts
           Kids(m) == Clusters(LiveChildren(m))
           Divide(v, m) == Max({1, Total(v, Kids(m))})
           Onwards(k, v) == [m \in Level(Steps - k) |->
                               IF ChildrenOf(m) = {} \/ k = 0 THEN 1 ELSE Divide(v, m)]
           Table(f) == [l \in 0 .. Steps |-> Onwards(l, f[l - 1])]
           divisions == CHOOSE f : f = Table(f)
           Typed(k) == [Level(Steps - k) -> Nat \ {0}]
           V == UNION {Typed(k) : k \in 0 .. Steps}
           start == Onwards(0, << >>)
           G == [k \in 1 .. Steps |->
                   [v \in V |-> IF Onwards(k, v) \in V THEN Onwards(k, v) ELSE start]]
<1>1. Divisions = [m \in DOMAIN id |-> divisions[Steps - m[1]][m]]
  BY DEF Divisions
<1>2. Steps \in Nat /\ IsFiniteSet(D) /\ DOMAIN id = D /\ \A m \in D : m[1] \in 1 .. Steps
  BY ParentsAbove DEF Linked, Nodes
<1>3. ASSUME NEW m \in D
      PROVE  /\ Kids(m) \subseteq D /\ IsFiniteSet(Kids(m))
             /\ \A c \in Kids(m) : c[1] = m[1] + 1 /\ c \in ChildrenOf(m)
  <2>1. \A c \in Kids(m) : c \in D /\ parent[c] = m /\ c \in ChildrenOf(m)
    BY LinksAre DEF Clusters, LiveChildren
  <2>2. \A c \in Kids(m) : c[1] = m[1] + 1
    <3> SUFFICES ASSUME NEW c \in Kids(m)
                 PROVE  c[1] = m[1] + 1
      OBVIOUS
    <3>1. c \in D /\ parent[c] = m /\ m # Root
      BY <2>1, LinksAre
    <3>2. c[1] \in Nat /\ m[1] = c[1] - 1
      BY <3>1, ParentsAbove DEF Linked
    <3> QED
      BY <1>2, <3>2
  <2>3. Kids(m) \in SUBSET D
    BY <2>1
  <2> HIDE DEF Kids
  <2> QED
    BY <1>2, <2>1, <2>2, <2>3, FS_Subset
<1>4. \A m : m \in Level(m[1]) <=> m \in D
  BY <1>2 DEF Level
<1>5. \A l, m : m \in Level(l) <=> m \in D /\ m[1] = l
  BY <1>2 DEF Level
<1>6. \A m \in D : \A v : (\A c \in Kids(m) : v[c] \in Nat) =>
        /\ Divide(v, m) \in Nat \ {0}
        /\ Kids(m) = {} => Divide(v, m) = 1
        /\ \A k : Kids(m) = {k} => Divide(v, m) = IF v[k] = 0 THEN 1 ELSE v[k]
  <2> SUFFICES ASSUME NEW m \in D, NEW v, \A c \in Kids(m) : v[c] \in Nat
               PROVE  /\ Divide(v, m) \in Nat \ {0}
                      /\ Kids(m) = {} => Divide(v, m) = 1
                      /\ \A k : Kids(m) = {k} => Divide(v, m) = IF v[k] = 0 THEN 1 ELSE v[k]
    OBVIOUS
  <2>1. Total(v, Kids(m)) = Sum(v, Kids(m))
    BY Zenon DEF Total, Sum
  <2>2. IsFiniteSet(Kids(m))
    BY <1>3
  <2> HIDE DEF Kids
  <2>3. /\ Sum(v, Kids(m)) \in Nat /\ (Kids(m) = {} => Sum(v, Kids(m)) = 0)
        /\ \A x : Kids(m) = {x} => Sum(v, Kids(m)) = v[x]
    BY <2>2, SumOfNumbers
  <2>4. Divide(v, m) = Max({1, Sum(v, Kids(m))})
    BY <2>1
  <2> QED
    BY <2>3, <2>4, MaxOfTwo
<1> HIDE DEF Divide, Kids
<1>7. \A k, v : /\ DOMAIN Onwards(k, v) = Level(Steps - k)
                /\ \A m \in Level(Steps - k) : Onwards(k, v)[m] =
                     IF ChildrenOf(m) = {} \/ k = 0 THEN 1 ELSE Divide(v, m)
                /\ Onwards(k, v) = [m \in Level(Steps - k) |-> Onwards(k, v)[m]]
  OBVIOUS
<1> HIDE DEF Onwards
<1>8. \A v : Onwards(0, v) = start
  BY <1>7
<1>9. start \in Typed(0)
  <2>1. \A m \in Level(Steps - 0) : start[m] \in Nat \ {0}
    BY <1>7
  <2> HIDE DEF start
  <2>2. start = [m \in Level(Steps - 0) |-> start[m]]
    BY <1>7 DEF start
  <2> QED
    BY <2>1, <2>2
<1> HIDE DEF start
<1>10. ASSUME NEW k \in 1 .. Steps, NEW v \in Typed(k - 1)
       PROVE  Onwards(k, v) \in Typed(k)
  <2>1. ASSUME NEW m \in Level(Steps - k)
        PROVE  Onwards(k, v)[m] \in Nat \ {0}
    <3>1. m \in D /\ m[1] = Steps - k
      BY <1>5
    <3>2. \A c \in Kids(m) : c \in Level(Steps - (k - 1))
      BY <1>2, <1>3, <1>5, <3>1
    <3>3. \A c \in Kids(m) : v[c] \in Nat
      BY <3>2
    <3>4. Divide(v, m) \in Nat \ {0}
      BY <1>6, <3>1, <3>3
    <3> QED
      BY <1>7, <3>4
  <2> QED
    BY <1>7, <2>1
<1>11. \A k \in 0 .. Steps : Typed(k) \subseteq V
  OBVIOUS
<1> HIDE DEF Typed, V
<1>12. \E f : f = Table(f)
  <2>1. 0 \in 0 .. Steps /\ start \in V
    BY <1>2, <1>9, <1>11
  <2>2. \A k \in 1 .. Steps, v \in V :
          G[k][v] = IF Onwards(k, v) \in V THEN Onwards(k, v) ELSE start
    OBVIOUS
  <2> HIDE DEF G
  <2>3. Steppable(Steps, V, start, G)
    BY <1>2, <2>1, <2>2 DEF Steppable
  <2>4. PICK f \in [0 .. Steps -> V] : f[0] = start /\ \A k \in 1 .. Steps : f[k] = G[k][f[k - 1]]
    <3>1. Iterated(Steps, V, start, G)
      BY <2>3, IterationExists
    <3> QED
      BY <3>1 DEF Iterated
  <2> DEFINE S == {k \in 0 .. Steps : f[k] \in Typed(k) /\ f[k] = Onwards(k, f[k - 1])}
  <2>5. 0 \in S
    BY <1>8, <1>9, <2>1, <2>4
  <2>6. ASSUME NEW k \in 1 .. Steps, k - 1 \in S
        PROVE  k \in S
    <3>1. f[k - 1] \in Typed(k - 1) /\ k \in 0 .. Steps /\ k - 1 \in 0 .. Steps
      BY <1>2, <2>6
    <3>2. Onwards(k, f[k - 1]) \in Typed(k)
      BY <1>10, <3>1
    <3>3. f[k] = Onwards(k, f[k - 1])
      BY <1>11, <2>2, <2>4, <3>1, <3>2
    <3> QED
      BY <3>1, <3>2, <3>3
  <2> HIDE DEF S
  <2>7. 0 .. Steps \subseteq S
    BY <1>2, <2>5, <2>6, BoundedInduction
  <2>8. \A k \in 0 .. Steps : f[k] = Onwards(k, f[k - 1])
    BY <2>7 DEF S
  <2>9. f = [k \in 0 .. Steps |-> f[k]]
    BY <2>4
  <2>10. f = Table(f)
    BY <2>8, <2>9
  <2> QED
    BY <2>10
<1>13. divisions = Table(divisions)
  <2> HIDE DEF Table
  <2> QED
    BY <1>12
<1>14. \A k \in 0 .. Steps : divisions[k] = Onwards(k, divisions[k - 1])
  <2>1. \A f : f = Table(f) => \A k \in 0 .. Steps : f[k] = Onwards(k, f[k - 1])
    OBVIOUS
  <2> HIDE DEF Table, divisions
  <2> QED
    BY <1>13, <2>1
<1> HIDE DEF Table, divisions, G
<1> DEFINE S == {k \in 0 .. Steps : divisions[k] \in Typed(k)}
<1>15. 0 .. Steps \subseteq S
  <2>1. 0 \in S
    BY <1>2, <1>8, <1>9, <1>14
  <2>2. ASSUME NEW k \in 1 .. Steps, k - 1 \in S
        PROVE  k \in S
    <3>1. divisions[k - 1] \in Typed(k - 1) /\ k \in 0 .. Steps
      BY <1>2, <2>2
    <3>2. divisions[k] = Onwards(k, divisions[k - 1])
      BY <1>14, <3>1
    <3> QED
      BY <1>10, <3>1, <3>2
  <2> HIDE DEF S
  <2> QED
    BY <1>2, <2>1, <2>2, BoundedInduction
<1> DEFINE l == Steps - n[1]
<1>16. l \in 0 .. Steps /\ Steps - l = n[1] /\ n \in Level(Steps - l) /\ n[1] \in Nat
  BY <1>2, <1>5
<1>17. \A m \in D : Divisions[m] = divisions[Steps - m[1]][m]
  BY <1>1, <1>2
<1> HIDE DEF l
<1>18. Divisions[n] = divisions[l][n]
  BY <1>17 DEF l
<1>19. divisions[l] \in Typed(l)
  BY <1>15, <1>16
<1>20. Divisions[n] \in Nat \ {0}
  BY <1>16, <1>18, <1>19 DEF Typed
<1>21. Divisions[n] = IF ChildrenOf(n) = {} \/ l = 0 THEN 1 ELSE Divide(divisions[l - 1], n)
  <2>1. divisions[l] = Onwards(l, divisions[l - 1])
    BY <1>14, <1>16
  <2> QED
    BY <1>7, <1>16, <1>18, <2>1
<1>22. l # 0 => \A c \in Kids(n) : /\ divisions[l - 1][c] \in Nat \ {0}
                                   /\ divisions[l - 1][c] = Divisions[c]
  <2> SUFFICES ASSUME l # 0, NEW c \in Kids(n)
               PROVE  /\ divisions[l - 1][c] \in Nat \ {0}
                      /\ divisions[l - 1][c] = Divisions[c]
    OBVIOUS
  <2>1. l - 1 \in 0 .. Steps /\ c \in D /\ c[1] = n[1] + 1
    BY <1>3, <1>16, <1>2
  <2>2. Steps - c[1] = l - 1 /\ Steps - (l - 1) = c[1]
    BY <1>2, <1>16, <2>1 DEF l
  <2>3. c \in Level(Steps - (l - 1))
    BY <1>5, <2>1, <2>2
  <2>4. divisions[l - 1] \in Typed(l - 1)
    BY <1>15, <2>1
  <2>5. divisions[l - 1][c] \in Nat \ {0}
    BY <2>3, <2>4 DEF Typed
  <2> QED
    BY <1>17, <2>1, <2>2, <2>5
<1>23. Kids(n) # {} => l # 0 /\ ChildrenOf(n) # {}
  <2> SUFFICES ASSUME NEW c \in Kids(n)
               PROVE  l # 0 /\ ChildrenOf(n) # {}
    OBVIOUS
  <2>1. c \in D /\ c[1] = n[1] + 1 /\ c \in ChildrenOf(n)
    BY <1>3
  <2>2. c[1] \in 1 .. Steps
    BY <1>2, <2>1
  <2> QED
    BY <1>2, <1>16, <2>1, <2>2
<1>24. Kids(n) = {} => Divisions[n] = 1
  BY <1>6, <1>21
<1>25. ASSUME NEW k, Kids(n) = {k}
       PROVE  Divisions[n] = Divisions[k]
  <2>1. l # 0 /\ ChildrenOf(n) # {} /\ k \in Kids(n)
    BY <1>23, <1>25
  <2>2. \A c \in Kids(n) : divisions[l - 1][c] \in Nat /\ divisions[l - 1][c] # 0
    BY <1>22, <2>1
  <2>3. Divide(divisions[l - 1], n) = divisions[l - 1][k]
    BY <1>6, <1>25, <2>1, <2>2
  <2> QED
    BY <1>21, <1>22, <2>1, <2>3
<1> QED
  BY <1>20, <1>24, <1>25 DEF Kids

-----------------------------------------------------------------------------
(* Pruning *)

Gone == discarded \cup Collapsed
Work == LeafParents(Gone)

\* Children are taken back together.
LEMMA CollapsedAre ==
  ASSUME Linked
  PROVE  /\ Collapsed \subseteq DOMAIN bursts
         /\ \A c \in DOMAIN bursts :
              c \in Collapsed <=> parent[c] \in Visited /\ Divisions[parent[c]] = 1
<1>1. \A c : c \in Collapsed <=>
        \E n \in Visited : Divisions[n] = 1 /\ c \in ChildrenOf(n)
  BY DEF Collapsed
<1>2. \A n, c : c \in ChildrenOf(n) <=> c \in DOMAIN bursts /\ parent[c] = n
  BY LinksAre
<1> QED
  BY <1>1, <1>2

\* The bursts B and the discarded nodes gone when the noise under the nodes of Work was
\* given to clusters there.
Reclassified(B, gone) ==
  /\ DOMAIN B = DOMAIN bursts
  /\ gone = Gone \cup {c \in DOMAIN bursts : IsNoise(c) /\ parent[c] \in Work}
  /\ \A c \in DOMAIN bursts :
       /\ B[c] \subseteq Burst
       /\ parent[c] \notin Work => B[c] = bursts[c]
       /\ c \notin gone => bursts[c] \subseteq B[c]
  /\ \A p \in Work : ChildrenOf(p) # {} => Share(B, Clusters(ChildrenOf(p)), bursts[p])

LEMMA PruneReclassifies ==
  ASSUME IInv, Prune
  PROVE  Reclassified(bursts', discarded')
<1> DEFINE D == DOMAIN bursts
           moved == UNION {NoiseOf(n) : n \in Work}
           noise == {c \in DOMAIN id : IsNoise(c) /\ parent[c] \in Work}
<1>1. pc = "prune" /\ discarded' = Gone \cup noise
  BY DEF Prune, Gone, Work
<1>2. PICK to \in [moved -> Clusters(DOMAIN id)] :
        /\ \A n \in Work : \A b \in NoiseOf(n) : to[b] \in Nearest(n, b)
        /\ bursts' = [c \in D |-> IF c \in noise THEN {}
                                  ELSE bursts[c] \cup {b \in moved : to[b] = c}]
  BY DEF Prune, Gone, Work
<1>3. /\ IsFiniteSet(D) /\ Nodes(parent) /\ Ranked(parent) /\ Forest(bursts, parent, discarded)
      /\ DOMAIN parent = D /\ DOMAIN id = D
      /\ \A n \in D : bursts[n] \in SUBSET Burst
  BY <1>1, LoopStart
<1>4. Linked
  BY <1>3 DEF Linked
<1>5. \A n, c : c \in ChildrenOf(n) <=> c \in D /\ parent[c] = n
  BY <1>4, LinksAre
<1>6. \A n \in Work : n \in D /\ ~IsNoise(n)
  BY <1>4, LeafParentsAre DEF Work
<1>7. \A n, b : b \in NoiseOf(n) <=> \E d \in D : parent[d] = n /\ IsNoise(d) /\ b \in bursts[d]
  BY <1>5 DEF NoiseOf
<1>8. /\ \A b : b \in moved <=> \E n \in Work : b \in NoiseOf(n)
      /\ \A c : c \in noise <=> c \in D /\ IsNoise(c) /\ parent[c] \in Work
  BY <1>3
<1>9. \A n \in Work : \A b \in NoiseOf(n) : to[b] \in D /\ parent[to[b]] = n /\ ~IsNoise(to[b])
  <2>1. \A n, b : \A c \in Nearest(n, b) : c \in Clusters(ChildrenOf(n))
    BY DEF Nearest
  <2> QED
    BY <1>2, <1>5, <2>1 DEF Clusters
<1> HIDE DEF moved
<1>10. \A c \in D : bursts'[c] = IF c \in noise THEN {} ELSE bursts[c] \cup {b \in moved : to[b] = c}
  BY <1>2
<1> HIDE DEF noise
<1>11. ASSUME NEW c \in D
       PROVE  /\ bursts'[c] \subseteq Burst
              /\ parent[c] \notin Work => bursts'[c] = bursts[c]
              /\ c \notin discarded' => bursts[c] \subseteq bursts'[c]
  <2>1. \A b \in moved : b \in Burst /\ parent[to[b]] \in Work
    BY <1>3, <1>7, <1>8, <1>9
  <2>2. bursts'[c] \subseteq Burst
    BY <1>3, <1>10, <2>1
  <2>3. parent[c] \notin Work => bursts'[c] = bursts[c]
    BY <1>8, <1>10, <2>1
  <2>4. c \notin discarded' => bursts[c] \subseteq bursts'[c]
    BY <1>1, <1>10
  <2> QED
    BY <2>2, <2>3, <2>4
<1>12. ASSUME NEW p \in Work, ChildrenOf(p) # {}
       PROVE  Share(bursts', Clusters(ChildrenOf(p)), bursts[p])
  <2> DEFINE K == Clusters(ChildrenOf(p))
  <2>1. \A c : c \in K <=> c \in D /\ parent[c] = p /\ ~IsNoise(c)
    BY <1>5 DEF Clusters
  <2>2. \A c \in K : bursts'[c] = bursts[c] \cup {b \in moved : to[b] = c}
    BY <1>8, <1>10, <2>1
  <2>3. /\ \A c \in ChildrenOf(p) : bursts[c] \subseteq bursts[p]
        /\ \A b \in bursts[p] : \E c \in ChildrenOf(p) : b \in bursts[c]
        /\ \A c, d \in ChildrenOf(p) : c # d => bursts[c] \cap bursts[d] = {}
    <3>1. p \in D /\ ChildrenOf(p) = Under(parent, p)
      BY <1>4, <1>6, LinksAre
    <3>2. Share(bursts, ChildrenOf(p), bursts[p])
      BY <1>3, <1>12, <3>1 DEF Forest
    <3> QED
      BY <3>2 DEF Share
  <2>4. \A b \in moved : to[b] \in K => b \in NoiseOf(p)
    BY <1>8, <1>9, <2>1
  <2>5. \A b \in NoiseOf(p) : /\ b \in moved /\ to[b] \in K
                              /\ \E d \in ChildrenOf(p) : IsNoise(d) /\ b \in bursts[d]
    BY <1>5, <1>7, <1>8, <1>9, <2>1
  <2>6. \A c \in K : c \in ChildrenOf(p) /\ ~IsNoise(c)
    BY <1>5, <2>1
  <2> HIDE DEF K
  <2>7. ASSUME NEW c \in K
        PROVE  bursts'[c] \subseteq bursts[p]
    <3>1. bursts[c] \subseteq bursts[p]
      BY <2>3, <2>6
    <3>2. \A b \in moved : to[b] = c => b \in bursts[p]
      BY <2>3, <2>4, <2>5
    <3> QED
      BY <2>2, <3>1, <3>2
  <2>8. ASSUME NEW b \in bursts[p]
        PROVE  \E c \in K : b \in bursts'[c]
    <3>1. PICK d \in ChildrenOf(p) : b \in bursts[d]
      BY <2>3
    <3>2. CASE IsNoise(d)
      <4>1. b \in NoiseOf(p)
        BY <1>5, <1>7, <3>1, <3>2
      <4> QED
        BY <2>2, <2>5, <4>1
    <3>3. CASE ~IsNoise(d)
      <4>1. d \in K
        BY <1>5, <2>1, <3>3
      <4> QED
        BY <2>2, <3>1, <4>1
    <3> QED
      BY <3>2, <3>3
  <2>9. ASSUME NEW c \in K, NEW d \in K, c # d, NEW b, b \in bursts'[c], b \in bursts'[d]
        PROVE  FALSE
    <3>1. /\ b \in bursts[c] \/ (b \in NoiseOf(p) /\ to[b] = c)
          /\ b \in bursts[d] \/ (b \in NoiseOf(p) /\ to[b] = d)
      <4>1. \A x \in K : \A y : y \in bursts'[x] <=> y \in bursts[x] \/ (y \in moved /\ to[y] = x)
        BY <2>2
      <4>2. \A x \in K : \A y : y \in bursts'[x] =>
              y \in bursts[x] \/ (y \in NoiseOf(p) /\ to[y] = x)
        BY <2>4, <4>1
      <4> QED
        BY <2>9, <4>2
    <3>2. \A x \in K : b \in NoiseOf(p) => b \notin bursts[x]
      BY <2>3, <2>5, <2>6
    <3>3. b \notin bursts[c] \/ b \notin bursts[d]
      BY <2>3, <2>6, <2>9
    <3> QED
      BY <2>9, <3>1, <3>2, <3>3
  <2>10. \A c, d \in K : c # d => bursts'[c] \cap bursts'[d] = {}
    BY <2>9
  <2>11. Share(bursts', K, bursts[p])
    BY <2>7, <2>8, <2>10 DEF Share
  <2> QED
    BY <2>11 DEF K
<1>13. DOMAIN bursts' = D
  BY <1>2
<1>14. discarded' = Gone \cup {c \in D : IsNoise(c) /\ parent[c] \in Work}
  BY <1>1, <1>3 DEF noise
<1> QED
  BY <1>11, <1>12, <1>13, <1>14 DEF Reclassified

\* What is left under a node: nothing, all of its children, or the clusters among them.
LEMMA LeftUnder ==
  ASSUME IInv, pc = "prune", NEW B, NEW gone, Reclassified(B, gone),
         NEW A, Walk(A, parent, gone), NEW p \in A
  PROVE  /\ p \in DOMAIN bursts \ discarded /\ B[p] # {}
         /\ \/ A \cap Under(parent, p) = {}
            \/ /\ Under(parent, p) # {} /\ Under(parent, p) \cap Gone = {}
               /\ B[p] = bursts[p]
               /\ A \cap Under(parent, p) = IF p \in Work THEN Clusters(ChildrenOf(p))
                                                           ELSE Under(parent, p)
<1> DEFINE D == DOMAIN bursts
<1>1. /\ IsFiniteSet(D) /\ Nodes(parent) /\ Ranked(parent) /\ Forest(bursts, parent, discarded)
      /\ DOMAIN parent = D /\ DOMAIN id = D
  BY LoopStart
<1>2. Linked
  BY <1>1 DEF Linked
<1>3. /\ A \subseteq D /\ p \in D /\ p \notin gone
      /\ \A c \in D : c \in A <=> c \notin gone /\ (parent[c] = Root \/ parent[c] \in A)
  BY <1>1 DEF Walk
<1>4. \A c : c \in gone <=> c \in Gone \/ (c \in D /\ IsNoise(c) /\ parent[c] \in Work)
  BY DEF Reclassified
<1>5. \A c : c \in Under(parent, p) <=> c \in D /\ parent[c] = p
  BY <1>1 DEF Under
<1>6. p \in D \ discarded /\ B[p] # {}
  <2>1. p \notin discarded
    BY <1>3, <1>4 DEF Gone
  <2>2. bursts[p] \subseteq B[p] /\ bursts[p] # {}
    BY <1>1, <1>3 DEF Reclassified, Forest
  <2> QED
    BY <1>3, <2>1, <2>2
<1>7. Under(parent, p) \subseteq Gone \/ Under(parent, p) \cap Gone = {}
  <2>1. Under(parent, p) \subseteq discarded \/ Under(parent, p) \cap discarded = {}
    BY <1>1, <1>3 DEF Forest
  <2>2. Under(parent, p) \subseteq Collapsed \/ Under(parent, p) \cap Collapsed = {}
    BY <1>2, <1>5, CollapsedAre
  <2> QED
    BY <2>1, <2>2 DEF Gone
<1>8. ASSUME Under(parent, p) # {}, Under(parent, p) \cap Gone = {}
      PROVE  /\ B[p] = bursts[p]
             /\ A \cap Under(parent, p) = IF p \in Work THEN Clusters(ChildrenOf(p))
                                                         ELSE Under(parent, p)
  <2>1. parent[p] \notin Work
    <3> SUFFICES ASSUME parent[p] \in Work
                 PROVE  FALSE
      OBVIOUS
    <3>1. ChildrenOf(p) \subseteq Gone
      BY <1>2, <1>3, LeafParentsAre, LinksAre DEF Work
    <3>2. ChildrenOf(p) = Under(parent, p)
      BY <1>2, LinksAre
    <3> QED
      BY <1>8, <3>1, <3>2
  <2>2. B[p] = bursts[p]
    BY <1>3, <2>1 DEF Reclassified
  <2>3. \A c : c \in A \cap Under(parent, p) <=> c \in Under(parent, p) /\ ~(IsNoise(c) /\ p \in Work)
    BY <1>3, <1>4, <1>5, <1>8
  <2>4. \A c : c \in Clusters(ChildrenOf(p)) <=> c \in Under(parent, p) /\ ~IsNoise(c)
    <3>1. ChildrenOf(p) = Under(parent, p)
      BY <1>2, LinksAre
    <3> QED
      BY <3>1 DEF Clusters
  <2> QED
    BY <2>2, <2>3, <2>4
<1>9. Under(parent, p) \subseteq Gone => A \cap Under(parent, p) = {}
  BY <1>3, <1>4
<1> QED
  BY <1>6, <1>7, <1>8, <1>9

\* What is left is shared out in the same way as before.
LEMMA PrunedDivides ==
  ASSUME IInv, pc = "prune", NEW B, NEW gone, Reclassified(B, gone),
         NEW A, Walk(A, parent, gone)
  PROVE  /\ Divided(B, A, parent) /\ A \subseteq DOMAIN bursts
         /\ Share(B, Under(parent, Root), Burst)
         /\ \A t \in Under(parent, Root) : t \in A /\ B[t] = bursts[t]
<1> DEFINE D == DOMAIN bursts
<1>1. /\ IsFiniteSet(D) /\ Nodes(parent) /\ Ranked(parent) /\ Forest(bursts, parent, discarded)
      /\ DOMAIN parent = D /\ DOMAIN id = D
  BY LoopStart
<1>2. Linked
  BY <1>1 DEF Linked
<1>3. /\ A \subseteq D
      /\ \A c \in D : c \in A <=> c \notin gone /\ (parent[c] = Root \/ parent[c] \in A)
  BY <1>1 DEF Walk
<1>4. \A c : c \in gone <=> c \in Gone \/ (c \in D /\ IsNoise(c) /\ parent[c] \in Work)
  BY DEF Reclassified
<1>5. \A n, c : c \in Under(parent, n) <=> c \in D /\ parent[c] = n
  BY <1>1 DEF Under
<1>6. Root \notin Work /\ Root \notin Visited
  <2>1. Root \notin D
    BY <1>2, LinksAre
  <2>2. \A n \in Work : n \in D
    BY <1>2, LeafParentsAre DEF Work
  <2> QED
    BY <1>2, <2>1, <2>2, VisitedAre
<1>7. ASSUME NEW t \in Under(parent, Root)
      PROVE  t \in A /\ B[t] = bursts[t]
  <2>1. t \in D /\ parent[t] = Root
    BY <1>5
  <2>2. t \notin discarded
    BY <1>1, <2>1 DEF Forest
  <2>3. t \notin Collapsed
    BY <1>2, <1>6, <2>1, CollapsedAre
  <2>4. t \notin gone
    BY <1>4, <1>6, <2>1, <2>2, <2>3 DEF Gone
  <2> QED
    BY <1>3, <1>6, <2>1, <2>4 DEF Reclassified
<1>8. Share(B, Under(parent, Root), Burst)
  <2>1. Share(bursts, Under(parent, Root), Burst)
    BY <1>1 DEF Forest
  <2> QED
    BY <1>7, <2>1, ShareSame
<1>9. A \cap Under(parent, Root) = Under(parent, Root)
  BY <1>7
<1>10. ASSUME NEW p \in A, A \cap Under(parent, p) # {}
       PROVE  Share(B, A \cap Under(parent, p), B[p])
  <2>1. /\ p \in D /\ Under(parent, p) # {} /\ B[p] = bursts[p]
        /\ A \cap Under(parent, p) = IF p \in Work THEN Clusters(ChildrenOf(p))
                                                    ELSE Under(parent, p)
    BY <1>10, LeftUnder
  <2>2. ChildrenOf(p) = Under(parent, p)
    BY <1>2, LinksAre
  <2>3. CASE p \in Work
    BY <2>1, <2>2, <2>3 DEF Reclassified
  <2>4. CASE p \notin Work
    <3>1. Share(bursts, Under(parent, p), bursts[p])
      BY <1>1, <2>1 DEF Forest
    <3>2. \A c \in Under(parent, p) : B[c] = bursts[c]
      BY <1>5, <2>4 DEF Reclassified
    <3>3. Share(B, Under(parent, p), bursts[p])
      BY <3>1, <3>2, ShareSame
    <3> QED
      BY <2>1, <2>4, <3>3
  <2> QED
    BY <2>3, <2>4
<1>11. Divided(B, A, parent)
  BY <1>8, <1>9, <1>10 DEF Divided
<1> QED
  BY <1>3, <1>7, <1>8, <1>11

\* So that what is under a node has its bursts, and siblings have none in common.
LEMMA PrunedNests ==
  ASSUME IInv, pc = "prune", NEW B, NEW gone, Reclassified(B, gone),
         NEW A, Walk(A, parent, gone)
  PROVE  /\ \A c \in A : parent[c] # Root => parent[c] \in A /\ B[c] \subseteq B[parent[c]]
         /\ \A c, d \in A : c # d /\ parent[c] = parent[d] => B[c] \cap B[d] = {}
<1>1. Divided(B, A, parent) /\ A \subseteq DOMAIN bursts /\ DOMAIN parent = DOMAIN bursts
  BY PrunedDivides, LoopStart
<1>2. \A n, c : c \in Under(parent, n) <=> c \in DOMAIN bursts /\ parent[c] = n
  BY <1>1 DEF Under
<1>3. \A c \in A : parent[c] = Root \/ parent[c] \in A
  BY <1>1 DEF Walk
<1>4. ASSUME NEW c \in A
      PROVE  Share(B, A \cap Under(parent, parent[c]),
                   IF parent[c] = Root THEN Burst ELSE B[parent[c]])
  <2>1. c \in A \cap Under(parent, parent[c])
    BY <1>1, <1>2
  <2>2. CASE parent[c] = Root
    BY <1>1, <2>2 DEF Divided
  <2>3. CASE parent[c] # Root
    BY <1>1, <1>3, <2>1, <2>3 DEF Divided
  <2> QED
    BY <2>2, <2>3
<1>5. ASSUME NEW c \in A, parent[c] # Root
      PROVE  parent[c] \in A /\ B[c] \subseteq B[parent[c]]
  <2>1. Share(B, A \cap Under(parent, parent[c]), B[parent[c]])
    BY <1>4, <1>5
  <2> QED
    BY <1>1, <1>2, <1>3, <1>5, <2>1 DEF Share
<1>6. ASSUME NEW c \in A, NEW d \in A, c # d, parent[c] = parent[d]
      PROVE  B[c] \cap B[d] = {}
  <2>1. c \in A \cap Under(parent, parent[c]) /\ d \in A \cap Under(parent, parent[c])
    BY <1>1, <1>2, <1>6
  <2>2. \A S : Share(B, A \cap Under(parent, parent[c]), S) => B[c] \cap B[d] = {}
    BY <1>6, <2>1 DEF Share
  <2> QED
    BY <1>4, <2>2
<1> QED
  BY <1>5, <1>6

\* A node has the bursts of one at the top, and is noise when that is.
LEMMA PrunedTops ==
  ASSUME IInv, pc = "prune", NEW B, NEW gone, Reclassified(B, gone),
         NEW A, Walk(A, parent, gone), NEW n \in A
  PROVE  \E t \in Under(parent, Root) : B[n] \subseteq bursts[t] /\ (IsNoise(t) => IsNoise(n))
<1> DEFINE D == DOMAIN bursts
           Topped(x) == \E t \in Under(parent, Root) :
                          B[x] \subseteq bursts[t] /\ (IsNoise(t) => IsNoise(x))
           X == {x \in D : x \in A => Topped(x)}
<1>1. /\ Nodes(parent) /\ Ranked(parent) /\ DOMAIN parent = D /\ Noisy
      /\ A \subseteq D /\ \A t \in Under(parent, Root) : t \in A /\ B[t] = bursts[t]
  BY LoopStart, PrunedDivides
<1>2. \A c \in A : parent[c] # Root => parent[c] \in A /\ B[c] \subseteq B[parent[c]]
  BY PrunedNests
<1>3. \A x \in DOMAIN parent : parent[x] = Root => x \in X
  <2> SUFFICES ASSUME NEW x \in D, parent[x] = Root
               PROVE  Topped(x)
    BY <1>1
  <2>1. x \in Under(parent, Root)
    BY <1>1 DEF Under
  <2> QED
    BY <1>1, <2>1
<1>4. \A x \in DOMAIN parent : parent[x] \in DOMAIN parent \cap X => x \in X
  <2> SUFFICES ASSUME NEW x \in D, parent[x] \in D \cap X, x \in A
               PROVE  Topped(x)
    BY <1>1
  <2>1. parent[x] # Root /\ x[1] > 1
    BY <1>1, ParentsAbove
  <2>2. parent[x] \in A /\ B[x] \subseteq B[parent[x]]
    BY <1>2, <2>1
  <2>3. IsNoise(parent[x]) => IsNoise(x)
    BY <1>1, <2>1 DEF Noisy
  <2>4. Topped(parent[x])
    BY <2>2
  <2> QED
    BY <2>2, <2>3, <2>4
<1> HIDE DEF X, Topped
<1>5. DOMAIN parent \subseteq X
  BY <1>1, <1>3, <1>4, DownTheLevels
<1> QED
  BY <1>1, <1>5 DEF X, Topped

\* Clusters of a visited node that is divided are left.
LEMMA PrunedKids ==
  ASSUME IInv, pc = "prune", NEW B, NEW gone, Reclassified(B, gone),
         NEW A, Walk(A, parent, gone), NEW n \in A, n \in Visited,
         NEW k \in Clusters(LiveChildren(n)), Divisions[n] # 1
  PROVE  /\ k \in A /\ k \in Visited /\ ~IsNoise(k) /\ k \in Under(parent, n)
         /\ B[k] \subseteq B[n] /\ parent[k] = n
<1> DEFINE D == DOMAIN bursts
<1>1. IsFiniteSet(D) /\ Nodes(parent) /\ Ranked(parent) /\ DOMAIN parent = D /\ DOMAIN id = D
  BY LoopStart
<1>2. Linked
  BY <1>1 DEF Linked
<1>3. k \in D /\ parent[k] = n /\ k \notin discarded /\ ~IsNoise(k)
  BY <1>2, LinksAre DEF Clusters, LiveChildren
<1>4. k \in Visited /\ k \notin Collapsed
  BY <1>2, <1>3, VisitedAre, CollapsedAre
<1>5. k \notin gone
  BY <1>3, <1>4 DEF Reclassified, Gone
<1>6. k \in A
  BY <1>1, <1>3, <1>5 DEF Walk
<1>7. n # Root
  BY <1>1, <1>2, LinksAre DEF Walk
<1>8. B[k] \subseteq B[n]
  BY <1>3, <1>6, <1>7, PrunedNests
<1> QED
  BY <1>1, <1>3, <1>4, <1>6, <1>8 DEF Under

\* Under a visited cluster there is an end with its id.
LEMMA PrunedHeir ==
  ASSUME IInv, pc = "prune", NEW B, NEW gone, Reclassified(B, gone),
         NEW A, Walk(A, parent, gone), NEW n \in A, n \in Visited, ~IsNoise(n)
  PROVE  \E e \in Ends(A, parent) : B[e] \subseteq B[n] /\ id[e] = id[n]
<1> DEFINE D == DOMAIN bursts
           Heir(x) == \E e \in Ends(A, parent) : B[e] \subseteq B[x] /\ id[e] = id[x]
           X == {x \in D : x \in A /\ x \in Visited /\ ~IsNoise(x) => Heir(x)}
<1>1. /\ IsFiniteSet(D) /\ Nodes(parent) /\ Ranked(parent) /\ DOMAIN parent = D /\ DOMAIN id = D
      /\ Lineage /\ A \subseteq D
  BY LoopStart, PrunedDivides
<1>2. Linked
  BY <1>1 DEF Linked
<1>3. LineageOf(id, parent, D \ discarded)
  <2>1. Named = D \ discarded
    BY DEF Named
  <2> QED
    BY <1>1, <2>1 DEF Lineage
<1>4. \A x \in DOMAIN parent : (\A c \in Under(parent, x) : c \in X) => x \in X
  <2> SUFFICES ASSUME NEW x \in D, \A c \in Under(parent, x) : c \in X,
                      x \in A, x \in Visited, ~IsNoise(x)
               PROVE  Heir(x)
    BY <1>1
  <2>1. CASE A \cap Under(parent, x) = {}
    <3>1. x \in Ends(A, parent)
      BY <1>1, <2>1 DEF Ends, Under
    <3> QED
      BY <3>1
  <2>2. CASE A \cap Under(parent, x) # {}
    <3>1. Under(parent, x) # {} /\ Under(parent, x) \cap Gone = {}
      BY <2>2, LeftUnder
    <3>2. PICK y \in Under(parent, x) : y \in D /\ parent[y] = x /\ y \notin Collapsed
      BY <1>1, <3>1 DEF Under, Gone
    <3>3. Divisions[x] # 1
      BY <1>2, <3>2, CollapsedAre
    <3>4. Clusters(LiveChildren(x)) # {}
      BY <1>2, <3>3, DivisionsAre
    <3>5. PICK k \in Clusters(LiveChildren(x)) : TRUE
      BY <3>4
    <3>6. k \in D \ discarded /\ parent[k] = x /\ id[k] # NOISE_CLUSTERID
      BY <1>2, <3>5, LinksAre DEF Clusters, LiveChildren, IsNoise
    <3>7. k[1] > 1
      BY <1>1, <1>2, <3>6, LinksAre, ParentsAbove
    <3>8. PICK c \in D \ discarded : parent[c] = x /\ id[c] = id[x]
      BY <1>3, <3>6, <3>7 DEF LineageOf
    <3>9. c \in Clusters(LiveChildren(x))
      BY <1>2, <3>8, LinksAre DEF Clusters, LiveChildren, IsNoise
    <3>10. /\ c \in A /\ c \in Visited /\ ~IsNoise(c) /\ c \in Under(parent, x)
           /\ B[c] \subseteq B[x]
      BY <3>3, <3>9, PrunedKids
    <3>11. Heir(c)
      BY <3>10
    <3> QED
      BY <3>8, <3>10, <3>11
  <2> QED
    BY <2>1, <2>2
<1> HIDE DEF X, Heir
<1>5. DOMAIN parent \subseteq X
  BY <1>1, <1>4, UpTheLevels
<1> QED
  BY <1>1, <1>5 DEF X, Heir

\* A visited cluster is an end, or two ends under it are clusters.
LEMMA PrunedPieces ==
  ASSUME IInv, pc = "prune", NEW B, NEW gone, Reclassified(B, gone),
         NEW A, Walk(A, parent, gone), NEW n \in A, n \in Visited, ~IsNoise(n)
  PROVE  \/ n \in Ends(A, parent)
         \/ \E e, f \in Ends(A, parent) :
              /\ e # f /\ ~IsNoise(e) /\ ~IsNoise(f)
              /\ B[e] \subseteq B[n] /\ B[f] \subseteq B[n]
<1> DEFINE D == DOMAIN bursts
           Pieces(x) == \E e, f \in Ends(A, parent) :
                          /\ e # f /\ ~IsNoise(e) /\ ~IsNoise(f)
                          /\ B[e] \subseteq B[x] /\ B[f] \subseteq B[x]
           X == {x \in D : x \in A /\ x \in Visited /\ Divisions[x] # 1 => Pieces(x)}
<1>1. /\ IsFiniteSet(D) /\ Nodes(parent) /\ Ranked(parent) /\ DOMAIN parent = D /\ DOMAIN id = D
      /\ A \subseteq D
  BY LoopStart, PrunedDivides
<1>2. Linked
  BY <1>1 DEF Linked
<1>3. \A x \in DOMAIN parent : (\A c \in Under(parent, x) : c \in X) => x \in X
  <2> SUFFICES ASSUME NEW x \in D, \A c \in Under(parent, x) : c \in X,
                      x \in A, x \in Visited, Divisions[x] # 1
               PROVE  Pieces(x)
    BY <1>1
  <2> DEFINE K == Clusters(LiveChildren(x))
  <2>1. \A k \in K : /\ k \in A /\ k \in Visited /\ ~IsNoise(k) /\ k \in Under(parent, x)
                     /\ B[k] \subseteq B[x] /\ parent[k] = x
    BY PrunedKids
  <2>2. /\ K # {}
        /\ \A k : K = {k} => Divisions[x] = Divisions[k]
    BY <1>2, DivisionsAre
  <2> HIDE DEF K
  <2>3. PICK k \in K : TRUE
    BY <2>2
  <2>4. CASE K = {k}
    <3>1. Divisions[k] # 1
      BY <2>2, <2>4
    <3>2. Pieces(k)
      BY <2>1, <2>3, <3>1
    <3>3. B[k] \subseteq B[x]
      BY <2>1, <2>3
    <3> QED
      BY <3>2, <3>3
  <2>5. CASE K # {k}
    <3>1. PICK j \in K : j # k
      BY <2>5
    <3>2. PICK e \in Ends(A, parent) : B[e] \subseteq B[k] /\ id[e] = id[k]
      BY <2>1, PrunedHeir
    <3>3. PICK f \in Ends(A, parent) : B[f] \subseteq B[j] /\ id[f] = id[j]
      BY <2>1, PrunedHeir
    <3>4. B[k] \cap B[j] = {}
      BY <2>1, <3>1, PrunedNests
    <3>5. e \in A /\ B[e] # {}
      <4>1. e \in A
        BY DEF Ends
      <4> QED
        BY <4>1, LeftUnder
    <3>6. e # f
      BY <3>2, <3>3, <3>4, <3>5
    <3>7. ~IsNoise(e) /\ ~IsNoise(f)
      BY <2>1, <3>2, <3>3 DEF IsNoise
    <3>8. B[e] \subseteq B[x] /\ B[f] \subseteq B[x]
      BY <2>1, <3>2, <3>3
    <3> QED
      BY <3>6, <3>7, <3>8
  <2> QED
    BY <2>4, <2>5
<1> HIDE DEF X
<1>4. DOMAIN parent \subseteq X
  BY <1>1, <1>3, UpTheLevels
<1>5. CASE A \cap Under(parent, n) = {}
  BY <1>1, <1>5 DEF Ends, Under
<1>6. CASE A \cap Under(parent, n) # {}
  <2>1. Under(parent, n) # {} /\ Under(parent, n) \cap Gone = {}
    BY <1>6, LeftUnder
  <2>2. PICK y \in Under(parent, n) : y \in D /\ parent[y] = n /\ y \notin Collapsed
    BY <1>1, <2>1 DEF Under, Gone
  <2>3. Divisions[n] # 1
    BY <1>2, <2>2, CollapsedAre
  <2> QED
    BY <1>1, <1>4, <2>3 DEF X
<1> QED
  BY <1>5, <1>6

\* A share of the bursts gives each to one node.
LEMMA OneHolder ==
  ASSUME NEW B, NEW L, NEW S, Share(B, L, S), NEW b \in S, NEW n \in L, b \in B[n]
  PROVE  (CHOOSE m \in L : b \in B[m]) = n /\ {m \in L : b \in B[m]} = {n}
BY DEF Share

\* The tree that is left shares out the bursts among the ends of its lines.
LEMMA PruneKeeps ==
  ASSUME IInv, Prune
  PROVE  IInv'
<1> DEFINE D == DOMAIN bursts
           Top == Under(parent, Root)
<1>1. /\ pc = "prune" /\ input' = input /\ step' = step /\ at' = at /\ stop' = stop /\ id' = id
      /\ score' = score /\ occurrences' = occurrences /\ duration' = duration
      /\ parent' = parent /\ pc' \in {"done", "failed"}
      /\ partition' = GetAssignment(bursts', id', parent', discarded')
  BY DEF Prune, Return, GeneratePartition
<1>2. Reclassified(bursts', discarded')
  BY PruneReclassifies
<1>3. /\ TypeOK /\ input \in Inputs /\ NodesTyped /\ IsFiniteSet(D) /\ Nodes(parent)
      /\ Ranked(parent) /\ Forest(bursts, parent, discarded) /\ Lineage
      /\ DOMAIN parent = D /\ DOMAIN id = D /\ discarded \subseteq D
      /\ \A n \in D : id[n] \in Nat
  BY <1>1, LoopStart
<1>4. Linked
  BY <1>3 DEF Linked
<1>5. PICK A : Walk(A, parent, discarded') /\ Leaves(parent, discarded') = Ends(A, parent)
  BY <1>3, LeavesAreEnds
<1> DEFINE L == Ends(A, parent)
<1>6. /\ Divided(bursts', A, parent) /\ A \subseteq D /\ L \subseteq A
      /\ Share(bursts', Top, Burst) /\ \A t \in Top : t \in A /\ bursts'[t] = bursts[t]
  BY <1>1, <1>2, <1>5, PrunedDivides DEF Ends
<1>7. A \subseteq D \ discarded
  BY <1>1, <1>2, <1>5, LeftUnder
<1>8. /\ Burst' = Burst /\ DOMAIN bursts' = D /\ LiveLeaves' = L
      /\ \A l : Level(l)' = Level(l)
      /\ \A n : IsNoise(n)' = IsNoise(n)
      /\ Level(1) = Top /\ TopClusters' = TopClusters
  <2>1. Burst' = Burst /\ DOMAIN bursts' = D /\ LiveLeaves' = L
    BY <1>1, <1>2, <1>5 DEF Burst, Reclassified, LiveLeaves
  <2>2. (\A l : Level(l)' = Level(l)) /\ (\A n : IsNoise(n)' = IsNoise(n))
    BY <1>1 DEF Level, IsNoise
  <2>3. \A n : n \in Level(1) <=> n \in Top
    BY <1>3, <1>4, LinksAre DEF Under
  <2>4. TopClusters' = TopClusters
    BY <2>2 DEF TopClusters, Clusters
  <2> QED
    BY <2>1, <2>2, <2>3, <2>4
<1>9. Share(bursts', L, Burst)
  BY <1>3, <1>5, <1>6, EndsShare
<1>10. Labels(partition', bursts', L, id)
  <2>1. Share(bursts', Leaves(parent, discarded'), Burst)
    BY <1>5, <1>9
  <2>2. partition' = GetAssignment(bursts', id, parent, discarded')
    BY <1>1
  <2> QED
    BY <1>5, <2>1, <2>2, AssignmentLabels
<1>11. \A m, n \in L : m # n /\ id[m] = id[n] => id[m] = NOISE_CLUSTERID
  <2>1. Named = D \ discarded
    BY <1>1 DEF Named
  <2>2. LineageOf(id, parent, D \ discarded)
    BY <1>3, <2>1 DEF Lineage
  <2> SUFFICES ASSUME NEW m \in Ends(A, parent), NEW n \in Ends(A, parent),
                      m # n, id[m] = id[n]
               PROVE  id[m] = NOISE_CLUSTERID
    OBVIOUS
  <2> QED
    BY <1>3, <1>5, <1>7, <2>2, EndsNamedApart
<1> HIDE DEF L, Top
<1>12. TypeOK'
  <2>1. NodesTyped'
    <3>1. \A n \in D : bursts'[n] \subseteq Burst
      BY <1>2 DEF Reclassified
    <3> QED
      BY <1>1, <1>3, <1>8, <3>1 DEF NodesTyped
  <2>2. discarded' \subseteq DOMAIN bursts'
    BY <1>2, <1>3, <1>4, <1>8, CollapsedAre DEF Reclassified, Gone
  <2>3. \A b \in DOMAIN partition' : b \in Burst' /\ partition'[b] \in Nat
    <3>1. \A n \in L : id[n] \in Nat
      BY <1>3, <1>6
    <3> QED
      BY <1>8, <1>9, <1>10, <3>1, LabelsAreNumbers
  <2>4. /\ input' \in Inputs /\ step' \in 1 .. Steps /\ at' \in Nat \ {0} /\ stop' \in BOOLEAN
        /\ pc' \in {"first", "step", "prune", "done", "failed", "crashed"}
    BY <1>1, <1>3 DEF TypeOK
  <2> QED
    BY <2>1, <2>2, <2>3, <2>4 DEF TypeOK, NodesTyped
<1>13. Analysed' /\ IsFiniteSet(DOMAIN bursts') /\ Ranked(parent)'
       /\ Share(bursts, LiveLeaves, Burst)'
  <2>1. Ranked(parent)'
    BY <1>1, <1>3 DEF Ranked
  <2>2. Share(bursts, LiveLeaves, Burst)'
    BY <1>8, <1>9 DEF Share
  <2> QED
    BY <1>1, <1>3, <1>8, <2>1, <2>2 DEF Analysed
<1>14. LeafIdsUnique'
  BY <1>1, <1>8, <1>11 DEF LeafIdsUnique, IsNoise
<1>15. \A b \in Burst : \E n \in L : b \in bursts'[n] /\ partition'[b] = id[n]
  BY <1>9, <1>10 DEF Labels, Share
<1>16. ASSUME NEW b \in Burst, NEW t \in Top, b \in bursts[t]
       PROVE  FirstLevel(b)' = id[t]
  <2>1. b \in bursts'[t]
    BY <1>6, <1>16
  <2>2. (CHOOSE n \in Top : b \in bursts'[n]) = t
    BY <1>6, <2>1, OneHolder
  <2>3. FirstLevel(b)' = id'[CHOOSE n \in Level(1)' : b \in bursts'[n]]
    BY DEF FirstLevel
  <2> QED
    BY <1>1, <1>8, <2>2, <2>3
<1>17. FirstLevelKept'
  <2> SUFFICES ASSUME NEW b \in Burst, NEW c \in Burst
               PROVE  /\ partition'[b] = partition'[c] /\ partition'[b] # NOISE_CLUSTERID =>
                           FirstLevel(b)' = FirstLevel(c)'
                      /\ FirstLevel(b)' = NOISE_CLUSTERID => partition'[b] = NOISE_CLUSTERID
    BY <1>8 DEF FirstLevelKept
  <2>1. PICK m \in L : b \in bursts'[m] /\ partition'[b] = id[m]
    BY <1>15
  <2>2. PICK n \in L : c \in bursts'[n] /\ partition'[c] = id[n]
    BY <1>15
  <2>3. m \in A /\ n \in A
    BY <1>6
  <2>4. PICK t \in Top : bursts'[m] \subseteq bursts[t] /\ (IsNoise(t) => IsNoise(m))
    BY <1>1, <1>2, <1>5, <2>3, PrunedTops DEF Top
  <2>5. FirstLevel(b)' = id[t]
    BY <1>16, <2>1, <2>4
  <2>6. partition'[b] = partition'[c] /\ partition'[b] # NOISE_CLUSTERID => m = n
    BY <1>11, <2>1, <2>2
  <2>7. m = n => FirstLevel(c)' = id[t]
    BY <1>16, <2>2, <2>4
  <2> QED
    BY <2>1, <2>4, <2>5, <2>6, <2>7 DEF IsNoise
<1>18. WholeOrDivided'
  <2> SUFFICES ASSUME NEW n \in TopClusters
               PROVE  LET found == {partition'[b] : b \in bursts'[n]}
                      IN  /\ id[n] \in found
                          /\ found = {id[n]} \/ Cardinality(found \ {NOISE_CLUSTERID}) >= 2
    BY <1>1, <1>8 DEF WholeOrDivided
  <2> DEFINE found == {partition'[b] : b \in bursts'[n]}
  <2>1. n \in Top /\ n \in D /\ ~IsNoise(n) /\ n \in Visited /\ n \in A
    <3>1. n \in D /\ n[1] = 1 /\ ~IsNoise(n) /\ n \in Visited
      BY <1>4, LinksAre, VisitedAre
    <3>2. n \in Top
      BY <1>4, <1>8, <3>1, LinksAre
    <3> QED
      BY <1>6, <3>1, <3>2
  <2>2. \A e \in L : /\ bursts'[e] # {}
                     /\ \A b \in bursts'[e] : partition'[b] = id[e]
    <3>1. \A e \in A : bursts'[e] # {}
      BY <1>1, <1>2, <1>5, LeftUnder
    <3> QED
      BY <1>6, <1>10, <3>1 DEF Labels
  <2>3. \A e \in L : bursts'[e] \subseteq bursts'[n] => id[e] \in found
    BY <2>2
  <2>4. id[n] \in found
    <3>1. PICK e \in L : bursts'[e] \subseteq bursts'[n] /\ id[e] = id[n]
      BY <1>1, <1>2, <1>5, <2>1, PrunedHeir DEF L
    <3> QED
      BY <2>3, <3>1
  <2>5. CASE n \in L
    <3>1. \A b \in bursts'[n] : partition'[b] = id[n]
      BY <2>2, <2>5
    <3>2. found = {id[n]}
      BY <2>4, <3>1
    <3> QED
      BY <2>4, <3>2
  <2>6. CASE n \notin L
    <3>1. PICK e \in L, f \in L : /\ e # f /\ ~IsNoise(e) /\ ~IsNoise(f)
                                  /\ bursts'[e] \subseteq bursts'[n]
                                  /\ bursts'[f] \subseteq bursts'[n]
      BY <1>1, <1>2, <1>5, <2>1, <2>6, PrunedPieces DEF L
    <3>2. id[e] # id[f]
      BY <1>11, <3>1 DEF IsNoise
    <3>3. id[e] \in found \ {NOISE_CLUSTERID} /\ id[f] \in found \ {NOISE_CLUSTERID}
      BY <2>3, <3>1 DEF IsNoise
    <3>4. IsFiniteSet(found)
      <4>1. IsFiniteSet(bursts'[n])
        <5>1. bursts'[n] \in SUBSET Burst
          BY <1>2, <2>1 DEF Reclassified
        <5> QED
          BY <1>3, <5>1, InputFacts, FS_Subset
      <4>2. \A x \in found : \E b \in bursts'[n] : partition'[b] = x
        OBVIOUS
      <4> HIDE DEF found
      <4> QED
        BY <4>1, <4>2, FiniteImage
    <3> HIDE DEF found
    <3> DEFINE F == found \ {NOISE_CLUSTERID}
               P == {id[e]} \cup {id[f]}
    <3>5. IsFiniteSet(F) /\ P \in SUBSET F
      BY <3>3, <3>4, FS_Subset
    <3>6. Cardinality(P) = 2
      <4>1. IsFiniteSet({id[e]}) /\ Cardinality({id[e]}) = 1 /\ id[f] \notin {id[e]}
        BY <3>2, FS_Singleton
      <4> QED
        BY <4>1, FS_AddElement
    <3> HIDE DEF P, F
    <3>7. Cardinality(F) >= 2
      <4>1. Cardinality(P) <= Cardinality(F) /\ Cardinality(F) \in Nat
        BY <3>5, FS_Subset, FS_CardinalityType
      <4> QED
        BY <3>6, <4>1
    <3> QED
      BY <2>4, <3>7 DEF F, found
  <2> QED
    BY <2>5, <2>6
<1>19. pc' \notin {"step", "prune"}
  BY <1>1
<1> QED
  BY <1>12, <1>13, <1>14, <1>17, <1>18, <1>19 DEF IInv

-----------------------------------------------------------------------------
(* The theorems *)

\* At the start there is no tree.
LEMMA InitIs ==
  ASSUME Init
  PROVE  IInv
<1>1. /\ input \in Inputs /\ pc = "first" /\ step = 1 /\ at = 1 /\ stop = FALSE
      /\ bursts = << >> /\ id = << >> /\ score = << >> /\ occurrences = << >>
      /\ duration = << >> /\ parent = << >> /\ discarded = {} /\ partition = << >>
  BY DEF Init
<1>2. DOMAIN << >> = {} /\ IsFiniteSet({})
  BY FS_EmptySet
<1>3. 1 \in 1 .. Steps
  BY <1>1, InputFacts
<1>4. NodesTyped
  BY <1>1, <1>2 DEF NodesTyped
<1>5. TypeOK
  <2>1. /\ step \in 1 .. Steps /\ at \in Nat \ {0} /\ discarded \subseteq DOMAIN bursts
        /\ pc \in {"first", "step", "prune", "done", "failed", "crashed"}
    BY <1>1, <1>3
  <2>2. stop \in BOOLEAN
    BY <1>1
  <2>3. \A b \in DOMAIN partition : b \in Burst /\ partition[b] \in Nat
    BY <1>1, <1>2
  <2> QED
    BY <1>1, <1>4, <2>1, <2>2, <2>3, TypesAre
<1>6. LeafIdsUnique /\ FirstLevelKept /\ WholeOrDivided
  BY <1>1 DEF LeafIdsUnique, FirstLevelKept, WholeOrDivided
<1>7. ~Analysed
  BY <1>1 DEF Analysed
<1> QED
  BY <1>1, <1>2, <1>5, <1>6, <1>7 DEF IInv

\* Every step keeps the invariant, and those of the loop only split.
LEMMA NextKeeps ==
  ASSUME IInv, [Next]_vars
  PROVE  IInv' /\ (pc = "step" => Splits)
<1>1. CASE RunFirstStep
  BY <1>1, FirstStepKeeps DEF RunFirstStep
<1>2. CASE AnalyseNode
  BY <1>2, AnalyseKeeps
<1>3. CASE SkipNode
  BY <1>3, SkipKeeps
<1>4. CASE CrashOnCandidate \/ CrashOnReclassify
  BY <1>4, CrashKeeps
<1>5. CASE FinishStep
  BY <1>5, FinishKeeps
<1>6. CASE Prune
  BY <1>6, PruneKeeps DEF Prune
<1>7. CASE UNCHANGED vars
  BY <1>7, StutterKeeps
<1> QED
  BY <1>1, <1>2, <1>3, <1>4, <1>5, <1>6, <1>7 DEF Next, Terminated

\* The inductive invariant.
THEOREM Invariant == Spec => []IInv
<1>1. Init => IInv
  BY InitIs
<1>2. IInv /\ [Next]_vars => IInv'
  BY NextKeeps
<1> QED
  BY <1>1, <1>2, PTL DEF Spec

\* The variables have their types; no score exceeds One.
THEOREM TypeCorrect == Spec => []TypeOK
<1>1. IInv => TypeOK
  BY DEF IInv
<1> QED
  BY <1>1, Invariant, PTL

\* Each burst is in exactly one leaf that is not discarded.
THEOREM OneLeafEach == Spec => []LeavesPartitionBursts
<1>1. ASSUME IInv
      PROVE  LeavesPartitionBursts
  <2> SUFFICES ASSUME Analysed, NEW b \in Burst
               PROVE  Cardinality({n \in LiveLeaves : b \in bursts[n]}) = 1
    BY DEF LeavesPartitionBursts
  <2>1. Share(bursts, LiveLeaves, Burst)
    BY <1>1 DEF IInv
  <2>2. PICK n \in LiveLeaves : b \in bursts[n]
    BY <2>1 DEF Share
  <2>3. {m \in LiveLeaves : b \in bursts[m]} = {n}
    BY <2>1, <2>2, OneHolder
  <2> QED
    BY <2>3, FS_Singleton
<1> QED
  BY <1>1, Invariant, PTL

\* Between steps no two leaves but those of noise share an id.
THEOREM LeafIdsApart == Spec => []LeafIdsUnique
<1>1. IInv => LeafIdsUnique
  BY DEF IInv
<1> QED
  BY <1>1, Invariant, PTL

\* In the result no cluster has bursts of two of the first level, nor of its noise.
THEOREM FirstLevelStays == Spec => []FirstLevelKept
<1>1. IInv => FirstLevelKept
  BY DEF IInv
<1> QED
  BY <1>1, Invariant, PTL

\* In the result a cluster of the first level is whole, or in at least two clusters.
THEOREM WholeOrInPieces == Spec => []WholeOrDivided
<1>1. IInv => WholeOrDivided
  BY DEF IInv
<1> QED
  BY <1>1, Invariant, PTL

\* While steps are made clusters only lose bursts.
THEOREM StepsOnlySplit == Spec => OnlySplits
<1>1. IInv /\ [Next]_vars =>
        [pc = "step" =>
           \A n \in LiveLeaves' :
             \E m \in LiveLeaves : /\ bursts'[n] \subseteq bursts[m]
                                  /\ IsNoise(m) => id'[n] = NOISE_CLUSTERID]_vars
  BY NextKeeps DEF Splits
<1> QED
  BY <1>1, Invariant, PTL DEF Spec, OnlySplits
=============================================================================
