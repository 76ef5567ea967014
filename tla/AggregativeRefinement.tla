----------------------- MODULE AggregativeRefinement -----------------------
(***************************************************************************)
(* The aggregative refinement: bursts are analysed with a growing Eps.     *)
(* After each analysis the clusters are scored by aligning the sequences   *)
(* of the tasks; clusters with score 1 stay, the bursts of the others (and *)
(* of the noise) are analysed again at the next level.  The clusters of    *)
(* all levels make a graph in which a cluster can have several parents.    *)
(* In the end clusters that only appear together are merged and all get    *)
(* their definitive ids.                                                   *)
(*                                                                         *)
(* Data.  Bursts are their instance numbers.  Distances only matter as the *)
(* first level at which two bursts lie within Eps, durations to number     *)
(* clusters.  An analysis gives any answer of BurstAnalysis.  The         *)
(* alignment (kalign2) is external: any that keeps the order of each task. *)
(* Files are not modelled, but writing them can fail.                      *)
(***************************************************************************)
EXTENDS BurstAnalysis

CONSTANTS
  N,          \* bound on the number of bursts
  Steps,      \* EpsilonPerLevel.size()
  Inputs      \* what Run may be given: the number of bursts, MinPoints and the level
              \* at which each pair of bursts gets within Eps, Steps + 1 for never

PairsOf(n) == {{e[1], e[2]} : e \in {f \in (1 .. n) \X (1 .. n) : f[1] < f[2]}}

\* Run refuses to work without bursts or with less than two steps.
RefinementAssumption ==
  /\ N \in Nat \ {0}
  /\ Steps \in Nat \ {0, 1}
  /\ Duration \in [1 .. N -> Nat]
  /\ DOMAIN Task = 1 .. N
  /\ \A in \in Inputs :
       /\ in.n \in 1 .. N
       /\ in.minPoints \in Nat \ {0}
       /\ in.within \in [PairsOf(in.n) -> 1 .. (Steps + 1)]

ASSUME RefinementAssumption

VARIABLES
  input,       \* the member of Inputs that Run was given
  pc,          \* what Run does next: first, step, rename, done; or failed
  level,       \* NodesPerLevel.size() before the merge
  bursts,      \* the nodes <<level, position>> with their Instances
  id,          \* ID of each node
  perfect,     \* the nodes with Score 1
  children,    \* the pairs of a node and one of its Children
  maxId,       \* MaxIDAssigned
  lastId,      \* IDPerLevel[instance].back()
  partition,   \* IntermediatePartitions.back(), then LastPartition
  merges       \* Merges of GenerateLastPartition

tree == <<bursts, id, children>>
vars == <<input, pc, level, tree, perfect, maxId, lastId, partition, merges>>

Burst == 1 .. input.n

\* Run goes on with p, or fails because the tree or the plots cannot be written.
Return(p) == pc' \in {p, "failed"}

-----------------------------------------------------------------------------
(* One analysis *)

\* The bursts of S that an analysis at level l has within Eps of each.
Near(S, l) == [p \in S |-> {q \in S : p = q \/ input.within[{p, q}] <= l}]

\* The nodes of a level: the noise, which may be empty, and the clusters.
GenerateNodes(l, S, r) ==
  [n \in {l} \X (0 .. Cardinality(DOMAIN r)) |->
     IF n[2] = NOISE_CLUSTERID THEN {b \in S : \A i \in DOMAIN r : b \notin r[i]}
                               ELSE r[n[2]]]

-----------------------------------------------------------------------------
(* Scores *)

\* The alignments of n bursts.
AlignmentsOf == [n \in {in.n : in \in Inputs} |-> Alignments(1 .. n)]

\* The ids that all sequences have in each column in which they appear.
PerfectIds(ids, columns) ==
  {i \in {ids[b] : b \in Burst} :
     \A C \in columns : Cardinality({b \in C : ids[b] = i}) \in {0, NumberOfSequences(Burst)}}

\* The nodes of New, called names[n], that may be found perfect in the partition.
ComputeScores(New, names, ids) ==
  {{n \in New : names[n] \in P} : P \in {PerfectIds(ids, A) : A \in AlignmentsOf[input.n]}}

-----------------------------------------------------------------------------
(* The graph of nodes *)

\* Nodes without children that the top level leads to.
Leaves(nodes, links) ==
  {n \in nodes : /\ n[1] = 1 \/ \E e \in links : e[2] = n
                 /\ \A e \in links : e[1] # n}

\* Faulty variant of GetAssignment: the bursts have the ids of before the renaming.
GetAssignmentUnrenamed(B, names, links) ==
  LET leaves == Leaves(DOMAIN B, links)
  IN  [b \in UNION {B[n] : n \in leaves} |-> (CHOOSE n \in leaves : b \in B[n])[2]]

\* The ids the leaves give to their bursts.
GetAssignment(B, names, links) ==
  LET leaves == Leaves(DOMAIN B, links)
  IN  [b \in UNION {B[n] : n \in leaves} |->
         names[CHOOSE n \in leaves : b \in B[n]]]

\* Faulty variant of LocateNode: the tree is searched from the top.
LocateNodeFromTop(i) ==
  CHOOSE n \in DOMAIN id : id[n] = i /\ \A m \in DOMAIN id : id[m] = i => m[1] >= n[1]

\* The deepest node that is called i.
LocateNode(i) ==
  CHOOSE n \in DOMAIN id : id[n] = i /\ \A m \in DOMAIN id : id[m] = i => m[1] <= n[1]

\* Faulty variant of MoreSteps: one step too many.
MoreStepsOffByOne == level <= Steps

\* Another level is to be analysed.
MoreSteps == level < Steps

\* Faulty variant of Candidates: clusters are analysed again whatever their score.
CandidatesAll == {n \in DOMAIN bursts : n[1] = level}

\* The nodes of the last level whose score is less than 1.
Candidates == {n \in DOMAIN bursts : n[1] = level /\ n \notin perfect}

BurstsSubset == UNION {bursts[n] : n \in Candidates}

\* Faulty variant of LinkNodes: a new node has only its first parent.
LinkNodesOneParent(New) ==
  {e \in Candidates \X (DOMAIN New) :
     New[e[2]] # {} /\ id[e[1]] = Min({lastId[b] : b \in New[e[2]]})}

\* A candidate is a parent of the new nodes that hold a burst called like it.
LinkNodes(New) ==
  {e \in Candidates \X (DOMAIN New) : \E b \in New[e[2]] : lastId[b] = id[e[1]]}

\* The ids of the new nodes of level l in their order: that of the first parent not
\* taken by another child, or else the next after max.  The noise keeps its id.
NamesAfter(l, count, links, first) ==
  LET named[k \in 0 .. count] ==
        IF k = 0
        THEN [ids |-> [n \in {<<l, 0>>} |-> NOISE_CLUSTERID], visited |-> {}, max |-> first]
        ELSE LET before == named[k - 1]
                 free   == {id[e[1]] : e \in {f \in links : f[2] = <<l, k>>}}
                             \ (before.visited \cup {NOISE_CLUSTERID})
                 name   == IF free # {} THEN Min(free) ELSE before.max + 1
             IN  [ids     |-> Joined(before.ids, [n \in {<<l, k>>} |-> name]),
                  visited |-> before.visited \cup {name},
                  max     |-> IF free # {} THEN before.max ELSE name]
  IN  named[count]

\* Faulty variant of RenameNodes: new ids follow those in use, not those ever used.
RenameNodesFromUsed(l, count, links) ==
  NamesAfter(l, count, links, Max({partition[b] : b \in Burst}))

RenameNodes(l, count, links) == NamesAfter(l, count, links, maxId)

-----------------------------------------------------------------------------
Init ==
  /\ input \in Inputs
  /\ pc = "first"
  /\ level = 0
  /\ bursts = << >>
  /\ id = << >>
  /\ perfect = {}
  /\ children = {}
  /\ maxId = NOISE_CLUSTERID
  /\ lastId = << >>
  /\ partition = << >>
  /\ merges = {}

RunFirstAnalysis ==
  /\ pc = "first"
  /\ level' = 1
  /\ \E clusters \in RunDBSCAN(Near(Burst, 1), input.minPoints) :
       \E r \in TranslatedIDs(clusters) :
       LET New   == GenerateNodes(1, Burst, r)
           names == [n \in DOMAIN New |-> n[2]]
       IN  /\ bursts' = New
           /\ id' = names
           /\ partition' = GetAssignment(New, names, {})
           /\ lastId' = partition'
           /\ maxId' = Cardinality(clusters)
           /\ perfect' \in ComputeScores(DOMAIN New, names, partition')
  /\ Return("step")
  /\ UNCHANGED <<input, children, merges>>

\* One more level for the bursts of the candidates.
RunStep ==
  /\ pc = "step"
  /\ MoreSteps
  /\ BurstsSubset # {}
  /\ level' = level + 1
  /\ \E clusters \in RunDBSCAN(Near(BurstsSubset, level + 1), input.minPoints) :
       \E r \in TranslatedIDs(clusters) :
         LET New     == GenerateNodes(level + 1, BurstsSubset, r)
             links   == LinkNodes(New)
             renamed == RenameNodes(level + 1, Cardinality(clusters), links)
         IN  /\ bursts' = Joined(bursts, New)
             /\ children' = children \cup links
             /\ id' = Joined(id, renamed.ids)
             /\ maxId' = renamed.max
             /\ partition' = GetAssignment(bursts', id', children')
             /\ lastId' = partition'
             /\ \E s \in ComputeScores(DOMAIN New, id', partition') :
                  perfect' = perfect \cup s
  /\ Return("step")
  /\ UNCHANGED <<input, merges>>

\* The sets of ids that appear in the same columns, unless part of a larger one.
MergesOf(columns) ==
  LET Clusters(C)    == {partition[b] : b \in C} \ {NOISE_CLUSTERID}
      Appearances(M) == Cardinality({C \in columns : M \subseteq Clusters(C)})
      together       == {M \in UNION {SUBSET Clusters(C) : C \in columns} :
                           /\ Cardinality(M) > 1
                           /\ \A i \in M : Appearances({i}) = Appearances(M)}
  IN  {M \in together : \A T \in together : M \subseteq T => M = T}

\* The partition with the ids of each set of Ms changed to its smallest.
MergeIDs(Ms) ==
  [b \in DOMAIN partition |->
     IF \E M \in Ms : partition[b] \in M
     THEN Min(CHOOSE M \in Ms : partition[b] \in M)
     ELSE partition[b]]

\* The steps are over: all done, or no candidate holds a burst (convergence).
GenerateLastPartition ==
  /\ pc = "step"
  /\ ~MoreSteps \/ BurstsSubset = {}
  /\ merges' \in {MergesOf(A) : A \in AlignmentsOf[input.n]}
  /\ LET merged == MergeIDs(merges')
         New    == [n \in {<<level + 1, Min(M)>> : M \in merges'} |->
                      {b \in DOMAIN merged : merged[b] = n[2]}]
     IN  /\ bursts' = Joined(bursts, New)
         /\ id' = Joined(id, [n \in DOMAIN New |-> n[2]])
         /\ children' = children \cup
              UNION {{<<LocateNode(i), <<level + 1, Min(M)>>>> : i \in M} : M \in merges'}
         /\ partition' = GetAssignment(bursts', id', children')
         /\ lastId' = partition'
         /\ \E s \in ComputeScores(DOMAIN New, id', partition') :
              perfect' = perfect \cup s
  /\ IF merges' = {} THEN pc' = "rename" ELSE Return("rename")
  /\ UNCHANGED <<input, level, maxId>>

Members(i) == {b \in Burst : partition[b] = i}
Used       == {partition[b] : b \in Burst}
ClusterIds == Used \ {NOISE_CLUSTERID}

\* Definitive ids: the clusters of the partition have theirs from the numbering r; ids
\* of other nodes follow from max on, in the order in which the levels are walked, the
\* last first.
Translation(r, max) ==
  LET others == {id[n] : n \in DOMAIN id} \ (Used \cup {NOISE_CLUSTERID})
      Before(m, n) == m[1] > n[1] \/ (m[1] = n[1] /\ m[2] <= n[2])
  IN  [i \in {id[n] : n \in DOMAIN id} |->
         IF i = NOISE_CLUSTERID THEN i
         ELSE IF i \in Used THEN CHOOSE k \in DOMAIN r : r[k] = Members(i)
         ELSE max + Cardinality({j \in others : Before(LocateNode(j), LocateNode(i))})]

\* Faulty variant of TranslationMap: the largest id is used before it is increased.
TranslationMapShort(r, size) == Translation(r, size - 1)

\* MaxUsedCluster starts with the number of ids translated so far.
TranslationMap(r, size) == Translation(r, size)

\* HasNoise of a ClusteringStatistics is not initialised: the noise may be counted
\* among the translated ids even when there is none.
RenameLastPartition ==
  /\ pc = "rename"
  /\ \E r \in TranslatedIDs({Members(i) : i \in ClusterIds}), HasNoise \in BOOLEAN :
       LET size == IF HasNoise \/ NOISE_CLUSTERID \in Used
                   THEN Cardinality(ClusterIds) + 1 ELSE Cardinality(ClusterIds)
           new  == TranslationMap(r, size)
       IN  /\ partition' = [b \in Burst |-> new[partition[b]]]
           /\ id' = [n \in DOMAIN id |-> new[id[n]]]
  /\ Return("done")
  /\ UNCHANGED <<input, level, bursts, children, perfect, maxId, lastId, merges>>

Terminated ==
  /\ pc \in {"done", "failed"}
  /\ UNCHANGED vars

Next ==
  \/ RunFirstAnalysis
  \/ RunStep
  \/ GenerateLastPartition
  \/ RenameLastPartition
  \/ Terminated

Spec == Init /\ [][Next]_vars

-----------------------------------------------------------------------------
Node == (1 .. (Steps + 1)) \X Nat

\* The variables have the types their declarations give them.
TypeOK ==
  /\ input \in Inputs
  /\ pc \in {"first", "step", "rename", "done", "failed"}
  /\ level \in 0 .. Steps
  /\ DOMAIN bursts \subseteq Node /\ \A n \in DOMAIN bursts : bursts[n] \subseteq Burst
  /\ DOMAIN id = DOMAIN bursts /\ \A n \in DOMAIN id : id[n] \in Nat
  /\ perfect \subseteq DOMAIN bursts
  /\ children \subseteq (DOMAIN bursts) \X (DOMAIN bursts)
  /\ maxId \in Nat
  /\ \A b \in DOMAIN partition : partition[b] \in Nat
  /\ \A b \in DOMAIN lastId : lastId[b] \in Nat
  /\ merges \subseteq SUBSET Nat

Analysed == pc # "first"

\* GetAssignment walks from the top level to the leaves, which a burst could reach
\* twice or not at all, although nodes have several parents and levels cover
\* different bursts: each burst is in exactly one leaf.
LeavesPartitionBursts ==
  Analysed =>
    \A b \in Burst :
      Cardinality({n \in Leaves(DOMAIN bursts, children) : b \in bursts[n]}) = 1

\* Partition and tree are renamed apart and agree at the end of every step: a burst's
\* id is that of the leaf it is in.
PartitionMatchesTree ==
  Analysed =>
    /\ DOMAIN partition = Burst
    /\ \A n \in Leaves(DOMAIN bursts, children) :
         \A b \in bursts[n] : partition[b] = id[n]

\* The nodes one is led to from n.
Descendants(n) ==
  LET below[k \in 0 .. (Steps + 1)] ==
        IF k = 0 THEN {n}
        ELSE below[k - 1] \cup {e[2] : e \in {f \in children : f[1] \in below[k - 1]}}
  IN  below[Steps + 1]

\* An id follows one line of the tree: of two nodes with the same id one descends
\* from the other, also after merges and the final renaming.
IdIsLineage ==
  \A m, n \in DOMAIN id :
    id[m] = id[n] /\ id[m] # NOISE_CLUSTERID =>
      m \in Descendants(n) \/ n \in Descendants(m)

\* An id that has left the partition never comes back for other bursts.
NoIdRevived ==
  [][pc = "step" =>
       \A b \in DOMAIN partition' :
         \/ partition'[b] = NOISE_CLUSTERID
         \/ partition'[b] > maxId
         \/ \E c \in DOMAIN partition : partition[c] = partition'[b]]_vars

\* The last partition is made twice, by changing ids and by linking nodes of any
\* level and walking the tree again: both give the same.
MergeAgreesWithTree ==
  [][pc = "step" /\ level' = level => partition' = MergeIDs(merges')]_vars

\* A cluster that once had a perfect score stays whole until the end, whatever the
\* analyses of the other bursts find.
PerfectStaysWhole ==
  \A n \in perfect :
    id[n] # NOISE_CLUSTERID =>
      \A b, c \in bursts[n] : partition[b] = partition[c]
=============================================================================
