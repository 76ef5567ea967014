------------------------- MODULE DivisiveRefinement -------------------------
(***************************************************************************)
(* The divisive refinement: bursts are analysed with an Eps that shrinks.  *)
(* At each step the clusters of the level before that score well are       *)
(* analysed again; what is found makes their children in a tree, unless it *)
(* scores worse or is mostly noise.  In the end subtrees that do not       *)
(* divide are taken back and the noise at the leaves is given to the       *)
(* nearest cluster.                                                        *)
(*                                                                         *)
(* Data.  Bursts are their instance numbers.  Distances only matter as the *)
(* last step at which two bursts lie within Eps; the nearest cluster is    *)
(* one of those that stay within it for longest.  Scores are exact, in     *)
(* units of 1 / One.  Files are not modelled, but writing them can fail.   *)
(***************************************************************************)
EXTENDS BurstAnalysis

CONSTANTS
  N,          \* bound on the number of bursts
  Steps,      \* EpsilonPerLevel.size()
  One,        \* the score 1, which all numbers of bursts in question divide
  Inputs      \* what Run may be given: the number of bursts, MinPoints and the last
              \* step at which each pair of bursts is within Eps, 0 for never

PairsOf(n) == {{e[1], e[2]} : e \in {f \in (1 .. n) \X (1 .. n) : f[1] < f[2]}}

\* Run refuses to work without bursts or with less than two steps.
RefinementAssumption ==
  /\ N \in Nat \ {0}
  /\ Steps \in Nat \ {0, 1}
  /\ One \in Nat \ {0}
  /\ Duration \in [1 .. N -> Nat \ {0}]
  /\ DOMAIN Task = 1 .. N
  /\ \A i \in 1 .. N, s \in 1 .. NumberOfSequences(1 .. N) : One % (i * s) = 0
  /\ \A in \in Inputs :
       /\ in.n \in 1 .. N
       /\ in.minPoints \in Nat \ {0}
       /\ in.within \in [PairsOf(in.n) -> 0 .. Steps]

ASSUME RefinementAssumption

VARIABLES
  input,       \* the member of Inputs that Run was given
  pc,          \* what Run does next: first, step, prune; or done, failed, crashed
  step,        \* CurrentStep + 1, the level that is made
  at,          \* the position in ParentNodes
  stop,        \* Stop
  bursts,      \* the nodes <<level, position>> with their Instances
  id,          \* ID of each node
  score,       \* Score of each node
  occurrences, \* Occurrences of each node
  duration,    \* TotalDuration of each node
  parent,      \* whose Children the node is in, Root for the top level
  discarded,   \* the nodes that are Discarded
  partition    \* IntermediatePartitions.back(), then LastPartition

nodes == <<bursts, id, score, occurrences, duration, parent>>
vars  == <<input, pc, step, at, stop, nodes, discarded, partition>>

Burst == 1 .. input.n
Root  == <<0, 1>>

\* Run goes on with p, or fails because the tree or the plots cannot be written.
Return(p) == pc' \in {p, "failed"}

-----------------------------------------------------------------------------
(* One analysis *)

\* Faulty variant of Near: the values of Eps are used in the order of growth.
NearGrowing(S, l) == [p \in S |-> {q \in S : p = q \/ input.within[{p, q}] > Steps - l}]

\* The bursts of S that an analysis at step l has within Eps of each.
Near(S, l) == [p \in S |-> {q \in S : p = q \/ input.within[{p, q}] >= l}]

AlignmentsOf == [S \in SUBSET (1 .. N) |-> Alignments(S)]

\* The parts of S by id: the clusters in their order, before them the noise if any.
Parts(S, r) ==
  LET noise == S \ UNION {r[i] : i \in DOMAIN r}
  IN  IF noise = {} THEN r ELSE Joined([i \in {NOISE_CLUSTERID} |-> noise], r)

\* How many columns of an alignment of S have a burst of the part.
OccurrencesIn(S, part) ==
  {[i \in DOMAIN part |-> Cardinality({C \in A : C \cap part[i] # {}})] : A \in AlignmentsOf[S]}

\* The nodes GenerateNodes can make of the bursts S at step l: by id, their bursts and
\* occurrences.
GenerateNodes(S, l) ==
  UNION {UNION {LET part == Parts(S, r)
                IN  {[bursts |-> part, occurrences |-> o] : o \in OccurrencesIn(S, part)} :
                  r \in TranslatedIDs(clusters)} :
           clusters \in RunDBSCAN(Near(S, l), input.minPoints)}

\* Faulty variant of ClusterScore: shares are not of all sequences.
ClusterScoreOfColumns(S, B, o) == (Cardinality(B) * One) \div o

\* GetClusterScore: the mean share of the sequences in a column that has the cluster.
ClusterScore(S, B, o) == (Cardinality(B) * One) \div (NumberOfSequences(S) * o)

ChildrenOf(n) == {c \in DOMAIN parent : parent[c] = n}
Level(l)      == {n \in DOMAIN id : n[1] = l}
IsNoise(n)    == id[n] = NOISE_CLUSTERID

\* The nodes of level l once those of new are added as children of n.
AddNodes(new, l, n, S) ==
  LET ids    == DOMAIN new.bursts
      place  == [i \in ids |-> <<l, Cardinality(Level(l)) + Cardinality({j \in ids : j <= i})>>]
      added  == {place[i] : i \in ids}
      Which(c) == CHOOSE i \in ids : place[i] = c
  IN  /\ bursts' = Joined(bursts, [c \in added |-> new.bursts[Which(c)]])
      /\ id' = Joined(id, [c \in added |-> Which(c)])
      /\ occurrences' = Joined(occurrences, [c \in added |-> new.occurrences[Which(c)]])
      /\ score' = Joined(score, [c \in added |->
           ClusterScore(S, new.bursts[Which(c)], new.occurrences[Which(c)])])
      /\ duration' = Joined(duration, [c \in added |-> TotalDuration(new.bursts[Which(c)])])
      /\ parent' = Joined(parent, [c \in added |-> n])

-----------------------------------------------------------------------------
(* The tree *)

LiveChildren(n) == ChildrenOf(n) \ discarded

\* Nodes without children but discarded ones.
IsLeaf(n) == LiveChildren(n) = {}

\* The nodes that are led to from the top by nodes not discarded, and have no children
\* of that kind themselves.
Leaves(links, gone) ==
  LET live[l \in 0 .. Steps] ==
        IF l = 0 THEN {Root}
        ELSE {c \in DOMAIN links : c \notin gone /\ links[c] \in live[l - 1]}
      all == UNION {live[l] : l \in 1 .. Steps}
  IN  {n \in all : \A c \in all : links[c] # n}

\* The ids the leaves give to their bursts.
GetAssignment(B, names, links, gone) ==
  LET leaves == Leaves(links, gone)
  IN  [b \in UNION {B[n] : n \in leaves} |->
         names[CHOOSE n \in leaves : b \in B[n]]]

GeneratePartition == partition' = GetAssignment(bursts', id', parent', discarded')

\* IsCandidate.  Shares are integer divisions: more than a quarter is the whole or more.
Total(f, S) == MapThenSumSet(LAMBDA n : f[n], S)

TotalParentOccurrences == Total(occurrences, {n \in Level(step - 1) : ~IsNoise(n)})
TotalParentDurations   == Total(duration, Level(step - 1))

ScoresWell(n) ==
  \/ occurrences[n] > 1 /\ 20 * score[n] > 17 * One
  \/ duration[n] >= TotalParentDurations /\ 5 * score[n] > 3 * One

DividesByZero(n) ==
  n \notin discarded /\ ~ScoresWell(n) /\ TotalParentOccurrences = 0

IsCandidate(n) ==
  /\ n \notin discarded
  /\ \/ ScoresWell(n)
     \/ occurrences[n] >= TotalParentOccurrences /\ 5 * score[n] > 3 * One

\* Is the split of n good, and which of the new nodes C does IsSplitOK discard?
IsSplitOK(n, C) ==
  LET noise    == {c \in C : id'[c] = NOISE_CLUSTERID}
      clusters == C \ noise
  IN  /\ clusters # {}
      /\ 10 * Total(duration', noise) < 6 * duration[n]
      /\ LET weighted == MapThenSumSet(LAMBDA c : score'[c] * duration'[c], clusters)
         IN  10 * weighted >= 8 * score[n] * Total(duration', clusters)

-----------------------------------------------------------------------------
Init ==
  /\ input \in Inputs
  /\ pc = "first"
  /\ step = 1
  /\ at = 1
  /\ stop = FALSE
  /\ bursts = << >> /\ id = << >> /\ score = << >> /\ occurrences = << >>
  /\ duration = << >> /\ parent = << >>
  /\ discarded = {}
  /\ partition = << >>

RunFirstStep ==
  /\ pc = "first"
  /\ \E new \in GenerateNodes(Burst, 1) : AddNodes(new, 1, Root, Burst)
  /\ UNCHANGED discarded
  /\ GeneratePartition
  /\ step' = 2
  /\ stop' = TRUE
  /\ Return("step")
  /\ UNCHANGED <<input, at>>

Parent == <<step - 1, at>>

MoreParents == Parent \in DOMAIN id

\* RunStep analyses the next of the parents and judges the split.
AnalyseNode ==
  /\ pc = "step"
  /\ MoreParents
  /\ ~DividesByZero(Parent)
  /\ IsCandidate(Parent)
  /\ \E new \in GenerateNodes(bursts[Parent], step) :
       /\ AddNodes(new, step, Parent, bursts[Parent])
       /\ LET C == DOMAIN id' \ DOMAIN id
          IN  IF IsSplitOK(Parent, C)
              THEN stop' = FALSE /\ UNCHANGED discarded
              ELSE discarded' = discarded \cup C /\ UNCHANGED stop
  /\ at' = at + 1
  /\ UNCHANGED <<input, pc, step, partition>>

SkipNode ==
  /\ pc = "step"
  /\ MoreParents
  /\ ~DividesByZero(Parent)
  /\ ~IsCandidate(Parent)
  /\ at' = at + 1
  /\ UNCHANGED <<input, pc, step, stop, nodes, discarded, partition>>

\* IsCandidate divides by the occurrences of the clusters, and there are none.
CrashOnCandidate ==
  /\ pc = "step"
  /\ MoreParents
  /\ DividesByZero(Parent)
  /\ pc' = "crashed"
  /\ UNCHANGED <<input, step, at, stop, nodes, discarded, partition>>

\* RenameChildren for the parents in turn: the first live cluster of each has its id,
\* the others follow from maxId.
ChildrenRenamed(l, maxId) ==
  LET named  == {c \in Level(l) : ~IsNoise(c) /\ c \notin discarded}
      others == {c \in named : \E d \in named : parent[d] = parent[c] /\ d[2] < c[2]}
  IN  [c \in DOMAIN id |->
         IF c \in others THEN maxId + Cardinality({d \in others : d[2] <= c[2]})
         ELSE IF c \in named THEN id[parent[c]] ELSE id[c]]

\* Faulty variant of RenameChildren: new ids follow those of the parents only.
RenameChildrenFromParents(l) ==
  ChildrenRenamed(l, Max({NOISE_CLUSTERID} \cup {id[n] : n \in Level(l - 1) \ discarded}))

\* New ids follow those of all levels above, of nodes that are not discarded.
RenameChildren(l) ==
  ChildrenRenamed(l, Max({NOISE_CLUSTERID} \cup
                         {id[n] : n \in {m \in DOMAIN id : m[1] < l} \ discarded}))

\* The step ends.  Without a node analysed it has no partition; without a good split
\* it is the last (convergence).
FinishStep ==
  /\ pc = "step"
  /\ ~MoreParents
  /\ UNCHANGED <<input, bursts, score, occurrences, duration, parent, discarded>>
  /\ LET next == IF stop \/ step = Steps THEN "prune" ELSE "step"
     IN  IF Level(step) = {}
         THEN id' = id /\ partition' = << >> /\ pc' = next
         ELSE id' = RenameChildren(step) /\ GeneratePartition /\ Return(next)
  /\ IF pc' = "step" THEN step' = step + 1 /\ at' = 1 /\ stop' = TRUE
                     ELSE UNCHANGED <<step, at, stop>>

-----------------------------------------------------------------------------
(* Pruning *)

Clusters(S) == {n \in S : ~IsNoise(n)}
TopClusters == Clusters(Level(1))

\* The number of divisions that ColapseNonDividedSubtrees finds in each subtree.
Divisions ==
  LET divisions[l \in 0 .. Steps] ==
        \* of the nodes of level Steps - l
        [n \in Level(Steps - l) |->
           IF ChildrenOf(n) = {} \/ l = 0 THEN 1
           ELSE Max({1, Total(divisions[l - 1], Clusters(LiveChildren(n)))})]
  IN  [n \in DOMAIN id |-> divisions[Steps - n[1]][n]]

\* The nodes that ColapseNonDividedSubtrees visits.
Visited ==
  LET visited[l \in 1 .. Steps] ==
        IF l = 1 THEN TopClusters
        ELSE UNION {Clusters(LiveChildren(n)) : n \in visited[l - 1]}
  IN  UNION {visited[l] : l \in 1 .. Steps}

\* Faulty variant of Collapsed: only a subtree without any cluster is taken back.
CollapsedEmptyOnly ==
  UNION {ChildrenOf(n) : n \in {m \in Visited : Clusters(LiveChildren(m)) = {}}}

\* The children that it discards.
Collapsed == UNION {ChildrenOf(n) : n \in {m \in Visited : Divisions[m] = 1}}

\* Faulty variant of LeafParents: noise is reclassified wherever it is met.
LeafParentsAnywhere(gone) == {n \in DOMAIN id : ~IsNoise(n) /\ ChildrenOf(n) # {}}

\* The nodes at which ReclassifyNoise gets to children that are all leaves.
LeafParents(gone) ==
  LET Leafy(n)   == ChildrenOf(n) \subseteq gone
      Bottom(n)  == \A c \in ChildrenOf(n) : Leafy(c)
      reached[l \in 1 .. Steps] ==
        IF l = 1 THEN TopClusters
        ELSE UNION {Clusters(ChildrenOf(n)) : n \in {m \in reached[l - 1] : ~Bottom(m)}}
  IN  {n \in UNION {reached[l] : l \in 1 .. Steps} : ChildrenOf(n) # {} /\ Bottom(n)}

NoiseOf(n) == UNION {bursts[c] : c \in {d \in ChildrenOf(n) : IsNoise(d)}}

Closeness(c, b) == Max({input.within[{b, q}] : q \in bursts[c]})

\* Faulty variant of Nearest: clusters of the first level are tried too.
NearestOrTop(n, b) ==
  LET C == {c \in TopClusters \cup Clusters(ChildrenOf(n)) : b \notin bursts[c]}
  IN  {c \in C : \A d \in C : Closeness(d, b) <= Closeness(c, b)}

\* The clusters under n that have a burst as near to b as any.
Nearest(n, b) ==
  LET C == Clusters(ChildrenOf(n))
  IN  {c \in C : \A d \in C : Closeness(d, b) <= Closeness(c, b)}

\* All noise of the node is to go to one of its clusters, and there is none.
NoCluster(n) == NoiseOf(n) # {} /\ Clusters(ChildrenOf(n)) = {}

Prune ==
  /\ pc = "prune"
  /\ LET gone  == discarded \cup Collapsed
         work  == LeafParents(gone)
         moved == UNION {NoiseOf(n) : n \in work}
         noise == {c \in DOMAIN id : IsNoise(c) /\ parent[c] \in work}
     IN  /\ \A n \in work : ~NoCluster(n)
         /\ discarded' = gone \cup noise
         /\ \E to \in [moved -> Clusters(DOMAIN id)] :
              /\ \A n \in work : \A b \in NoiseOf(n) : to[b] \in Nearest(n, b)
              /\ bursts' = [c \in DOMAIN bursts |->
                   IF c \in noise THEN {}
                   ELSE bursts[c] \cup {b \in moved : to[b] = c}]
  /\ UNCHANGED <<input, step, at, stop, id, score, occurrences, duration, parent>>
  /\ GeneratePartition
  /\ Return("done")

\* ReclassifyNoise adds noise to the cluster of no id, a null pointer.
CrashOnReclassify ==
  /\ pc = "prune"
  /\ \E n \in LeafParents(discarded \cup Collapsed) : NoCluster(n)
  /\ pc' = "crashed"
  /\ UNCHANGED <<input, step, at, stop, nodes, discarded, partition>>

Terminated ==
  /\ pc \in {"done", "failed", "crashed"}
  /\ UNCHANGED vars

Next ==
  \/ RunFirstStep
  \/ AnalyseNode
  \/ SkipNode
  \/ CrashOnCandidate
  \/ FinishStep
  \/ Prune
  \/ CrashOnReclassify
  \/ Terminated

Spec == Init /\ [][Next]_vars

-----------------------------------------------------------------------------
\* The variables have the types their declarations give them.
TypeOK ==
  /\ input \in Inputs
  /\ pc \in {"first", "step", "prune", "done", "failed", "crashed"}
  /\ step \in 1 .. Steps
  /\ at \in Nat \ {0} /\ stop \in BOOLEAN
  /\ DOMAIN bursts \subseteq (1 .. Steps) \X (Nat \ {0})
  /\ DOMAIN id = DOMAIN bursts /\ DOMAIN score = DOMAIN bursts
  /\ DOMAIN occurrences = DOMAIN bursts /\ DOMAIN duration = DOMAIN bursts
  /\ DOMAIN parent = DOMAIN bursts
  /\ \A n \in DOMAIN bursts :
       /\ bursts[n] \subseteq Burst
       /\ id[n] \in Nat /\ score[n] \in 0 .. One
       /\ occurrences[n] \in Nat /\ duration[n] \in Nat
       /\ parent[n] = Root \/ parent[n] \in DOMAIN bursts
  /\ discarded \subseteq DOMAIN bursts
  /\ \A b \in DOMAIN partition : b \in Burst /\ partition[b] \in Nat

LiveLeaves == Leaves(parent, discarded)
Analysed   == pc # "first"

\* Nodes are discarded by three rules at different times and noise is moved between
\* them, yet each burst is in exactly one leaf that is not discarded.
LeavesPartitionBursts ==
  Analysed =>
    \A b \in Burst : Cardinality({n \in LiveLeaves : b \in bursts[n]}) = 1

\* The renaming of a step starts from an id that depends on what was discarded so far
\* ("THAT'S BUGGY!" a comment says): between steps no two leaves share an id.
LeafIdsUnique ==
  pc \in {"prune", "done"} \/ (pc = "step" /\ at = 1) =>
    \A m, n \in LiveLeaves : m # n /\ id[m] = id[n] => IsNoise(m)

\* The cluster of the first level in which a burst was, or the noise.
FirstLevel(b) == id[CHOOSE n \in Level(1) : b \in bursts[n]]

\* In the result no cluster holds bursts of two clusters of the first level, although
\* noise was given to the nearest cluster, and noise of the first level is still noise.
FirstLevelKept ==
  pc = "done" =>
    \A b, c \in Burst :
      /\ partition[b] = partition[c] /\ partition[b] # NOISE_CLUSTERID =>
           FirstLevel(b) = FirstLevel(c)
      /\ FirstLevel(b) = NOISE_CLUSTERID => partition[b] = NOISE_CLUSTERID

\* In the result a cluster of the first level is whole and has its id, without noise,
\* or at least two clusters are left of it, and one of them has its id.
WholeOrDivided ==
  pc = "done" =>
    \A n \in TopClusters :
      LET found == {partition[b] : b \in bursts[n]}
      IN  /\ id[n] \in found
          /\ found = {id[n]} \/ Cardinality(found \ {NOISE_CLUSTERID}) >= 2

\* While steps are made clusters only lose bursts: a smaller Eps on the bursts of one
\* node never brings noise back into a cluster, nor what was separate together.
OnlySplits ==
  [][pc = "step" =>
       \A n \in LiveLeaves' :
         \E m \in LiveLeaves : /\ bursts'[n] \subseteq bursts[m]
                              /\ IsNoise(m) => id'[n] = NOISE_CLUSTERID]_vars

\* What the comments say: Run prunes the tree, reclassifies the noise at the leaves and
\* returns, true or false.
RunReturns == pc # "crashed"
=============================================================================
