------------------------------- MODULE DBSCAN -------------------------------
(***************************************************************************)
(* One density-based cluster analysis, as every node of the tree runs it:  *)
(* libDistributedClusteringImplementation::ClusterAnalysis calls           *)
(* DBSCAN::Run on a fresh Partition and then GenerateClusterModels; the    *)
(* caller asks for GetNoisePoints last.                                    *)
(*                                                                         *)
(* Data.  Points are 1 .. n (0 .. n-1 in the code).  Coordinates only      *)
(* matter through EpsilonRangeQuery, so they are abstracted to the graph   *)
(* "near": near[p] is the result of the query around p, p included.  Any   *)
(* symmetric reflexive graph is one the program can be given, for points   *)
(* of enough dimensions.                                                   *)
(***************************************************************************)
EXTENDS Integers, FiniteSets

CONSTANTS
  N,             \* bound on Data.size()
  MinPoints,     \* DBSCAN::MinPoints
  SizeLimit,     \* number of values of size_t (2^width): NoisePoints wraps here
  InitialNoise   \* values the constructor may leave in NoisePoints, which it
                 \* does not initialise: an undefined read in Run

ASSUME ConstantsAssumption ==
  /\ N \in Nat
  /\ MinPoints \in Nat
  /\ SizeLimit \in Nat \ {0}
  /\ InitialNoise \subseteq 0 .. (SizeLimit - 1)

\* clustering_types.h
UNCLASSIFIED    == -5
NOISE_CLUSTERID == 0
MIN_CLUSTERID   == 1

VARIABLES
  n,             \* Data.size()
  near,          \* the epsilon graph of the data
  pc,            \* where the call is: run, scan, expand, models, noise, done
  index,         \* the loop variable of Run
  label,         \* ClusterAssignmentVector
  nbh,           \* Point::NeighbourhoodSize of each point, 0 when never set
  clusterId,     \* ClusterId
  seeds,         \* SeedList from the iterator on
  noisePoints,   \* NoisePoints
  ids,           \* the Partition's _IDs
  models,        \* Models: the points of each ConvexHullModel, by position
  noise          \* the points GetNoisePoints returns

params == <<n, near>>
vars == <<n, near, pc, index, label, nbh, clusterId, seeds, noisePoints, ids,
          models, noise>>

Point == 1 .. n

\* What EpsilonRangeQuery finds around each point when the pairs of E are the
\* distinct points at distance Eps or less.
EpsilonGraph(E) == [p \in Point |-> {q \in Point : q = p \/ {p, q} \in E}]

\* SeedList.size() >= MinPoints
Core(p) == Cardinality(near[p]) >= MinPoints

-----------------------------------------------------------------------------
Init ==
  /\ n \in 0 .. N
  /\ \E E \in SUBSET {{p, q} : p, q \in Point} : near = EpsilonGraph(E)
  /\ pc = "run"
  /\ index = 1
  /\ label = << >>
  /\ nbh = [p \in Point |-> 0]
  /\ clusterId = MIN_CLUSTERID
  /\ seeds = {}
  /\ noisePoints \in InitialNoise
  /\ ids = {}
  /\ models = << >>
  /\ noise = {}

\* Run returns at once when there is no data: the partition stays empty.
RunOnNothing ==
  /\ pc = "run"
  /\ n = 0
  /\ pc' = "models"
  /\ UNCHANGED <<params, index, label, nbh, clusterId, seeds, noisePoints, ids,
                 models, noise>>

\* The head of Run: count, and make the assignment vector.
StartRun ==
  /\ pc = "run"
  /\ n > 0
  /\ noisePoints' = (noisePoints + 1) % SizeLimit
  /\ label' = [p \in Point |-> UNCLASSIFIED]
  /\ pc' = "scan"
  /\ UNCHANGED <<params, index, nbh, clusterId, seeds, ids, models, noise>>

\* A point that already has a label is not expanded.
SkipClassified ==
  /\ pc = "scan"
  /\ index <= n
  /\ label[index] # UNCLASSIFIED
  /\ index' = index + 1
  /\ UNCHANGED <<params, pc, label, nbh, clusterId, seeds, noisePoints, ids,
                 models, noise>>

\* ExpandCluster on a point that is not a core point returns false.
ExpandNonCore ==
  /\ pc = "scan"
  /\ index <= n
  /\ label[index] = UNCLASSIFIED
  /\ ~Core(index)
  /\ label' = [label EXCEPT ![index] = NOISE_CLUSTERID]
  /\ nbh' = [nbh EXCEPT ![index] = Cardinality(near[index])]
  /\ noisePoints' = (noisePoints + 1) % SizeLimit
  /\ index' = index + 1
  /\ UNCHANGED <<params, pc, clusterId, seeds, ids, models, noise>>

\* Faulty variant of ExpandCore: the scan advances before the cluster is grown.
ExpandCoreAdvances ==
  /\ pc = "scan" /\ index <= n /\ label[index] = UNCLASSIFIED /\ Core(index)
  /\ label' = [p \in Point |-> IF p \in near[index] THEN clusterId ELSE label[p]]
  /\ nbh' = [nbh EXCEPT ![index] = Cardinality(near[index])]
  /\ seeds' = near[index] \ {index}
  /\ pc' = "expand"
  /\ index' = index + 1
  /\ UNCHANGED <<params, clusterId, noisePoints, ids, models, noise>>

\* Faulty variant of ExpandCore: points with a label are expanded again.
ExpandCoreAgain ==
  /\ pc = "scan" /\ index <= n /\ Core(index)
  /\ label' = [p \in Point |-> IF p \in near[index] THEN clusterId ELSE label[p]]
  /\ nbh' = [nbh EXCEPT ![index] = Cardinality(near[index])]
  /\ seeds' = near[index] \ {index}
  /\ pc' = "expand"
  /\ UNCHANGED <<params, index, clusterId, noisePoints, ids, models, noise>>

\* ExpandCluster on a core point takes over its whole neighbourhood, whatever
\* label it has, and leaves the neighbours to be visited.
ExpandCore ==
  /\ pc = "scan"
  /\ index <= n
  /\ label[index] = UNCLASSIFIED
  /\ Core(index)
  /\ label' = [p \in Point |-> IF p \in near[index] THEN clusterId ELSE label[p]]
  /\ nbh' = [nbh EXCEPT ![index] = Cardinality(near[index])]
  /\ seeds' = near[index] \ {index}
  /\ pc' = "expand"
  /\ UNCHANGED <<params, index, clusterId, noisePoints, ids, models, noise>>

\* Neighbours of a seed that still take the current cluster's label.
Pending(s)  == {q \in near[s] : label[q] = UNCLASSIFIED}
Upgraded(s) == {q \in near[s] : label[q] = NOISE_CLUSTERID}

\* Faulty variants of VisitCoreSeed, which grows the cluster around s, takes the
\* points of counted off the noise and then the seeds of done off the list.
GrowAround(s, counted, done) ==
  /\ pc = "expand"
  /\ label' = [p \in Point |->
                 IF p \in Pending(s) \cup Upgraded(s) THEN clusterId ELSE label[p]]
  /\ nbh' = [nbh EXCEPT ![s] = Cardinality(near[s])]
  /\ seeds' = (seeds \ done) \cup Pending(s)
  /\ noisePoints' = (noisePoints - Cardinality(counted)) % SizeLimit
  /\ UNCHANGED <<params, pc, index, clusterId, ids, models, noise>>

\* Every point that joins is taken off the count, not only former noise.
VisitCoreSeedCountsAll(s) == Core(s) /\ GrowAround(s, Pending(s) \cup Upgraded(s), {s})

\* Border points grow the cluster, too.
VisitCoreSeedAny(s) == GrowAround(s, Upgraded(s), {s})

\* A seed is never done.
VisitCoreSeedKeeps(s) == Core(s) /\ GrowAround(s, Upgraded(s), {})

\* A seed that is a core point grows the cluster.  The order in which the
\* kd-tree returns neighbours is not modelled: any seed may be next.
VisitCoreSeed(s) ==
  /\ pc = "expand"
  /\ Core(s)
  /\ label' = [p \in Point |->
                 IF p \in Pending(s) \cup Upgraded(s) THEN clusterId ELSE label[p]]
  /\ nbh' = [nbh EXCEPT ![s] = Cardinality(near[s])]
  /\ seeds' = (seeds \ {s}) \cup Pending(s)
  /\ noisePoints' = (noisePoints - Cardinality(Upgraded(s))) % SizeLimit
  /\ UNCHANGED <<params, pc, index, clusterId, ids, models, noise>>

\* Faulty variant of VisitBorderSeed: the size of the neighbourhood is not kept.
VisitBorderSeedUnmeasured(s) ==
  /\ pc = "expand"
  /\ ~Core(s)
  /\ seeds' = seeds \ {s}
  /\ UNCHANGED <<params, pc, index, label, nbh, clusterId, noisePoints, ids, models,
                 noise>>

\* A seed that is a border point is only measured.
VisitBorderSeed(s) ==
  /\ pc = "expand"
  /\ ~Core(s)
  /\ nbh' = [nbh EXCEPT ![s] = Cardinality(near[s])]
  /\ seeds' = seeds \ {s}
  /\ UNCHANGED <<params, pc, index, label, clusterId, noisePoints, ids, models,
                 noise>>

\* ExpandCluster returns true and Run records the cluster.
ClusterFound ==
  /\ pc = "expand"
  /\ seeds = {}
  /\ ids' = ids \cup {clusterId}
  /\ clusterId' = clusterId + 1
  /\ index' = index + 1
  /\ pc' = "scan"
  /\ UNCHANGED <<params, label, nbh, seeds, noisePoints, models, noise>>

\* Faulty variant of FinishRun: only the clusters found are listed.
FinishRunClustersOnly ==
  /\ pc = "scan"
  /\ index > n
  /\ pc' = "models"
  /\ UNCHANGED <<params, index, label, nbh, clusterId, seeds, noisePoints, ids,
                 models, noise>>

\* The tail of Run: the noise id is recorded when the counter is not zero.
FinishRun ==
  /\ pc = "scan"
  /\ index > n
  /\ ids' = IF noisePoints # 0 THEN ids \cup {NOISE_CLUSTERID} ELSE ids
  /\ pc' = "models"
  /\ UNCHANGED <<params, index, label, nbh, clusterId, seeds, noisePoints,
                 models, noise>>

\* Every label indexes PointsPerCluster, which has NumberOfClusters() entries.
InBounds == \A p \in DOMAIN label : label[p] \in 0 .. (Cardinality(ids) - 1)

\* Faulty variant of GenerateClusterModels: the noise entry is taken for a cluster
\* and the last cluster is left out.
GenerateClusterModelsShifted ==
  /\ pc = "models"
  /\ InBounds
  /\ models' = [c \in 1 .. (Cardinality(ids) - 1) |->
                  {p \in DOMAIN label : label[p] = c - 1}]
  /\ pc' = "noise"
  /\ UNCHANGED <<params, index, label, nbh, clusterId, seeds, noisePoints, ids,
                 noise>>

\* One model per entry of PointsPerCluster after the first (the noise).  With a
\* label out of bounds the behaviour is undefined and is not followed further.
GenerateClusterModels ==
  /\ pc = "models"
  /\ InBounds
  /\ models' = [c \in 1 .. (Cardinality(ids) - 1) |->
                  {p \in DOMAIN label : label[p] = c}]
  /\ pc' = "noise"
  /\ UNCHANGED <<params, index, label, nbh, clusterId, seeds, noisePoints, ids,
                 noise>>

GetNoisePoints ==
  /\ pc = "noise"
  /\ noise' = {p \in DOMAIN label : label[p] = NOISE_CLUSTERID}
  /\ pc' = "done"
  /\ UNCHANGED <<params, index, label, nbh, clusterId, seeds, noisePoints, ids,
                 models>>

Terminated ==
  /\ pc = "done"
  /\ UNCHANGED vars

Next ==
  \/ RunOnNothing
  \/ StartRun
  \/ SkipClassified
  \/ ExpandNonCore
  \/ ExpandCore
  \/ \E s \in seeds : VisitCoreSeed(s) \/ VisitBorderSeed(s)
  \/ ClusterFound
  \/ FinishRun
  \/ GenerateClusterModels
  \/ GetNoisePoints
  \/ Terminated

Spec == Init /\ [][Next]_vars

\* The call runs in one thread that nothing stops.
FairSpec == Spec /\ WF_vars(Next)

-----------------------------------------------------------------------------
\* The state of the call has the types its declarations give it.
TypeOK ==
  /\ n \in 0 .. N
  /\ near \in [Point -> SUBSET Point]
  /\ \A p \in Point : p \in near[p] /\ \A q \in near[p] : p \in near[q]
  /\ pc \in {"run", "scan", "expand", "models", "noise", "done"}
  /\ index \in 1 .. (n + 1) /\ (pc = "expand" => index <= n)
  /\ IF pc = "run" THEN label = << >>
                    ELSE label \in [Point -> {UNCLASSIFIED} \cup Nat]
  /\ nbh \in [Point -> 0 .. n]
  /\ clusterId \in Nat \ {0}
  /\ seeds \subseteq Point
  /\ noisePoints \in 0 .. (SizeLimit - 1)
  /\ ids \subseteq Nat
  /\ noise \subseteq Point

\* GenerateClusterModels indexes its vectors with the cluster id, which is safe
\* only if ids are contiguous and the noise id is always among them.
NoOverrun == pc = "models" => InBounds

\* When the analysis ends, the models and the noise points share the data out:
\* each point is in exactly one place and each model holds a core point, so no
\* ConvexHullModel is built from nothing or from stolen border points only.
ModelsPartitionData ==
  pc = "done" =>
    /\ \A p \in Point :
         \/ p \in noise /\ \A c \in DOMAIN models : p \notin models[c]
         \/ /\ p \notin noise
            /\ \E c \in DOMAIN models :
                 \A d \in DOMAIN models : p \in models[d] <=> d = c
    /\ \A c \in DOMAIN models : \E p \in models[c] : Core(p)

\* The merge and the classifier read NeighbourhoodSize of every point of a
\* cluster; the Point constructor does not set it, the range queries of this run
\* must have.
EveryPointMeasured ==
  pc = "done" => \A p \in Point : nbh[p] = Cardinality(near[p])

\* The counter that decides whether the noise id is listed counts at least the
\* points that are labelled noise, although the first loop of ExpandCluster
\* relabels noise points without taking them off.
NoiseCounted ==
  pc \notin {"run"} /\ n > 0 =>
    noisePoints > Cardinality({p \in Point : label[p] = NOISE_CLUSTERID})

\* A core point never changes cluster, although ExpandCluster relabels the
\* neighbourhood of its first point without looking at the labels it has.
CorePointsStay ==
  [][\A p \in DOMAIN label :
       Core(p) /\ label[p] >= MIN_CLUSTERID => label'[p] = label[p]]_vars

\* Every analysis ends with its models and its noise points.
Terminates == <>(pc = "done")

\* The labels are the answer once Run has returned.
Returned == pc \notin {"run", "scan", "expand"}

Abstract == INSTANCE DensityClustering WITH
              cores <- {p \in Point : Core(p)},
              answer <- IF Returned THEN label ELSE << >>,
              answered <- Returned

\* Run implements the abstract density clustering: whatever the order of the
\* points and of the seeds, its labels are a correct answer.
ImplementsDensityClustering == Abstract!Spec
=============================================================================
