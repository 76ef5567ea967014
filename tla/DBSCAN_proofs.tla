---------------------------- MODULE DBSCAN_proofs ----------------------------
(***************************************************************************)
(* What holds of a cluster analysis for every number of points, every      *)
(* epsilon graph, every MinPoints and every width of the noise counter.    *)
(***************************************************************************)
EXTENDS DBSCAN, FiniteSetTheorems, TLAPS

\* The size of a set of points is a number of points.
LEMMA PointCount ==
  ASSUME NEW m \in Nat, NEW S \in SUBSET (1 .. m)
  PROVE  IsFiniteSet(S) /\ Cardinality(S) \in 0 .. m
<1>1. IsFiniteSet(1 .. m) /\ Cardinality(1 .. m) = m
  BY FS_Interval
<1>2. IsFiniteSet(S) /\ Cardinality(S) <= m /\ Cardinality(S) \in Nat
  BY <1>1, FS_Subset, FS_CardinalityType
<1> QED
  BY <1>2

-----------------------------------------------------------------------------
\* TypeOK: every step of Run, GenerateClusterModels and GetNoisePoints keeps
\* the declared types, the counter wrapping at the width of size_t.
THEOREM TypeCorrect == Spec => []TypeOK
<1>1. Init => TypeOK
  <2> SUFFICES ASSUME Init
               PROVE  TypeOK
    OBVIOUS
  <2>1. near \in [Point -> SUBSET Point]
    BY DEF Init, EpsilonGraph
  <2>2. \A p \in Point : p \in near[p] /\ \A q \in near[p] : p \in near[q]
    <3> PICK E : near = EpsilonGraph(E)
      BY DEF Init
    <3> QED
      BY DEF EpsilonGraph
  <2> QED
    BY <2>1, <2>2, ConstantsAssumption
    DEF Init, TypeOK, Point, MIN_CLUSTERID, UNCLASSIFIED
<1>2. TypeOK /\ [Next]_vars => TypeOK'
  <2> SUFFICES ASSUME TypeOK, [Next]_vars
               PROVE  TypeOK'
    OBVIOUS
  <2> USE ConstantsAssumption
  <2>0. n \in Nat
    BY DEF TypeOK
  <2>1. CASE RunOnNothing
    BY <2>1 DEF TypeOK, RunOnNothing, params, Point
  <2>2. CASE StartRun
    BY <2>2 DEF TypeOK, StartRun, params, Point, UNCLASSIFIED
  <2>3. CASE SkipClassified
    BY <2>3 DEF TypeOK, SkipClassified, params, Point
  <2>4. CASE ExpandNonCore
    <3>1. Cardinality(near[index]) \in 0 .. n
      BY <2>0, <2>4, PointCount DEF TypeOK, ExpandNonCore, Point
    <3> QED
      BY <2>4, <3>1 DEF TypeOK, ExpandNonCore, params, Point, NOISE_CLUSTERID
  <2>5. CASE ExpandCore
    <3>1. Cardinality(near[index]) \in 0 .. n
      BY <2>0, <2>5, PointCount DEF TypeOK, ExpandCore, Point
    <3> QED
      BY <2>5, <3>1 DEF TypeOK, ExpandCore, params, Point
  <2>6. ASSUME NEW s \in seeds, VisitCoreSeed(s)
        PROVE  TypeOK'
    <3>1. Cardinality(near[s]) \in 0 .. n
      BY <2>0, PointCount DEF TypeOK, Point
    <3>2. Cardinality(Upgraded(s)) \in Nat
      BY <2>0, PointCount DEF TypeOK, Point, Upgraded
    <3>3. Pending(s) \subseteq Point
      BY DEF TypeOK, Pending
    <3>4. label' \in [Point -> {UNCLASSIFIED} \cup Nat]
      BY <2>6 DEF TypeOK, VisitCoreSeed
    <3>5. noisePoints' \in 0 .. (SizeLimit - 1)
      BY <2>6, <3>2 DEF TypeOK, VisitCoreSeed
    <3>6. nbh' \in [Point -> 0 .. n] /\ seeds' \subseteq Point
      BY <2>6, <3>1, <3>3 DEF TypeOK, VisitCoreSeed
    <3> QED
      BY <2>6, <3>4, <3>5, <3>6 DEF TypeOK, VisitCoreSeed, params, Point
  <2>7. ASSUME NEW s \in seeds, VisitBorderSeed(s)
        PROVE  TypeOK'
    <3>1. Cardinality(near[s]) \in 0 .. n
      BY <2>0, PointCount DEF TypeOK, Point
    <3> QED
      BY <2>7, <3>1 DEF TypeOK, VisitBorderSeed, params, Point
  <2>8. CASE ClusterFound
    BY <2>8 DEF TypeOK, ClusterFound, params, Point
  <2>9. CASE FinishRun
    BY <2>9 DEF TypeOK, FinishRun, params, Point, NOISE_CLUSTERID
  <2>10. CASE GenerateClusterModels
    BY <2>10 DEF TypeOK, GenerateClusterModels, params, Point
  <2>12. CASE GetNoisePoints
    BY <2>12 DEF TypeOK, GetNoisePoints, params, Point
  <2>13. CASE UNCHANGED vars
    BY <2>13 DEF TypeOK, vars, params, Point
  <2> QED
    BY <2>1, <2>2, <2>3, <2>4, <2>5, <2>6, <2>7, <2>8, <2>9, <2>10,
       <2>12, <2>13 DEF Next, Terminated
<1> QED
  BY <1>1, <1>2, PTL DEF Spec

-----------------------------------------------------------------------------
(* Why a core point stays: ExpandCluster starts from an unclassified core    *)
(* point, and a core point that has a cluster and is not waiting in SeedList *)
(* has no unclassified neighbour.                                            *)

SeedsLabelled ==
  /\ pc # "expand" => seeds = {}
  /\ \A s \in seeds : label[s] >= MIN_CLUSTERID

NoiseNotCore == \A p \in Point : label[p] = NOISE_CLUSTERID => ~Core(p)

VisitedCoresSpread ==
  \A p \in Point :
    Core(p) /\ label[p] >= MIN_CLUSTERID /\ p \notin seeds =>
      \A q \in near[p] : label[q] >= MIN_CLUSTERID

CoreInv ==
  /\ SeedsLabelled
  /\ pc # "run" => NoiseNotCore /\ VisitedCoresSpread

\* Every step of the analysis keeps CoreInv.
LEMMA CoreInvStep == TypeOK /\ CoreInv /\ [Next]_vars => CoreInv'
<1> SUFFICES ASSUME TypeOK, CoreInv, [Next]_vars
             PROVE  CoreInv'
  OBVIOUS
<1> USE DEF UNCLASSIFIED, NOISE_CLUSTERID, MIN_CLUSTERID, CoreInv, SeedsLabelled,
            NoiseNotCore, VisitedCoresSpread
<1>1. CASE RunOnNothing
  BY <1>1 DEF TypeOK, RunOnNothing, params, Point, Core
<1>2. CASE StartRun
  BY <1>2 DEF TypeOK, StartRun, params, Point, Core
<1>3. CASE SkipClassified
  BY <1>3 DEF TypeOK, SkipClassified, params, Point, Core
<1>4. CASE ExpandNonCore
  <2>1. index \in Point /\ seeds = {} /\ seeds' = {}
    BY <1>4 DEF TypeOK, ExpandNonCore, Point
  <2>2. NoiseNotCore'
    BY <1>4, <2>1 DEF TypeOK, ExpandNonCore, params, Point, Core
  <2>3. VisitedCoresSpread'
    BY <1>4, <2>1 DEF TypeOK, ExpandNonCore, params, Point, Core
  <2> QED
    BY <1>4, <2>1, <2>2, <2>3
<1>5. CASE ExpandCore
  <2>1. index \in Point /\ seeds = {} /\ clusterId \in Nat /\ clusterId >= 1
    BY <1>5 DEF TypeOK, ExpandCore, Point
  <2>2. SeedsLabelled'
    BY <1>5, <2>1 DEF TypeOK, ExpandCore, Point
  <2>3. NoiseNotCore'
    BY <1>5, <2>1 DEF TypeOK, ExpandCore, params, Point, Core
  <2>4. VisitedCoresSpread'
    BY <1>5, <2>1 DEF TypeOK, ExpandCore, params, Point, Core
  <2> QED
    BY <2>2, <2>3, <2>4
<1>6. ASSUME NEW s \in seeds, VisitCoreSeed(s)
      PROVE  CoreInv'
  <2>1. s \in Point /\ clusterId \in Nat /\ clusterId >= 1 /\ pc = "expand"
    BY <1>6 DEF TypeOK, VisitCoreSeed
  <2>2. SeedsLabelled'
    BY <1>6, <2>1 DEF TypeOK, VisitCoreSeed, Pending, Upgraded, Point
  <2>3. NoiseNotCore'
    BY <1>6, <2>1 DEF TypeOK, VisitCoreSeed, params, Point, Core
  <2>4. VisitedCoresSpread'
    BY <1>6, <2>1 DEF TypeOK, VisitCoreSeed, Pending, Upgraded, params, Point, Core
  <2> QED
    BY <2>2, <2>3, <2>4
<1>7. ASSUME NEW s \in seeds, VisitBorderSeed(s)
      PROVE  CoreInv'
  BY <1>7 DEF TypeOK, VisitBorderSeed, params, Point, Core
<1>8. CASE ClusterFound
  BY <1>8 DEF TypeOK, ClusterFound, params, Point, Core
<1>9. CASE FinishRun
  BY <1>9 DEF TypeOK, FinishRun, params, Point, Core
<1>10. CASE GenerateClusterModels
  BY <1>10 DEF TypeOK, GenerateClusterModels, params, Point, Core
<1>12. CASE GetNoisePoints
  BY <1>12 DEF TypeOK, GetNoisePoints, params, Point, Core
<1>13. CASE UNCHANGED vars
  BY <1>13 DEF TypeOK, vars, params, Point, Core
<1> QED
  BY <1>1, <1>2, <1>3, <1>4, <1>5, <1>6, <1>7, <1>8, <1>9, <1>10,
     <1>12, <1>13 DEF Next, Terminated

THEOREM CoreInvariant == Spec => []CoreInv
<1>1. Init => CoreInv
  BY DEF Init, CoreInv, SeedsLabelled
<1> QED
  BY <1>1, CoreInvStep, TypeCorrect, PTL DEF Spec

\* CorePointsStay: no step of ExpandCluster moves a core point from a cluster
\* to another, or out of the clusters.
THEOREM CorePointsStayProved == Spec => CorePointsStay
<1> DEFINE Stay == \A p \in DOMAIN label :
                     Core(p) /\ label[p] >= MIN_CLUSTERID => label'[p] = label[p]
<1>1. TypeOK /\ CoreInv /\ [Next]_vars => [Stay]_vars
  <2> SUFFICES ASSUME TypeOK, CoreInv, Next
               PROVE  Stay \/ UNCHANGED vars
    OBVIOUS
  <2>1. CASE pc = "run"
    BY <2>1 DEF TypeOK
  <2> SUFFICES ASSUME pc # "run"
               PROVE  \/ UNCHANGED vars
                      \/ \A p \in Point : Core(p) /\ label[p] >= MIN_CLUSTERID
                                              => label'[p] = label[p]
    BY <2>1 DEF TypeOK
  <2> USE DEF UNCLASSIFIED, NOISE_CLUSTERID, MIN_CLUSTERID
  <2>2. CASE ExpandNonCore
    BY <2>2 DEF TypeOK, ExpandNonCore, Point
  <2>3. CASE ExpandCore
    <3>1. index \in Point /\ seeds = {}
      BY <2>3 DEF TypeOK, CoreInv, SeedsLabelled, ExpandCore, Point
    <3>2. \A p \in near[index] : Core(p) => ~(label[p] >= 1)
      BY <2>3, <3>1 DEF TypeOK, CoreInv, VisitedCoresSpread, ExpandCore
    <3> QED
      BY <2>3, <3>1, <3>2 DEF TypeOK, ExpandCore, Point
  <2>4. ASSUME NEW s \in seeds, VisitCoreSeed(s)
        PROVE  \A p \in Point : label[p] >= MIN_CLUSTERID => label'[p] = label[p]
    BY <2>4 DEF TypeOK, VisitCoreSeed, Pending, Upgraded
  <2>5. ASSUME UNCHANGED label
        PROVE  \A p \in Point : label'[p] = label[p]
    BY <2>5
  <2> QED
    BY <2>2, <2>3, <2>4, <2>5 DEF Next, RunOnNothing, StartRun, SkipClassified,
       VisitBorderSeed, ClusterFound, FinishRun, GenerateClusterModels,
       GetNoisePoints, Terminated
<1> QED
  BY <1>1, TypeCorrect, CoreInvariant, PTL DEF Spec, CorePointsStay

-----------------------------------------------------------------------------
(* Why every point is measured: a point that has a label has been queried,   *)
(* or waits in SeedList to be, and Run leaves no point without a label.      *)

Measured(p) == nbh[p] = Cardinality(near[p])

MeasuredInv ==
  /\ pc = "run" => index = 1
  /\ pc \in {"scan", "expand"} => \A p \in 1 .. (index - 1) : label[p] # UNCLASSIFIED
  /\ pc = "expand" => label[index] # UNCLASSIFIED
  /\ pc \notin {"run", "scan", "expand"} => \A p \in DOMAIN label : label[p] # UNCLASSIFIED
  /\ pc # "run" => \A p \in Point :
                    label[p] # UNCLASSIFIED => p \in seeds \/ Measured(p)

\* Every step of the analysis keeps MeasuredInv.
LEMMA MeasuredStep == TypeOK /\ CoreInv /\ MeasuredInv /\ [Next]_vars => MeasuredInv'
<1> SUFFICES ASSUME TypeOK, CoreInv, MeasuredInv, [Next]_vars
             PROVE  MeasuredInv'
  OBVIOUS
<1> USE DEF UNCLASSIFIED, NOISE_CLUSTERID, MIN_CLUSTERID, MeasuredInv, Measured
<1>1. CASE RunOnNothing
  BY <1>1 DEF TypeOK, RunOnNothing, params, Point
<1>2. CASE StartRun
  BY <1>2 DEF TypeOK, StartRun, params, Point
<1>3. CASE SkipClassified
  BY <1>3 DEF TypeOK, SkipClassified, params, Point
<1>4. CASE ExpandNonCore
  BY <1>4 DEF TypeOK, ExpandNonCore, params, Point
<1>5. CASE ExpandCore
  <2>1. index \in Point /\ clusterId \in Nat /\ clusterId >= 1
    BY <1>5 DEF TypeOK, ExpandCore, Point
  <2> QED
    BY <1>5, <2>1 DEF TypeOK, ExpandCore, params, Point, CoreInv, SeedsLabelled
<1>6. ASSUME NEW s \in seeds, VisitCoreSeed(s)
      PROVE  MeasuredInv'
  <2>1. s \in Point /\ clusterId \in Nat /\ clusterId >= 1 /\ pc = "expand"
    BY <1>6 DEF TypeOK, VisitCoreSeed
  <2> QED
    BY <1>6, <2>1 DEF TypeOK, VisitCoreSeed, Pending, Upgraded, params, Point
<1>7. ASSUME NEW s \in seeds, VisitBorderSeed(s)
      PROVE  MeasuredInv'
  BY <1>7 DEF TypeOK, VisitBorderSeed, params, Point
<1>8. CASE ClusterFound
  BY <1>8 DEF TypeOK, ClusterFound, params, Point
<1>9. CASE FinishRun
  BY <1>9 DEF TypeOK, FinishRun, params, Point
<1>10. CASE GenerateClusterModels
  BY <1>10 DEF TypeOK, GenerateClusterModels, params, Point
<1>12. CASE GetNoisePoints
  BY <1>12 DEF TypeOK, GetNoisePoints, params, Point
<1>13. CASE UNCHANGED vars
  BY <1>13 DEF TypeOK, vars, params, Point
<1> QED
  BY <1>1, <1>2, <1>3, <1>4, <1>5, <1>6, <1>7, <1>8, <1>9, <1>10,
     <1>12, <1>13 DEF Next, Terminated

\* EveryPointMeasured: the merge and the classifier never read a neighbourhood
\* size that no range query has set.
THEOREM EveryPointMeasuredProved == Spec => []EveryPointMeasured
<1>1. Init => MeasuredInv
  BY DEF Init, MeasuredInv
<1>2. TypeOK /\ CoreInv /\ MeasuredInv => EveryPointMeasured
  BY DEF TypeOK, CoreInv, SeedsLabelled, MeasuredInv, Measured, EveryPointMeasured
<1> QED
  BY <1>1, <1>2, MeasuredStep, TypeCorrect, CoreInvariant, PTL DEF Spec

-----------------------------------------------------------------------------
(* Why the labels index the models: the ids of the clusters are contiguous   *)
(* and, as long as the counter does not wrap, it stays above the number of   *)
(* noise points and the noise id is listed.                                  *)

\* What the constructor leaves in NoisePoints is small enough for Run to count
\* every point without wrapping.
NoWrap == \A g \in InitialNoise : g + N + 1 < SizeLimit

NoiseSet == {p \in Point : label[p] = NOISE_CLUSTERID}

\* The clusters found so far are numbered 1 .. clusterId - 1.
NumberingInv ==
  /\ pc \in {"run", "scan", "expand"} => ids = MIN_CLUSTERID .. (clusterId - 1)
  /\ pc \notin {"run", "scan", "expand"} /\ n > 0 => ids = 0 .. (clusterId - 1)
  /\ pc \notin {"run", "scan", "expand"} /\ n = 0 => ids = {}
  /\ pc # "run" => \A p \in Point : label[p] <= clusterId
  /\ pc \notin {"run", "expand"} => \A p \in Point : label[p] # clusterId
  /\ pc = "run" => clusterId = MIN_CLUSTERID

\* The counter has room for the points Run has not scanned yet, and counts more
\* than the noise points.
CounterInv ==
  /\ pc = "run" => noisePoints + N + 1 < SizeLimit
  /\ pc \in {"scan", "expand"} => n > 0 /\ noisePoints + (n + 1 - index) < SizeLimit
  /\ pc # "run" /\ n > 0 => noisePoints > Cardinality(NoiseSet)

\* Every step of the analysis keeps CounterInv.
LEMMA CounterStep == TypeOK /\ CounterInv /\ [Next]_vars => CounterInv'
<1> SUFFICES ASSUME TypeOK, CounterInv, [Next]_vars
             PROVE  CounterInv'
  OBVIOUS
<1> USE ConstantsAssumption
    DEF UNCLASSIFIED, NOISE_CLUSTERID, MIN_CLUSTERID, CounterInv
<1>0. /\ n \in Nat /\ noisePoints \in Nat
      /\ IsFiniteSet(NoiseSet) /\ Cardinality(NoiseSet) \in Nat
  <2>1. n \in Nat /\ noisePoints \in Nat
    BY DEF TypeOK
  <2>2. NoiseSet \in SUBSET (1 .. n)
    BY DEF NoiseSet, Point
  <2>3. IsFiniteSet(NoiseSet) /\ Cardinality(NoiseSet) \in 0 .. n
    BY <2>1, <2>2, PointCount
  <2> QED
    BY <2>1, <2>3
<1>1. CASE RunOnNothing
  BY <1>1 DEF TypeOK, RunOnNothing, params
<1>2. CASE StartRun
  <2>1. NoiseSet' = {}
    BY <1>2 DEF TypeOK, StartRun, NoiseSet, params, Point
  <2>2. noisePoints' = noisePoints + 1
    BY <1>2 DEF TypeOK, StartRun
  <2>3. /\ n \in 0 .. N /\ n > 0 /\ n' = n
        /\ index \in Nat /\ index >= 1 /\ index' = index
        /\ pc = "run" /\ pc' = "scan"
    BY <1>2 DEF TypeOK, StartRun, params
  <2>4. Cardinality(NoiseSet') = 0
    BY <2>1, FS_EmptySet
  <2> QED
    BY <1>0, <2>2, <2>3, <2>4
<1>3. CASE SkipClassified
  BY <1>0, <1>3 DEF TypeOK, SkipClassified, params, NoiseSet, Point
<1>4. CASE ExpandNonCore
  <2>1. NoiseSet' = NoiseSet \cup {index}
    BY <1>4 DEF TypeOK, ExpandNonCore, NoiseSet, params, Point
  <2>2. Cardinality(NoiseSet') \in {Cardinality(NoiseSet), Cardinality(NoiseSet) + 1}
    BY <1>0, <2>1, FS_AddElement
  <2>3. Cardinality(NoiseSet') \in Nat
    BY <1>0, <2>2
  <2>4. noisePoints' = noisePoints + 1
    BY <1>0, <1>4 DEF TypeOK, ExpandNonCore
  <2> QED
    BY <1>0, <1>4, <2>2, <2>3, <2>4 DEF TypeOK, ExpandNonCore, params
<1>5. CASE ExpandCore
  <2>1. NoiseSet' \in SUBSET NoiseSet
    BY <1>5 DEF TypeOK, ExpandCore, NoiseSet, params, Point
  <2>2. Cardinality(NoiseSet') <= Cardinality(NoiseSet) /\ Cardinality(NoiseSet') \in Nat
    BY <1>0, <1>5, <2>1, FS_Subset, FS_CardinalityType DEF ExpandCore
  <2> QED
    BY <1>0, <1>5, <2>2 DEF TypeOK, ExpandCore, params
<1>6. ASSUME NEW s \in seeds, VisitCoreSeed(s)
      PROVE  CounterInv'
  <2>1. s \in Point /\ n > 0 /\ pc = "expand" /\ clusterId \in Nat /\ clusterId >= 1
    BY <1>6 DEF TypeOK, VisitCoreSeed, Point
  <2>2. /\ NoiseSet' = NoiseSet \ Upgraded(s)
        /\ NoiseSet \cap Upgraded(s) = Upgraded(s)
    BY <1>6, <2>1 DEF TypeOK, VisitCoreSeed, Pending, Upgraded, NoiseSet, params, Point
  <2>3. Cardinality(NoiseSet') = Cardinality(NoiseSet) - Cardinality(Upgraded(s))
    BY <1>0, <2>1, <2>2, FS_Difference
  <2>4. Cardinality(Upgraded(s)) \in Nat /\ Cardinality(NoiseSet') \in Nat
    BY <1>0, <2>1, <2>2, FS_Difference, FS_Intersection, FS_CardinalityType
  <2>5. noisePoints' = noisePoints - Cardinality(Upgraded(s))
    BY <1>0, <1>6, <2>1, <2>3, <2>4 DEF TypeOK, VisitCoreSeed
  <2> QED
    BY <1>0, <1>6, <2>1, <2>3, <2>4, <2>5 DEF TypeOK, VisitCoreSeed, params
<1>7. ASSUME NEW s \in seeds, VisitBorderSeed(s)
      PROVE  CounterInv'
  BY <1>7 DEF VisitBorderSeed, NoiseSet, params, Point
<1>8. CASE ClusterFound
  BY <1>0, <1>8 DEF TypeOK, ClusterFound, NoiseSet, params, Point
<1>9. CASE FinishRun
  BY <1>9 DEF FinishRun, NoiseSet, params, Point
<1>10. CASE GenerateClusterModels
  BY <1>10 DEF GenerateClusterModels, NoiseSet, params, Point
<1>12. CASE GetNoisePoints
  BY <1>12 DEF GetNoisePoints, NoiseSet, params, Point
<1>13. CASE UNCHANGED vars
  BY <1>13 DEF vars, NoiseSet, params, Point
<1> QED
  BY <1>1, <1>2, <1>3, <1>4, <1>5, <1>6, <1>7, <1>8, <1>9, <1>10,
     <1>12, <1>13 DEF Next, Terminated

\* Every step of the analysis keeps NumberingInv, given that the counter has
\* not wrapped when Run ends.
LEMMA NumberingStep ==
  TypeOK /\ CounterInv /\ NumberingInv /\ [Next]_vars => NumberingInv'
<1> SUFFICES ASSUME TypeOK, CounterInv, NumberingInv, [Next]_vars
             PROVE  NumberingInv'
  OBVIOUS
<1> USE DEF UNCLASSIFIED, NOISE_CLUSTERID, MIN_CLUSTERID, NumberingInv
<1>0. n \in Nat /\ clusterId \in Nat /\ clusterId >= 1
  BY DEF TypeOK
<1>1. CASE RunOnNothing
  BY <1>0, <1>1 DEF TypeOK, RunOnNothing, params, Point
<1>2. CASE StartRun
  BY <1>0, <1>2 DEF TypeOK, StartRun, params, Point
<1>3. CASE SkipClassified
  BY <1>0, <1>3 DEF TypeOK, SkipClassified, params, Point
<1>4. CASE ExpandNonCore
  BY <1>0, <1>4 DEF TypeOK, ExpandNonCore, params, Point
<1>5. CASE ExpandCore
  BY <1>0, <1>5 DEF TypeOK, ExpandCore, params, Point
<1>6. ASSUME NEW s \in seeds, VisitCoreSeed(s)
      PROVE  NumberingInv'
  BY <1>0, <1>6 DEF TypeOK, VisitCoreSeed, params, Point
<1>7. ASSUME NEW s \in seeds, VisitBorderSeed(s)
      PROVE  NumberingInv'
  BY <1>0, <1>7 DEF TypeOK, VisitBorderSeed, params, Point
<1>8. CASE ClusterFound
  <2>1. ids' = MIN_CLUSTERID .. (clusterId' - 1) /\ clusterId' = clusterId + 1
    BY <1>0, <1>8 DEF ClusterFound
  <2>2. \A p \in Point : label'[p] \in Int /\ label'[p] <= clusterId
    BY <1>8 DEF TypeOK, ClusterFound
  <2> QED
    BY <1>0, <1>8, <2>1, <2>2 DEF TypeOK, ClusterFound, params, Point
<1>9. CASE FinishRun
  <2>1. n > 0 => noisePoints # 0
    <3> SUFFICES ASSUME n > 0 PROVE noisePoints # 0
      OBVIOUS
    <3>1. Cardinality(NoiseSet) \in Nat
      BY <1>0, PointCount DEF NoiseSet, Point
    <3> QED
      BY <1>9, <3>1 DEF CounterInv, FinishRun, TypeOK
  <2>2. n > 0 => ids' = 0 .. (clusterId - 1)
    BY <1>0, <1>9, <2>1 DEF FinishRun
  <2>3. n > 0
    BY <1>9 DEF CounterInv, FinishRun
  <2> QED
    BY <1>0, <1>9, <2>2, <2>3 DEF TypeOK, FinishRun, params, Point
<1>10. CASE GenerateClusterModels
  BY <1>0, <1>10 DEF TypeOK, GenerateClusterModels, params, Point
<1>12. CASE GetNoisePoints
  BY <1>0, <1>12 DEF TypeOK, GetNoisePoints, params, Point
<1>13. CASE UNCHANGED vars
  BY <1>0, <1>13 DEF TypeOK, vars, params, Point
<1> QED
  BY <1>1, <1>2, <1>3, <1>4, <1>5, <1>6, <1>7, <1>8, <1>9, <1>10,
     <1>12, <1>13 DEF Next, Terminated

\* No label is out of bounds once Run has returned.
LEMMA LabelsInBounds ==
  TypeOK /\ CoreInv /\ MeasuredInv /\ NumberingInv /\ pc = "models" => InBounds
<1> SUFFICES ASSUME TypeOK, CoreInv, MeasuredInv, NumberingInv, pc = "models",
                    NEW p \in DOMAIN label
             PROVE  label[p] \in 0 .. (Cardinality(ids) - 1)
  BY DEF InBounds
<1>1. p \in Point /\ n \in Nat /\ n > 0 /\ clusterId \in Nat /\ clusterId >= 1
  BY DEF TypeOK, Point
<1>2. ids = 0 .. (clusterId - 1)
  BY <1>1 DEF NumberingInv
<1>3. Cardinality(ids) = clusterId
  BY <1>1, <1>2, FS_Interval
<1>4. label[p] \in Nat
  BY <1>1 DEF TypeOK, MeasuredInv, UNCLASSIFIED
<1> QED
  BY <1>1, <1>3, <1>4 DEF NumberingInv

\* NoOverrun: GenerateClusterModels never indexes past the end of its vectors,
\* provided the value left in NoisePoints does not make the counter wrap.
THEOREM NoOverrunProved == NoWrap => (Spec => []NoOverrun)
<1> SUFFICES ASSUME NoWrap
             PROVE  Spec => []NoOverrun
  OBVIOUS
<1> DEFINE Inv == MeasuredInv /\ CounterInv /\ NumberingInv
<1>1. Init => Inv
  BY ConstantsAssumption
  DEF Init, MeasuredInv, CounterInv, NumberingInv, NoWrap, MIN_CLUSTERID
<1>2. TypeOK /\ CoreInv /\ Inv /\ [Next]_vars => Inv'
  BY MeasuredStep, CounterStep, NumberingStep
<1>3. TypeOK /\ CoreInv /\ Inv => NoOverrun
  BY LabelsInBounds DEF NoOverrun
<1> QED
  BY <1>1, <1>2, <1>3, TypeCorrect, CoreInvariant, PTL DEF Spec

\* NoiseCounted: whatever ExpandCluster takes off or forgets to take off, the
\* counter stays above the number of noise points.
THEOREM NoiseCountedProved == NoWrap => (Spec => []NoiseCounted)
<1> SUFFICES ASSUME NoWrap
             PROVE  Spec => []NoiseCounted
  OBVIOUS
<1>1. Init => CounterInv
  BY ConstantsAssumption DEF Init, CounterInv, NoWrap
<1>2. CounterInv => NoiseCounted
  BY DEF CounterInv, NoiseCounted, NoiseSet
<1> QED
  BY <1>1, <1>2, CounterStep, TypeCorrect, PTL DEF Spec

-----------------------------------------------------------------------------
(* Why the models share the data out: every number given to a cluster stays   *)
(* with the core point the cluster grew from.                                *)

ClustersHaveCores ==
  /\ \A c \in 1 .. (clusterId - 1) : \E p \in Point : Core(p) /\ label[p] = c
  /\ pc = "expand" => Core(index) /\ label[index] = clusterId

ModelsInv ==
  /\ pc # "run" => ClustersHaveCores
  /\ pc \in {"noise", "done"} =>
       models = [c \in 1 .. (Cardinality(ids) - 1) |-> {p \in DOMAIN label : label[p] = c}]
  /\ pc = "done" => noise = {p \in DOMAIN label : label[p] = NOISE_CLUSTERID}

\* Every step of the analysis keeps ModelsInv.
LEMMA ModelsStep ==
  TypeOK /\ CoreInv /\ NumberingInv /\ ModelsInv /\ [Next]_vars => ModelsInv'
<1> SUFFICES ASSUME TypeOK, CoreInv, NumberingInv, ModelsInv, [Next]_vars
             PROVE  ModelsInv'
  OBVIOUS
<1> USE DEF UNCLASSIFIED, NOISE_CLUSTERID, MIN_CLUSTERID, ModelsInv, ClustersHaveCores
<1>0. n \in Nat /\ clusterId \in Nat /\ clusterId >= 1
  BY DEF TypeOK
<1>1. CASE RunOnNothing
  <2>1. clusterId = 1
    BY <1>1 DEF NumberingInv, RunOnNothing
  <2> QED
    BY <1>0, <1>1, <2>1 DEF RunOnNothing
<1>2. CASE StartRun
  <2>1. clusterId = 1
    BY <1>2 DEF NumberingInv, StartRun
  <2> QED
    BY <1>0, <1>2, <2>1 DEF StartRun
<1>3. CASE SkipClassified
  BY <1>0, <1>3 DEF SkipClassified, params, Point, Core
<1>4. CASE ExpandNonCore
  <2>1. \A p \in Point : Core(p) => label'[p] = label[p]
    BY <1>4 DEF TypeOK, ExpandNonCore, Point
  <2> QED
    BY <1>0, <1>4, <2>1 DEF ExpandNonCore, params, Point, Core
<1>5. CASE ExpandCore
  <2>1. index \in Point /\ seeds = {}
    BY <1>5 DEF TypeOK, CoreInv, SeedsLabelled, ExpandCore, Point
  <2>2. \A p \in near[index] : Core(p) => ~(label[p] >= 1)
    BY <1>5, <2>1 DEF TypeOK, CoreInv, VisitedCoresSpread, ExpandCore
  <2>3. \A p \in Point : Core(p) /\ label[p] >= 1 => label'[p] = label[p]
    BY <1>5, <2>1, <2>2 DEF TypeOK, ExpandCore
  <2>4. label'[index] = clusterId
    BY <1>5, <2>1 DEF TypeOK, ExpandCore
  <2> QED
    BY <1>0, <1>5, <2>1, <2>3, <2>4 DEF ExpandCore, params, Point, Core
<1>6. ASSUME NEW s \in seeds, VisitCoreSeed(s)
      PROVE  ModelsInv'
  <2>1. \A p \in Point : label[p] >= 1 => label'[p] = label[p]
    BY <1>6 DEF TypeOK, VisitCoreSeed, Pending, Upgraded
  <2>2. index \in Point
    BY <1>6 DEF TypeOK, VisitCoreSeed, Point
  <2> QED
    BY <1>0, <1>6, <2>1, <2>2 DEF VisitCoreSeed, params, Point, Core
<1>7. ASSUME NEW s \in seeds, VisitBorderSeed(s)
      PROVE  ModelsInv'
  BY <1>0, <1>7 DEF VisitBorderSeed, params, Point, Core
<1>8. CASE ClusterFound
  <2>1. index \in Point /\ Core(index) /\ label[index] = clusterId
    BY <1>8 DEF TypeOK, ClusterFound, Point
  <2>2. \A c \in 1 .. (clusterId' - 1) : c \in 1 .. (clusterId - 1) \/ c = clusterId
    BY <1>0, <1>8 DEF ClusterFound
  <2> QED
    BY <1>0, <1>8, <2>1, <2>2 DEF ClusterFound, params, Point, Core
<1>9. CASE FinishRun
  BY <1>0, <1>9 DEF FinishRun, params, Point, Core
<1>10. CASE GenerateClusterModels
  BY <1>0, <1>10 DEF GenerateClusterModels, params, Point, Core
<1>12. CASE GetNoisePoints
  BY <1>0, <1>12 DEF GetNoisePoints, params, Point, Core
<1>13. CASE UNCHANGED vars
  BY <1>0, <1>13 DEF vars, params, Point, Core
<1> QED
  BY <1>1, <1>2, <1>3, <1>4, <1>5, <1>6, <1>7, <1>8, <1>9, <1>10,
     <1>12, <1>13 DEF Next, Terminated

\* ModelsPartitionData: the models and the noise points that the caller gets
\* share the data out, and no model is without a core point.
THEOREM ModelsPartitionDataProved == NoWrap => (Spec => []ModelsPartitionData)
<1> SUFFICES ASSUME NoWrap
             PROVE  Spec => []ModelsPartitionData
  OBVIOUS
<1> DEFINE Inv == MeasuredInv /\ CounterInv /\ NumberingInv /\ ModelsInv
<1>1. Init => Inv
  BY ConstantsAssumption
  DEF Init, MeasuredInv, CounterInv, NumberingInv, ModelsInv, NoWrap, MIN_CLUSTERID
<1>2. TypeOK /\ CoreInv /\ Inv /\ [Next]_vars => Inv'
  BY MeasuredStep, CounterStep, NumberingStep, ModelsStep
<1>3. TypeOK /\ Inv => ModelsPartitionData
  <2> SUFFICES ASSUME TypeOK, Inv, pc = "done"
               PROVE  /\ \A p \in Point :
                           \/ p \in noise /\ \A c \in DOMAIN models : p \notin models[c]
                           \/ /\ p \notin noise
                              /\ \E c \in DOMAIN models :
                                   \A d \in DOMAIN models : p \in models[d] <=> d = c
                      /\ \A c \in DOMAIN models : \E p \in models[c] : Core(p)
    BY DEF ModelsPartitionData
  <2>1. n \in Nat /\ clusterId \in Nat /\ clusterId >= 1 /\ DOMAIN label = Point
    BY DEF TypeOK
  <2>2. CASE n = 0
    <3>1. Point = {} /\ DOMAIN models = 1 .. (0 - 1)
      BY <2>2, FS_EmptySet DEF Point, NumberingInv, ModelsInv
    <3> QED
      BY <3>1
  <2>3. CASE n > 0
    <3>1. Cardinality(ids) = clusterId
      BY <2>1, <2>3, FS_Interval DEF NumberingInv
    <3>2. models = [c \in 1 .. (clusterId - 1) |-> {p \in Point : label[p] = c}]
      BY <2>1, <3>1 DEF ModelsInv
    <3>3. noise = {p \in Point : label[p] = 0}
      BY <2>1 DEF ModelsInv, NOISE_CLUSTERID
    <3>4. \A p \in Point : label[p] \in 0 .. (clusterId - 1)
      BY <2>1 DEF TypeOK, MeasuredInv, NumberingInv, UNCLASSIFIED
    <3>5. \A c \in DOMAIN models : \E p \in models[c] : Core(p)
      BY <3>2 DEF ModelsInv, ClustersHaveCores
    <3>6. ASSUME NEW p \in Point, label[p] # 0
          PROVE  \E c \in DOMAIN models : \A d \in DOMAIN models : p \in models[d] <=> d = c
      <4>1. label[p] \in DOMAIN models
        BY <3>2, <3>4, <3>6
      <4>2. \A d \in DOMAIN models : p \in models[d] <=> d = label[p]
        BY <3>2
      <4> QED
        BY <4>1, <4>2
    <3>7. ASSUME NEW p \in Point, label[p] = 0
          PROVE  \A c \in DOMAIN models : p \notin models[c]
      BY <3>2, <3>7
    <3> QED
      BY <3>3, <3>5, <3>6, <3>7
  <2> QED
    BY <2>1, <2>2, <2>3
<1> QED
  BY <1>1, <1>2, <1>3, TypeCorrect, CoreInvariant, PTL DEF Spec

-----------------------------------------------------------------------------
(* Why the labels are the answer density clustering promises: a cluster only *)
(* takes core points connected to those it has, two adjacent core points     *)
(* never end in different clusters, and a border point has the label of a    *)
(* core point it touches.                                                    *)

Connected(p, q) == Abstract!DensityConnected(p, q)

SeedsOfCluster == \A s \in seeds : label[s] = clusterId

AdjacentCoresAgree ==
  \A p, q \in Point :
    Core(p) /\ Core(q) /\ q \in near[p] /\ label[p] >= 1 /\ label[q] >= 1 =>
      label[p] = label[q]

ClustersConnected ==
  \A p, q \in Point :
    Core(p) /\ Core(q) /\ label[p] >= 1 /\ label[p] = label[q] => Connected(p, q)

BordersTouch ==
  \A p \in Point :
    ~Core(p) /\ label[p] >= 1 => \E q \in near[p] : Core(q) /\ label[q] = label[p]

AnswerInv ==
  pc # "run" => /\ SeedsOfCluster
                /\ AdjacentCoresAgree
                /\ ClustersConnected
                /\ BordersTouch

\* Being connected is an equivalence on core points that contains nearness.
LEMMA ConnectedEquivalence ==
  ASSUME TypeOK
  PROVE  /\ \A p \in Point : Connected(p, p)
         /\ \A p, q \in Point : Core(p) /\ Core(q) /\ q \in near[p] => Connected(p, q)
         /\ \A p, q, r : Connected(p, q) /\ Connected(q, r) => Connected(p, r)
         /\ \A p, q \in Point : Core(p) /\ Core(q) /\ Connected(p, q) => Connected(q, p)
<1> DEFINE Cores == {p \in Point : Core(p)}
<1> USE DEF Connected, Abstract!DensityConnected
<1>1. \A p \in Point : Connected(p, p)
  OBVIOUS
<1>2. \A p, q \in Point : Core(p) /\ Core(q) /\ q \in near[p] => Connected(p, q)
  OBVIOUS
<1>3. ASSUME NEW p, NEW q, NEW r, Connected(p, q), Connected(q, r)
      PROVE  Connected(p, r)
  <2> SUFFICES ASSUME NEW S \in SUBSET Cores, p \in S,
                      \A s \in S : near[s] \cap Cores \subseteq S
               PROVE  r \in S
    OBVIOUS
  <2>1. q \in S
    BY <1>3
  <2> QED
    BY <1>3, <2>1
<1>4. ASSUME NEW p \in Point, NEW q \in Point, Core(p), Core(q), Connected(p, q)
      PROVE  Connected(q, p)
  <2> SUFFICES ASSUME NEW S \in SUBSET Cores, q \in S, p \notin S,
                      \A s \in S : near[s] \cap Cores \subseteq S
               PROVE  FALSE
    OBVIOUS
  <2> DEFINE T == Cores \ S
  <2>1. ASSUME NEW t \in T, NEW u \in near[t] \cap Cores
        PROVE  u \in T
    <3>1. t \in near[u] \cap Cores
      BY DEF TypeOK
    <3>2. u \in S => t \in S
      BY <3>1
    <3> QED
      BY <3>2
  <2>2. T \in SUBSET Cores /\ p \in T
    BY <1>4
  <2> HIDE DEF T
  <2>3. q \in T
    BY <1>4, <2>1, <2>2
  <2> QED
    BY <2>3 DEF T
<1> QED
  BY <1>1, <1>2, <1>3, <1>4

\* Every step of the analysis keeps AnswerInv.
LEMMA AnswerStep == TypeOK /\ CoreInv /\ NumberingInv /\ AnswerInv /\ [Next]_vars => AnswerInv'
<1> SUFFICES ASSUME TypeOK, CoreInv, NumberingInv, AnswerInv, [Next]_vars
             PROVE  AnswerInv'
  OBVIOUS
<1> USE DEF UNCLASSIFIED, NOISE_CLUSTERID, MIN_CLUSTERID, AnswerInv, SeedsOfCluster,
            AdjacentCoresAgree, ClustersConnected, BordersTouch
<1>0. n \in Nat /\ clusterId \in Nat /\ clusterId >= 1
  BY DEF TypeOK
<1>a. ASSUME UNCHANGED params, NEW p, NEW q
      PROVE  Connected(p, q)' <=> Connected(p, q)
  BY <1>a DEF Connected, Abstract!DensityConnected, params, Point, Core
<1>b. ASSUME UNCHANGED <<params, label>>, pc # "run",
             \A s \in seeds' : label[s] = clusterId'
      PROVE  AnswerInv'
  <2>1. \A p, q : Connected(p, q)' <=> Connected(p, q)
    BY <1>a, <1>b DEF params
  <2> QED
    BY <1>b, <2>1 DEF params, Point, Core
<1>1. CASE RunOnNothing
  <2>1. Point' = {} /\ seeds' = {}
    BY <1>1 DEF CoreInv, SeedsLabelled, RunOnNothing, params, Point
  <2> QED
    BY <2>1
<1>2. CASE StartRun
  <2>1. seeds' = {} /\ \A p \in Point' : label'[p] = -5
    BY <1>2 DEF CoreInv, SeedsLabelled, StartRun, params, Point
  <2> QED
    BY <2>1
<1>3. CASE SkipClassified
  BY <1>3, <1>b DEF SkipClassified
<1>4. CASE ExpandNonCore
  <2>1. seeds' = {} /\ \A p \in Point : Core(p) => label'[p] = label[p]
    BY <1>4 DEF TypeOK, CoreInv, SeedsLabelled, ExpandNonCore, Point
  <2>2. \A p \in Point : label'[p] >= 1 => label'[p] = label[p]
    BY <1>4 DEF TypeOK, ExpandNonCore, Point
  <2>3. \A p, q : Connected(p, q)' <=> Connected(p, q)
    BY <1>4, <1>a DEF ExpandNonCore
  <2>4. BordersTouch'
    <3> SUFFICES ASSUME NEW p \in Point, ~Core(p), label'[p] >= 1
                 PROVE  \E q \in near[p] : Core(q) /\ label'[q] = label'[p]
      BY <1>4 DEF ExpandNonCore, params, Point, Core
    <3> QED
      BY <1>4, <2>1, <2>2 DEF TypeOK, ExpandNonCore
  <2> QED
    BY <1>4, <2>1, <2>3, <2>4 DEF ExpandNonCore, params, Point, Core
<1>5. CASE ExpandCore
  <2>1. /\ index \in Point /\ seeds = {} /\ clusterId' = clusterId
        /\ near' = near /\ Point' = Point /\ \A p : Core(p)' <=> Core(p)
    BY <1>5 DEF TypeOK, CoreInv, SeedsLabelled, ExpandCore, Point, Core, params
  <2>2. \A p \in near[index] : Core(p) => ~(label[p] >= 1)
    BY <1>5, <2>1 DEF TypeOK, CoreInv, VisitedCoresSpread, ExpandCore
  <2>3. \A p \in Point : label'[p] = IF p \in near[index] THEN clusterId ELSE label[p]
    BY <1>5 DEF ExpandCore
  <2>4. \A p \in Point : label[p] # clusterId
    BY <1>5 DEF NumberingInv, ExpandCore
  <2>5. SeedsOfCluster'
    BY <1>5, <2>1, <2>3 DEF TypeOK, ExpandCore
  <2>6. AdjacentCoresAgree'
    <3> SUFFICES ASSUME NEW p \in Point, NEW q \in Point, Core(p), Core(q), q \in near[p],
                        label'[p] >= 1, label'[q] >= 1
                 PROVE  label'[p] = label'[q]
      BY <2>1
    <3>1. p \in near[q]
      BY DEF TypeOK
    <3>2. CASE p \in near[index] /\ q \notin near[index]
      <4>1. label[q] >= 1
        BY <2>3, <3>2
      <4>2. label[p] >= 1
        BY <1>5, <2>1, <3>1, <4>1 DEF CoreInv, VisitedCoresSpread, ExpandCore
      <4> QED
        BY <2>2, <3>2, <4>2
    <3>3. CASE q \in near[index] /\ p \notin near[index]
      <4>1. label[p] >= 1
        BY <2>3, <3>3
      <4>2. label[q] >= 1
        BY <1>5, <2>1, <4>1 DEF CoreInv, VisitedCoresSpread, ExpandCore
      <4> QED
        BY <2>2, <3>3, <4>2
    <3> QED
      BY <1>5, <2>3, <3>2, <3>3 DEF ExpandCore
  <2>7. ClustersConnected'
    <3> SUFFICES ASSUME NEW p \in Point, NEW q \in Point, Core(p), Core(q),
                        label'[p] >= 1, label'[p] = label'[q]
                 PROVE  Connected(p, q)
      BY <1>5, <1>a, <2>1 DEF ExpandCore
    <3>1. CASE p \in near[index] /\ q \in near[index]
      <4>1. Connected(index, q) /\ Connected(index, p) /\ Core(index)
        BY <1>5, <2>1, <3>1, ConnectedEquivalence DEF ExpandCore
      <4> QED
        BY <2>1, <4>1, ConnectedEquivalence
    <3>2. CASE p \notin near[index] /\ q \notin near[index]
      BY <1>5, <2>3, <3>2 DEF ExpandCore
    <3> QED
      BY <2>3, <2>4, <3>1, <3>2
  <2>8. BordersTouch'
    <3> SUFFICES ASSUME NEW p \in Point, ~Core(p), label'[p] >= 1
                 PROVE  \E q \in near[p] : Core(q) /\ label'[q] = label'[p]
      BY <2>1
    <3>1. CASE p \in near[index]
      BY <1>5, <2>1, <2>3, <3>1 DEF TypeOK, ExpandCore
    <3>2. CASE p \notin near[index]
      <4>1. PICK q \in near[p] : Core(q) /\ label[q] = label[p]
        BY <1>5, <2>3, <3>2 DEF ExpandCore
      <4>2. q \notin near[index] /\ q \in Point
        BY <2>2, <2>3, <3>2, <4>1 DEF TypeOK
      <4> QED
        BY <2>3, <3>2, <4>1, <4>2
    <3> QED
      BY <3>1, <3>2
  <2> QED
    BY <2>5, <2>6, <2>7, <2>8
<1>6. ASSUME NEW s \in seeds, VisitCoreSeed(s)
      PROVE  AnswerInv'
  <2>1. /\ s \in Point /\ pc = "expand" /\ label[s] = clusterId /\ clusterId' = clusterId
        /\ near' = near /\ Point' = Point /\ \A p : Core(p)' <=> Core(p)
    BY <1>6 DEF TypeOK, VisitCoreSeed, params, Point, Core
  <2>2. \A p \in Point : label'[p] = IF p \in Pending(s) \cup Upgraded(s) THEN clusterId ELSE label[p]
    BY <1>6 DEF VisitCoreSeed
  <2>3. \A p \in Point : label[p] >= 1 => label'[p] = label[p]
    BY <1>0, <2>2 DEF Pending, Upgraded
  <2>4. \A p \in Point : Core(p) /\ label'[p] >= 1 /\ ~(label[p] >= 1) =>
                          p \in near[s] /\ label[p] = -5 /\ label'[p] = clusterId
    BY <2>1, <2>2 DEF CoreInv, NoiseNotCore, Pending, Upgraded
  <2>5. SeedsOfCluster'
    BY <1>0, <1>6, <2>1, <2>2, <2>3 DEF TypeOK, VisitCoreSeed, Pending
  <2>6. AdjacentCoresAgree'
    <3>1. ASSUME NEW p \in Point, NEW q \in Point, Core(p), Core(q), q \in near[p],
                 label[p] >= 1, ~(label[q] >= 1)
          PROVE  label[p] = clusterId
      BY <2>1, <3>1 DEF CoreInv, VisitedCoresSpread
    <3> SUFFICES ASSUME NEW p \in Point, NEW q \in Point, Core(p), Core(q), q \in near[p],
                        label'[p] >= 1, label'[q] >= 1
                 PROVE  label'[p] = label'[q]
      BY <2>1
    <3>2. p \in near[q]
      BY DEF TypeOK
    <3>3. CASE label[p] >= 1 /\ label[q] >= 1
      BY <2>1, <2>3, <3>3
    <3>4. CASE label[p] >= 1 /\ ~(label[q] >= 1)
      BY <2>3, <2>4, <3>1, <3>4
    <3>5. CASE ~(label[p] >= 1) /\ label[q] >= 1
      BY <2>3, <2>4, <3>1, <3>2, <3>5
    <3> QED
      BY <2>4, <3>3, <3>4, <3>5
  <2>7. ClustersConnected'
    <3>1. ASSUME NEW p \in Point, Core(p), label'[p] = clusterId
          PROVE  Connected(s, p)
      <4>1. CASE label[p] >= 1
        BY <1>0, <1>6, <2>1, <2>3, <3>1, <4>1 DEF VisitCoreSeed
      <4>2. CASE ~(label[p] >= 1)
        BY <1>0, <1>6, <2>1, <2>4, <3>1, <4>2, ConnectedEquivalence DEF VisitCoreSeed
      <4> QED
        BY <4>1, <4>2
    <3> SUFFICES ASSUME NEW p \in Point, NEW q \in Point, Core(p), Core(q),
                        label'[p] >= 1, label'[p] = label'[q]
                 PROVE  Connected(p, q)
      BY <1>6, <1>a, <2>1 DEF VisitCoreSeed
    <3>2. CASE label'[p] = clusterId
      <4>1. Connected(s, p) /\ Connected(s, q) /\ Core(s)
        BY <1>6, <3>1, <3>2 DEF VisitCoreSeed
      <4> QED
        BY <2>1, <4>1, ConnectedEquivalence
    <3>3. CASE label'[p] # clusterId
      BY <2>1, <2>2, <3>3
    <3> QED
      BY <3>2, <3>3
  <2>8. BordersTouch'
    <3> SUFFICES ASSUME NEW p \in Point, ~Core(p), label'[p] >= 1
                 PROVE  \E q \in near[p] : Core(q) /\ label'[q] = label'[p]
      BY <2>1
    <3>1. CASE label[p] >= 1
      <4>1. PICK q \in near[p] : Core(q) /\ label[q] = label[p]
        BY <2>1, <3>1
      <4> QED
        BY <2>3, <3>1, <4>1 DEF TypeOK
    <3>2. CASE ~(label[p] >= 1)
      <4>1. p \in near[s] /\ label'[p] = clusterId
        BY <2>2, <3>2 DEF Pending, Upgraded
      <4>2. s \in near[p] /\ label'[s] = clusterId
        BY <1>0, <2>1, <2>3, <4>1 DEF TypeOK
      <4> QED
        BY <1>6, <4>1, <4>2 DEF VisitCoreSeed
    <3> QED
      BY <3>1, <3>2
  <2> QED
    BY <2>5, <2>6, <2>7, <2>8
<1>7. ASSUME NEW s \in seeds, VisitBorderSeed(s)
      PROVE  AnswerInv'
  BY <1>7, <1>b DEF VisitBorderSeed
<1>8. CASE ClusterFound
  BY <1>8, <1>b DEF ClusterFound
<1>9. CASE FinishRun
  BY <1>9, <1>b DEF FinishRun
<1>10. CASE GenerateClusterModels
  BY <1>10, <1>b DEF GenerateClusterModels
<1>12. CASE GetNoisePoints
  BY <1>12, <1>b DEF GetNoisePoints
<1>13. CASE UNCHANGED vars
  BY <1>13, <1>b DEF vars, params
<1> QED
  BY <1>1, <1>2, <1>3, <1>4, <1>5, <1>6, <1>7, <1>8, <1>9, <1>10,
     <1>12, <1>13 DEF Next, Terminated

\* When Run ends, its labels are one of the answers.
LEMMA RunAnswers ==
  ASSUME TypeOK, CoreInv, MeasuredInv, NumberingInv, ModelsInv, AnswerInv, FinishRun
  PROVE  Abstract!Answers(label)
<1> USE DEF UNCLASSIFIED, NOISE_CLUSTERID, MIN_CLUSTERID
<1> DEFINE Cores == {p \in Point : Core(p)}
<1>1. /\ n \in Nat /\ clusterId \in Nat /\ clusterId >= 1
      /\ seeds = {} /\ DOMAIN label = Point /\ pc = "scan"
  BY DEF TypeOK, CoreInv, SeedsLabelled, FinishRun
<1>2. \A p \in Point : label[p] \in 0 .. (clusterId - 1)
  <2> SUFFICES ASSUME NEW p \in Point
               PROVE  label[p] \in 0 .. (clusterId - 1)
    OBVIOUS
  <2>1. label[p] # -5
    BY <1>1 DEF TypeOK, MeasuredInv, FinishRun, Point
  <2> QED
    BY <1>1, <2>1 DEF TypeOK, NumberingInv
<1>3. \A p \in Cores : label[p] >= 1
  BY <1>1, <1>2 DEF CoreInv, NoiseNotCore
<1>4. \A p \in Cores : \A q \in near[p] : label[q] >= 1
  BY <1>1, <1>3 DEF CoreInv, VisitedCoresSpread
<1>5. ASSUME NEW p \in Cores, NEW q \in Cores
      PROVE  label[p] = label[q] <=> Connected(p, q)
  <2>1. label[p] = label[q] => Connected(p, q)
    BY <1>1, <1>3 DEF AnswerInv, ClustersConnected
  <2>2. ASSUME Connected(p, q)
        PROVE  label[p] = label[q]
    <3> DEFINE Same == {x \in Cores : label[x] = label[p]}
    <3>1. Same \in SUBSET Cores /\ p \in Same
      OBVIOUS
    <3>2. ASSUME NEW x \in Same, NEW y \in near[x] \cap Cores
          PROVE  y \in Same
      BY <1>1, <1>3 DEF AnswerInv, AdjacentCoresAgree
    <3> HIDE DEF Same
    <3>3. q \in Same
      BY <2>2, <3>1, <3>2 DEF Connected, Abstract!DensityConnected
    <3> QED
      BY <3>3 DEF Same
  <2> QED
    BY <2>1, <2>2
<1>6. ASSUME NEW p \in Cores
      PROVE  label[p] >= 1 /\ 1 .. label[p] \subseteq {label[q] : q \in Cores}
  <2>1. \A c \in 1 .. (clusterId - 1) : \E q \in Cores : label[q] = c
    BY <1>1 DEF ModelsInv, ClustersHaveCores
  <2>2. label[p] \in 1 .. (clusterId - 1)
    BY <1>2, <1>3
  <2> QED
    BY <1>1, <2>1, <2>2
<1>7. ASSUME NEW p \in Point \ Cores
      PROVE  IF near[p] \cap Cores = {} THEN label[p] = 0
                                        ELSE \E q \in near[p] \cap Cores : label[p] = label[q]
  <2>1. CASE near[p] \cap Cores = {}
    <3>1. ~(label[p] >= 1)
      BY <1>1, <2>1 DEF TypeOK, AnswerInv, BordersTouch
    <3> QED
      BY <1>2, <2>1, <3>1
  <2>2. CASE near[p] \cap Cores # {}
    <3>1. label[p] >= 1
      BY <1>4, <2>2 DEF TypeOK
    <3> QED
      BY <1>1, <2>2, <3>1 DEF TypeOK, AnswerInv, BordersTouch
  <2> QED
    BY <2>1, <2>2
<1> QED
  BY <1>1, <1>5, <1>6, <1>7 DEF Abstract!Answers, Connected, Point

\* ImplementsDensityClustering: for every data set, Run answers what density
\* clustering promises.
THEOREM ImplementsDensityClusteringProved == NoWrap => (Spec => ImplementsDensityClustering)
<1> SUFFICES ASSUME NoWrap
             PROVE  Spec => ImplementsDensityClustering
  OBVIOUS
<1> DEFINE Inv == MeasuredInv /\ CounterInv /\ NumberingInv /\ ModelsInv /\ AnswerInv
<1>1. Init => Inv /\ Abstract!Init
  BY ConstantsAssumption
  DEF Init, MeasuredInv, CounterInv, NumberingInv, ModelsInv, AnswerInv, NoWrap,
      MIN_CLUSTERID, Abstract!Init, Returned
<1>2. TypeOK /\ CoreInv /\ Inv /\ [Next]_vars => Inv'
  BY MeasuredStep, CounterStep, NumberingStep, ModelsStep, AnswerStep
<1>3. TypeOK /\ CoreInv /\ Inv /\ [Next]_vars => [Abstract!Answer]_(Abstract!vars)
  <2> SUFFICES ASSUME TypeOK, CoreInv, Inv, [Next]_vars
               PROVE  [Abstract!Answer]_(Abstract!vars)
    OBVIOUS
  <2>0. CASE UNCHANGED <<params, label, pc>>
    BY <2>0 DEF Abstract!vars, Returned, params, Point, Core
  <2>1. ASSUME UNCHANGED params, ~Returned, ~Returned'
        PROVE  UNCHANGED Abstract!vars
    BY <2>1 DEF Abstract!vars, Returned, params, Point, Core
  <2>2. ASSUME UNCHANGED <<params, label>>, Returned, Returned'
        PROVE  UNCHANGED Abstract!vars
    BY <2>2 DEF Abstract!vars, Returned, params, Point, Core
  <2>3. CASE RunOnNothing
    <3>1. label = << >> /\ label' = << >> /\ Point = {} /\ n = 0
      BY <2>3 DEF TypeOK, RunOnNothing, Point
    <3>2. Abstract!Answers(label')
      BY <3>1 DEF Abstract!Answers
    <3> QED
      BY <2>3, <3>2 DEF RunOnNothing, Abstract!Answer, Returned, params, Point, Core
  <2>4. CASE FinishRun
    <3>1. Abstract!Answers(label)
      BY <2>4, RunAnswers
    <3>2. Abstract!Answers(label')
      BY <2>4, <3>1 DEF FinishRun
    <3> QED
      BY <2>4, <3>2 DEF FinishRun, Abstract!Answer, Returned, params, Point, Core
  <2> QED
    BY <2>0, <2>1, <2>2, <2>3, <2>4 DEF Next, StartRun, SkipClassified,
       ExpandNonCore, ExpandCore, VisitCoreSeed, VisitBorderSeed, ClusterFound,
       GenerateClusterModels, GetNoisePoints, Terminated, vars,
       Returned, params
<1> QED
  BY <1>1, <1>2, <1>3, TypeCorrect, CoreInvariant, PTL
  DEF Spec, ImplementsDensityClustering, Abstract!Spec
=============================================================================
