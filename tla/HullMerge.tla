----------------------------- MODULE HullMerge -----------------------------
(***************************************************************************)
(* How one filter node builds its list MergedHulls in one round: hulls of  *)
(* the children are folded into the list by NewMerge in the order the      *)
(* packets arrive, and the hulls of the clustered noise are pushed on it   *)
(* when the last child has sent its noise.  NewMerge runs step by step, so *)
(* that its loop and its erase can be reasoned about.                      *)
(*                                                                         *)
(* Data.  Hulls stand on one base line: a hull is given by its two ends on *)
(* the line and the neighbourhood size of the points there.  It is thick,  *)
(* or else a segment of the line, of fewer than three vertices, which is   *)
(* only compared vertex by vertex.  The convex hull of two hulls spans     *)
(* both on the line, and two hulls intersect when their spans do.          *)
(***************************************************************************)
EXTENDS Integers, FiniteSets, SequencesExt

CONSTANTS
  Child,       \* the children of the node
  HullId,      \* names of the hulls the node receives or makes
  Shape,       \* Shape[h]: ends, neighbourhood sizes, density, thickness of h
  Noise,       \* who makes the hulls that come from clustering noise
  Epsilon,     \* filter parameters: Epsilon and WeightedMinPoints
  MinPoints

Nobody == "nobody"

ASSUME HullMergeAssumption ==
  /\ IsFiniteSet(Child) /\ Child # {} /\ IsFiniteSet(HullId)
  /\ Noise \notin Child /\ Nobody \notin Child \cup {Noise}
  /\ Shape \in [HullId -> [lo : Int, hi : Int, nlo : Nat, nhi : Nat, density : Nat,
                           thick : BOOLEAN]]
  /\ \A h \in HullId : Shape[h].lo < Shape[h].hi
  /\ \A g, h \in HullId :
       g # h => {Shape[g].lo, Shape[g].hi} \cap {Shape[h].lo, Shape[h].hi} = {}
  /\ Epsilon \in Nat /\ MinPoints \in Nat

VARIABLES
  owner,         \* who makes each hull; a hull nobody owns does not exist
  stage,         \* stage[c]: the next packet from child c
  waitForNoise,  \* WaitForNoise
  waitForHulls,  \* WaitForHulls
  merged,        \* MergedHulls
  toMerge,       \* ChildHulls not yet given to NewMerge
  maxMerge,      \* MaxMerge: the hull in hand while NewMerge runs, none otherwise
  i,             \* loop variable of NewMerge
  tried,         \* history: the hulls MaxMerge has been compared with
  output         \* the hulls sent upstream, << >> before

vars == <<owner, stage, waitForNoise, waitForHulls, merged, toMerge, maxMerge, i,
          tried, output>>

HullsOf(who) == {h \in HullId : owner[h] = who}

-----------------------------------------------------------------------------
(* The hulls and their merge: ConvexHullModel::Merge and IsNear.            *)

FromPoints(h) == [lo |-> Shape[h].lo, hi |-> Shape[h].hi,
                  nlo |-> Shape[h].nlo, nhi |-> Shape[h].nhi,
                  density |-> Shape[h].density, thick |-> Shape[h].thick,
                  members |-> {h}]

Vertices(H) == {<<H.lo, H.nlo>>, <<H.hi, H.nhi>>}

IsNear(G, H) ==
  \E u \in Vertices(G), v \in Vertices(H) :
    /\ (u[1] - v[1]) * (u[1] - v[1]) <= Epsilon * Epsilon
    /\ (u[2] + v[2]) \div 2 + 1 >= MinPoints

DoIntersect(G, H) == G.lo <= H.hi /\ H.lo <= G.hi

Mergeable(G, H) ==
  IF G.thick /\ H.thick
    THEN DoIntersect(G, H) \/ (Epsilon > 0 /\ IsNear(G, H))
    ELSE IsNear(G, H)

\* The joint hull: the convex hull of the vertices of both, densities added.
Join(G, H) ==
  LET left  == IF G.lo < H.lo THEN G ELSE H
      right == IF G.hi > H.hi THEN G ELSE H
  IN  [lo |-> left.lo, hi |-> right.hi, nlo |-> left.nlo, nhi |-> right.nhi,
       density |-> G.density + H.density, thick |-> G.thick \/ H.thick,
       members |-> G.members \cup H.members]

-----------------------------------------------------------------------------
Init ==
  /\ owner \in [HullId -> Child \cup {Noise, Nobody}]
  /\ stage = [c \in Child |-> "noise"]
  /\ waitForNoise = Cardinality(Child)
  /\ waitForHulls = Cardinality(Child)
  /\ merged = << >>
  /\ toMerge = {}
  /\ maxMerge = {}
  /\ i = 1
  /\ tried = {}
  /\ output = << >>

\* The filter handles one packet at a time.
BetweenPackets == toMerge = {} /\ maxMerge = {}

\* Faulty variant of AllNoiseSent: the filter waits for one child too many.
AllNoiseSentLate(c) ==
  /\ BetweenPackets
  /\ stage[c] = "noise"
  /\ stage' = [stage EXCEPT ![c] = "hulls"]
  /\ waitForNoise' = waitForNoise - 1
  /\ IF waitForNoise' < 0
       THEN \E noiseModel \in SetToSeqs(HullsOf(Noise)) :
              merged' = merged \o [k \in DOMAIN noiseModel |-> FromPoints(noiseModel[k])]
       ELSE merged' = merged
  /\ UNCHANGED <<owner, waitForHulls, toMerge, maxMerge, i, tried, output>>

\* Noise of a child and its end mark.  The last mark has the noise of all
\* children clustered and the new hulls pushed on the list.
AllNoiseSent(c) ==
  /\ BetweenPackets
  /\ stage[c] = "noise"
  /\ stage' = [stage EXCEPT ![c] = "hulls"]
  /\ waitForNoise' = waitForNoise - 1
  /\ IF waitForNoise' <= 0
       THEN \E noiseModel \in SetToSeqs(HullsOf(Noise)) :
              merged' = merged \o [k \in DOMAIN noiseModel |-> FromPoints(noiseModel[k])]
       ELSE merged' = merged
  /\ UNCHANGED <<owner, waitForHulls, toMerge, maxMerge, i, tried, output>>

\* All hulls of a child in one packet, to be merged one after the other.
AllHulls(c) ==
  /\ BetweenPackets
  /\ stage[c] = "hulls"
  /\ stage' = [stage EXCEPT ![c] = "hullsEnd"]
  /\ toMerge' = HullsOf(c)
  /\ UNCHANGED <<owner, waitForNoise, waitForHulls, merged, maxMerge, i, tried, output>>

\* Faulty variants of NewMerge: the loop starts at the k-th hull of the list.
NewMergeFrom(h, k) ==
  /\ maxMerge = {}
  /\ toMerge' = toMerge \ {h}
  /\ maxMerge' = {FromPoints(h)}
  /\ i' = k
  /\ tried' = {}
  /\ UNCHANGED <<owner, stage, waitForNoise, waitForHulls, merged, output>>

\* It misses the first hull.
NewMergeFromSecond(h) == NewMergeFrom(h, 2)

\* NewMerge is called on the next hull of the packet (any order).
NewMerge(h) ==
  /\ maxMerge = {}
  /\ toMerge' = toMerge \ {h}
  /\ maxMerge' = {FromPoints(h)}
  /\ i' = 1
  /\ tried' = {}
  /\ UNCHANGED <<owner, stage, waitForNoise, waitForHulls, merged, output>>

\* Faulty variants of MergeStep: the loop goes on at k with H2 in hand and the
\* list as left.
MergeStepTo(H2, left, k) ==
  /\ maxMerge' = {H2}
  /\ merged' = left
  /\ i' = k
  /\ tried' = tried \cup merged[i].members
  /\ UNCHANGED <<owner, stage, waitForNoise, waitForHulls, toMerge, output>>

\* The index moves on although the list has closed up.
MergeStepAdvances ==
  \E H \in maxMerge :
    i <= Len(merged) /\ Mergeable(H, merged[i])
      /\ MergeStepTo(Join(H, merged[i]), RemoveAt(merged, i), i + 1)

\* The hull merged stays in the list.
MergeStepKeeps ==
  \E H \in maxMerge :
    i <= Len(merged) /\ Mergeable(H, merged[i])
      /\ MergeStepTo(Join(H, merged[i]), merged, i + 1)

\* The loop finds a hull to merge with: it leaves the list, and the hull that
\* takes its place is compared next.
MergeStep ==
  \E H \in maxMerge :
    /\ i <= Len(merged)
    /\ Mergeable(H, merged[i])
    /\ maxMerge' = {Join(H, merged[i])}
    /\ merged' = RemoveAt(merged, i)
    /\ tried' = tried \cup merged[i].members
    /\ UNCHANGED <<owner, stage, waitForNoise, waitForHulls, toMerge, i, output>>

\* Faulty variant of SkipStep: the index stays.
SkipStepStays ==
  \E H \in maxMerge :
    /\ i <= Len(merged)
    /\ ~Mergeable(H, merged[i])
    /\ tried' = tried \cup merged[i].members
    /\ UNCHANGED <<owner, stage, waitForNoise, waitForHulls, merged, toMerge,
                   maxMerge, i, output>>

\* No merge with this hull: look at the next one.
SkipStep ==
  \E H \in maxMerge :
    /\ i <= Len(merged)
    /\ ~Mergeable(H, merged[i])
    /\ i' = i + 1
    /\ tried' = tried \cup merged[i].members
    /\ UNCHANGED <<owner, stage, waitForNoise, waitForHulls, merged, toMerge,
                   maxMerge, output>>

\* The loop has ended: store the merged hull.
StoreMerged ==
  \E H \in maxMerge :
    /\ i > Len(merged)
    /\ merged' = Append(merged, H)
    /\ maxMerge' = {}
    /\ UNCHANGED <<owner, stage, waitForNoise, waitForHulls, toMerge, i, tried, output>>

\* End mark of a child's hulls: the last one has the list sent.
AllHullsSent(c) ==
  /\ BetweenPackets
  /\ stage[c] = "hullsEnd"
  /\ stage' = [stage EXCEPT ![c] = "done"]
  /\ waitForHulls' = waitForHulls - 1
  /\ output' = IF waitForHulls' <= 0 THEN merged ELSE output
  /\ UNCHANGED <<owner, waitForNoise, merged, toMerge, maxMerge, i, tried>>

Done == (\A c \in Child : stage[c] = "done") /\ UNCHANGED vars

Next ==
  \/ \E c \in Child : AllNoiseSent(c) \/ AllHulls(c) \/ AllHullsSent(c)
  \/ \E h \in toMerge : NewMerge(h)
  \/ MergeStep
  \/ SkipStep
  \/ StoreMerged
  \/ Done

Spec == Init /\ [][Next]_vars

\* Children send all their packets, and the loop of the filter runs on.
FairSpec == Spec /\ WF_vars(Next)

-----------------------------------------------------------------------------
\* The hulls the filter holds, in the list or in hand.
Held == Range(merged) \cup maxMerge

HullType == [lo : Int, hi : Int, nlo : Nat, nhi : Nat, density : Nat,
             thick : BOOLEAN, members : SUBSET HullId]

\* The state of the filter has the types its declarations give it.
TypeOK ==
  /\ owner \in [HullId -> Child \cup {Noise, Nobody}]
  /\ stage \in [Child -> {"noise", "hulls", "hullsEnd", "done"}]
  /\ waitForNoise \in 0 .. Cardinality(Child)
  /\ waitForHulls \in 0 .. Cardinality(Child)
  /\ merged \in Seq(HullType)
  /\ toMerge \subseteq HullId
  /\ maxMerge \subseteq HullType
  /\ i \in 1 .. (Len(merged) + 1)
  /\ tried \subseteq HullId
  /\ output \in Seq(HullType)

\* The hulls that have reached NewMerge or the list of the noise model.
Received ==
  ({h \in HullId : \E c \in Child : owner[h] = c /\ stage[c] \in {"hullsEnd", "done"}}
    \ toMerge)
  \cup (IF waitForNoise = 0 THEN HullsOf(Noise) ELSE {})

\* Every hull received is part of exactly one hull held: the merge, which erases
\* from the list it walks, neither loses a hull nor keeps it twice.
EachHullHeldOnce ==
  /\ UNION {H.members : H \in Held} = Received
  /\ \A j, k \in DOMAIN merged :
       j # k => merged[j].members \cap merged[k].members = {}
  /\ \A H \in maxMerge, k \in DOMAIN merged : H.members \cap merged[k].members = {}

\* When NewMerge stores a hull, it has compared it with every hull received
\* previously, although the loop erases elements of the list it walks.
AllPreviousTried ==
  \A H \in maxMerge : i > Len(merged) => Received \subseteq tried \cup H.members

\* A child's hull that NewMerge stores alone touches no hull received before it:
\* only a hull that grew while it was merged can be left next to one it touches.
LoneHullTouchesNoEarlier ==
  \A j, k \in DOMAIN merged :
    (j < k /\ \E h \in HullId : merged[k].members = {h} /\ owner[h] # Noise) =>
      ~Mergeable(merged[k], merged[j])

\* What is sent holds every hull of every child and of the noise: no packet of a
\* child, and no clustering of noise, comes after the list is sent.
SentIsComplete ==
  waitForHulls = 0 =>
    UNION {H.members : H \in Range(output)} = {h \in HullId : owner[h] # Nobody}

\* Hulls once merged are never separated.
NeverSplit ==
  [][\A H \in Held : \E G \in Held' : H.members \subseteq G.members]_vars

\* The filter sends its list.
ListIsSent == <>(waitForHulls = 0)

FromNoise(H)    == \A h \in H.members : owner[h] = Noise
FromChildren(H) == \A h \in H.members : owner[h] \in Child

\* What the filter's comment says of the hulls that result from clustering the
\* noise, that they are merged with the hulls received from the children: no
\* noise hull is sent next to a children's hull it should merge with.
NoiseHullsMerged ==
  \A G, H \in Range(output) : FromNoise(G) /\ FromChildren(H) => ~Mergeable(G, H)
=============================================================================
