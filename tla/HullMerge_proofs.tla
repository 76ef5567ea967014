-------------------------- MODULE HullMerge_proofs --------------------------
(***************************************************************************)
(* What holds of a filter's list of hulls for any number of children, any  *)
(* hulls and any order of packets.                                         *)
(***************************************************************************)
EXTENDS HullMerge, FiniteSetTheorems, SequenceTheorems, TLAPS

\* What erase leaves of a list.
LEMMA Removed ==
  ASSUME NEW S, NEW s \in Seq(S), NEW k \in 1 .. Len(s)
  PROVE  /\ RemoveAt(s, k) \in Seq(S)
         /\ Len(RemoveAt(s, k)) = Len(s) - 1
         /\ \A j \in 1 .. (Len(s) - 1) :
              RemoveAt(s, k)[j] = IF j < k THEN s[j] ELSE s[j + 1]
<1> DEFINE front == SubSeq(s, 1, k - 1)
           back == SubSeq(s, k + 1, Len(s))
<1>1. Len(s) \in Nat /\ \A j \in 1 .. Len(s) : s[j] \in S
  BY LenProperties, ElementOfSeq
<1>2. /\ front \in Seq(S) /\ Len(front) = k - 1
      /\ \A j \in 1 .. (k - 1) : front[j] = s[j]
  <2>1. \A j \in 1 .. (k - 1) : s[j] \in S
    BY <1>1
  <2> QED
    BY <1>1, <2>1, SubSeqProperties
<1>3. /\ back \in Seq(S) /\ Len(back) = Len(s) - k
      /\ \A j \in 1 .. (Len(s) - k) : back[j] = s[j + k]
  <2>1. \A j \in (k + 1) .. Len(s) : s[j] \in S
    BY <1>1
  <2>2. /\ back \in Seq(S)
        /\ Len(back) = IF k + 1 <= Len(s) THEN Len(s) - (k + 1) + 1 ELSE 0
        /\ \A j \in 1 .. (Len(s) - (k + 1) + 1) : back[j] = s[(k + 1) + j - 1]
    BY <1>1, <2>1, SubSeqProperties, k + 1 \in Int, Len(s) \in Int
  <2> QED
    BY <1>1, <2>2
<1> HIDE DEF front, back
<1>4. /\ front \o back \in Seq(S)
      /\ Len(front \o back) = Len(front) + Len(back)
      /\ \A j \in 1 .. (Len(front) + Len(back)) :
           (front \o back)[j] = IF j <= Len(front) THEN front[j] ELSE back[j - Len(front)]
  BY <1>2, <1>3, ConcatProperties
<1>5. RemoveAt(s, k) = front \o back
  BY DEF RemoveAt, front, back
<1>6. \A j \in 1 .. (Len(s) - 1) : j < k => (front \o back)[j] = s[j]
  BY <1>1, <1>2, <1>3, <1>4
<1>7. ASSUME NEW j \in 1 .. (Len(s) - 1), ~(j < k)
      PROVE  (front \o back)[j] = s[j + 1]
  <2>1. (front \o back)[j] = back[j - (k - 1)]
    BY <1>1, <1>2, <1>3, <1>4, <1>7
  <2>2. j - (k - 1) \in 1 .. (Len(s) - k) /\ (j - (k - 1)) + k = j + 1
    BY <1>1, <1>7
  <2> QED
    BY <1>3, <2>1, <2>2
<1>8. Len(front \o back) = Len(s) - 1
  BY <1>1, <1>2, <1>3, <1>4
<1> HIDE <1>1, <1>2, <1>3
<1> QED
  BY <1>4, <1>5, <1>6, <1>7, <1>8

\* Counting children down.
LEMMA ChildCount ==
  ASSUME NEW S \in SUBSET Child
  PROVE  /\ Cardinality(S) \in 0 .. Cardinality(Child)
         /\ Cardinality(S) = 0 <=> S = {}
         /\ \A c \in S : Cardinality(S \ {c}) = Cardinality(S) - 1
<1>1. IsFiniteSet(S) /\ Cardinality(S) <= Cardinality(Child)
  BY HullMergeAssumption, FS_Subset
<1>2. Cardinality(S) \in Nat /\ Cardinality(Child) \in Nat
  BY <1>1, HullMergeAssumption, FS_CardinalityType
<1> QED
  BY <1>1, <1>2, FS_EmptySet, FS_RemoveElement

\* The order in which the models of the noise are pushed has each of them once.
LEMMA NoiseModel ==
  ASSUME NEW f \in SetToSeqs(HullsOf(Noise))
  PROVE  LET pushed == [k \in DOMAIN f |-> FromPoints(f[k])]
         IN  /\ pushed \in Seq(HullType)
             /\ DOMAIN f = 1 .. Len(pushed)
             /\ \A k \in 1 .. Len(pushed) :
                  /\ f[k] \in HullsOf(Noise)
                  /\ pushed[k] = FromPoints(f[k])
                  /\ pushed[k].members = {f[k]}
             /\ \A j, k \in 1 .. Len(pushed) : j # k => f[j] # f[k]
             /\ \A h \in HullsOf(Noise) : \E k \in 1 .. Len(pushed) : f[k] = h
<1> DEFINE S == HullsOf(Noise)
           m == Cardinality(S)
           pushed == [k \in DOMAIN f |-> FromPoints(f[k])]
<1>1. IsFiniteSet(S) /\ m \in Nat /\ S \subseteq HullId
  BY HullMergeAssumption, FS_Subset, FS_CardinalityType DEF HullsOf
<1>2. f \in [1 .. m -> S] /\ \A j, k \in 1 .. m : j # k => f[j] # f[k]
  BY DEF SetToSeqs
<1>3. \A h \in S : \E k \in 1 .. m : f[k] = h
  <2>1. f \in Injection(1 .. m, S)
    BY <1>2 DEF Injection, IsInjective
  <2>2. Cardinality(1 .. m) = m
    BY <1>1, FS_Interval
  <2>3. f \in Surjection(1 .. m, S)
    BY <1>1, <2>1, <2>2, FS_Injection
  <2> QED
    BY <2>3 DEF Surjection
<1>4. \A h \in S : FromPoints(h) \in HullType /\ FromPoints(h).members = {h}
  BY <1>1, HullMergeAssumption DEF FromPoints, HullType
<1> HIDE DEF S, m
<1>5. pushed \in [1 .. m -> HullType] /\ DOMAIN f = 1 .. m
  BY <1>2, <1>4
<1>6. pushed \in Seq(HullType) /\ Len(pushed) = m
  BY <1>1, <1>5
<1>7. \A k \in 1 .. m : f[k] \in S /\ pushed[k] = FromPoints(f[k]) /\ pushed[k].members = {f[k]}
  BY <1>2, <1>4
<1> QED
  BY <1>2, <1>3, <1>5, <1>6, <1>7 DEF S

-----------------------------------------------------------------------------
(* The two counters count the children that have not sent their end marks.   *)

NoiseWaiters == {c \in Child : stage[c] = "noise"}
HullWaiters  == {c \in Child : stage[c] # "done"}

CountersInv ==
  /\ waitForNoise = Cardinality(NoiseWaiters)
  /\ waitForHulls = Cardinality(HullWaiters)

\* A merge makes a hull.
LEMMA JoinType ==
  ASSUME NEW G \in HullType, NEW H \in HullType
  PROVE  Join(G, H) \in HullType /\ Join(G, H).members = G.members \cup H.members
BY DEF Join, HullType

\* Every packet and every pass of the loop keeps the types and the counts.
LEMMA TypeStep == TypeOK /\ CountersInv /\ [Next]_vars => TypeOK' /\ CountersInv'
<1> SUFFICES ASSUME TypeOK, CountersInv, [Next]_vars
             PROVE  TypeOK' /\ CountersInv'
  OBVIOUS
<1>0. /\ Len(merged) \in Nat
      /\ \A k \in 1 .. Len(merged) : merged[k] \in HullType
      /\ waitForNoise \in Nat /\ waitForHulls \in Nat
  BY LenProperties, ElementOfSeq, ChildCount DEF TypeOK, CountersInv, NoiseWaiters, HullWaiters
<1>1. ASSUME NEW c \in Child, AllNoiseSent(c)
      PROVE  TypeOK' /\ CountersInv'
  <2>1. NoiseWaiters' = NoiseWaiters \ {c} /\ HullWaiters' = HullWaiters /\ c \in NoiseWaiters
    BY <1>1 DEF AllNoiseSent, NoiseWaiters, HullWaiters, TypeOK
  <2>2. CountersInv'
    BY <1>1, <2>1, ChildCount, NoiseWaiters \in SUBSET Child
    DEF CountersInv, AllNoiseSent, NoiseWaiters
  <2>3. waitForNoise' \in 0 .. Cardinality(Child)
    BY <2>2, ChildCount, NoiseWaiters' \in SUBSET Child DEF CountersInv, NoiseWaiters
  <2>4. merged' \in Seq(HullType) /\ Len(merged') >= Len(merged)
    <3>1. CASE waitForNoise' <= 0
      <4>1. PICK f \in SetToSeqs(HullsOf(Noise)) :
              merged' = merged \o [k \in DOMAIN f |-> FromPoints(f[k])]
        BY <1>1, <3>1 DEF AllNoiseSent
      <4>2. [k \in DOMAIN f |-> FromPoints(f[k])] \in Seq(HullType)
        BY NoiseModel
      <4> QED
        BY <1>0, <4>1, <4>2, ConcatProperties, LenProperties DEF TypeOK
    <3>2. CASE ~(waitForNoise' <= 0)
      BY <1>0, <1>1, <3>2 DEF AllNoiseSent, TypeOK
    <3> QED
      BY <3>1, <3>2
  <2>5. Len(merged') \in Nat
    BY <2>4, LenProperties
  <2> QED
    BY <1>0, <1>1, <2>2, <2>3, <2>4, <2>5 DEF TypeOK, AllNoiseSent
<1>2. ASSUME NEW c \in Child, AllHulls(c)
      PROVE  TypeOK' /\ CountersInv'
  <2>1. NoiseWaiters' = NoiseWaiters /\ HullWaiters' = HullWaiters
    BY <1>2 DEF AllHulls, NoiseWaiters, HullWaiters, TypeOK
  <2> QED
    BY <1>2, <2>1 DEF TypeOK, CountersInv, AllHulls, HullsOf
<1>3. ASSUME NEW c \in Child, AllHullsSent(c)
      PROVE  TypeOK' /\ CountersInv'
  <2>1. HullWaiters' = HullWaiters \ {c} /\ NoiseWaiters' = NoiseWaiters /\ c \in HullWaiters
    BY <1>3 DEF AllHullsSent, NoiseWaiters, HullWaiters, TypeOK
  <2>2. CountersInv'
    BY <1>3, <2>1, ChildCount, HullWaiters \in SUBSET Child
    DEF CountersInv, AllHullsSent, HullWaiters
  <2>3. waitForHulls' \in 0 .. Cardinality(Child)
    BY <2>2, ChildCount, HullWaiters' \in SUBSET Child DEF CountersInv, HullWaiters
  <2> QED
    BY <1>3, <2>2, <2>3 DEF TypeOK, AllHullsSent
<1>4. ASSUME NEW h \in toMerge, NewMerge(h)
      PROVE  TypeOK' /\ CountersInv'
  <2>1. FromPoints(h) \in HullType
    BY <1>4, HullMergeAssumption DEF TypeOK, FromPoints, HullType
  <2> QED
    BY <1>0, <1>4, <2>1 DEF TypeOK, NewMerge, CountersInv, NoiseWaiters, HullWaiters
<1>5. ASSUME MergeStep
      PROVE  TypeOK' /\ CountersInv'
  <2>1. PICK H \in maxMerge :
          /\ i <= Len(merged)
          /\ maxMerge' = {Join(H, merged[i])}
          /\ merged' = RemoveAt(merged, i)
          /\ tried' = tried \cup merged[i].members
    BY <1>5 DEF MergeStep
  <2>2. i \in 1 .. Len(merged)
    BY <1>0, <2>1 DEF TypeOK
  <2>3. merged' \in Seq(HullType) /\ Len(merged') = Len(merged) - 1
    BY <2>1, <2>2, Removed DEF TypeOK
  <2>4. maxMerge' \subseteq HullType
    BY <1>0, <2>1, <2>2, JoinType DEF TypeOK
  <2>5. merged[i].members \subseteq HullId
    BY <1>0, <2>2 DEF HullType
  <2> QED
    BY <1>0, <1>5, <2>1, <2>2, <2>3, <2>4, <2>5
    DEF TypeOK, MergeStep, CountersInv, NoiseWaiters, HullWaiters
<1>6. ASSUME SkipStep
      PROVE  TypeOK' /\ CountersInv'
  <2>1. i \in 1 .. Len(merged)
    BY <1>0, <1>6 DEF SkipStep, TypeOK
  <2>2. merged[i].members \subseteq HullId
    BY <1>0, <2>1 DEF HullType
  <2> QED
    BY <1>0, <1>6, <2>1, <2>2 DEF TypeOK, SkipStep, CountersInv, NoiseWaiters, HullWaiters
<1>7. ASSUME StoreMerged
      PROVE  TypeOK' /\ CountersInv'
  <2>1. PICK H \in maxMerge : merged' = Append(merged, H)
    BY <1>7 DEF StoreMerged
  <2>2. merged' \in Seq(HullType) /\ Len(merged') = Len(merged) + 1
    BY <2>1, AppendProperties DEF TypeOK
  <2> QED
    BY <1>0, <1>7, <2>2 DEF TypeOK, StoreMerged, CountersInv, NoiseWaiters, HullWaiters
<1>8. CASE UNCHANGED vars
  BY <1>8 DEF vars, TypeOK, CountersInv, NoiseWaiters, HullWaiters
<1> QED
  BY <1>1, <1>2, <1>3, <1>4, <1>5, <1>6, <1>7, <1>8 DEF Next, Done

\* TypeOK: the list stays a list of hulls, the loop variable stays in it or just
\* behind it, and the counters never count below zero.
THEOREM TypeCorrect == Spec => [](TypeOK /\ CountersInv)
<1>1. Init => TypeOK /\ CountersInv
  <2> SUFFICES ASSUME Init
               PROVE  TypeOK /\ CountersInv
    OBVIOUS
  <2>1. NoiseWaiters = Child /\ HullWaiters = Child
    BY DEF Init, NoiseWaiters, HullWaiters
  <2>2. Cardinality(Child) \in Nat
    BY HullMergeAssumption, FS_CardinalityType
  <2>3. << >> \in Seq(HullType) /\ Len(<< >>) = 0
    BY EmptySeq
  <2> QED
    BY <2>1, <2>2, <2>3 DEF Init, TypeOK, CountersInv
<1> QED
  BY <1>1, TypeStep, PTL DEF Spec

-----------------------------------------------------------------------------
(* Why every hull is held once: the hulls still to merge are of the child    *)
(* whose packet is in hand and none of them has been received, and the list  *)
(* and the one hull in hand share the received ones out.                     *)

HandInv ==
  /\ maxMerge = {} \/ \E H : maxMerge = {H}
  /\ \A h \in toMerge : owner[h] \in Child /\ stage[owner[h]] = "hullsEnd"

HeldInv ==
  /\ \A h : h \in Received <=> \/ \E k \in 1 .. Len(merged) : h \in merged[k].members
                               \/ \E H \in maxMerge : h \in H.members
  /\ \A j, k \in 1 .. Len(merged) :
       j # k => merged[j].members \cap merged[k].members = {}
  /\ \A H \in maxMerge : \A k \in 1 .. Len(merged) :
       H.members \cap merged[k].members = {}
  /\ \A k \in 1 .. Len(merged) : merged[k].members # {}
  /\ \A H \in maxMerge : H.members # {}

\* What each action adds to the hulls received.
LEMMA ReceivedStep ==
  ASSUME TypeOK, CountersInv, HandInv
  PROVE  /\ \A c \in Child : AllNoiseSent(c) =>
              /\ Received' = Received \cup (IF waitForNoise' <= 0 THEN HullsOf(Noise) ELSE {})
              /\ \A h \in HullsOf(Noise) : h \notin Received
              /\ waitForNoise' <= 0 <=> waitForNoise' = 0
         /\ \A c \in Child : AllHulls(c) \/ AllHullsSent(c) => Received' = Received
         /\ \A h \in toMerge : NewMerge(h) => h \notin Received /\ Received' = Received \cup {h}
         /\ MergeStep \/ SkipStep \/ StoreMerged \/ UNCHANGED vars => Received' = Received
<1>0. waitForNoise \in Nat
  BY ChildCount, NoiseWaiters \in SUBSET Child DEF CountersInv, NoiseWaiters
<1>1. ASSUME NEW c \in Child, AllNoiseSent(c)
      PROVE  /\ Received' = Received \cup (IF waitForNoise' <= 0 THEN HullsOf(Noise) ELSE {})
             /\ \A h \in HullsOf(Noise) : h \notin Received
             /\ waitForNoise' <= 0 <=> waitForNoise' = 0
  <2>1. waitForNoise # 0
    BY <1>1, ChildCount, NoiseWaiters \in SUBSET Child, c \in NoiseWaiters
    DEF CountersInv, NoiseWaiters, AllNoiseSent
  <2>2. waitForNoise' <= 0 <=> waitForNoise' = 0
    BY <1>0, <1>1, <2>1 DEF AllNoiseSent
  <2>3. \A d \in Child : stage'[d] \in {"hullsEnd", "done"} <=> stage[d] \in {"hullsEnd", "done"}
    BY <1>1 DEF AllNoiseSent, TypeOK
  <2>4. owner' = owner /\ toMerge' = toMerge
    BY <1>1 DEF AllNoiseSent
  <2>5. Received' = Received \cup (IF waitForNoise' = 0 THEN HullsOf(Noise) ELSE {})
    BY <2>1, <2>3, <2>4 DEF Received, HullsOf
  <2>6. \A h \in HullsOf(Noise) : h \notin Received
    BY <2>1, HullMergeAssumption DEF Received, HullsOf
  <2> QED
    BY <2>2, <2>5, <2>6
<1>2. ASSUME NEW c \in Child, AllHulls(c)
      PROVE  Received' = Received
  <2>1. /\ stage[c] = "hulls" /\ stage'[c] = "hullsEnd"
        /\ \A d \in Child \ {c} : stage'[d] = stage[d]
    BY <1>2 DEF AllHulls, TypeOK
  <2>2. owner' = owner /\ waitForNoise' = waitForNoise /\ toMerge = {} /\ toMerge' = HullsOf(c)
    BY <1>2 DEF AllHulls, BetweenPackets
  <2> QED
    BY <2>1, <2>2 DEF Received, HullsOf
<1>3. ASSUME NEW c \in Child, AllHullsSent(c)
      PROVE  Received' = Received
  <2>1. \A d \in Child : stage'[d] \in {"hullsEnd", "done"} <=> stage[d] \in {"hullsEnd", "done"}
    BY <1>3 DEF AllHullsSent, TypeOK
  <2>2. owner' = owner /\ waitForNoise' = waitForNoise /\ toMerge' = toMerge
    BY <1>3 DEF AllHullsSent
  <2> QED
    BY <2>1, <2>2 DEF Received, HullsOf
<1>4. ASSUME NEW h \in toMerge, NewMerge(h)
      PROVE  h \notin Received /\ Received' = Received \cup {h}
  <2>1. owner' = owner /\ stage' = stage /\ waitForNoise' = waitForNoise /\ toMerge' = toMerge \ {h}
    BY <1>4 DEF NewMerge
  <2>2. h \in HullId /\ owner[h] \in Child /\ stage[owner[h]] = "hullsEnd" /\ owner[h] # Noise
    BY HullMergeAssumption DEF TypeOK, HandInv
  <2> QED
    BY <2>1, <2>2 DEF Received, HullsOf
<1>5. MergeStep \/ SkipStep \/ StoreMerged \/ UNCHANGED vars => Received' = Received
  BY DEF MergeStep, SkipStep, StoreMerged, vars, Received, HullsOf
<1> QED
  BY <1>1, <1>2, <1>3, <1>4, <1>5

\* The list after the models of the noise are pushed on it: what was there, then
\* one hull for each of them.
LEMMA NoisePushed ==
  ASSUME TypeOK, NEW c \in Child, AllNoiseSent(c), waitForNoise' <= 0
  PROVE  \E pushed \in Seq(HullType) :
           /\ \A b \in 1 .. Len(pushed) :
                pushed[b].members # {} /\ pushed[b].members \subseteq HullsOf(Noise)
           /\ \A h \in HullsOf(Noise) : \E b \in 1 .. Len(pushed) : h \in pushed[b].members
           /\ \A a, b \in 1 .. Len(pushed) :
                a # b => pushed[a].members \cap pushed[b].members = {}
           /\ \A k \in 1 .. Len(merged) : k \in 1 .. Len(merged') /\ merged'[k] = merged[k]
           /\ \A k \in (1 .. Len(merged')) \ (1 .. Len(merged)) :
                \E b \in 1 .. Len(pushed) : k = b + Len(merged) /\ merged'[k] = pushed[b]
           /\ \A b \in 1 .. Len(pushed) : \E k \in 1 .. Len(merged') : merged'[k] = pushed[b]
<1>1. PICK f \in SetToSeqs(HullsOf(Noise)) :
        merged' = merged \o [k \in DOMAIN f |-> FromPoints(f[k])]
  BY DEF AllNoiseSent
<1> DEFINE pushed == [k \in DOMAIN f |-> FromPoints(f[k])]
<1>2. /\ pushed \in Seq(HullType) /\ Len(pushed) \in Nat /\ Len(merged) \in Nat
      /\ \A k \in 1 .. Len(pushed) : f[k] \in HullsOf(Noise) /\ pushed[k].members = {f[k]}
      /\ \A j, k \in 1 .. Len(pushed) : j # k => f[j] # f[k]
      /\ \A h \in HullsOf(Noise) : \E k \in 1 .. Len(pushed) : f[k] = h
  BY NoiseModel, LenProperties DEF TypeOK
<1> HIDE DEF pushed
<1>3. /\ Len(merged') = Len(merged) + Len(pushed)
      /\ \A k \in 1 .. (Len(merged) + Len(pushed)) :
           merged'[k] = IF k <= Len(merged) THEN merged[k] ELSE pushed[k - Len(merged)]
  BY <1>1, <1>2, ConcatProperties DEF TypeOK, pushed
<1>4. ASSUME NEW k \in 1 .. Len(merged'), k \notin 1 .. Len(merged)
      PROVE  \E b \in 1 .. Len(pushed) : k = b + Len(merged) /\ merged'[k] = pushed[b]
  <2>1. /\ k - Len(merged) \in 1 .. Len(pushed) /\ k = (k - Len(merged)) + Len(merged)
        /\ merged'[k] = pushed[k - Len(merged)]
    BY <1>2, <1>3, <1>4
  <2> QED
    BY <2>1
<1>5. ASSUME NEW b \in 1 .. Len(pushed)
      PROVE  \E k \in 1 .. Len(merged') : merged'[k] = pushed[b]
  <2>1. /\ b + Len(merged) \in 1 .. (Len(merged) + Len(pushed)) /\ ~(b + Len(merged) <= Len(merged))
        /\ (b + Len(merged)) - Len(merged) = b
    BY <1>2
  <2> QED
    BY <1>3, <2>1
<1>6. \A k \in 1 .. Len(merged) : k \in 1 .. Len(merged') /\ merged'[k] = merged[k]
  BY <1>2, <1>3
<1>7. ASSUME NEW b \in 1 .. Len(pushed)
      PROVE  pushed[b].members # {} /\ pushed[b].members \subseteq HullsOf(Noise)
  <2>1. pushed[b].members = {f[b]} /\ f[b] \in HullsOf(Noise)
    BY <1>2
  <2> QED
    BY <2>1
<1>8. \A h \in HullsOf(Noise) : \E b \in 1 .. Len(pushed) : h \in pushed[b].members
  BY <1>2
<1>9. ASSUME NEW a \in 1 .. Len(pushed), NEW b \in 1 .. Len(pushed), a # b
      PROVE  pushed[a].members \cap pushed[b].members = {}
  <2>1. pushed[a].members = {f[a]} /\ pushed[b].members = {f[b]} /\ f[a] # f[b]
    BY <1>2, <1>9
  <2> QED
    BY <2>1
<1>10. pushed \in Seq(HullType)
  BY <1>2
<1> WITNESS pushed \in Seq(HullType)
<1> QED
  BY <1>4, <1>5, <1>6, <1>7, <1>8, <1>9

\* The list after a merge: the hull merged is gone, the others are there in the
\* order they had.
LEMMA MergeStepErases ==
  ASSUME TypeOK, MergeStep
  PROVE  \E H \in maxMerge :
           /\ i \in 1 .. Len(merged)
           /\ maxMerge' = {Join(H, merged[i])}
           /\ Join(H, merged[i]).members = H.members \cup merged[i].members
           /\ tried' = tried \cup merged[i].members
           /\ Len(merged') \in Nat
           /\ \A k \in 1 .. Len(merged') :
                \E a \in (1 .. Len(merged)) \ {i} :
                  merged'[k] = merged[a] /\ a = (IF k < i THEN k ELSE k + 1)
           /\ \A a \in (1 .. Len(merged)) \ {i} : \E k \in 1 .. Len(merged') : merged'[k] = merged[a]
<1>1. PICK H \in maxMerge :
        /\ i <= Len(merged)
        /\ maxMerge' = {Join(H, merged[i])}
        /\ merged' = RemoveAt(merged, i)
        /\ tried' = tried \cup merged[i].members
  BY DEF MergeStep
<1>2. i \in 1 .. Len(merged) /\ Len(merged) \in Nat
  BY <1>1, LenProperties DEF TypeOK
<1>3. /\ Len(merged') = Len(merged) - 1
      /\ \A k \in 1 .. (Len(merged) - 1) :
           merged'[k] = IF k < i THEN merged[k] ELSE merged[k + 1]
  BY <1>1, <1>2, Removed DEF TypeOK
<1>4. Join(H, merged[i]).members = H.members \cup merged[i].members
  BY DEF Join
<1>5. ASSUME NEW k \in 1 .. Len(merged')
      PROVE  \E a \in (1 .. Len(merged)) \ {i} :
               merged'[k] = merged[a] /\ a = (IF k < i THEN k ELSE k + 1)
  <2>1. k \in 1 .. Len(merged) /\ k + 1 \in 1 .. Len(merged)
    BY <1>2, <1>3
  <2>2. CASE k < i
    BY <1>2, <1>3, <2>1, <2>2
  <2>3. CASE ~(k < i)
    BY <1>2, <1>3, <2>1, <2>3
  <2> QED
    BY <2>2, <2>3
<1>6. ASSUME NEW a \in (1 .. Len(merged)) \ {i}
      PROVE  \E k \in 1 .. Len(merged') : merged'[k] = merged[a]
  <2>1. CASE a < i
    <3>1. a \in 1 .. Len(merged') /\ merged'[a] = merged[a]
      BY <1>2, <1>3, <2>1
    <3> QED
      BY <3>1
  <2>2. CASE a > i
    <3>1. a - 1 \in 1 .. (Len(merged) - 1) /\ ~(a - 1 < i) /\ (a - 1) + 1 = a
      BY <1>2, <2>2
    <3>2. a - 1 \in 1 .. Len(merged') /\ merged'[a - 1] = merged[a]
      BY <1>3, <3>1
    <3> QED
      BY <3>2
  <2> QED
    BY <1>2, <2>1, <2>2
<1> QED
  <2>1. H \in maxMerge /\ Len(merged') \in Nat
    BY <1>2, <1>3
  <2> WITNESS H \in maxMerge
  <2> QED
    BY <1>1, <1>2, <1>4, <1>5, <1>6, <2>1

\* The list after the hull in hand is stored: it is the last one.
LEMMA StoreMergedAppends ==
  ASSUME TypeOK, StoreMerged
  PROVE  \E H \in maxMerge :
           /\ i > Len(merged)
           /\ maxMerge' = {}
           /\ 1 .. Len(merged') = (1 .. Len(merged)) \cup {Len(merged) + 1}
           /\ \A k \in 1 .. Len(merged) : merged'[k] = merged[k]
           /\ merged'[Len(merged) + 1] = H
<1>1. PICK H \in maxMerge : i > Len(merged) /\ merged' = Append(merged, H) /\ maxMerge' = {}
  BY DEF StoreMerged
<1>2. /\ Len(merged) \in Nat /\ Len(merged') = Len(merged) + 1
      /\ \A k \in 1 .. Len(merged) : merged'[k] = merged[k]
      /\ merged'[Len(merged) + 1] = H
  BY <1>1, AppendProperties, LenProperties DEF TypeOK
<1>3. 1 .. Len(merged') = (1 .. Len(merged)) \cup {Len(merged) + 1}
  BY <1>2
<1> QED
  BY <1>1, <1>2, <1>3

\* Every packet and every pass of the loop keeps the hulls shared out.
LEMMA HeldStep == TypeOK /\ CountersInv /\ HandInv /\ HeldInv /\ [Next]_vars => HandInv' /\ HeldInv'
<1> SUFFICES ASSUME TypeOK, CountersInv, HandInv, HeldInv, [Next]_vars
             PROVE  HandInv' /\ HeldInv'
  OBVIOUS
<1>0. /\ Len(merged) \in Nat
      /\ \A k \in 1 .. Len(merged) : merged[k] \in HullType
  BY LenProperties, ElementOfSeq DEF TypeOK
<1>1. ASSUME NEW c \in Child, AllNoiseSent(c)
      PROVE  HandInv' /\ HeldInv'
  <2>0. /\ toMerge = {} /\ maxMerge = {} /\ toMerge' = {} /\ maxMerge' = {}
    BY <1>1 DEF AllNoiseSent, BetweenPackets
  <2>1. CASE waitForNoise' <= 0
    <3>2. PICK pushed \in Seq(HullType) :
            /\ \A b \in 1 .. Len(pushed) :
                 pushed[b].members # {} /\ pushed[b].members \subseteq HullsOf(Noise)
            /\ \A h \in HullsOf(Noise) : \E b \in 1 .. Len(pushed) : h \in pushed[b].members
            /\ \A a, b \in 1 .. Len(pushed) :
                 a # b => pushed[a].members \cap pushed[b].members = {}
            /\ \A k \in 1 .. Len(merged) : k \in 1 .. Len(merged') /\ merged'[k] = merged[k]
            /\ \A k \in (1 .. Len(merged')) \ (1 .. Len(merged)) :
                 \E b \in 1 .. Len(pushed) : k = b + Len(merged) /\ merged'[k] = pushed[b]
            /\ \A b \in 1 .. Len(pushed) : \E k \in 1 .. Len(merged') : merged'[k] = pushed[b]
      BY <1>1, <2>1, NoisePushed
    <3>5. Received' = Received \cup HullsOf(Noise) /\ \A h \in HullsOf(Noise) : h \notin Received
      BY <1>1, <2>1, ReceivedStep
    <3>6. \A h : h \in Received' <=> \E k \in 1 .. Len(merged') : h \in merged'[k].members
      <4> SUFFICES ASSUME NEW h
                   PROVE  h \in Received' <=> \E k \in 1 .. Len(merged') : h \in merged'[k].members
        OBVIOUS
      <4>1. h \in Received' <=> \/ \E k \in 1 .. Len(merged) : h \in merged[k].members
                               \/ h \in HullsOf(Noise)
        BY <2>0, <3>5 DEF HeldInv
      <4>2. h \in HullsOf(Noise) <=> \E b \in 1 .. Len(pushed) : h \in pushed[b].members
        BY <3>2
      <4>3. (\E k \in 1 .. Len(merged') : h \in merged'[k].members)
              <=> \/ \E k \in 1 .. Len(merged) : h \in merged[k].members
                  \/ \E b \in 1 .. Len(pushed) : h \in pushed[b].members
        <5>1. ASSUME NEW k \in 1 .. Len(merged'), h \in merged'[k].members
              PROVE  \/ \E a \in 1 .. Len(merged) : h \in merged[a].members
                     \/ \E b \in 1 .. Len(pushed) : h \in pushed[b].members
          <6>1. CASE k \in 1 .. Len(merged)
            BY <3>2, <5>1, <6>1
          <6>2. CASE k \notin 1 .. Len(merged)
            BY <3>2, <5>1, <6>2
          <6> QED
            BY <6>1, <6>2
        <5>2. ASSUME NEW b \in 1 .. Len(pushed), h \in pushed[b].members
              PROVE  \E k \in 1 .. Len(merged') : h \in merged'[k].members
          BY <3>2, <5>2
        <5>3. ASSUME NEW a \in 1 .. Len(merged), h \in merged[a].members
              PROVE  \E k \in 1 .. Len(merged') : h \in merged'[k].members
          BY <3>2, <5>3
        <5> QED
          BY <5>1, <5>2, <5>3
      <4> QED
        BY <4>1, <4>2, <4>3
    <3>7. \A j, k \in 1 .. Len(merged') :
            j # k => merged'[j].members \cap merged'[k].members = {}
      <4>1. \A a \in 1 .. Len(merged), b \in 1 .. Len(pushed) :
              merged[a].members \cap pushed[b].members = {}
        BY <3>2, <3>5 DEF HeldInv
      <4>2. \A a, b \in 1 .. Len(merged) : a # b => merged[a].members \cap merged[b].members = {}
        BY DEF HeldInv
      <4> SUFFICES ASSUME NEW j \in 1 .. Len(merged'), NEW k \in 1 .. Len(merged'), j # k
                   PROVE  merged'[j].members \cap merged'[k].members = {}
        OBVIOUS
      <4>3. CASE j \in 1 .. Len(merged) /\ k \in 1 .. Len(merged)
        <5>1. merged'[j] = merged[j] /\ merged'[k] = merged[k]
          BY <3>2, <4>3
        <5> QED
          BY <4>2, <4>3, <5>1
      <4>4. CASE j \in 1 .. Len(merged) /\ k \notin 1 .. Len(merged)
        <5>1. merged'[j] = merged[j] /\ \E b \in 1 .. Len(pushed) : merged'[k] = pushed[b]
          BY <3>2, <4>4
        <5> QED
          BY <4>1, <4>4, <5>1
      <4>5. CASE j \notin 1 .. Len(merged) /\ k \in 1 .. Len(merged)
        <5>1. merged'[k] = merged[k] /\ \E b \in 1 .. Len(pushed) : merged'[j] = pushed[b]
          BY <3>2, <4>5
        <5> QED
          BY <4>1, <4>5, <5>1
      <4>6. CASE j \notin 1 .. Len(merged) /\ k \notin 1 .. Len(merged)
        <5>1. PICK a \in 1 .. Len(pushed) : j = a + Len(merged) /\ merged'[j] = pushed[a]
          BY <3>2, <4>6
        <5>2. PICK b \in 1 .. Len(pushed) : k = b + Len(merged) /\ merged'[k] = pushed[b]
          BY <3>2, <4>6
        <5> QED
          BY <3>2, <5>1, <5>2
      <4> QED
        BY <4>3, <4>4, <4>5, <4>6
    <3>8. \A k \in 1 .. Len(merged') : merged'[k].members # {}
      <4> SUFFICES ASSUME NEW k \in 1 .. Len(merged')
                   PROVE  merged'[k].members # {}
        OBVIOUS
      <4>1. CASE k \in 1 .. Len(merged)
        BY <3>2, <4>1 DEF HeldInv
      <4>2. CASE k \notin 1 .. Len(merged)
        <5>1. PICK b \in 1 .. Len(pushed) : merged'[k] = pushed[b]
          BY <3>2, <4>2
        <5> QED
          BY <3>2, <5>1
      <4> QED
        BY <4>1, <4>2
    <3> QED
      BY <2>0, <3>6, <3>7, <3>8 DEF HandInv, HeldInv
  <2>2. CASE ~(waitForNoise' <= 0)
    <3>1. merged' = merged /\ Received' = Received
      BY <1>1, <2>2, ReceivedStep DEF AllNoiseSent
    <3> QED
      BY <2>0, <3>1 DEF HandInv, HeldInv
  <2> QED
    BY <2>1, <2>2
<1>2. ASSUME NEW c \in Child, AllHulls(c)
      PROVE  HandInv' /\ HeldInv'
  <2>1. Received' = Received /\ merged' = merged /\ maxMerge' = maxMerge
    BY <1>2, ReceivedStep DEF AllHulls
  <2>2. HandInv'
    BY <1>2 DEF AllHulls, HandInv, HullsOf, TypeOK
  <2> QED
    BY <2>1, <2>2 DEF HeldInv
<1>3. ASSUME NEW c \in Child, AllHullsSent(c)
      PROVE  HandInv' /\ HeldInv'
  <2>1. Received' = Received /\ merged' = merged /\ maxMerge' = maxMerge
    BY <1>3, ReceivedStep DEF AllHullsSent
  <2>2. HandInv'
    BY <1>3 DEF AllHullsSent, BetweenPackets, HandInv
  <2> QED
    BY <2>1, <2>2 DEF HeldInv
<1>4. ASSUME NEW h \in toMerge, NewMerge(h)
      PROVE  HandInv' /\ HeldInv'
  <2>1. h \notin Received /\ Received' = Received \cup {h}
    BY <1>4, ReceivedStep
  <2>2. /\ maxMerge = {} /\ maxMerge' = {FromPoints(h)} /\ merged' = merged
        /\ toMerge' = toMerge \ {h} /\ owner' = owner /\ stage' = stage
    BY <1>4 DEF NewMerge
  <2>3. FromPoints(h).members = {h}
    BY DEF FromPoints
  <2>4. HandInv'
    BY <2>2 DEF HandInv
  <2>5. HeldInv'
    BY <2>1, <2>2, <2>3 DEF HeldInv
  <2> QED
    BY <2>4, <2>5
<1>5. ASSUME MergeStep
      PROVE  HandInv' /\ HeldInv'
  <2>1. PICK H \in maxMerge :
          /\ i \in 1 .. Len(merged)
          /\ maxMerge' = {Join(H, merged[i])}
          /\ Join(H, merged[i]).members = H.members \cup merged[i].members
          /\ Len(merged') \in Nat
          /\ \A k \in 1 .. Len(merged') :
               \E a \in (1 .. Len(merged)) \ {i} :
                 merged'[k] = merged[a] /\ a = (IF k < i THEN k ELSE k + 1)
          /\ \A a \in (1 .. Len(merged)) \ {i} : \E k \in 1 .. Len(merged') : merged'[k] = merged[a]
    BY <1>5, MergeStepErases
  <2>2. maxMerge = {H}
    BY <2>1 DEF HandInv
  <2>3. Received' = Received
    BY <1>5, ReceivedStep
  <2>4. \A h : h \in Received' <=>
          \/ \E k \in 1 .. Len(merged') : h \in merged'[k].members
          \/ \E G \in maxMerge' : h \in G.members
    <3> SUFFICES ASSUME NEW h
                 PROVE  h \in Received <=>
                          \/ \E k \in 1 .. Len(merged') : h \in merged'[k].members
                          \/ h \in H.members \/ h \in merged[i].members
      BY <2>1, <2>3
    <3>1. h \in Received <=> (\E k \in 1 .. Len(merged) : h \in merged[k].members) \/ h \in H.members
      BY <2>2 DEF HeldInv
    <3> QED
      BY <2>1, <2>2, <3>1
  <2>5. \A j, k \in 1 .. Len(merged') :
          j # k => merged'[j].members \cap merged'[k].members = {}
    <3> SUFFICES ASSUME NEW j \in 1 .. Len(merged'), NEW k \in 1 .. Len(merged'), j # k
                 PROVE  merged'[j].members \cap merged'[k].members = {}
      OBVIOUS
    <3>1. PICK a \in (1 .. Len(merged)) \ {i} :
            merged'[j] = merged[a] /\ a = (IF j < i THEN j ELSE j + 1)
      BY <2>1
    <3>2. PICK b \in (1 .. Len(merged)) \ {i} :
            merged'[k] = merged[b] /\ b = (IF k < i THEN k ELSE k + 1)
      BY <2>1
    <3>3. a # b
      <4>1. j \in Int /\ k \in Int /\ i \in Int
        BY <1>0, <2>1
      <4> QED
        BY <3>1, <3>2, <4>1
    <3> QED
      BY <3>1, <3>2, <3>3 DEF HeldInv
  <2>6. \A G \in maxMerge' : \A k \in 1 .. Len(merged') : G.members \cap merged'[k].members = {}
    <3> SUFFICES ASSUME NEW k \in 1 .. Len(merged')
                 PROVE  (H.members \cup merged[i].members) \cap merged'[k].members = {}
      BY <2>1
    <3>1. PICK a \in (1 .. Len(merged)) \ {i} : merged'[k] = merged[a]
      BY <2>1
    <3>2. H.members \cap merged[a].members = {} /\ merged[i].members \cap merged[a].members = {}
      BY <2>1, <2>2 DEF HeldInv
    <3> QED
      BY <3>1, <3>2
  <2>7. /\ \A k \in 1 .. Len(merged') : merged'[k].members # {}
        /\ \A G \in maxMerge' : G.members # {}
    <3>1. H.members # {} /\ \A a \in 1 .. Len(merged) : merged[a].members # {}
      BY DEF HeldInv
    <3>2. \A k \in 1 .. Len(merged') : merged'[k].members # {}
      BY <2>1, <3>1
    <3> QED
      BY <2>1, <3>1, <3>2
  <2>8. HandInv'
    BY <1>5, <2>1 DEF MergeStep, HandInv
  <2> QED
    BY <2>4, <2>5, <2>6, <2>7, <2>8 DEF HeldInv
<1>6. ASSUME SkipStep
      PROVE  HandInv' /\ HeldInv'
  <2>1. Received' = Received
    BY <1>6, ReceivedStep
  <2> QED
    BY <1>6, <2>1 DEF SkipStep, HandInv, HeldInv
<1>7. ASSUME StoreMerged
      PROVE  HandInv' /\ HeldInv'
  <2>1. PICK H \in maxMerge :
          /\ maxMerge' = {}
          /\ 1 .. Len(merged') = (1 .. Len(merged)) \cup {Len(merged) + 1}
          /\ \A k \in 1 .. Len(merged) : merged'[k] = merged[k]
          /\ merged'[Len(merged) + 1] = H
    BY <1>7, StoreMergedAppends
  <2>2. maxMerge = {H}
    BY <2>1 DEF HandInv
  <2>3. Received' = Received
    BY <1>7, ReceivedStep
  <2>4. \A h : h \in Received' <=> \E k \in 1 .. Len(merged') : h \in merged'[k].members
    BY <2>1, <2>2, <2>3 DEF HeldInv
  <2>5. \A j, k \in 1 .. Len(merged') :
          j # k => merged'[j].members \cap merged'[k].members = {}
    BY <2>1, <2>2 DEF HeldInv
  <2>6. \A k \in 1 .. Len(merged') : merged'[k].members # {}
    BY <2>1, <2>2 DEF HeldInv
  <2>7. HandInv'
    BY <1>7, <2>1 DEF StoreMerged, HandInv
  <2> QED
    BY <2>1, <2>4, <2>5, <2>6, <2>7 DEF HeldInv
<1>8. CASE UNCHANGED vars
  BY <1>8, ReceivedStep DEF vars, HandInv, HeldInv
<1> QED
  BY <1>1, <1>2, <1>3, <1>4, <1>5, <1>6, <1>7, <1>8 DEF Next, Done

\* The list of hulls shared out holds from the first packet on.
LEMMA HeldCorrect == Spec => [](TypeOK /\ CountersInv /\ HandInv /\ HeldInv)
<1>1. Init => HandInv /\ HeldInv
  <2> SUFFICES ASSUME Init
               PROVE  HandInv /\ HeldInv
    OBVIOUS
  <2>1. Len(merged) = 0 /\ maxMerge = {} /\ toMerge = {} /\ 1 .. 0 = {}
    BY EmptySeq DEF Init
  <2>2. waitForNoise # 0
    BY HullMergeAssumption, FS_CardinalityType, FS_EmptySet DEF Init
  <2>3. Received = {}
    BY <2>2 DEF Init, Received
  <2> QED
    BY <2>1, <2>3 DEF HandInv, HeldInv
<1> QED
  BY <1>1, TypeCorrect, HeldStep, PTL DEF Spec

\* What the hulls held are made of.
LEMMA HeldMembers ==
  ASSUME TypeOK
  PROVE  /\ DOMAIN merged = 1 .. Len(merged)
         /\ \A H : H \in Held <=> H \in maxMerge \/ \E k \in 1 .. Len(merged) : H = merged[k]
<1>1. DOMAIN merged = 1 .. Len(merged)
  BY LenProperties DEF TypeOK
<1> QED
  BY <1>1 DEF Held, Range

\* EachHullHeldOnce, for any children, hulls and order of packets: NewMerge, which
\* erases from the list it walks, loses no hull and keeps none twice.
THEOREM EachHullHeldOnceProved == Spec => []EachHullHeldOnce
<1>1. TypeOK /\ HandInv /\ HeldInv => EachHullHeldOnce
  <2> SUFFICES ASSUME TypeOK, HandInv, HeldInv
               PROVE  EachHullHeldOnce
    OBVIOUS
  <2>1. DOMAIN merged = 1 .. Len(merged)
    BY HeldMembers
  <2>2. \A h : h \in UNION {H.members : H \in Held} <=> \E H \in Held : h \in H.members
    OBVIOUS
  <2>3. \A h : (\E H \in Held : h \in H.members) <=> h \in Received
    BY HeldMembers DEF HeldInv
  <2>4. UNION {H.members : H \in Held} = Received
    BY <2>2, <2>3
  <2> QED
    BY <2>1, <2>4 DEF HeldInv, EachHullHeldOnce
<1> QED
  BY <1>1, HeldCorrect, PTL

-----------------------------------------------------------------------------
(* Why what is sent is complete: while hulls are to be merged, a child still *)
(* owes its end mark, so the last mark finds the loop at rest; the list has  *)
(* no way to change after it.                                                *)

SentInv ==
  /\ toMerge # {} \/ maxMerge # {} => \E c \in Child : stage[c] = "hullsEnd"
  /\ waitForHulls = 0 => output = merged

\* Every packet and every pass of the loop keeps what was sent up to date.
LEMMA SentStep == TypeOK /\ CountersInv /\ HandInv /\ SentInv /\ [Next]_vars => SentInv'
<1> SUFFICES ASSUME TypeOK, CountersInv, HandInv, SentInv, [Next]_vars
             PROVE  SentInv'
  OBVIOUS
<1>0. /\ waitForHulls \in Nat
      /\ waitForHulls = 0 => \A c \in Child : stage[c] = "done"
  BY ChildCount, HullWaiters \in SUBSET Child DEF CountersInv, HullWaiters
<1>1. ASSUME NEW c \in Child, AllNoiseSent(c)
      PROVE  SentInv'
  BY <1>0, <1>1 DEF SentInv, AllNoiseSent, BetweenPackets
<1>2. ASSUME NEW c \in Child, AllHulls(c)
      PROVE  SentInv'
  BY <1>0, <1>2 DEF SentInv, AllHulls, TypeOK
<1>3. ASSUME NEW c \in Child, AllHullsSent(c)
      PROVE  SentInv'
  BY <1>0, <1>3 DEF SentInv, AllHullsSent, BetweenPackets
<1>4. ASSUME NEW h \in toMerge, NewMerge(h)
      PROVE  SentInv'
  BY <1>0, <1>4 DEF SentInv, NewMerge
<1>5. ASSUME MergeStep \/ SkipStep \/ StoreMerged
      PROVE  SentInv'
  <2>1. maxMerge # {} /\ stage' = stage /\ waitForHulls' = waitForHulls
    BY <1>5 DEF MergeStep, SkipStep, StoreMerged
  <2> QED
    BY <1>0, <2>1 DEF SentInv
<1>6. CASE UNCHANGED vars
  BY <1>6 DEF vars, SentInv
<1> QED
  BY <1>1, <1>2, <1>3, <1>4, <1>5, <1>6 DEF Next, Done

\* SentIsComplete, for any children, hulls and order of packets: no hull and no
\* noise comes after the filter sends its list.
THEOREM SentIsCompleteProved == Spec => []SentIsComplete
<1>1. Init => SentInv
  <2> SUFFICES ASSUME Init
               PROVE  SentInv
    OBVIOUS
  <2>1. waitForHulls # 0
    BY HullMergeAssumption, FS_CardinalityType, FS_EmptySet DEF Init
  <2> QED
    BY <2>1 DEF Init, SentInv
<1>2. TypeOK /\ CountersInv /\ HandInv /\ HeldInv /\ SentInv => SentIsComplete
  <2> SUFFICES ASSUME TypeOK, CountersInv, HandInv, HeldInv, SentInv, waitForHulls = 0
               PROVE  UNION {H.members : H \in Range(output)}
                        = {h \in HullId : owner[h] # Nobody}
    BY DEF SentIsComplete
  <2>1. \A c \in Child : stage[c] = "done"
    BY ChildCount, HullWaiters \in SUBSET Child DEF CountersInv, HullWaiters
  <2>2. output = merged /\ toMerge = {} /\ maxMerge = {}
    BY <2>1 DEF SentInv
  <2>3. NoiseWaiters = {}
    BY <2>1 DEF NoiseWaiters
  <2>4. waitForNoise = 0
    BY <2>3, FS_EmptySet DEF CountersInv
  <2>5. Received = {h \in HullId : owner[h] # Nobody}
    BY <2>1, <2>2, <2>4, HullMergeAssumption DEF Received, HullsOf, TypeOK
  <2>6. \A h : h \in UNION {H.members : H \in Range(output)} <=> \E H \in Range(output) : h \in H.members
    OBVIOUS
  <2>7. \A H : H \in Range(output) <=> \E k \in 1 .. Len(merged) : H = merged[k]
    BY <2>2, HeldMembers DEF Range
  <2>8. \A h : (\E H \in Range(output) : h \in H.members) <=> h \in Received
    BY <2>2, <2>7 DEF HeldInv
  <2> QED
    BY <2>5, <2>6, <2>8
<1> QED
  BY <1>1, <1>2, HeldCorrect, SentStep, PTL DEF Spec

-----------------------------------------------------------------------------
(* Why the loop of NewMerge misses no hull: everything before its index has  *)
(* been compared, and an erase moves the rest of the list up to the index.   *)

TriedInv == maxMerge # {} => \A k \in 1 .. (i - 1) : merged[k].members \subseteq tried

\* Every pass of the loop keeps the compared hulls behind its index.
LEMMA TriedStep == TypeOK /\ TriedInv /\ [Next]_vars => TriedInv'
<1> SUFFICES ASSUME TypeOK, TriedInv, [Next]_vars
             PROVE  TriedInv'
  OBVIOUS
<1>0. Len(merged) \in Nat /\ i \in 1 .. (Len(merged) + 1)
  BY LenProperties DEF TypeOK
<1>1. ASSUME NEW c \in Child, AllNoiseSent(c) \/ AllHulls(c) \/ AllHullsSent(c)
      PROVE  TriedInv'
  BY <1>1 DEF AllNoiseSent, AllHulls, AllHullsSent, BetweenPackets, TriedInv
<1>2. ASSUME NEW h \in toMerge, NewMerge(h)
      PROVE  TriedInv'
  BY <1>2 DEF NewMerge, TriedInv
<1>3. ASSUME MergeStep
      PROVE  TriedInv'
  <2>1. i' = i /\ maxMerge # {} /\ tried' = tried \cup merged[i].members
    BY <1>3 DEF MergeStep
  <2>2. \A k \in 1 .. (i - 1) : merged'[k] = merged[k]
    <3>1. i \in 1 .. Len(merged) /\ merged' = RemoveAt(merged, i)
      BY <1>0, <1>3 DEF MergeStep
    <3>2. \A k \in 1 .. (Len(merged) - 1) :
            merged'[k] = IF k < i THEN merged[k] ELSE merged[k + 1]
      BY <3>1, Removed DEF TypeOK
    <3> QED
      BY <1>0, <3>1, <3>2
  <2> QED
    BY <2>1, <2>2 DEF TriedInv
<1>4. ASSUME SkipStep
      PROVE  TriedInv'
  <2>1. /\ i' = i + 1 /\ maxMerge # {} /\ merged' = merged
        /\ tried' = tried \cup merged[i].members
    BY <1>4 DEF SkipStep
  <2>2. 1 .. (i' - 1) = (1 .. (i - 1)) \cup {i}
    BY <1>0, <2>1
  <2> QED
    BY <2>1, <2>2 DEF TriedInv
<1>5. ASSUME StoreMerged
      PROVE  TriedInv'
  BY <1>5 DEF StoreMerged, TriedInv
<1>6. CASE UNCHANGED vars
  BY <1>6 DEF vars, TriedInv
<1> QED
  BY <1>1, <1>2, <1>3, <1>4, <1>5, <1>6 DEF Next, Done

\* AllPreviousTried, for any children, hulls and order of packets: a hull is stored
\* only when it has been compared with every hull received before.
THEOREM AllPreviousTriedProved == Spec => []AllPreviousTried
<1>1. Init => TriedInv
  BY DEF Init, TriedInv
<1>2. TypeOK /\ HandInv /\ HeldInv /\ TriedInv => AllPreviousTried
  <2> SUFFICES ASSUME TypeOK, HandInv, HeldInv, TriedInv,
                      NEW H \in maxMerge, i > Len(merged), NEW h \in Received
               PROVE  h \in tried \cup H.members
    BY DEF AllPreviousTried
  <2>1. i - 1 = Len(merged)
    BY LenProperties DEF TypeOK
  <2>2. maxMerge = {H}
    BY DEF HandInv
  <2>3. \A k \in 1 .. Len(merged) : merged[k].members \subseteq tried
    BY <2>1, <2>2 DEF TriedInv
  <2>4. h \in H.members \/ \E k \in 1 .. Len(merged) : h \in merged[k].members
    BY <2>2 DEF HeldInv
  <2> QED
    BY <2>3, <2>4
<1> QED
  BY <1>1, <1>2, HeldCorrect, TriedStep, PTL DEF Spec

\* NeverSplit, for any children, hulls and order of packets: no step of the filter
\* separates hulls it has merged.
THEOREM NeverSplitProved == Spec => NeverSplit
<1> DEFINE Kept == \A H \in Held : \E G \in Held' : H.members \subseteq G.members
<1>1. ASSUME TypeOK, TypeOK', HandInv, Next
      PROVE  Kept
  <2>0. \A H : H \in Held' <=> H \in maxMerge' \/ \E k \in 1 .. Len(merged') : H = merged'[k]
    <3>1. DOMAIN merged' = 1 .. Len(merged')
      BY <1>1, LenProperties DEF TypeOK
    <3> QED
      BY <3>1 DEF Held, Range
  <2>1. (\A k \in 1 .. Len(merged) : k \in 1 .. Len(merged') /\ merged'[k] = merged[k])
          /\ maxMerge \subseteq maxMerge' => Kept
    BY <1>1, <2>0, HeldMembers
  <2>2. ASSUME NEW c \in Child, AllNoiseSent(c)
        PROVE  Kept
    <3>1. CASE waitForNoise' <= 0
      BY <1>1, <2>1, <2>2, <3>1, NoisePushed DEF AllNoiseSent
    <3>2. CASE ~(waitForNoise' <= 0)
      BY <2>1, <2>2, <3>2 DEF AllNoiseSent
    <3> QED
      BY <3>1, <3>2
  <2>3. ASSUME NEW c \in Child, AllHulls(c) \/ AllHullsSent(c)
        PROVE  Kept
    BY <2>1, <2>3 DEF AllHulls, AllHullsSent
  <2>4. ASSUME NEW h \in toMerge, NewMerge(h)
        PROVE  Kept
    BY <2>1, <2>4 DEF NewMerge
  <2>5. ASSUME MergeStep
        PROVE  Kept
    <3>1. PICK H \in maxMerge :
            /\ i \in 1 .. Len(merged)
            /\ maxMerge' = {Join(H, merged[i])}
            /\ Join(H, merged[i]).members = H.members \cup merged[i].members
            /\ \A a \in (1 .. Len(merged)) \ {i} :
                 \E k \in 1 .. Len(merged') : merged'[k] = merged[a]
      BY <1>1, <2>5, MergeStepErases
    <3>2. maxMerge = {H}
      BY <1>1, <3>1 DEF HandInv
    <3>3. ASSUME NEW a \in 1 .. Len(merged)
          PROVE  \E G \in Held' : merged[a].members \subseteq G.members
      <4>1. CASE a = i
        BY <2>0, <3>1, <4>1
      <4>2. CASE a # i
        <5>1. PICK k \in 1 .. Len(merged') : merged'[k] = merged[a]
          BY <3>1, <4>2
        <5> QED
          BY <2>0, <5>1
      <4> QED
        BY <4>1, <4>2
    <3>4. \E G \in Held' : H.members \subseteq G.members
      BY <2>0, <3>1
    <3> QED
      BY <1>1, <3>2, <3>3, <3>4, HeldMembers
  <2>6. ASSUME SkipStep
        PROVE  Kept
    BY <2>1, <2>6 DEF SkipStep
  <2>7. ASSUME StoreMerged
        PROVE  Kept
    <3>1. PICK H \in maxMerge :
            /\ 1 .. Len(merged') = (1 .. Len(merged)) \cup {Len(merged) + 1}
            /\ \A k \in 1 .. Len(merged) : merged'[k] = merged[k]
            /\ merged'[Len(merged) + 1] = H
      BY <1>1, <2>7, StoreMergedAppends
    <3>2. maxMerge = {H}
      BY <1>1, <3>1 DEF HandInv
    <3>3. \A G \in Held : G \in Held'
      BY <1>1, <2>0, <3>1, <3>2, HeldMembers
    <3> QED
      BY <3>3
  <2>8. CASE Done
    BY <2>1, <2>8 DEF Done, vars
  <2> QED
    BY <1>1, <2>2, <2>3, <2>4, <2>5, <2>6, <2>7, <2>8 DEF Next
<1>2. TypeOK /\ TypeOK' /\ HandInv /\ [Next]_vars => [Kept]_vars
  BY <1>1
<1> QED
  BY <1>2, HeldCorrect, PTL DEF Spec, NeverSplit

-----------------------------------------------------------------------------
(* Why a hull stored alone touches nothing before it: it has been found not  *)
(* to merge with each of them, and only a merge could have changed it.       *)

LoneHull(H) == \E h \in HullId : H.members = {h} /\ owner[h] # Noise

LoneInv ==
  /\ \A j, k \in 1 .. Len(merged) :
       j < k /\ LoneHull(merged[k]) => ~Mergeable(merged[k], merged[j])
  /\ \A H \in maxMerge : LoneHull(H) => \A k \in 1 .. (i - 1) : ~Mergeable(H, merged[k])

\* Every packet and every pass of the loop keeps lone hulls apart from the earlier.
LEMMA LoneStep ==
  TypeOK /\ TypeOK' /\ HandInv /\ HeldInv /\ LoneInv /\ [Next]_vars => LoneInv'
<1> SUFFICES ASSUME TypeOK, TypeOK', HandInv, HeldInv, LoneInv, [Next]_vars
             PROVE  LoneInv'
  OBVIOUS
<1>0. Len(merged) \in Nat /\ Len(merged') \in Nat /\ i \in 1 .. (Len(merged) + 1)
  BY LenProperties DEF TypeOK
<1>1. ASSUME owner' = owner, maxMerge' = maxMerge, i' = i, merged' = merged
      PROVE  LoneInv'
  BY <1>1 DEF LoneInv, LoneHull
<1>2. ASSUME NEW c \in Child, AllNoiseSent(c)
      PROVE  LoneInv'
  <2>1. owner' = owner /\ maxMerge' = {} /\ maxMerge = {} /\ i' = i
    BY <1>2 DEF AllNoiseSent, BetweenPackets
  <2>2. CASE waitForNoise' <= 0
    <3>1. PICK pushed \in Seq(HullType) :
            /\ \A b \in 1 .. Len(pushed) :
                 pushed[b].members # {} /\ pushed[b].members \subseteq HullsOf(Noise)
            /\ \A k \in 1 .. Len(merged) : k \in 1 .. Len(merged') /\ merged'[k] = merged[k]
            /\ \A k \in (1 .. Len(merged')) \ (1 .. Len(merged)) :
                 \E b \in 1 .. Len(pushed) : k = b + Len(merged) /\ merged'[k] = pushed[b]
      BY <1>2, <2>2, NoisePushed
    <3>2. \A b \in 1 .. Len(pushed) : ~LoneHull(pushed[b])
      BY <3>1 DEF LoneHull, HullsOf
    <3> SUFFICES ASSUME NEW j \in 1 .. Len(merged'), NEW k \in 1 .. Len(merged'),
                        j < k, LoneHull(merged'[k])
                 PROVE  ~Mergeable(merged'[k], merged'[j])
      BY <2>1 DEF LoneInv, LoneHull
    <3>3. k \in 1 .. Len(merged)
      BY <3>1, <3>2
    <3>4. j \in 1 .. Len(merged)
      BY <1>0, <3>3
    <3> QED
      BY <3>1, <3>3, <3>4 DEF LoneInv
  <2>3. CASE ~(waitForNoise' <= 0)
    BY <1>1, <1>2, <2>1, <2>3 DEF AllNoiseSent
  <2> QED
    BY <2>2, <2>3
<1>3. ASSUME NEW c \in Child, AllHulls(c) \/ AllHullsSent(c)
      PROVE  LoneInv'
  BY <1>1, <1>3 DEF AllHulls, AllHullsSent
<1>4. ASSUME NEW h \in toMerge, NewMerge(h)
      PROVE  LoneInv'
  BY <1>4 DEF NewMerge, LoneInv, LoneHull
<1>5. ASSUME MergeStep
      PROVE  LoneInv'
  <2>1. PICK H \in maxMerge :
          /\ i \in 1 .. Len(merged)
          /\ maxMerge' = {Join(H, merged[i])}
          /\ Join(H, merged[i]).members = H.members \cup merged[i].members
          /\ \A k \in 1 .. Len(merged') :
               \E a \in (1 .. Len(merged)) \ {i} :
                 merged'[k] = merged[a] /\ a = (IF k < i THEN k ELSE k + 1)
    BY <1>5, MergeStepErases
  <2>2. owner' = owner
    BY <1>5 DEF MergeStep
  <2>3. ~LoneHull(Join(H, merged[i]))
    <3>1. /\ H.members # {} /\ merged[i].members # {}
          /\ H.members \cap merged[i].members = {}
      BY <2>1 DEF HeldInv
    <3> QED
      BY <2>1, <3>1 DEF LoneHull
  <2>4. ASSUME NEW j \in 1 .. Len(merged'), NEW k \in 1 .. Len(merged'),
               j < k, LoneHull(merged'[k])
        PROVE  ~Mergeable(merged'[k], merged'[j])
    <3>1. PICK a \in (1 .. Len(merged)) \ {i} :
            merged'[j] = merged[a] /\ a = (IF j < i THEN j ELSE j + 1)
      BY <2>1
    <3>2. PICK b \in (1 .. Len(merged)) \ {i} :
            merged'[k] = merged[b] /\ b = (IF k < i THEN k ELSE k + 1)
      BY <2>1
    <3>3. a < b
      <4>1. j \in Int /\ k \in Int /\ i \in Int
        BY <1>0
      <4> QED
        BY <2>4, <3>1, <3>2, <4>1
    <3> QED
      BY <2>4, <3>1, <3>2, <3>3 DEF LoneInv
  <2> QED
    BY <2>1, <2>2, <2>3, <2>4 DEF LoneInv, LoneHull
<1>6. ASSUME SkipStep
      PROVE  LoneInv'
  <2>1. PICK H \in maxMerge : ~Mergeable(H, merged[i])
    BY <1>6 DEF SkipStep
  <2>2. maxMerge = {H}
    BY <2>1 DEF HandInv
  <2>3. owner' = owner /\ merged' = merged /\ maxMerge' = maxMerge /\ i' = i + 1
    BY <1>6 DEF SkipStep
  <2>4. 1 .. (i' - 1) = (1 .. (i - 1)) \cup {i}
    BY <1>0, <2>3
  <2> QED
    BY <2>1, <2>2, <2>3, <2>4 DEF LoneInv, LoneHull
<1>7. ASSUME StoreMerged
      PROVE  LoneInv'
  <2>1. PICK H \in maxMerge :
          /\ i > Len(merged)
          /\ maxMerge' = {}
          /\ 1 .. Len(merged') = (1 .. Len(merged)) \cup {Len(merged) + 1}
          /\ \A k \in 1 .. Len(merged) : merged'[k] = merged[k]
          /\ merged'[Len(merged) + 1] = H
    BY <1>7, StoreMergedAppends
  <2>2. owner' = owner /\ i - 1 = Len(merged)
    BY <1>0, <1>7, <2>1 DEF StoreMerged
  <2>3. LoneHull(H) => \A k \in 1 .. Len(merged) : ~Mergeable(H, merged[k])
    BY <2>2 DEF LoneInv
  <2>4. ASSUME NEW j \in 1 .. Len(merged'), NEW k \in 1 .. Len(merged'),
               j < k, LoneHull(merged'[k])
        PROVE  ~Mergeable(merged'[k], merged'[j])
    <3>1. j \in 1 .. Len(merged) /\ merged'[j] = merged[j]
      BY <1>0, <2>1, <2>4
    <3>2. CASE k \in 1 .. Len(merged)
      BY <2>1, <2>4, <3>1, <3>2 DEF LoneInv
    <3>3. CASE k = Len(merged) + 1
      BY <2>1, <2>3, <2>4, <3>1, <3>3
    <3> QED
      BY <2>1, <3>2, <3>3
  <2> QED
    BY <2>1, <2>2, <2>4 DEF LoneInv, LoneHull
<1>8. CASE UNCHANGED vars
  BY <1>1, <1>8 DEF vars
<1> QED
  BY <1>2, <1>3, <1>4, <1>5, <1>6, <1>7, <1>8 DEF Next, Done

\* LoneHullTouchesNoEarlier, for any children, hulls and order of packets: a hull
\* stored as a child sent it merges with none of the hulls stored before it.
THEOREM LoneHullTouchesNoEarlierProved == Spec => []LoneHullTouchesNoEarlier
<1>1. Init => LoneInv
  <2>1. Init => Len(merged) = 0 /\ maxMerge = {} /\ 1 .. 0 = {}
    BY EmptySeq DEF Init
  <2> QED
    BY <2>1 DEF LoneInv
<1>2. TypeOK /\ LoneInv => LoneHullTouchesNoEarlier
  BY HeldMembers DEF LoneInv, LoneHull, LoneHullTouchesNoEarlier
<1> QED
  BY <1>1, <1>2, HeldCorrect, LoneStep, PTL DEF Spec
=============================================================================
