------------------------ MODULE ClusteredTrace_proofs ------------------------
(***************************************************************************)
(* What holds of the reader and of the writer for any number of threads    *)
(* and any trace whose threads have their records in time order.  The      *)
(* inductive invariant of the reader says what is kept of one thread       *)
(* (ThreadOK) and that what is done for another thread leaves it as it is  *)
(* (Extends); that of the writer relates, thread by thread, the bursts     *)
(* still to print, the last event that opened one, the events that are     *)
(* written and the records passed by (Written).  A third one, for the      *)
(* counters, relates those a burst has to the values its thread has met    *)
(* in the trace so far (ThreadOwn).                                        *)
(***************************************************************************)
EXTENDS ClusteredTrace, DataLemmas

-----------------------------------------------------------------------------
\* The largest of the first numbers.
LEMMA MaxUpto ==
  ASSUME NEW k \in Nat, k > 0
  PROVE  Max(1 .. k) = k /\ (1 .. k) \ {Max(1 .. k)} = 1 .. (k - 1)
<1>1. k \in 1 .. k /\ \A y \in 1 .. k : k >= y
  OBVIOUS
<1>2. \A x \in 1 .. k : (\A y \in 1 .. k : x >= y) => x = k
  OBVIOUS
<1>3. Max(1 .. k) = k
  BY <1>1, <1>2 DEF Max
<1> QED
  BY <1>3

\* What lies below the largest number of a set.
LEMMA BelowMax ==
  ASSUME NEW m \in Nat, NEW T \in SUBSET (1 .. m), T # {}
  PROVE  m > 0 /\ Max(T) \in T /\ T \ {Max(T)} \in SUBSET (1 .. (m - 1))
<1> DEFINE R == {m - x : x \in T}
<1>0. \A x \in T : x \in 1 .. m /\ m - x \in Nat
  OBVIOUS
<1>1. R \in SUBSET Nat /\ R # {}
  BY <1>0
<1>2. PICK r \in R : \A q \in R : r <= q
  BY <1>1, LeastNumber
<1>3. PICK x \in T : r = m - x
  BY <1>2
<1>4. \A y \in T : x >= y
  <2> TAKE y \in T
  <2>1. m - x <= m - y
    BY <1>2, <1>3
  <2> QED
    BY <2>1
<1>5. Max(T) \in T /\ \A y \in T : Max(T) >= y
  BY <1>4 DEF Max
<1>6. \A y \in T \ {Max(T)} : y \in 1 .. (m - 1)
  <2> TAKE y \in T \ {Max(T)}
  <2>1. y \in 1 .. m /\ Max(T) \in 1 .. m /\ Max(T) >= y /\ Max(T) # y
    BY <1>5
  <2> HIDE <1>5
  <2> QED
    BY <2>1
<1>7. m > 0
  BY <1>0, <1>5
<1> QED
  BY <1>5, <1>6, <1>7

\* One more parameter, and one more thread.
Asked(data, result, type) ==
  IF type \notin DOMAIN data THEN MISSING_DATA_CLUSTERID
  ELSE IF data[type] > RangeMax THEN RANGE_FILTERED_CLUSTERID ELSE result

Settled(bursts, t) ==
  IF TaskData[t].OngoingBurst THEN NewBurst(bursts, t, TaskData[t]) ELSE bursts

InOrder == [t \in Thread |-> t]

\* The values that EndEvents passes through, as one formula.
EndTrail(h, s, t, data, n) ==
  /\ h[0] = s /\ EndEvents(s, t, data) = h[n]
  /\ \A k \in 1 .. n : h[k] = EndEvent(h[k - 1], t, data[k])

\* The values of one record at the end of a burst are taken one after the other.
LEMMA EndEventsStep ==
  ASSUME NEW s, NEW t, NEW data, NEW n \in Nat, DOMAIN data = 1 .. n
  PROVE  \E h : EndTrail(h, s, t, data, n)
<1> DEFINE D == SUBSET (1 .. n)
           Step(f, T) == IF T = {} THEN s ELSE EndEvent(f[T \ {Max(T)}], t, data[Max(T)])
           iter == CHOOSE f : f = [T \in D |-> Step(f, T)]
           S == {m \in 0 .. n : \E f : \A T \in SUBSET (1 .. m) : f[T] = Step(f, T)}
<1>1. EndEvents(s, t, data) = iter[1 .. n]
  BY Zenon DEF EndEvents, FoldLeft, MapThenFoldSet
<1>2. 0 \in S
  <2>1. \A T \in SUBSET (1 .. 0) : T = {}
    OBVIOUS
  <2> DEFINE f == [T \in {{}} |-> s]
  <2>2. f[{}] = s
    OBVIOUS
  <2> HIDE DEF f
  <2>3. \A T \in SUBSET (1 .. 0) : f[T] = Step(f, T)
    BY <2>1, <2>2
  <2>4. 0 \in 0 .. n
    OBVIOUS
  <2> HIDE DEF Step
  <2> QED
    BY <2>3, <2>4
<1>3. ASSUME NEW m \in 1 .. n, m - 1 \in S
      PROVE  m \in S
  <2>1. PICK f : \A T \in SUBSET (1 .. (m - 1)) : f[T] = Step(f, T)
    BY <1>3
  <2> DEFINE g == [T \in SUBSET (1 .. m) |-> Step(f, T)]
  <2>2. SUBSET (1 .. (m - 1)) \subseteq SUBSET (1 .. m)
    OBVIOUS
  <2>3. \A T \in SUBSET (1 .. (m - 1)) : g[T] = f[T]
    BY <2>1, <2>2
  <2>4. ASSUME NEW T \in SUBSET (1 .. m)
        PROVE  g[T] = Step(g, T)
    <3>1. T # {} => T \ {Max(T)} \in SUBSET (1 .. (m - 1))
      BY BelowMax
    <3>2. g[T] = Step(f, T)
      OBVIOUS
    <3> HIDE DEF g
    <3> QED
      BY <2>3, <3>1, <3>2
  <2> HIDE DEF g, Step
  <2> QED
    BY <2>4
<1>4. iter = [T \in D |-> Step(iter, T)]
  <2>1. n \in S
    <3> HIDE DEF S
    <3> QED
      BY <1>2, <1>3, BoundedInduction
  <2>2. PICK f : \A T \in D : f[T] = Step(f, T)
    BY <2>1
  <2> DEFINE g == [T \in D |-> f[T]]
  <2>3. \A T \in D : T # {} => T \ {Max(T)} \in D
    BY BelowMax
  <2>4. \A T \in D : Step(f, T) = Step(g, T)
    BY <2>3
  <2>5. g = [T \in D |-> Step(g, T)]
    <3> HIDE DEF Step
    <3> QED
      BY <2>2, <2>4
  <2> HIDE DEF g, Step
  <2> QED
    BY <2>5
<1> HIDE DEF iter
<1>5. ASSUME NEW k \in 0 .. n
      PROVE  1 .. k \in D /\ (k = 0 => 1 .. k = {}) /\ (k # 0 => 1 .. k # {})
  <2>1. 1 .. k \subseteq 1 .. n
    OBVIOUS
  <2>2. k = 0 => 1 .. k = {}
    OBVIOUS
  <2>3. k # 0 => 1 \in 1 .. k
    OBVIOUS
  <2> QED
    BY <2>1, <2>2, <2>3
<1>6. \A T \in D : iter[T] = Step(iter, T)
  BY <1>4
<1> HIDE DEF D
<1> DEFINE h == [k \in 0 .. n |-> iter[1 .. k]]
<1>7. h[0] = s /\ h[n] = iter[1 .. n]
  <2>1. 0 \in 0 .. n /\ n \in 0 .. n
    OBVIOUS
  <2>2. iter[1 .. 0] = s
    BY <1>5, <1>6, <2>1
  <2> QED
    BY <2>1, <2>2
<1>8. ASSUME NEW k \in 1 .. n
      PROVE  h[k] = EndEvent(h[k - 1], t, data[k])
  <2>1. k - 1 \in 0 .. n /\ k \in 0 .. n /\ k # 0
    OBVIOUS
  <2>2. Max(1 .. k) = k /\ (1 .. k) \ {Max(1 .. k)} = 1 .. (k - 1)
    BY MaxUpto
  <2>3. 1 .. k \in D /\ 1 .. k # {}
    BY <1>5, <2>1
  <2>4. iter[1 .. k] = EndEvent(iter[1 .. (k - 1)], t, data[k])
    BY <1>6, <2>2, <2>3
  <2> QED
    BY <2>1, <2>4
<1> HIDE DEF h
<1>9. EndTrail(h, s, t, data, n)
  BY <1>1, <1>7, <1>8 DEF EndTrail
<1> QED
  BY <1>9

\* The parameters are asked in turn.
LEMMA GetDataStep ==
  ASSUME NEW data, NEW n \in Nat, DOMAIN Parameters = 1 .. n
  PROVE  \E h : /\ h[0] = 0 /\ GetData(data) = h[n]
                /\ \A k \in 1 .. n : h[k] = Asked(data, h[k - 1], Parameters[k])
<1> DEFINE D == SUBSET (1 .. n)
           Step(f, T) == IF T = {} THEN 0 ELSE Asked(data, f[T \ {Max(T)}], Parameters[Max(T)])
           iter == CHOOSE f : f = [T \in D |-> Step(f, T)]
           S == {m \in 0 .. n : \E f : \A T \in SUBSET (1 .. m) : f[T] = Step(f, T)}
<1>1. GetData(data) = iter[1 .. n]
  BY Zenon DEF GetData, Asked, FoldLeft, MapThenFoldSet
<1>2. 0 \in S
  <2>1. \A T \in SUBSET (1 .. 0) : T = {}
    OBVIOUS
  <2> DEFINE f == [T \in {{}} |-> 0]
  <2>2. f[{}] = 0
    OBVIOUS
  <2> HIDE DEF f
  <2>3. \A T \in SUBSET (1 .. 0) : f[T] = Step(f, T)
    BY <2>1, <2>2
  <2>4. 0 \in 0 .. n
    OBVIOUS
  <2> HIDE DEF Step
  <2> QED
    BY <2>3, <2>4
<1>3. ASSUME NEW m \in 1 .. n, m - 1 \in S
      PROVE  m \in S
  <2>1. PICK f : \A T \in SUBSET (1 .. (m - 1)) : f[T] = Step(f, T)
    BY <1>3
  <2> DEFINE g == [T \in SUBSET (1 .. m) |-> Step(f, T)]
  <2>2. SUBSET (1 .. (m - 1)) \subseteq SUBSET (1 .. m)
    OBVIOUS
  <2>3. \A T \in SUBSET (1 .. (m - 1)) : g[T] = f[T]
    BY <2>1, <2>2
  <2>4. ASSUME NEW T \in SUBSET (1 .. m)
        PROVE  g[T] = Step(g, T)
    <3>1. T # {} => T \ {Max(T)} \in SUBSET (1 .. (m - 1))
      BY BelowMax
    <3>2. g[T] = Step(f, T)
      OBVIOUS
    <3> HIDE DEF g
    <3> QED
      BY <2>3, <3>1, <3>2
  <2> HIDE DEF g, Step
  <2> QED
    BY <2>4
<1>4. iter = [T \in D |-> Step(iter, T)]
  <2>1. n \in S
    <3> HIDE DEF S
    <3> QED
      BY <1>2, <1>3, BoundedInduction
  <2>2. PICK f : \A T \in D : f[T] = Step(f, T)
    BY <2>1
  <2> DEFINE g == [T \in D |-> f[T]]
  <2>3. \A T \in D : T # {} => T \ {Max(T)} \in D
    BY BelowMax
  <2>4. \A T \in D : Step(f, T) = Step(g, T)
    BY <2>3
  <2>5. g = [T \in D |-> Step(g, T)]
    <3> HIDE DEF Step
    <3> QED
      BY <2>2, <2>4
  <2> HIDE DEF g, Step
  <2> QED
    BY <2>5
<1> HIDE DEF iter
<1>5. ASSUME NEW k \in 0 .. n
      PROVE  1 .. k \in D /\ (k = 0 => 1 .. k = {}) /\ (k # 0 => 1 .. k # {})
  <2>1. 1 .. k \subseteq 1 .. n
    OBVIOUS
  <2>2. k = 0 => 1 .. k = {}
    OBVIOUS
  <2>3. k # 0 => 1 \in 1 .. k
    OBVIOUS
  <2> QED
    BY <2>1, <2>2, <2>3
<1>6. \A T \in D : iter[T] = Step(iter, T)
  BY <1>4
<1> HIDE DEF D
<1> DEFINE h == [k \in 0 .. n |-> iter[1 .. k]]
<1>7. h[0] = 0 /\ h[n] = iter[1 .. n]
  <2>1. 0 \in 0 .. n /\ n \in 0 .. n
    OBVIOUS
  <2>2. iter[1 .. 0] = 0
    BY <1>5, <1>6, <2>1
  <2> QED
    BY <2>1, <2>2
<1>8. ASSUME NEW k \in 1 .. n
      PROVE  h[k] = Asked(data, h[k - 1], Parameters[k])
  <2>1. k - 1 \in 0 .. n /\ k \in 0 .. n /\ k # 0
    OBVIOUS
  <2>2. Max(1 .. k) = k /\ (1 .. k) \ {Max(1 .. k)} = 1 .. (k - 1)
    BY MaxUpto
  <2>3. 1 .. k \in D /\ 1 .. k # {}
    BY <1>5, <2>1
  <2>4. iter[1 .. k] = Asked(data, iter[1 .. (k - 1)], Parameters[k])
    BY <1>6, <2>2, <2>3
  <2> QED
    BY <2>1, <2>4
<1> HIDE DEF h
<1> QED
  BY <1>1, <1>7, <1>8

\* The current bursts are stored thread by thread.
LEMMA PendingStep ==
  ASSUME NEW n \in Nat, DOMAIN InOrder = 1 .. n
  PROVE  \E h : /\ h[0] = AllBursts /\ PendingBursts = h[n]
                /\ \A k \in 1 .. n : h[k] = Settled(h[k - 1], InOrder[k])
<1> DEFINE D == SUBSET (1 .. n)
           Step(f, T) == IF T = {} THEN AllBursts ELSE Settled(f[T \ {Max(T)}], InOrder[Max(T)])
           iter == CHOOSE f : f = [T \in D |-> Step(f, T)]
           S == {m \in 0 .. n : \E f : \A T \in SUBSET (1 .. m) : f[T] = Step(f, T)}
<1>1. PendingBursts = iter[1 .. n]
  BY Zenon DEF PendingBursts, Settled, InOrder, FoldLeft, MapThenFoldSet
<1>2. 0 \in S
  <2>1. \A T \in SUBSET (1 .. 0) : T = {}
    OBVIOUS
  <2> DEFINE f == [T \in {{}} |-> AllBursts]
  <2>2. f[{}] = AllBursts
    OBVIOUS
  <2> HIDE DEF f
  <2>3. \A T \in SUBSET (1 .. 0) : f[T] = Step(f, T)
    BY <2>1, <2>2
  <2>4. 0 \in 0 .. n
    OBVIOUS
  <2> HIDE DEF Step
  <2> QED
    BY <2>3, <2>4
<1>3. ASSUME NEW m \in 1 .. n, m - 1 \in S
      PROVE  m \in S
  <2>1. PICK f : \A T \in SUBSET (1 .. (m - 1)) : f[T] = Step(f, T)
    BY <1>3
  <2> DEFINE g == [T \in SUBSET (1 .. m) |-> Step(f, T)]
  <2>2. SUBSET (1 .. (m - 1)) \subseteq SUBSET (1 .. m)
    OBVIOUS
  <2>3. \A T \in SUBSET (1 .. (m - 1)) : g[T] = f[T]
    BY <2>1, <2>2
  <2>4. ASSUME NEW T \in SUBSET (1 .. m)
        PROVE  g[T] = Step(g, T)
    <3>1. T # {} => T \ {Max(T)} \in SUBSET (1 .. (m - 1))
      BY BelowMax
    <3>2. g[T] = Step(f, T)
      OBVIOUS
    <3> HIDE DEF g
    <3> QED
      BY <2>3, <3>1, <3>2
  <2> HIDE DEF g, Step
  <2> QED
    BY <2>4
<1>4. iter = [T \in D |-> Step(iter, T)]
  <2>1. n \in S
    <3> HIDE DEF S
    <3> QED
      BY <1>2, <1>3, BoundedInduction
  <2>2. PICK f : \A T \in D : f[T] = Step(f, T)
    BY <2>1
  <2> DEFINE g == [T \in D |-> f[T]]
  <2>3. \A T \in D : T # {} => T \ {Max(T)} \in D
    BY BelowMax
  <2>4. \A T \in D : Step(f, T) = Step(g, T)
    BY <2>3
  <2>5. g = [T \in D |-> Step(g, T)]
    <3> HIDE DEF Step
    <3> QED
      BY <2>2, <2>4
  <2> HIDE DEF g, Step
  <2> QED
    BY <2>5
<1> HIDE DEF iter
<1>5. ASSUME NEW k \in 0 .. n
      PROVE  1 .. k \in D /\ (k = 0 => 1 .. k = {}) /\ (k # 0 => 1 .. k # {})
  <2>1. 1 .. k \subseteq 1 .. n
    OBVIOUS
  <2>2. k = 0 => 1 .. k = {}
    OBVIOUS
  <2>3. k # 0 => 1 \in 1 .. k
    OBVIOUS
  <2> QED
    BY <2>1, <2>2, <2>3
<1>6. \A T \in D : iter[T] = Step(iter, T)
  BY <1>4
<1> HIDE DEF D
<1> DEFINE h == [k \in 0 .. n |-> iter[1 .. k]]
<1>7. h[0] = AllBursts /\ h[n] = iter[1 .. n]
  <2>1. 0 \in 0 .. n /\ n \in 0 .. n
    OBVIOUS
  <2>2. iter[1 .. 0] = AllBursts
    BY <1>5, <1>6, <2>1
  <2> QED
    BY <2>1, <2>2
<1>8. ASSUME NEW k \in 1 .. n
      PROVE  h[k] = Settled(h[k - 1], InOrder[k])
  <2>1. k - 1 \in 0 .. n /\ k \in 0 .. n /\ k # 0
    OBVIOUS
  <2>2. Max(1 .. k) = k /\ (1 .. k) \ {Max(1 .. k)} = 1 .. (k - 1)
    BY MaxUpto
  <2>3. 1 .. k \in D /\ 1 .. k # {}
    BY <1>5, <2>1
  <2>4. iter[1 .. k] = Settled(iter[1 .. (k - 1)], InOrder[k])
    BY <1>6, <2>2, <2>3
  <2> QED
    BY <2>1, <2>4
<1> HIDE DEF h
<1> QED
  BY <1>1, <1>7, <1>8

-----------------------------------------------------------------------------
(***************************************************************************)
(* What is kept of a thread while the trace is read.                       *)
(***************************************************************************)
Kinds == {0, MISSING_DATA_CLUSTERID, DURATION_FILTERED_CLUSTERID, RANGE_FILTERED_CLUSTERID}

IsSequence(s) == \E S : s \in Seq(S)

\* A burst b, stored or not, is a Running state of thread t in the trace tr.
IsStateOf(b, t, tr) ==
  /\ b.Line \in 1 .. Len(tr) /\ tr[b.Line].thread = t /\ IsRunning(tr[b.Line])
  /\ tr[b.Line].time = b.BeginTime /\ tr[b.Line].end = b.EndTime
  /\ b.BeginTime < b.EndTime

\* A burst under construction is one, or has been cleared.
ContainerOK(c, t, tr) ==
  /\ c \in [OngoingBurst : BOOLEAN, Line : Nat, BeginTime : Nat, EndTime : Nat,
            EventsData : {c.EventsData}, BurstEndEvents : {c.BurstEndEvents}]
  /\ c.OngoingBurst => IsStateOf(c, t, tr)
  /\ ~ c.OngoingBurst => c.Line = 0 /\ c.BeginTime = 0 /\ c.EndTime = 0

\* The bursts that are stored, those of thread t in time order.
StoredOK(B, t, tr) ==
  /\ IsSequence(B)
  /\ \A k \in 1 .. Len(B) : /\ B[k].thread \in Thread /\ B[k].kind \in Kinds
                            /\ B[k].BeginTime \in Nat /\ B[k].EndTime \in Nat
                            /\ B[k].thread = t => IsStateOf(B[k], t, tr)
  /\ \A i, k \in 1 .. Len(B) :
       i < k /\ B[i].thread = t /\ B[k].thread = t => B[i].EndTime <= B[k].BeginTime

\* Line is that of a stored burst.
IsStored(B, line) == \E k \in 1 .. Len(B) : B[k].Line = line

\* The first m records of the trace tr have been taken into account for thread t.
ThreadOK(s, t, tr, m) ==
  /\ s \in [Current : {s.Current}, Next : {s.Next}, Stored : {s.Stored}]
  /\ ContainerOK(s.Current, t, tr) /\ ContainerOK(s.Next, t, tr)
  /\ HWC_GROUP_CHANGE_TYPE \notin s.Current.BurstEndEvents
  /\ s.Next.EventsData = NoEvents /\ s.Next.BurstEndEvents = {}
  /\ s.Next.OngoingBurst => s.Current.OngoingBurst /\ s.Current.EndTime <= s.Next.BeginTime
  /\ StoredOK(s.Stored, t, tr)
  /\ s.Current.OngoingBurst =>
       \A k \in 1 .. Len(s.Stored) :
         s.Stored[k].thread = t => s.Stored[k].EndTime <= s.Current.BeginTime
  /\ \A line \in 1 .. m : tr[line].thread = t /\ IsRunning(tr[line]) =>
       IsStored(s.Stored, line) \/ Holds(s.Current, line) \/ Holds(s.Next, line)

\* C is B with bursts of thread t after it.
Extends(B, C, t) ==
  /\ IsSequence(C) /\ Len(B) <= Len(C)
  /\ \A k \in 1 .. Len(B) : C[k] = B[k]
  /\ \A k \in (Len(B) + 1) .. Len(C) :
       /\ C[k].thread = t /\ C[k].kind \in Kinds
       /\ C[k].BeginTime \in Nat /\ C[k].EndTime \in Nat

-----------------------------------------------------------------------------
\* What Append does to a sequence of whatever elements.
LEMMA Appended ==
  ASSUME NEW s, IsSequence(s), NEW x
  PROVE  /\ IsSequence(Append(s, x)) /\ Len(s) \in Nat /\ Len(Append(s, x)) = Len(s) + 1
         /\ \A k \in 1 .. Len(s) : Append(s, x)[k] = s[k]
         /\ Append(s, x)[Len(s) + 1] = x
         /\ DOMAIN Append(s, x) = 1 .. (Len(s) + 1) /\ DOMAIN s = 1 .. Len(s)
<1>1. PICK S : s \in Seq(S)
  BY DEF IsSequence
<1> DEFINE T == S \cup {x}
<1>2. s \in Seq(T) /\ x \in T
  BY <1>1
<1> HIDE DEF T
<1>3. /\ Append(s, x) \in Seq(T) /\ Len(Append(s, x)) = Len(s) + 1
      /\ \A k \in 1 .. Len(s) : Append(s, x)[k] = s[k]
      /\ Append(s, x)[Len(s) + 1] = x
  BY <1>2, AppendProperties
<1>4. DOMAIN Append(s, x) = 1 .. Len(Append(s, x)) /\ DOMAIN s = 1 .. Len(s) /\ Len(s) \in Nat
  BY <1>2, <1>3
<1> QED
  BY <1>3, <1>4 DEF IsSequence

\* A burst is complete or is filtered for one of three reasons.
LEMMA KindIs ==
  ASSUME NEW data, NEW duration
  PROVE  Kind(data, duration) \in Kinds
<1> DEFINE n == Len(Parameters)
           V == {0, MISSING_DATA_CLUSTERID, RANGE_FILTERED_CLUSTERID}
<1>1. n \in Nat /\ DOMAIN Parameters = 1 .. n
  BY ParametersAssumption
<1> HIDE DEF n
<1>2. PICK h : /\ h[0] = 0 /\ GetData(data) = h[n]
               /\ \A k \in 1 .. n : h[k] = Asked(data, h[k - 1], Parameters[k])
  BY <1>1, GetDataStep
<1> DEFINE S == {k \in 0 .. n : h[k] \in V}
<1>3. 0 \in S
  BY <1>1, <1>2
<1>4. ASSUME NEW k \in 1 .. n, k - 1 \in S
      PROVE  k \in S
  <2>1. h[k - 1] \in V /\ h[k] = Asked(data, h[k - 1], Parameters[k])
    BY <1>2, <1>4
  <2> QED
    BY <1>1, <2>1 DEF Asked
<1> HIDE DEF S
<1>5. n \in S
  BY <1>1, <1>3, <1>4, BoundedInduction
<1>6. GetData(data) \in V
  BY <1>2, <1>5 DEF S
<1> HIDE DEF V
<1> QED
  BY <1>6 DEF V, Kinds, Kind

\* A burst with a line is stored with its line and its times; a cleared one is not.
LEMMA NewBurstIs ==
  ASSUME NEW B, IsSequence(B), NEW t, NEW c, NEW tr, ContainerOK(c, t, tr)
  PROVE  /\ ~ c.OngoingBurst => NewBurst(B, t, c) = B
         /\ c.OngoingBurst =>
              \E b : /\ NewBurst(B, t, c) = Append(B, b)
                     /\ b.thread = t /\ b.Line = c.Line /\ b.BeginTime = c.BeginTime
                     /\ b.EndTime = c.EndTime /\ b.kind \in Kinds
<1>1. c.OngoingBurst => c.Line # 0
  BY DEF ContainerOK, IsStateOf
<1>2. ~ c.OngoingBurst => c.Line = 0 /\ c.EndTime = c.BeginTime
  BY DEF ContainerOK
<1> DEFINE b == [thread |-> t, Line |-> c.Line, BeginTime |-> c.BeginTime,
                 EndTime |-> c.EndTime, data |-> NewData(c),
                 kind |-> Kind(NewData(c), c.EndTime - c.BeginTime)]
<1>3. ~ (c.Line = 0 /\ c.EndTime = c.BeginTime) => NewBurst(B, t, c) = Append(B, b)
  BY DEF NewBurst
<1>4. c.Line = 0 /\ c.EndTime = c.BeginTime => NewBurst(B, t, c) = B
  BY DEF NewBurst
<1>5. /\ b.thread = t /\ b.Line = c.Line /\ b.BeginTime = c.BeginTime
      /\ b.EndTime = c.EndTime /\ b.kind \in Kinds
  BY KindIs
<1> HIDE DEF b
<1> QED
  BY <1>1, <1>2, <1>3, <1>4, <1>5

\* The current burst is stored after those of its thread that are.
LEMMA StoreCurrent ==
  ASSUME NEW B, NEW t \in Thread, NEW c, NEW tr, ContainerOK(c, t, tr), StoredOK(B, t, tr),
         c.OngoingBurst =>
           \A k \in 1 .. Len(B) : B[k].thread = t => B[k].EndTime <= c.BeginTime
  PROVE  /\ StoredOK(NewBurst(B, t, c), t, tr) /\ Extends(B, NewBurst(B, t, c), t)
         /\ c.OngoingBurst =>
              /\ IsStored(NewBurst(B, t, c), c.Line)
              /\ \A k \in 1 .. Len(NewBurst(B, t, c)) :
                   NewBurst(B, t, c)[k].thread = t => NewBurst(B, t, c)[k].EndTime <= c.EndTime
<1>1. IsSequence(B)
  BY DEF StoredOK
<1>2. CASE ~ c.OngoingBurst
  <2>1. NewBurst(B, t, c) = B
    BY <1>1, <1>2, NewBurstIs
  <2>2. Len(B) \in Nat
    BY <1>1, Appended
  <2>3. Extends(B, B, t)
    BY <1>1, <2>2 DEF Extends
  <2> QED
    BY <1>2, <2>1, <2>3
<1>3. CASE c.OngoingBurst
  <2>1. PICK b : /\ NewBurst(B, t, c) = Append(B, b)
                 /\ b.thread = t /\ b.Line = c.Line /\ b.BeginTime = c.BeginTime
                 /\ b.EndTime = c.EndTime /\ b.kind \in Kinds
    BY <1>1, <1>3, NewBurstIs
  <2> DEFINE C == Append(B, b)
             l == Len(B)
  <2>2. /\ IsSequence(C) /\ l \in Nat /\ Len(C) = l + 1 /\ C[l + 1] = b
        /\ \A k \in 1 .. l : C[k] = B[k]
    BY <1>1, Appended
  <2> HIDE DEF C
  <2>3. /\ IsStateOf(c, t, tr) /\ c.BeginTime \in Nat /\ c.EndTime \in Nat
        /\ c.BeginTime < c.EndTime
    BY <1>3 DEF ContainerOK, IsStateOf
  <2>4. IsStateOf(b, t, tr)
    BY <2>1, <2>3 DEF IsStateOf
  <2>5. \A k \in 1 .. (l + 1) : k \in 1 .. l \/ k = l + 1
    BY <2>2
  <2>6. ASSUME NEW k \in 1 .. Len(C)
        PROVE  /\ C[k].thread \in Thread /\ C[k].kind \in Kinds
               /\ C[k].BeginTime \in Nat /\ C[k].EndTime \in Nat
               /\ C[k].thread = t => IsStateOf(C[k], t, tr)
               /\ C[k].thread = t => C[k].EndTime <= c.EndTime
    <3>1. CASE k \in 1 .. l
      <4>1. C[k] = B[k]
        BY <2>2, <3>1
      <4>2. /\ B[k].thread \in Thread /\ B[k].kind \in Kinds
            /\ B[k].BeginTime \in Nat /\ B[k].EndTime \in Nat
            /\ B[k].thread = t => IsStateOf(B[k], t, tr)
        BY <3>1 DEF StoredOK
      <4>3. B[k].thread = t => B[k].EndTime <= c.BeginTime
        BY <1>3, <3>1
      <4> QED
        BY <2>3, <4>1, <4>2, <4>3
    <3>2. CASE k = l + 1
      BY <2>1, <2>2, <2>3, <2>4, <3>2
    <3> QED
      BY <2>2, <2>5, <3>1, <3>2
  <2>7. ASSUME NEW i \in 1 .. Len(C), NEW k \in 1 .. Len(C), i < k,
               C[i].thread = t, C[k].thread = t
        PROVE  C[i].EndTime <= C[k].BeginTime
    <3>1. i \in 1 .. l /\ C[i] = B[i]
      BY <2>2, <2>7
    <3>2. CASE k \in 1 .. l
      <4>1. C[k] = B[k]
        BY <2>2, <3>2
      <4> QED
        BY <2>7, <3>1, <3>2, <4>1 DEF StoredOK
    <3>3. CASE k = l + 1
      BY <1>3, <2>1, <2>2, <2>7, <3>1, <3>3
    <3> QED
      BY <2>2, <2>5, <3>2, <3>3
  <2>8. StoredOK(C, t, tr)
    BY <2>2, <2>6, <2>7 DEF StoredOK
  <2>9. Extends(B, C, t)
    <3>1. \A k \in (Len(B) + 1) .. Len(C) : k = l + 1
      BY <2>2
    <3>2. /\ C[l + 1].thread = t /\ C[l + 1].kind \in Kinds
          /\ C[l + 1].BeginTime \in Nat /\ C[l + 1].EndTime \in Nat
      BY <2>1, <2>2, <2>3
    <3>3. /\ IsSequence(C) /\ Len(B) <= Len(C)
          /\ \A k \in 1 .. Len(B) : C[k] = B[k]
      BY <2>2
    <3> QED
      BY <3>1, <3>2, <3>3 DEF Extends
  <2>10. IsStored(C, c.Line)
    <3>1. l + 1 \in 1 .. Len(C)
      BY <2>2
    <3> QED
      BY <2>1, <2>2, <3>1 DEF IsStored
  <2> QED
    BY <2>1, <2>6, <2>8, <2>9, <2>10 DEF C
<1> QED
  BY <1>2, <1>3

\* What is stored stays stored, and what extends an extension extends.
LEMMA ExtendsKeeps ==
  ASSUME NEW B, IsSequence(B), NEW C, NEW t, Extends(B, C, t)
  PROVE  /\ \A line : IsStored(B, line) => IsStored(C, line)
         /\ \A E : Extends(C, E, t) => Extends(B, E, t)
<1>0. Len(B) \in Nat /\ Len(C) \in Nat
  BY Appended DEF Extends
<1>1. \A k \in 1 .. Len(B) : k \in 1 .. Len(C) /\ C[k] = B[k]
  BY <1>0 DEF Extends
<1>2. ASSUME NEW E, Extends(C, E, t)
      PROVE  Extends(B, E, t)
  <2>0. Len(E) \in Nat
    BY <1>2, Appended DEF Extends
  <2>1. IsSequence(E) /\ Len(B) <= Len(E)
    BY <1>0, <1>2, <2>0 DEF Extends
  <2>2. \A k \in 1 .. Len(B) : E[k] = B[k]
    BY <1>1, <1>2 DEF Extends
  <2>3. ASSUME NEW k \in (Len(B) + 1) .. Len(E)
        PROVE  /\ E[k].thread = t /\ E[k].kind \in Kinds
               /\ E[k].BeginTime \in Nat /\ E[k].EndTime \in Nat
    <3>1. CASE k \in 1 .. Len(C)
      <4>1. k \in (Len(B) + 1) .. Len(C) /\ E[k] = C[k]
        BY <1>0, <1>2, <3>1 DEF Extends
      <4> QED
        BY <4>1 DEF Extends
    <3>2. CASE k \notin 1 .. Len(C)
      <4>1. k \in (Len(C) + 1) .. Len(E)
        BY <1>0, <2>0, <3>2
      <4> QED
        BY <1>2, <4>1 DEF Extends
    <3> QED
      BY <3>1, <3>2
  <2> QED
    BY <2>1, <2>2, <2>3 DEF Extends
<1> QED
  BY <1>1, <1>2 DEF IsStored

\* A sequence of bursts extends itself.
LEMMA ExtendsItself ==
  ASSUME NEW B, NEW t, NEW tr, StoredOK(B, t, tr)
  PROVE  IsSequence(B) /\ Extends(B, B, t)
<1>1. IsSequence(B)
  BY DEF StoredOK
<1>2. Len(B) \in Nat
  BY <1>1, Appended
<1> QED
  BY <1>1, <1>2 DEF Extends
-----------------------------------------------------------------------------
\* What Clear leaves in a burst under construction.
LEMMA Cleared ==
  ASSUME NEW c, NEW t, NEW tr
  PROVE  /\ ContainerOK(Clear(c), t, tr) /\ ~ Clear(c).OngoingBurst
         /\ Clear(c).EventsData = NoEvents /\ Clear(c).BurstEndEvents = c.BurstEndEvents
BY DEF Clear, TaskDataContainer, ContainerOK

\* An assignment makes a burst the other one, but for the types met at the end.
LEMMA AssignedIs ==
  ASSUME NEW c, NEW n, NEW t, NEW tr, ContainerOK(n, t, tr), n.OngoingBurst = c.OngoingBurst
  PROVE  /\ ContainerOK(Assigned(c, n), t, tr)
         /\ Assigned(c, n).BurstEndEvents = c.BurstEndEvents
         /\ Assigned(c, n).OngoingBurst = n.OngoingBurst /\ Assigned(c, n).Line = n.Line
         /\ Assigned(c, n).BeginTime = n.BeginTime /\ Assigned(c, n).EndTime = n.EndTime
<1> DEFINE a == Assigned(c, n)
<1>1. /\ a \in [OngoingBurst : BOOLEAN, Line : Nat, BeginTime : Nat, EndTime : Nat,
                EventsData : {a.EventsData}, BurstEndEvents : {a.BurstEndEvents}]
      /\ a.BurstEndEvents = c.BurstEndEvents
      /\ a.OngoingBurst = n.OngoingBurst /\ a.Line = n.Line
      /\ a.BeginTime = n.BeginTime /\ a.EndTime = n.EndTime
  BY DEF Assigned, ContainerOK
<1> HIDE DEF a
<1>2. ContainerOK(a, t, tr)
  BY <1>1 DEF ContainerOK, IsStateOf
<1> QED
  BY <1>1, <1>2 DEF a

Counted(c, data, ends) == [c EXCEPT !.EventsData = data, !.BurstEndEvents = ends]

\* Counters change nothing else.
LEMMA CountedIs ==
  ASSUME NEW c, NEW t, NEW tr, ContainerOK(c, t, tr), NEW data, NEW ends
  PROVE  /\ ContainerOK(Counted(c, data, ends), t, tr)
         /\ Counted(c, data, ends).BurstEndEvents = ends
         /\ Counted(c, data, ends).OngoingBurst = c.OngoingBurst
         /\ Counted(c, data, ends).Line = c.Line
         /\ Counted(c, data, ends).BeginTime = c.BeginTime
         /\ Counted(c, data, ends).EndTime = c.EndTime
<1> DEFINE d == Counted(c, data, ends)
<1>1. /\ d \in [OngoingBurst : BOOLEAN, Line : Nat, BeginTime : Nat, EndTime : Nat,
                EventsData : {d.EventsData}, BurstEndEvents : {d.BurstEndEvents}]
      /\ d.BurstEndEvents = ends
      /\ d.OngoingBurst = c.OngoingBurst /\ d.Line = c.Line
      /\ d.BeginTime = c.BeginTime /\ d.EndTime = c.EndTime
  BY DEF ContainerOK, Counted
<1> HIDE DEF d
<1>2. ContainerOK(d, t, tr)
  BY <1>1 DEF ContainerOK, IsStateOf
<1> QED
  BY <1>1, <1>2 DEF d

\* A container that is filled is the state it is filled with, and keeps its counters.
LEMMA Filled ==
  ASSUME NEW c, NEW t, NEW tr, ContainerOK(c, t, tr), NEW line \in 1 .. Len(tr),
         tr[line] \in StateRecord, tr[line].thread = t, IsRunning(tr[line]),
         tr[line].time < tr[line].end, Len(tr) \in Nat
  PROVE  LET d == FillDataContainer(c, tr[line], line)
         IN  /\ ContainerOK(d, t, tr) /\ d.OngoingBurst /\ d.Line = line
             /\ d.BeginTime = tr[line].time /\ d.EndTime = tr[line].end
             /\ d.EventsData = c.EventsData /\ d.BurstEndEvents = c.BurstEndEvents
<1> DEFINE d == FillDataContainer(c, tr[line], line)
<1>1. tr[line].time \in Nat /\ tr[line].end \in Nat /\ line \in Nat
  BY DEF StateRecord
<1>2. /\ d \in [OngoingBurst : BOOLEAN, Line : Nat, BeginTime : Nat, EndTime : Nat,
                EventsData : {d.EventsData}, BurstEndEvents : {d.BurstEndEvents}]
      /\ d.OngoingBurst /\ d.Line = line
      /\ d.BeginTime = tr[line].time /\ d.EndTime = tr[line].end
      /\ d.EventsData = c.EventsData /\ d.BurstEndEvents = c.BurstEndEvents
  BY <1>1 DEF FillDataContainer, ContainerOK
<1> HIDE DEF d
<1>3. ContainerOK(d, t, tr)
  BY <1>2 DEF ContainerOK, IsStateOf
<1> QED
  BY <1>2, <1>3 DEF d

-----------------------------------------------------------------------------
(***************************************************************************)
(* The steps of the reader.                                                *)
(***************************************************************************)
\* The current burst is stored and the one in wait becomes current.
LEMMA FlushOK ==
  ASSUME NEW s, NEW t \in Thread, NEW tr, NEW m, ThreadOK(s, t, tr, m)
  PROVE  /\ ThreadOK(Flush(s, t), t, tr, m)
         /\ Extends(s.Stored, Flush(s, t).Stored, t)
         /\ ~ Flush(s, t).Next.OngoingBurst
         /\ Flush(s, t).Current.OngoingBurst = s.Next.OngoingBurst
         /\ s.Next.OngoingBurst => Flush(s, t).Current.EndTime = s.Next.EndTime
<1> DEFINE c == s.Current
           n == s.Next
           B == s.Stored
           f == Flush(s, t)
           C == NewBurst(B, t, c)
<1>1. /\ ContainerOK(c, t, tr) /\ ContainerOK(n, t, tr)
      /\ HWC_GROUP_CHANGE_TYPE \notin c.BurstEndEvents
      /\ n.EventsData = NoEvents /\ n.BurstEndEvents = {}
      /\ n.OngoingBurst => c.OngoingBurst /\ c.EndTime <= n.BeginTime
      /\ StoredOK(B, t, tr)
      /\ c.OngoingBurst =>
           \A k \in 1 .. Len(B) : B[k].thread = t => B[k].EndTime <= c.BeginTime
  BY DEF ThreadOK
<1>2. \A line \in 1 .. m : tr[line].thread = t /\ IsRunning(tr[line]) =>
        IsStored(B, line) \/ Holds(c, line) \/ Holds(n, line)
  BY DEF ThreadOK
<1>3. /\ f = [Current |-> f.Current, Next |-> f.Next, Stored |-> C] /\ f.Stored = C
      /\ n.OngoingBurst => f.Current = Assigned(c, n) /\ f.Next = Clear(n)
      /\ ~ n.OngoingBurst => f.Current = Clear(c) /\ f.Next = n
  BY DEF Flush
<1> HIDE DEF c, n, B, f, C
<1>4. /\ StoredOK(C, t, tr) /\ Extends(B, C, t)
      /\ c.OngoingBurst =>
           /\ IsStored(C, c.Line)
           /\ \A k \in 1 .. Len(C) : C[k].thread = t => C[k].EndTime <= c.EndTime
  BY <1>1, StoreCurrent DEF C
<1>5. /\ n.OngoingBurst \in BOOLEAN /\ n.BeginTime \in Nat
      /\ c.OngoingBurst \in BOOLEAN /\ c.EndTime \in Nat
  BY <1>1 DEF ContainerOK
<1>6. \A line : IsStored(B, line) \/ Holds(c, line) => IsStored(C, line)
  BY <1>1, <1>4, ExtendsKeeps DEF Holds, StoredOK
<1>7. CASE n.OngoingBurst
  <2>1. /\ ContainerOK(f.Current, t, tr) /\ f.Current.BurstEndEvents = c.BurstEndEvents
        /\ f.Current.OngoingBurst /\ f.Current.Line = n.Line
        /\ f.Current.BeginTime = n.BeginTime /\ f.Current.EndTime = n.EndTime
    <3>1. n.OngoingBurst = c.OngoingBurst
      BY <1>1, <1>5, <1>7
    <3>2. f.Current = Assigned(c, n)
      BY <1>3, <1>7
    <3>3. /\ ContainerOK(Assigned(c, n), t, tr)
          /\ Assigned(c, n).BurstEndEvents = c.BurstEndEvents
          /\ Assigned(c, n).OngoingBurst = n.OngoingBurst /\ Assigned(c, n).Line = n.Line
          /\ Assigned(c, n).BeginTime = n.BeginTime /\ Assigned(c, n).EndTime = n.EndTime
      BY <1>1, <3>1, AssignedIs, Zenon
    <3> QED
      BY <1>7, <3>2, <3>3, Zenon
  <2>2. /\ ContainerOK(f.Next, t, tr) /\ ~ f.Next.OngoingBurst
        /\ f.Next.EventsData = NoEvents /\ f.Next.BurstEndEvents = {}
    BY <1>1, <1>3, <1>7, Cleared
  <2>3. \A k \in 1 .. Len(C) : C[k].thread = t => C[k].EndTime <= f.Current.BeginTime
    <3> SUFFICES ASSUME NEW k \in 1 .. Len(C), C[k].thread = t
                 PROVE  C[k].EndTime <= f.Current.BeginTime
      OBVIOUS
    <3>1. C[k].EndTime <= c.EndTime /\ C[k].EndTime \in Nat
      BY <1>1, <1>4, <1>7 DEF StoredOK
    <3> QED
      BY <1>1, <1>5, <1>7, <2>1, <3>1
  <2>4. \A line \in 1 .. m : tr[line].thread = t /\ IsRunning(tr[line]) =>
          IsStored(C, line) \/ Holds(f.Current, line) \/ Holds(f.Next, line)
    BY <1>2, <1>6, <1>7, <2>1 DEF Holds
  <2>5. ThreadOK(f, t, tr, m)
    BY <1>1, <1>3, <1>4, <2>1, <2>2, <2>3, <2>4 DEF ThreadOK
  <2> QED
    BY <1>3, <1>4, <1>7, <2>1, <2>2, <2>5 DEF f, n, B
<1>8. CASE ~ n.OngoingBurst
  <2>1. /\ ContainerOK(f.Current, t, tr) /\ f.Current.BurstEndEvents = c.BurstEndEvents
        /\ ~ f.Current.OngoingBurst /\ f.Next = n
    BY <1>1, <1>3, <1>8, Cleared
  <2>2. \A line \in 1 .. m : tr[line].thread = t /\ IsRunning(tr[line]) =>
          IsStored(C, line) \/ Holds(f.Current, line) \/ Holds(f.Next, line)
    BY <1>2, <1>6, <1>8 DEF Holds
  <2>3. ThreadOK(f, t, tr, m)
    BY <1>1, <1>3, <1>4, <1>8, <2>1, <2>2 DEF ThreadOK
  <2>4. f.Current.OngoingBurst = n.OngoingBurst
    <3>1. f.Current.OngoingBurst \in BOOLEAN
      BY <2>1 DEF ContainerOK
    <3> QED
      BY <1>5, <1>8, <2>1, <3>1
  <2> QED
    BY <1>3, <1>4, <1>8, <2>1, <2>3, <2>4 DEF f, n, B
<1> QED
  BY <1>7, <1>8

\* One value at the end of a burst.
LEMMA EndEventOK ==
  ASSUME NEW s, NEW t \in Thread, NEW tr, NEW m, ThreadOK(s, t, tr, m), NEW tv
  PROVE  /\ ThreadOK(EndEvent(s, t, tv), t, tr, m)
         /\ Extends(s.Stored, EndEvent(s, t, tv).Stored, t)
<1>1. CASE tv.type = HWC_GROUP_CHANGE_TYPE
  BY <1>1, FlushOK DEF EndEvent
<1>2. CASE tv.type # HWC_GROUP_CHANGE_TYPE
  <2> DEFINE c == s.Current
             data == AddValue(c.EventsData, tv)
             ends == c.BurstEndEvents \cup {tv.type}
             d == Counted(c, data, ends)
             e == EndEvent(s, t, tv)
  <2>0. s = [Current |-> c, Next |-> s.Next, Stored |-> s.Stored]
    BY DEF ThreadOK
  <2>1. e = [Current |-> d, Next |-> s.Next, Stored |-> s.Stored]
    <3> HIDE DEF c, data
    <3>1. e = [s EXCEPT !.Current = d]
      BY <1>2, <2>0 DEF EndEvent, Counted, c, data
    <3> QED
      BY <2>0, <3>1
  <2>2. ContainerOK(c, t, tr) /\ HWC_GROUP_CHANGE_TYPE \notin c.BurstEndEvents
    BY DEF ThreadOK
  <2> HIDE DEF e
  <2>3. /\ e.Current = d /\ e.Next = s.Next /\ e.Stored = s.Stored
        /\ e \in [Current : {e.Current}, Next : {e.Next}, Stored : {e.Stored}]
    BY <2>1
  <2> HIDE DEF c, data, ends, d
  <2>4. /\ ContainerOK(d, t, tr) /\ d.BurstEndEvents = ends
        /\ d.OngoingBurst = c.OngoingBurst /\ d.Line = c.Line
        /\ d.BeginTime = c.BeginTime /\ d.EndTime = c.EndTime
    BY <2>2, CountedIs DEF d
  <2>5. HWC_GROUP_CHANGE_TYPE \notin ends
    BY <1>2, <2>2 DEF ends
  <2>6. \A line : Holds(e.Current, line) <=> Holds(s.Current, line)
    BY <2>3, <2>4 DEF Holds, c
  <2>7. ThreadOK(e, t, tr, m)
    BY <2>3, <2>4, <2>5, <2>6 DEF ThreadOK, c
  <2>8. Extends(s.Stored, s.Stored, t)
    <3>1. IsSequence(s.Stored)
      BY DEF ThreadOK, StoredOK
    <3>2. Len(s.Stored) \in Nat
      BY <3>1, Appended
    <3> QED
      BY <3>1, <3>2 DEF Extends
  <2> QED
    BY <2>3, <2>7, <2>8 DEF e
<1> QED
  BY <1>1, <1>2

\* All values of one record at the end of a burst.
LEMMA EndEventsOK ==
  ASSUME NEW s, NEW t \in Thread, NEW tr, NEW m, ThreadOK(s, t, tr, m),
         NEW V, NEW data \in Seq(V)
  PROVE  /\ ThreadOK(EndEvents(s, t, data), t, tr, m)
         /\ Extends(s.Stored, EndEvents(s, t, data).Stored, t)
<1> DEFINE n == Len(data)
<1>1. n \in Nat /\ DOMAIN data = 1 .. n
  OBVIOUS
<1> HIDE DEF n
<1>h. PICK h : EndTrail(h, s, t, data, n)
  BY <1>1, EndEventsStep
<1>2. /\ h[0] = s /\ EndEvents(s, t, data) = h[n]
      /\ \A k \in 1 .. n : h[k] = EndEvent(h[k - 1], t, data[k])
  BY <1>h DEF EndTrail
<1> DEFINE S == {k \in 0 .. n : ThreadOK(h[k], t, tr, m) /\ Extends(s.Stored, h[k].Stored, t)}
<1>3. IsSequence(s.Stored)
  BY DEF ThreadOK, StoredOK
<1>4. 0 \in S
  <2>1. Extends(s.Stored, s.Stored, t)
    BY ExtendsItself DEF ThreadOK
  <2> QED
    BY <1>1, <1>2, <2>1
<1>5. ASSUME NEW k \in 1 .. n, k - 1 \in S
      PROVE  k \in S
  <2>1. ThreadOK(h[k - 1], t, tr, m) /\ Extends(s.Stored, h[k - 1].Stored, t)
    BY <1>5
  <2>2. ThreadOK(h[k], t, tr, m) /\ Extends(h[k - 1].Stored, h[k].Stored, t)
    BY <1>2, <2>1, EndEventOK
  <2>3. Extends(s.Stored, h[k].Stored, t)
    BY <1>3, <2>1, <2>2, ExtendsKeeps
  <2> QED
    BY <1>1, <2>2, <2>3
<1> HIDE DEF S
<1>6. n \in S
  BY <1>1, <1>4, <1>5, BoundedInduction
<1> QED
  BY <1>2, <1>6 DEF S

\* An event record.
LEMMA CheckEventOK ==
  ASSUME NEW s, NEW t \in Thread, NEW tr, NEW m, ThreadOK(s, t, tr, m), NEW e \in EventRecord
  PROVE  /\ ThreadOK(CheckEvent(s, t, e), t, tr, m)
         /\ Extends(s.Stored, CheckEvent(s, t, e).Stored, t)
<1> DEFINE now == IF e.time > s.Current.EndTime THEN Flush(s, t) ELSE s
           data == AddValues(now.Current.EventsData, e.data)
           inside == [now EXCEPT !.Current.EventsData = AddValues(@, e.data)]
<1>1. e.data \in Seq([type : STRING, value : Int])
  BY DEF EventRecord
<1>2. IsSequence(s.Stored) /\ Extends(s.Stored, s.Stored, t)
  BY ExtendsItself DEF ThreadOK
<1>3. ThreadOK(now, t, tr, m) /\ Extends(s.Stored, now.Stored, t)
  BY <1>2, FlushOK
<1>4. CheckEvent(s, t, e) \in {s, EndEvents(now, t, e.data), inside, now}
  BY DEF CheckEvent
<1> HIDE DEF now
<1>5. /\ ThreadOK(EndEvents(now, t, e.data), t, tr, m)
      /\ Extends(s.Stored, EndEvents(now, t, e.data).Stored, t)
  <2>1. /\ ThreadOK(EndEvents(now, t, e.data), t, tr, m)
        /\ Extends(now.Stored, EndEvents(now, t, e.data).Stored, t)
    BY <1>1, <1>3, EndEventsOK
  <2> QED
    BY <1>2, <1>3, <2>1, ExtendsKeeps
<1>6. ThreadOK(inside, t, tr, m) /\ Extends(s.Stored, inside.Stored, t)
  <2> DEFINE c == now.Current
             d == Counted(c, data, c.BurstEndEvents)
  <2>1. ContainerOK(c, t, tr) /\ now = [Current |-> c, Next |-> now.Next, Stored |-> now.Stored]
    BY <1>3 DEF ThreadOK
  <2>2. inside = [Current |-> d, Next |-> now.Next, Stored |-> now.Stored]
    <3>1. c \in [OngoingBurst : BOOLEAN, Line : Nat, BeginTime : Nat, EndTime : Nat,
                 EventsData : {c.EventsData}, BurstEndEvents : {c.BurstEndEvents}]
      BY <2>1 DEF ContainerOK
    <3> HIDE DEF c
    <3>2. data = AddValues(c.EventsData, e.data)
      BY DEF c
    <3> HIDE DEF data
    <3>3. d = [c EXCEPT !.EventsData = data]
      BY <3>1 DEF Counted
    <3>4. inside = [now EXCEPT !.Current = [c EXCEPT !.EventsData = data]]
      BY <2>1, <3>1, <3>2 DEF c
    <3> HIDE DEF d, inside
    <3> QED
      BY <2>1, <3>3, <3>4
  <2> HIDE DEF inside
  <2>3. /\ inside.Current = d /\ inside.Next = now.Next /\ inside.Stored = now.Stored
        /\ inside \in [Current : {inside.Current}, Next : {inside.Next}, Stored : {inside.Stored}]
    BY <2>2
  <2> HIDE DEF c, data, d
  <2>4. /\ ContainerOK(d, t, tr) /\ d.BurstEndEvents = c.BurstEndEvents
        /\ d.OngoingBurst = c.OngoingBurst /\ d.Line = c.Line
        /\ d.BeginTime = c.BeginTime /\ d.EndTime = c.EndTime
    BY <2>1, CountedIs DEF d
  <2>5. \A line : Holds(inside.Current, line) <=> Holds(now.Current, line)
    BY <2>3, <2>4 DEF Holds, c
  <2>6. ThreadOK(inside, t, tr, m)
    BY <1>3, <2>3, <2>4, <2>5 DEF ThreadOK, c
  <2> QED
    BY <1>3, <2>3, <2>6
<1> HIDE DEF inside
<1> QED
  BY <1>2, <1>3, <1>4, <1>5, <1>6

\* One more record in the file leaves what is kept as it is.
LEMMA Lifted ==
  ASSUME NEW s, NEW t, NEW tr, IsSequence(tr), NEW m, ThreadOK(s, t, tr, m), NEW r,
         m <= Len(tr), m \in Nat
  PROVE  ThreadOK(s, t, Append(tr, r), m)
<1> DEFINE T == Append(tr, r)
<1>1. /\ Len(tr) \in Nat /\ Len(T) = Len(tr) + 1
      /\ \A line \in 1 .. Len(tr) : T[line] = tr[line]
  BY Appended
<1> HIDE DEF T
<1>2. \A b : IsStateOf(b, t, tr) => IsStateOf(b, t, T)
  <2> SUFFICES ASSUME NEW b, IsStateOf(b, t, tr)
               PROVE  IsStateOf(b, t, T)
    OBVIOUS
  <2>1. b.Line \in 1 .. Len(tr) /\ T[b.Line] = tr[b.Line] /\ b.Line \in 1 .. Len(T)
    BY <1>1 DEF IsStateOf
  <2> QED
    BY <2>1 DEF IsStateOf
<1>3. \A c : ContainerOK(c, t, tr) => ContainerOK(c, t, T)
  BY <1>2 DEF ContainerOK
<1>4. StoredOK(s.Stored, t, tr) => StoredOK(s.Stored, t, T)
  BY <1>2 DEF StoredOK
<1>5. \A line \in 1 .. m : line \in 1 .. Len(tr) /\ T[line] = tr[line]
  BY <1>1
<1>6. ThreadOK(s, t, T, m)
  BY <1>3, <1>4, <1>5 DEF ThreadOK
<1> QED
  BY <1>6 DEF T

\* A record that is no Running state of the thread is none to account for.
LEMMA NoStateToKeep ==
  ASSUME NEW s, NEW t, NEW tr, NEW m \in Nat, ThreadOK(s, t, tr, m),
         tr[m + 1].thread # t \/ ~ IsRunning(tr[m + 1])
  PROVE  ThreadOK(s, t, tr, m + 1)
<1>1. \A line \in 1 .. (m + 1) : line \in 1 .. m \/ line = m + 1
  OBVIOUS
<1>2. \A line \in 1 .. (m + 1) : tr[line].thread = t /\ IsRunning(tr[line]) =>
        IsStored(s.Stored, line) \/ Holds(s.Current, line) \/ Holds(s.Next, line)
  BY <1>1 DEF ThreadOK
<1> QED
  BY <1>2 DEF ThreadOK

\* The state r, at a line, becomes the current burst or the one in wait.
WithCurrent(s, r, line) == [s EXCEPT !.Current = FillDataContainer(@, r, line)]

WithNext(s, r, line) == [s EXCEPT !.Next = FillDataContainer(@, r, line)]

\* A Running state becomes the current burst of a thread that has none.
LEMMA FillCurrentOK ==
  ASSUME NEW s, NEW t \in Thread, NEW tr, NEW m \in Nat, Len(tr) = m + 1,
         ThreadOK(s, t, tr, m), ~ s.Current.OngoingBurst,
         tr[m + 1] \in StateRecord, tr[m + 1].thread = t, IsRunning(tr[m + 1]),
         tr[m + 1].time < tr[m + 1].end,
         \A k \in 1 .. Len(s.Stored) :
           s.Stored[k].thread = t => s.Stored[k].EndTime <= tr[m + 1].time
  PROVE  ThreadOK(WithCurrent(s, tr[m + 1], m + 1), t, tr, m + 1)
<1> DEFINE c == s.Current
           d == FillDataContainer(c, tr[m + 1], m + 1)
           e == WithCurrent(s, tr[m + 1], m + 1)
<1>1. /\ s = [Current |-> c, Next |-> s.Next, Stored |-> s.Stored]
      /\ ContainerOK(c, t, tr) /\ HWC_GROUP_CHANGE_TYPE \notin c.BurstEndEvents
      /\ ~ s.Next.OngoingBurst
  BY DEF ThreadOK
<1>2. e = [Current |-> d, Next |-> s.Next, Stored |-> s.Stored]
  <2> HIDE DEF c
  <2>1. e = [s EXCEPT !.Current = d]
    BY <1>1 DEF c, WithCurrent
  <2> HIDE DEF d, e
  <2> QED
    BY <1>1, <2>1
<1> HIDE DEF e
<1>3. /\ e.Current = d /\ e.Next = s.Next /\ e.Stored = s.Stored
      /\ e \in [Current : {e.Current}, Next : {e.Next}, Stored : {e.Stored}]
  BY <1>2
<1>4. /\ ContainerOK(d, t, tr) /\ d.OngoingBurst /\ d.Line = m + 1
      /\ d.BeginTime = tr[m + 1].time /\ d.EndTime = tr[m + 1].end
      /\ d.BurstEndEvents = c.BurstEndEvents
  <2>1. m + 1 \in 1 .. Len(tr) /\ Len(tr) \in Nat
    OBVIOUS
  <2> HIDE DEF c
  <2> QED
    BY <1>1, <2>1, Filled
<1> HIDE DEF d
<1>5. ASSUME NEW line \in 1 .. (m + 1), tr[line].thread = t, IsRunning(tr[line])
      PROVE  IsStored(e.Stored, line) \/ Holds(e.Current, line) \/ Holds(e.Next, line)
  <2>1. CASE line \in 1 .. m
    BY <1>3, <1>5, <2>1 DEF ThreadOK, Holds
  <2>2. CASE line = m + 1
    BY <1>3, <1>4, <2>2 DEF Holds
  <2> QED
    BY <2>1, <2>2
<1>6. ThreadOK(e, t, tr, m + 1)
  <2>1. /\ e.Next.EventsData = NoEvents /\ e.Next.BurstEndEvents = {}
        /\ ContainerOK(e.Next, t, tr) /\ StoredOK(e.Stored, t, tr)
    BY <1>3 DEF ThreadOK
  <2>2. \A k \in 1 .. Len(e.Stored) :
          e.Stored[k].thread = t => e.Stored[k].EndTime <= e.Current.BeginTime
    BY <1>3, <1>4
  <2>3. ContainerOK(e.Current, t, tr) /\ HWC_GROUP_CHANGE_TYPE \notin e.Current.BurstEndEvents
    BY <1>1, <1>3, <1>4
  <2>4. ~ e.Next.OngoingBurst
    BY <1>1, <1>3
  <2> QED
    BY <1>3, <1>5, <2>1, <2>2, <2>3, <2>4 DEF ThreadOK
<1> QED
  BY <1>6 DEF e

\* A Running state waits for the current burst, which ends before it begins.
LEMMA FillNextOK ==
  ASSUME NEW s, NEW t \in Thread, NEW tr, NEW m \in Nat, Len(tr) = m + 1,
         ThreadOK(s, t, tr, m), s.Current.OngoingBurst, ~ s.Next.OngoingBurst,
         tr[m + 1] \in StateRecord, tr[m + 1].thread = t, IsRunning(tr[m + 1]),
         tr[m + 1].time < tr[m + 1].end, s.Current.EndTime <= tr[m + 1].time
  PROVE  ThreadOK(WithNext(s, tr[m + 1], m + 1), t, tr, m + 1)
<1> DEFINE n == s.Next
           d == FillDataContainer(n, tr[m + 1], m + 1)
           e == WithNext(s, tr[m + 1], m + 1)
<1>1. /\ s = [Current |-> s.Current, Next |-> n, Stored |-> s.Stored]
      /\ ContainerOK(n, t, tr) /\ n.EventsData = NoEvents /\ n.BurstEndEvents = {}
  BY DEF ThreadOK
<1>2. e = [Current |-> s.Current, Next |-> d, Stored |-> s.Stored]
  <2> HIDE DEF n
  <2>1. e = [s EXCEPT !.Next = d]
    BY <1>1 DEF n, WithNext
  <2> HIDE DEF d, e
  <2> QED
    BY <1>1, <2>1
<1> HIDE DEF e
<1>3. /\ e.Current = s.Current /\ e.Next = d /\ e.Stored = s.Stored
      /\ e \in [Current : {e.Current}, Next : {e.Next}, Stored : {e.Stored}]
  BY <1>2
<1>4. /\ ContainerOK(d, t, tr) /\ d.OngoingBurst /\ d.Line = m + 1
      /\ d.BeginTime = tr[m + 1].time /\ d.EndTime = tr[m + 1].end
      /\ d.EventsData = NoEvents /\ d.BurstEndEvents = {}
  <2>1. m + 1 \in 1 .. Len(tr) /\ Len(tr) \in Nat
    OBVIOUS
  <2> HIDE DEF n
  <2> QED
    BY <1>1, <2>1, Filled
<1>7. ~ n.OngoingBurst
  OBVIOUS
<1> HIDE DEF d, n
<1>5. ASSUME NEW line \in 1 .. (m + 1), tr[line].thread = t, IsRunning(tr[line])
      PROVE  IsStored(e.Stored, line) \/ Holds(e.Current, line) \/ Holds(e.Next, line)
  <2>1. CASE line \in 1 .. m
    BY <1>3, <1>5, <1>7, <2>1 DEF ThreadOK, Holds
  <2>2. CASE line = m + 1
    BY <1>3, <1>4, <2>2 DEF Holds
  <2> QED
    BY <2>1, <2>2
<1>6. ThreadOK(e, t, tr, m + 1)
  <2>1. /\ ContainerOK(e.Current, t, tr) /\ StoredOK(e.Stored, t, tr)
        /\ HWC_GROUP_CHANGE_TYPE \notin e.Current.BurstEndEvents
        /\ \A k \in 1 .. Len(e.Stored) :
             e.Stored[k].thread = t => e.Stored[k].EndTime <= e.Current.BeginTime
    BY <1>3 DEF ThreadOK
  <2>2. /\ ContainerOK(e.Next, t, tr) /\ e.Next.EventsData = NoEvents
        /\ e.Next.BurstEndEvents = {} /\ e.Current.OngoingBurst
        /\ e.Current.EndTime <= e.Next.BeginTime
    BY <1>3, <1>4
  <2> QED
    BY <1>3, <1>5, <2>1, <2>2 DEF ThreadOK
<1> QED
  BY <1>6 DEF e

\* The Running states of thread t in the trace tr end before r begins.
EndBefore(tr, t, r) ==
  \A line \in 1 .. Len(tr) : tr[line].thread = t /\ IsRunning(tr[line]) => tr[line].end <= r.time

\* A state record.
LEMMA CheckStateOK ==
  ASSUME NEW s, NEW t \in Thread, NEW tr, IsSequence(tr), ThreadOK(s, t, tr, Len(tr)),
         NEW r \in StateRecord, r.thread = t,
         IsRunning(r) => r.time < r.end /\ EndBefore(tr, t, r)
  PROVE  /\ ThreadOK(CheckState(s, t, r, Len(tr) + 1), t, Append(tr, r), Len(tr) + 1)
         /\ Extends(s.Stored, CheckState(s, t, r, Len(tr) + 1).Stored, t)
<1> DEFINE m == Len(tr)
           T == Append(tr, r)
           f == Flush(s, t)
           now == CheckState(s, t, r, m + 1)
<1>1. m \in Nat /\ Len(T) = m + 1 /\ T[m + 1] = r
  BY Appended
<1> HIDE DEF T
<1>2. ThreadOK(s, t, T, m)
  BY <1>1, Lifted DEF T
<1>3. /\ ThreadOK(f, t, tr, m) /\ Extends(s.Stored, f.Stored, t)
      /\ ~ f.Next.OngoingBurst /\ f.Current.OngoingBurst = s.Next.OngoingBurst
      /\ s.Next.OngoingBurst => f.Current.EndTime = s.Next.EndTime
  BY FlushOK
<1>4. ThreadOK(f, t, T, m)
  BY <1>1, <1>3, Lifted DEF T
<1>5. Extends(s.Stored, s.Stored, t)
  BY ExtendsItself DEF ThreadOK
<1>6. CASE ~ IsRunning(r)
  <2>1. now = s
    BY <1>6 DEF CheckState, IsRunning, StateRecord
  <2>2. ThreadOK(s, t, T, m + 1)
    BY <1>1, <1>2, <1>6, NoStateToKeep
  <2> QED
    BY <1>5, <2>1, <2>2 DEF T
<1>7. CASE IsRunning(r)
  <2>1. r.running /\ r.time \in Nat /\ r.time < r.end /\ EndBefore(tr, t, r)
    BY <1>7 DEF IsRunning, StateRecord
  <2>2. \A x : ThreadOK(x, t, tr, m) =>
          \A k \in 1 .. Len(x.Stored) : x.Stored[k].thread = t => x.Stored[k].EndTime <= r.time
    BY <2>1 DEF ThreadOK, StoredOK, IsStateOf, EndBefore
  <2>3. /\ s.Current.OngoingBurst => s.Current.EndTime <= r.time
        /\ s.Next.OngoingBurst => /\ s.Next.EndTime <= r.time
                                  /\ s.Next.BeginTime < s.Next.EndTime
                                  /\ s.Current.OngoingBurst
                                  /\ s.Current.EndTime <= s.Next.BeginTime
    BY <2>1 DEF ThreadOK, ContainerOK, IsStateOf, EndBefore
  <2>4. /\ s.Current.EndTime \in Nat /\ s.Next.EndTime \in Nat /\ s.Next.BeginTime \in Nat
        /\ s.Current.OngoingBurst \in BOOLEAN /\ s.Next.OngoingBurst \in BOOLEAN
    BY DEF ThreadOK, ContainerOK
  <2>5. CASE ~ s.Current.OngoingBurst
    <3>1. now = WithCurrent(s, r, m + 1)
      BY <1>1, <2>1, <2>5 DEF CheckState, WithCurrent
    <3>2. ThreadOK(now, t, T, m + 1)
      BY <1>1, <1>2, <1>7, <2>1, <2>2, <2>5, <3>1, FillCurrentOK
    <3>3. now.Stored = s.Stored
      <4>1. s = [Current |-> s.Current, Next |-> s.Next, Stored |-> s.Stored]
        BY DEF ThreadOK
      <4> HIDE DEF now
      <4> QED
        BY <3>1, <4>1 DEF WithCurrent
    <3> QED
      BY <1>5, <3>2, <3>3 DEF T
  <2>6. CASE s.Current.OngoingBurst /\ s.Current.EndTime = r.time
    <3>1. now = WithNext(s, r, m + 1)
      BY <1>1, <2>1, <2>6 DEF CheckState, WithNext
    <3>2. ~ s.Next.OngoingBurst
      BY <2>1, <2>3, <2>4, <2>6
    <3>3. ThreadOK(now, t, T, m + 1)
      BY <1>1, <1>2, <1>7, <2>1, <2>3, <2>6, <3>1, <3>2, FillNextOK
    <3>4. now.Stored = s.Stored
      <4>1. s = [Current |-> s.Current, Next |-> s.Next, Stored |-> s.Stored]
        BY DEF ThreadOK
      <4> HIDE DEF now
      <4> QED
        BY <3>1, <4>1 DEF WithNext
    <3> QED
      BY <1>5, <3>3, <3>4 DEF T
  <2>7. CASE s.Current.OngoingBurst /\ s.Current.EndTime < r.time
    <3>0. f = [Current |-> f.Current, Next |-> f.Next, Stored |-> f.Stored]
      BY <1>3 DEF ThreadOK
    <3>1. now = IF s.Next.OngoingBurst
                THEN WithNext(f, r, m + 1)
                ELSE WithCurrent(f, r, m + 1)
      BY <1>1, <2>1, <2>4, <2>7 DEF CheckState, WithCurrent, WithNext
    <3> HIDE DEF now, f
    <3>2. now.Stored = f.Stored
      BY <3>0, <3>1 DEF WithCurrent, WithNext
    <3>3. CASE s.Next.OngoingBurst
      <4>1. f.Current.OngoingBurst /\ f.Current.EndTime <= r.time
        BY <1>3, <2>3, <3>3
      <4>2. now = WithNext(f, r, m + 1)
        BY <3>1, <3>3
      <4> QED
        BY <1>1, <1>3, <1>4, <1>7, <2>1, <3>2, <4>1, <4>2, FillNextOK DEF T, now
    <3>4. CASE ~ s.Next.OngoingBurst
      <4>1. ~ f.Current.OngoingBurst
        BY <1>3, <3>4
      <4>2. now = WithCurrent(f, r, m + 1)
        BY <3>1, <3>4
      <4>3. \A k \in 1 .. Len(f.Stored) : f.Stored[k].thread = t => f.Stored[k].EndTime <= r.time
        BY <1>3, <2>2
      <4> QED
        BY <1>1, <1>3, <1>4, <1>7, <2>1, <3>2, <4>1, <4>2, <4>3, FillCurrentOK DEF T, now
    <3> QED
      BY <3>3, <3>4
  <2> QED
    BY <2>1, <2>3, <2>4, <2>5, <2>6, <2>7
<1> QED
  BY <1>6, <1>7

\* The stored bursts of another thread when bursts of thread t are stored.
LEMMA OtherStoredOK ==
  ASSUME NEW B, NEW u, NEW tr, StoredOK(B, u, tr), NEW t \in Thread, t # u,
         NEW C, Extends(B, C, t)
  PROVE  /\ StoredOK(C, u, tr)
         /\ \A k \in 1 .. Len(C) : C[k].thread = u => k \in 1 .. Len(B) /\ C[k] = B[k]
<1>1. IsSequence(B) /\ Len(B) \in Nat /\ IsSequence(C) /\ Len(C) \in Nat
  <2>1. IsSequence(B) /\ IsSequence(C)
    BY DEF StoredOK, Extends
  <2> QED
    BY <2>1, Appended
<1>2. \A k \in 1 .. Len(C) : \/ k \in 1 .. Len(B) /\ C[k] = B[k]
                             \/ /\ k \notin 1 .. Len(B) /\ C[k].thread = t /\ C[k].kind \in Kinds
                                /\ C[k].BeginTime \in Nat /\ C[k].EndTime \in Nat
  <2> SUFFICES ASSUME NEW k \in 1 .. Len(C)
               PROVE  \/ k \in 1 .. Len(B) /\ C[k] = B[k]
                      \/ /\ k \notin 1 .. Len(B) /\ C[k].thread = t /\ C[k].kind \in Kinds
                         /\ C[k].BeginTime \in Nat /\ C[k].EndTime \in Nat
    OBVIOUS
  <2>1. k \in 1 .. Len(B) \/ k \in (Len(B) + 1) .. Len(C)
    BY <1>1
  <2>2. CASE k \in 1 .. Len(B)
    BY <2>2 DEF Extends
  <2>3. CASE k \in (Len(B) + 1) .. Len(C)
    BY <1>1, <2>3 DEF Extends
  <2> QED
    BY <2>1, <2>2, <2>3
<1>3. \A k \in 1 .. Len(C) : C[k].thread = u => k \in 1 .. Len(B) /\ C[k] = B[k]
  BY <1>2
<1>4. \A k \in 1 .. Len(C) : /\ C[k].thread \in Thread /\ C[k].kind \in Kinds
                             /\ C[k].BeginTime \in Nat /\ C[k].EndTime \in Nat
                             /\ C[k].thread = u => IsStateOf(C[k], u, tr)
  BY <1>2 DEF StoredOK
<1>5. \A i, k \in 1 .. Len(C) :
        i < k /\ C[i].thread = u /\ C[k].thread = u => C[i].EndTime <= C[k].BeginTime
  BY <1>3 DEF StoredOK
<1> QED
  BY <1>1, <1>3, <1>4, <1>5 DEF StoredOK

\* What another thread has kept when bursts of thread t are stored.
LEMMA OtherThreadOK ==
  ASSUME NEW s, NEW u, NEW tr, NEW m, ThreadOK(s, u, tr, m), NEW t \in Thread, t # u,
         NEW C, Extends(s.Stored, C, t)
  PROVE  ThreadOK([Current |-> s.Current, Next |-> s.Next, Stored |-> C], u, tr, m)
<1> DEFINE B == s.Stored
           e == [Current |-> s.Current, Next |-> s.Next, Stored |-> C]
<1>1. StoredOK(B, u, tr) /\ IsSequence(B)
  BY DEF ThreadOK, StoredOK
<1>2. \A line : IsStored(B, line) => IsStored(C, line)
  BY <1>1, ExtendsKeeps
<1>3. /\ StoredOK(C, u, tr)
      /\ \A k \in 1 .. Len(C) : C[k].thread = u => k \in 1 .. Len(B) /\ C[k] = B[k]
  BY <1>1, OtherStoredOK
<1>4. /\ e.Current = s.Current /\ e.Next = s.Next /\ e.Stored = C
      /\ e \in [Current : {e.Current}, Next : {e.Next}, Stored : {e.Stored}]
  OBVIOUS
<1> HIDE DEF e
<1>5. s.Current.OngoingBurst =>
        \A k \in 1 .. Len(C) : C[k].thread = u => C[k].EndTime <= s.Current.BeginTime
  BY <1>3 DEF ThreadOK
<1>6. ThreadOK(e, u, tr, m)
  BY <1>2, <1>3, <1>4, <1>5 DEF ThreadOK
<1> QED
  BY <1>6 DEF e
-----------------------------------------------------------------------------
(***************************************************************************)
(* The invariant.                                                          *)
(***************************************************************************)
\* The variables are functions and sequences.
Shapes ==
  /\ IsSequence(trace) /\ IsSequence(out) /\ IsSequence(AllBursts)
  /\ left = [t \in Thread |-> left[t]]
  /\ TaskData = [t \in Thread |-> TaskData[t]]
  /\ FutureTaskData = [t \in Thread |-> FutureTaskData[t]]

\* The states of a thread that follow in the file do not overlap one another, and what
\* has been read of it has ended.
Ahead(t) ==
  /\ left[t] \in Seq(Record)
  /\ \A i \in 1 .. Len(left[t]) :
       /\ left[t][i].thread = t
       /\ IsRunning(left[t][i]) => /\ left[t][i].time < left[t][i].end
                                   /\ EndBefore(trace, t, left[t][i])
       /\ \A j \in 1 .. i - 1 : IsRunning(left[t][j]) /\ IsRunning(left[t][i])
                                  => left[t][j].end <= left[t][i].time

\* While the trace is read, every record read has been taken into account.
WhileReading ==
  /\ pos = 1 /\ out = <<>> /\ IDs = <<>>
  /\ \A t \in Thread : ThreadOK(Now(t), t, trace, Len(trace))

\* And then only what waited for the current burst is not stored.
AfterReading ==
  \A t \in Thread :
    /\ StoredOK(AllBursts, t, trace)
    /\ \A line \in 1 .. Len(trace) : trace[line].thread = t /\ IsRunning(trace[line]) =>
         IsStored(AllBursts, line) \/ Holds(FutureTaskData[t], line)

IInv ==
  /\ TypeOK
  /\ Shapes
  /\ \A t \in Thread : Ahead(t)
  /\ pc = "Reading" => WhileReading
  /\ pc # "Reading" => AfterReading

\* A sequence is defined from 1 to its length.
LEMMA SequenceDomain ==
  ASSUME NEW s, IsSequence(s)
  PROVE  Len(s) \in Nat /\ DOMAIN s = 1 .. Len(s)
BY DEF IsSequence

\* An empty sequence is one.
LEMMA EmptyIsSequence == IsSequence(<<>>) /\ Len(<<>>) = 0 /\ DOMAIN <<>> = {}
<1>1. <<>> \in Seq({})
  OBVIOUS
<1> QED
  BY <1>1 DEF IsSequence

\* What TypeOK says of a thread, while it is read.
LEMMA ThreadTypes ==
  ASSUME NEW t, ThreadOK(Now(t), t, trace, Len(trace))
  PROVE  /\ HWC_GROUP_CHANGE_TYPE \notin TaskData[t].BurstEndEvents
         /\ FutureTaskData[t].OngoingBurst => TaskData[t].OngoingBurst
         /\ FutureTaskData[t].EventsData = NoEvents
         /\ FutureTaskData[t].BurstEndEvents = {}
         /\ StoredOK(AllBursts, t, trace)
BY DEF ThreadOK, Now

\* The kinds of the bursts that are stored.
LEMMA KindsOf ==
  ASSUME NEW B, NEW t, NEW tr, StoredOK(B, t, tr)
  PROVE  \A k \in DOMAIN B : B[k].kind \in {0, MISSING_DATA_CLUSTERID,
           DURATION_FILTERED_CLUSTERID, RANGE_FILTERED_CLUSTERID}
<1>1. IsSequence(B)
  BY DEF StoredOK
<1> QED
  BY <1>1, SequenceDomain DEF StoredOK, Kinds

\* There is a thread.
LEMMA FirstThread == 1 \in Thread
BY ThreadsAssumption DEF Thread

\* Nothing is read.
LEMMA InitOK == Init => IInv
<1> SUFFICES ASSUME Init
             PROVE  IInv
  OBVIOUS
<1>1. /\ pc = "Reading" /\ trace = <<>> /\ AllBursts = <<>> /\ IDs = <<>> /\ pos = 1
      /\ out = <<>> /\ left \in Inputs
      /\ TaskData = [t \in Thread |-> TaskDataContainer]
      /\ FutureTaskData = [t \in Thread |-> TaskDataContainer]
  BY DEF Init
<1>2. left \in [Thread -> Seq(Record)]
  BY <1>1, InputsAssumption
<1>3. Shapes
  BY <1>1, <1>2, EmptyIsSequence DEF Shapes
<1>4. ASSUME NEW t \in Thread
      PROVE  Ahead(t)
  <2>1. left[t] \in Seq(Record)
    BY <1>2
  <2>2. \A r : EndBefore(trace, t, r)
    BY <1>1, EmptyIsSequence DEF EndBefore
  <2>3. \A i \in 1 .. Len(left[t]) :
          /\ left[t][i].thread = t
          /\ IsRunning(left[t][i]) => left[t][i].time < left[t][i].end
          /\ \A j \in 1 .. i - 1 :
               IsRunning(left[t][j]) /\ IsRunning(left[t][i]) => left[t][j].end <= left[t][i].time
    BY <1>1, InputsAssumption
  <2> QED
    BY <2>1, <2>2, <2>3 DEF Ahead
<1>5. ASSUME NEW t \in Thread
      PROVE  ThreadOK(Now(t), t, trace, Len(trace))
  <2> DEFINE c == TaskDataContainer
  <2>1. Now(t) = [Current |-> c, Next |-> c, Stored |-> <<>>]
    BY <1>1 DEF Now
  <2>2. ContainerOK(c, t, trace) /\ c.EventsData = NoEvents /\ c.BurstEndEvents = {}
        /\ ~ c.OngoingBurst
    BY DEF TaskDataContainer, ContainerOK
  <2>3. StoredOK(<<>>, t, trace)
    BY EmptyIsSequence DEF StoredOK
  <2> HIDE DEF c
  <2> DEFINE s == Now(t)
  <2>4. /\ s.Current = c /\ s.Next = c /\ s.Stored = <<>>
        /\ s \in [Current : {s.Current}, Next : {s.Next}, Stored : {s.Stored}]
    BY <2>1
  <2> HIDE DEF s
  <2>5. \A line : line \notin 1 .. Len(trace)
    BY <1>1, EmptyIsSequence
  <2>6. ThreadOK(s, t, trace, Len(trace))
    BY <2>2, <2>3, <2>4, <2>5 DEF ThreadOK
  <2> QED
    BY <2>6 DEF s
<1>6. WhileReading
  BY <1>1, <1>5 DEF WhileReading
<1>7. TypeOK
  <2>1. pos \in 1 .. Len(trace) + 1 /\ Len(out) < pos /\ DOMAIN IDs = {} /\ DOMAIN AllBursts = {}
    BY <1>1, EmptyIsSequence
  <2>2. ASSUME NEW t \in Thread
        PROVE  /\ HWC_GROUP_CHANGE_TYPE \notin TaskData[t].BurstEndEvents
               /\ FutureTaskData[t].OngoingBurst => TaskData[t].OngoingBurst
               /\ FutureTaskData[t].EventsData = NoEvents
               /\ FutureTaskData[t].BurstEndEvents = {}
    BY <1>5, ThreadTypes
  <2> QED
    BY <1>1, <2>1, <2>2 DEF TypeOK
<1> QED
  BY <1>1, <1>3, <1>4, <1>6, <1>7 DEF IInv

\* The next record of a thread: it is in the file, and what follows it does not overlap it.
LEMMA RecordIs ==
  ASSUME IInv, NEW t \in Thread, GetNextRecord(t), NEW r, r = Head(left[t])
  PROVE  /\ r \in Record /\ r.thread = t
         /\ IsRunning(r) => r.time < r.end /\ EndBefore(trace, t, r)
         /\ trace' = Append(trace, r)
         /\ left' = [u \in Thread |-> left'[u]]
         /\ \A u \in Thread : Ahead(u)'
<1>1. /\ left[t] # <<>> /\ left' = [left EXCEPT ![t] = Tail(left[t])]
      /\ trace' = Append(trace, r)
  BY DEF GetNextRecord
<1>2. IsSequence(trace) /\ left = [u \in Thread |-> left[u]] /\ \A u \in Thread : Ahead(u)
  BY DEF IInv, Shapes
<1> DEFINE L == left[t]
           n == Len(L)
<1>3. L \in Seq(Record) /\ L # <<>>
  BY <1>1, <1>2 DEF Ahead
<1> HIDE DEF L
<1>4. /\ n \in Nat /\ 1 \in 1 .. n /\ Head(L) = L[1] /\ L[1] \in Record
      /\ Tail(L) \in Seq(Record) /\ Len(Tail(L)) = n - 1
      /\ \A i \in 1 .. (n - 1) : i + 1 \in 1 .. n /\ Tail(L)[i] = L[i + 1]
  BY <1>3
<1> HIDE DEF n
<1>5. r = L[1]
  BY <1>4 DEF L
<1>6. \A i \in 1 .. n :
        /\ L[i].thread = t
        /\ IsRunning(L[i]) => L[i].time < L[i].end /\ EndBefore(trace, t, L[i])
        /\ \A j \in 1 .. i - 1 : IsRunning(L[j]) /\ IsRunning(L[i]) => L[j].end <= L[i].time
  BY <1>2 DEF Ahead, L, n
<1>7. r \in Record /\ r.thread = t /\ (IsRunning(r) => r.time < r.end /\ EndBefore(trace, t, r))
  BY <1>4, <1>5, <1>6
<1>8. /\ left' = [u \in Thread |-> left'[u]] /\ left'[t] = Tail(L)
      /\ \A u \in Thread : u # t => left'[u] = left[u]
  BY <1>1, <1>2 DEF L
<1>9. /\ Len(trace) \in Nat /\ Len(trace') = Len(trace) + 1 /\ trace'[Len(trace) + 1] = r
      /\ \A k \in 1 .. Len(trace) : trace'[k] = trace[k]
  BY <1>1, <1>2, Appended
<1>10. \A line \in 1 .. Len(trace') :
         (line \in 1 .. Len(trace) /\ trace'[line] = trace[line]) \/ trace'[line] = r
  <2> TAKE line \in 1 .. Len(trace')
  <2>1. line \in 1 .. Len(trace) \/ line = Len(trace) + 1
    BY <1>9
  <2> QED
    BY <1>9, <2>1
<1>11. ASSUME NEW u, NEW q, EndBefore(trace, u, q), u = t /\ IsRunning(r) => r.end <= q.time
       PROVE  EndBefore(trace', u, q)
  BY <1>7, <1>10, <1>11 DEF EndBefore
<1>12. ASSUME NEW u \in Thread, u # t
       PROVE  Ahead(u)'
  <2>1. Ahead(u) /\ left'[u] = left[u]
    BY <1>2, <1>8, <1>12
  <2>2. \A q : EndBefore(trace, u, q) => EndBefore(trace', u, q)
    BY <1>11, <1>12
  <2> QED
    BY <2>1, <2>2 DEF Ahead
<1>13. Ahead(t)'
  <2> DEFINE T == Tail(L)
  <2>1. T \in Seq(Record) /\ Len(T) = n - 1 /\ n \in Nat
    BY <1>4
  <2>2. ASSUME NEW i \in 1 .. (n - 1)
        PROVE  /\ T[i].thread = t
               /\ IsRunning(T[i]) => T[i].time < T[i].end /\ EndBefore(trace', t, T[i])
               /\ \A j \in 1 .. i - 1 :
                    IsRunning(T[j]) /\ IsRunning(T[i]) => T[j].end <= T[i].time
    <3>1. i + 1 \in 1 .. n /\ T[i] = L[i + 1] /\ 1 \in 1 .. (i + 1) - 1
      BY <1>4
    <3>2. IsRunning(T[i]) /\ IsRunning(r) => r.end <= T[i].time
      BY <1>5, <1>6, <3>1
    <3>3. IsRunning(T[i]) => EndBefore(trace', t, T[i])
      <4>1. IsRunning(T[i]) => EndBefore(trace, t, T[i])
        BY <1>6, <3>1
      <4> HIDE DEF T
      <4> QED
        BY <1>11, <3>2, <4>1
    <3>4. \A j \in 1 .. i - 1 : j + 1 \in 1 .. (i + 1) - 1 /\ T[j] = L[j + 1]
      BY <1>4, <3>1
    <3>5. \A j \in 1 .. i - 1 : IsRunning(T[j]) /\ IsRunning(T[i]) => T[j].end <= T[i].time
      <4> HIDE DEF T
      <4> QED
        BY <1>6, <3>1, <3>4
    <3> QED
      BY <1>6, <3>1, <3>3, <3>5
  <2>3. left'[t] = T
    BY <1>8
  <2> HIDE DEF T
  <2> QED
    BY <2>1, <2>2, <2>3 DEF Ahead
<1> QED
  BY <1>1, <1>7, <1>8, <1>12, <1>13

\* A record is read: what it leaves of its thread is in order, and it touches no other.
LEMMA RecordStep ==
  ASSUME IInv, pc = "Reading", NEW t \in Thread, GetNextRecord(t), NEW s, Become(t, s),
         Extends(AllBursts, s.Stored, t), ThreadOK(s, t, trace', Len(trace')), UnchangedReading
  PROVE  IInv'
<1> DEFINE r == Head(left[t])
<1>1. /\ trace' = Append(trace, r) /\ r.thread = t
      /\ left' = [u \in Thread |-> left'[u]] /\ \A u \in Thread : Ahead(u)'
  BY RecordIs
<1> HIDE DEF r
<1>2. /\ TypeOK /\ WhileReading /\ IsSequence(trace) /\ IsSequence(out)
      /\ TaskData = [u \in Thread |-> TaskData[u]]
      /\ FutureTaskData = [u \in Thread |-> FutureTaskData[u]]
  BY DEF IInv, Shapes
<1>3. /\ pc' = "Reading" /\ pos' = 1 /\ out' = <<>> /\ IDs' = <<>> /\ out' = out
  BY <1>2 DEF UnchangedReading, WhileReading
<1>4. /\ TaskData'[t] = s.Current /\ FutureTaskData'[t] = s.Next /\ AllBursts' = s.Stored
      /\ TaskData' = [u \in Thread |-> TaskData'[u]]
      /\ FutureTaskData' = [u \in Thread |-> FutureTaskData'[u]]
      /\ \A u \in Thread : u # t => /\ TaskData'[u] = TaskData[u]
                                   /\ FutureTaskData'[u] = FutureTaskData[u]
  BY <1>2 DEF Become
<1>5. /\ IsSequence(trace') /\ Len(trace) \in Nat /\ Len(trace') = Len(trace) + 1
      /\ trace'[Len(trace) + 1] = r
  BY <1>1, <1>2, Appended
<1>6. Now(t)' = s
  BY <1>4 DEF Now, ThreadOK
<1>7. ASSUME NEW u \in Thread, u # t
      PROVE  ThreadOK(Now(u)', u, trace', Len(trace'))
  <2>1. ThreadOK(Now(u), u, trace, Len(trace))
    BY <1>2 DEF WhileReading
  <2>2. ThreadOK(Now(u), u, trace', Len(trace))
    BY <1>1, <1>2, <1>5, <2>1, Lifted
  <2>3. ThreadOK(Now(u), u, trace', Len(trace'))
    BY <1>1, <1>5, <1>7, <2>2, NoStateToKeep
  <2>4. /\ Now(u).Current = TaskData[u] /\ Now(u).Next = FutureTaskData[u]
        /\ Now(u).Stored = AllBursts
        /\ Now(u)' = [Current |-> TaskData[u], Next |-> FutureTaskData[u], Stored |-> s.Stored]
    BY <1>4, <1>7 DEF Now
  <2> QED
    BY <1>7, <2>3, <2>4, OtherThreadOK
<1>8. \A u \in Thread : ThreadOK(Now(u), u, trace, Len(trace))'
  <2> TAKE u \in Thread
  <2>1. CASE u = t
    BY <1>6, <2>1
  <2>2. CASE u # t
    BY <1>7, <2>2
  <2> QED
    BY <2>1, <2>2
<1>9. WhileReading'
  BY <1>3, <1>8 DEF WhileReading
<1>10. \A u \in Thread : (/\ HWC_GROUP_CHANGE_TYPE \notin TaskData[u].BurstEndEvents
                          /\ FutureTaskData[u].OngoingBurst => TaskData[u].OngoingBurst
                          /\ FutureTaskData[u].EventsData = NoEvents
                          /\ FutureTaskData[u].BurstEndEvents = {}
                          /\ StoredOK(AllBursts, u, trace))'
  BY <1>8 DEF ThreadOK, Now
<1>11. TypeOK'
  <2>1. \A k \in DOMAIN AllBursts' : AllBursts'[k].kind \in {0, MISSING_DATA_CLUSTERID,
          DURATION_FILTERED_CLUSTERID, RANGE_FILTERED_CLUSTERID}
    BY <1>10, KindsOf
  <2>2. pos' \in 1 .. Len(trace') + 1 /\ Len(out') < pos' /\ DOMAIN IDs' = {}
    BY <1>3, <1>5, EmptyIsSequence
  <2> QED
    BY <1>3, <1>10, <2>1, <2>2 DEF TypeOK
<1>12. Shapes'
  <2>1. IsSequence(AllBursts')
    BY <1>10 DEF StoredOK
  <2> QED
    BY <1>1, <1>2, <1>3, <1>4, <1>5, <2>1 DEF Shapes
<1> QED
  BY <1>1, <1>3, <1>9, <1>11, <1>12 DEF IInv

\* A state record.
LEMMA ReadStateOK == ASSUME IInv, NEW t \in Thread, ReadState(t) PROVE IInv'
<1> DEFINE r == Head(left[t])
           s == CheckState(Now(t), t, r, Len(trace) + 1)
<1>1. /\ pc = "Reading" /\ GetNextRecord(t) /\ r.kind = "state" /\ Become(t, s)
      /\ UnchangedReading
  BY DEF ReadState
<1>2. /\ r \in Record /\ r.thread = t /\ trace' = Append(trace, r)
      /\ IsRunning(r) => r.time < r.end /\ EndBefore(trace, t, r)
  BY <1>1, RecordIs
<1>3. r \in StateRecord
  BY <1>1, <1>2 DEF Record, EventRecord, CommunicationRecord
<1> HIDE DEF r
<1>4. ThreadOK(Now(t), t, trace, Len(trace)) /\ IsSequence(trace) /\ Now(t).Stored = AllBursts
  BY <1>1 DEF IInv, WhileReading, Shapes, Now
<1>5. Len(trace') = Len(trace) + 1
  BY <1>2, <1>4, Appended
<1>6. /\ ThreadOK(s, t, trace', Len(trace')) /\ Extends(AllBursts, s.Stored, t)
  BY <1>2, <1>3, <1>4, <1>5, CheckStateOK
<1> HIDE DEF s
<1> QED
  BY <1>1, <1>6, RecordStep

\* An event record.
LEMMA ReadEventOK == ASSUME IInv, NEW t \in Thread, ReadEvent(t) PROVE IInv'
<1> DEFINE r == Head(left[t])
           s == CheckEvent(Now(t), t, r)
<1>1. /\ pc = "Reading" /\ GetNextRecord(t) /\ r.kind = "event" /\ Become(t, s)
      /\ UnchangedReading
  BY DEF ReadEvent
<1>2. /\ r \in Record /\ r.thread = t /\ trace' = Append(trace, r)
  BY <1>1, RecordIs
<1>3. r \in EventRecord
  BY <1>1, <1>2 DEF Record, StateRecord, CommunicationRecord
<1> HIDE DEF r
<1>4. ThreadOK(Now(t), t, trace, Len(trace)) /\ IsSequence(trace) /\ Now(t).Stored = AllBursts
  BY <1>1 DEF IInv, WhileReading, Shapes, Now
<1>5. /\ Len(trace) \in Nat /\ Len(trace') = Len(trace) + 1 /\ trace'[Len(trace) + 1] = r
  BY <1>2, <1>4, Appended
<1>6. ThreadOK(Now(t), t, trace', Len(trace))
  BY <1>2, <1>4, <1>5, Lifted
<1>7. ~ IsRunning(r)
  BY <1>1 DEF IsRunning
<1>8. ThreadOK(Now(t), t, trace', Len(trace'))
  BY <1>5, <1>6, <1>7, NoStateToKeep
<1>9. /\ ThreadOK(s, t, trace', Len(trace')) /\ Extends(AllBursts, s.Stored, t)
  BY <1>3, <1>4, <1>8, CheckEventOK
<1> HIDE DEF s
<1> QED
  BY <1>1, <1>9, RecordStep

\* A communication record.
LEMMA SkipCommunicationOK == ASSUME IInv, NEW t \in Thread, SkipCommunication(t) PROVE IInv'
<1> DEFINE r == Head(left[t])
           s == Now(t)
<1>1. /\ pc = "Reading" /\ GetNextRecord(t) /\ r.kind = "communication"
      /\ UNCHANGED <<TaskData, FutureTaskData, AllBursts>> /\ UnchangedReading
  BY DEF SkipCommunication
<1>2. /\ r \in Record /\ r.thread = t /\ trace' = Append(trace, r)
  BY <1>1, RecordIs
<1> HIDE DEF r
<1>4. /\ ThreadOK(Now(t), t, trace, Len(trace)) /\ IsSequence(trace) /\ Now(t).Stored = AllBursts
      /\ TaskData = [u \in Thread |-> TaskData[u]]
      /\ FutureTaskData = [u \in Thread |-> FutureTaskData[u]]
  BY <1>1 DEF IInv, WhileReading, Shapes, Now
<1>5. /\ Len(trace) \in Nat /\ Len(trace') = Len(trace) + 1 /\ trace'[Len(trace) + 1] = r
  BY <1>2, <1>4, Appended
<1>6. ThreadOK(Now(t), t, trace', Len(trace))
  BY <1>2, <1>4, <1>5, Lifted
<1>7. ~ IsRunning(r)
  BY <1>1 DEF IsRunning
<1>8. ThreadOK(Now(t), t, trace', Len(trace'))
  BY <1>5, <1>6, <1>7, NoStateToKeep
<1>9. Extends(AllBursts, s.Stored, t)
  BY <1>4, ExtendsItself DEF ThreadOK
<1>10. Become(t, s)
  BY <1>1, <1>4 DEF Become, Now
<1> HIDE DEF s
<1> QED
  BY <1>1, <1>8, <1>9, <1>10, RecordStep DEF s

-----------------------------------------------------------------------------
\* What is not stored of a thread, whose current burst has been, waits.
Settles(B, u) ==
  /\ StoredOK(B, u, trace)
  /\ \A line \in 1 .. Len(trace) : trace[line].thread = u /\ IsRunning(trace[line]) =>
       IsStored(B, line) \/ Holds(FutureTaskData[u], line)

\* A thread whose current burst is still to be stored.
Unsettled(B, u) ==
  ThreadOK([Current |-> TaskData[u], Next |-> FutureTaskData[u], Stored |-> B],
           u, trace, Len(trace))

\* The current burst of thread t is stored.
LEMMA SettledOK ==
  ASSUME NEW t \in Thread, NEW B, Unsettled(B, t)
  PROVE  Settles(Settled(B, t), t) /\ Extends(B, Settled(B, t), t)
<1> DEFINE c == TaskData[t]
           C == NewBurst(B, t, c)
           s == [Current |-> c, Next |-> FutureTaskData[t], Stored |-> B]
<1>1. s.Current = c /\ s.Next = FutureTaskData[t] /\ s.Stored = B
  OBVIOUS
<1>2. ThreadOK(s, t, trace, Len(trace))
  BY DEF Unsettled
<1> HIDE DEF s, c
<1>3. /\ ContainerOK(c, t, trace) /\ StoredOK(B, t, trace) /\ IsSequence(B)
      /\ c.OngoingBurst =>
           \A k \in 1 .. Len(B) : B[k].thread = t => B[k].EndTime <= c.BeginTime
      /\ \A line \in 1 .. Len(trace) : trace[line].thread = t /\ IsRunning(trace[line]) =>
           IsStored(B, line) \/ Holds(c, line) \/ Holds(FutureTaskData[t], line)
  BY <1>1, <1>2 DEF ThreadOK, StoredOK
<1>4. /\ StoredOK(C, t, trace) /\ Extends(B, C, t) /\ (c.OngoingBurst => IsStored(C, c.Line))
  BY <1>3, StoreCurrent
<1>5. ~ c.OngoingBurst => C = B
  BY <1>3, NewBurstIs
<1>6. Settled(B, t) = C
  BY <1>5 DEF Settled, c
<1>7. \A line : IsStored(B, line) => IsStored(C, line)
  BY <1>3, <1>4, ExtendsKeeps
<1> HIDE DEF C
<1>8. \A line \in 1 .. Len(trace) : trace[line].thread = t /\ IsRunning(trace[line]) =>
        IsStored(C, line) \/ Holds(FutureTaskData[t], line)
  BY <1>3, <1>4, <1>7 DEF Holds
<1> QED
  BY <1>4, <1>6, <1>8 DEF Settles

\* And what is stored of the other threads stays.
LEMMA OthersSettled ==
  ASSUME NEW u, NEW B, NEW t \in Thread, t # u, NEW C, Extends(B, C, t)
  PROVE  /\ Settles(B, u) => Settles(C, u)
         /\ Unsettled(B, u) => Unsettled(C, u)
<1>1. ASSUME Settles(B, u)
      PROVE  Settles(C, u)
  <2>1. StoredOK(B, u, trace) /\ IsSequence(B)
    BY <1>1 DEF Settles, StoredOK
  <2>2. StoredOK(C, u, trace)
    BY <2>1, OtherStoredOK
  <2>3. \A line : IsStored(B, line) => IsStored(C, line)
    BY <2>1, ExtendsKeeps
  <2> QED
    BY <1>1, <2>2, <2>3 DEF Settles
<1>2. ASSUME Unsettled(B, u)
      PROVE  Unsettled(C, u)
  <2> DEFINE s == [Current |-> TaskData[u], Next |-> FutureTaskData[u], Stored |-> B]
  <2>1. s.Current = TaskData[u] /\ s.Next = FutureTaskData[u] /\ s.Stored = B
    OBVIOUS
  <2>2. ThreadOK(s, u, trace, Len(trace))
    BY <1>2 DEF Unsettled
  <2> HIDE DEF s
  <2> QED
    BY <2>1, <2>2, OtherThreadOK DEF Unsettled
<1> QED
  BY <1>1, <1>2

\* The end of the file: the current bursts of all threads are stored.
LEMMA PendingOK ==
  ASSUME \A u \in Thread : Unsettled(AllBursts, u)
  PROVE  \A u \in Thread : Settles(PendingBursts, u)
<1> DEFINE n == Threads
<1>1. n \in Nat /\ Thread = 1 .. n /\ DOMAIN InOrder = 1 .. n /\ \A k \in 1 .. n : InOrder[k] = k
  BY ThreadsAssumption DEF Thread, InOrder
<1> HIDE DEF n
<1>2. PICK h : /\ h[0] = AllBursts /\ PendingBursts = h[n]
               /\ \A k \in 1 .. n : h[k] = Settled(h[k - 1], InOrder[k])
  BY <1>1, PendingStep
<1> DEFINE S == {k \in 0 .. n :
                   \A u \in 1 .. n : IF u <= k THEN Settles(h[k], u) ELSE Unsettled(h[k], u)}
<1>3. 0 \in S
  BY <1>1, <1>2
<1>4. ASSUME NEW k \in 1 .. n, k - 1 \in S
      PROVE  k \in S
  <2>1. k \in Thread /\ h[k] = Settled(h[k - 1], k) /\ Unsettled(h[k - 1], k)
    BY <1>1, <1>2, <1>4
  <2>2. Settles(h[k], k) /\ Extends(h[k - 1], h[k], k)
    BY <2>1, SettledOK
  <2>3. ASSUME NEW u \in 1 .. n, u # k
        PROVE  IF u <= k THEN Settles(h[k], u) ELSE Unsettled(h[k], u)
    <3>1. IF u <= k THEN Settles(h[k - 1], u) ELSE Unsettled(h[k - 1], u)
      BY <1>1, <1>4, <2>3
    <3> QED
      BY <2>1, <2>2, <2>3, <3>1, OthersSettled
  <2> QED
    BY <1>1, <2>2, <2>3
<1> HIDE DEF S
<1>5. n \in S
  <2>1. n \in Nat
    BY <1>1
  <2> HIDE <1>1, <1>2
  <2> QED
    BY <2>1, <1>3, <1>4, BoundedInduction
<1> QED
  BY <1>1, <1>2, <1>5 DEF S

\* The whole step.
LEMMA EndOfFileOK == ASSUME IInv, EndOfFile PROVE IInv'
<1>1. /\ pc = "Reading" /\ AllBursts' = PendingBursts /\ pc' \in {"Failed", "Analysing"}
      /\ UNCHANGED <<left, trace, TaskData, FutureTaskData, IDs, pos, out>>
  BY DEF EndOfFile
<1>2. TypeOK /\ WhileReading /\ Shapes /\ \A t \in Thread : Ahead(t)
  BY <1>1 DEF IInv
<1>3. \A u \in Thread : Unsettled(AllBursts, u)
  BY <1>2 DEF WhileReading, Now, Unsettled
<1>4. \A u \in Thread : Settles(AllBursts', u)
  BY <1>1, <1>3, PendingOK
<1>5. AfterReading'
  BY <1>1, <1>4 DEF AfterReading, Settles
<1>6. StoredOK(AllBursts', 1, trace)
  BY <1>4, FirstThread DEF Settles
<1>7. Shapes'
  BY <1>1, <1>2, <1>6 DEF Shapes, StoredOK
<1>8. TypeOK'
  <2>1. \A k \in DOMAIN AllBursts' : AllBursts'[k].kind \in {0, MISSING_DATA_CLUSTERID,
          DURATION_FILTERED_CLUSTERID, RANGE_FILTERED_CLUSTERID}
    BY <1>6, KindsOf
  <2>2. DOMAIN IDs = {}
    BY <1>2, EmptyIsSequence DEF WhileReading
  <2> QED
    BY <1>1, <1>2, <2>1, <2>2 DEF TypeOK
<1>9. \A t \in Thread : Ahead(t)'
  BY <1>1, <1>2 DEF Ahead
<1> QED
  BY <1>1, <1>5, <1>7, <1>8, <1>9 DEF IInv

\* The analysis, and what the writer prepares.
LEMMA AnalysisOK == ASSUME IInv, ClusterAnalysis \/ StartWriting \/ Finish PROVE IInv'
<1>1. /\ pc # "Reading" /\ pc' \in {"Analysing", "Writing", "Done"}
      /\ UNCHANGED <<left, trace, TaskData, FutureTaskData, AllBursts, pos, out>>
      /\ IDs' = IDs \/ DOMAIN IDs' = 1 .. Len(CompleteBursts(AllBursts))
  <2>1. CASE ClusterAnalysis
    BY <2>1 DEF ClusterAnalysis
  <2>2. CASE StartWriting
    BY <2>2 DEF StartWriting
  <2>3. CASE Finish
    BY <2>3 DEF Finish
  <2> QED
    BY <2>1, <2>2, <2>3
<1>2. TypeOK /\ AfterReading /\ Shapes /\ \A t \in Thread : Ahead(t)
  BY <1>1 DEF IInv
<1>3. CompleteBursts(AllBursts') = CompleteBursts(AllBursts)
  BY <1>1
<1>4. TypeOK'
  BY <1>1, <1>2, <1>3 DEF TypeOK
<1>5. Shapes' /\ AfterReading' /\ \A t \in Thread : Ahead(t)'
  BY <1>1, <1>2 DEF Shapes, AfterReading, Ahead
<1> QED
  BY <1>1, <1>4, <1>5 DEF IInv

\* A record is written, with at most one event of the clusters before it.
LEMMA WritingStep ==
  ASSUME IInv, NextRecord, NEW x, out' = out \/ out' = Append(out, x)
  PROVE  IInv'
<1>1. /\ pc = "Writing" /\ pc' = pc /\ pos <= Len(trace) /\ pos' = pos + 1
      /\ UNCHANGED <<left, trace, TaskData, FutureTaskData, AllBursts, IDs>>
  BY DEF NextRecord
<1>2. TypeOK /\ AfterReading /\ Shapes /\ \A t \in Thread : Ahead(t)
  BY <1>1 DEF IInv
<1>3. CompleteBursts(AllBursts') = CompleteBursts(AllBursts)
  BY <1>1
<1>4. IsSequence(trace) /\ IsSequence(out) /\ Len(trace) \in Nat /\ Len(out) \in Nat
  BY <1>2, Appended DEF Shapes
<1>5. IsSequence(out') /\ Len(out') \in {Len(out), Len(out) + 1}
  <2>1. IsSequence(Append(out, x)) /\ Len(Append(out, x)) = Len(out) + 1
    BY <1>4, Appended
  <2> QED
    BY <1>4, <2>1
<1>6. pos \in 1 .. Len(trace) + 1 /\ Len(out) < pos
  BY <1>2 DEF TypeOK
<1>7. pos' \in 1 .. Len(trace') + 1 /\ Len(out') < pos'
  BY <1>1, <1>4, <1>5, <1>6
<1>8. TypeOK'
  BY <1>1, <1>2, <1>3, <1>7 DEF TypeOK
<1>9. Shapes' /\ AfterReading' /\ \A t \in Thread : Ahead(t)'
  BY <1>1, <1>2, <1>5 DEF Shapes, AfterReading, Ahead
<1> QED
  BY <1>1, <1>8, <1>9 DEF IInv

\* The five ways to write a record.
LEMMA WritingOK == ASSUME IInv, CloseAndOpen \/ Open \/ OpenAgain \/ Close \/ Copy PROVE IInv'
<1>1. NextRecord /\ \E x : out' = out \/ out' = Append(out, x)
  <2>1. CASE CloseAndOpen
    BY <2>1 DEF CloseAndOpen, Flushed
  <2>2. CASE Open
    BY <2>2 DEF Open, Flushed
  <2>3. CASE OpenAgain
    BY <2>3 DEF OpenAgain
  <2>4. CASE Close
    BY <2>4 DEF Close, Flushed
  <2>5. CASE Copy
    BY <2>5 DEF Copy
  <2> QED
    BY <2>1, <2>2, <2>3, <2>4, <2>5
<1> QED
  BY <1>1, WritingStep

\* A step that changes nothing.
LEMMA StutterOK == ASSUME IInv, UNCHANGED vars PROVE IInv'
<1>1. UNCHANGED <<pc, left, trace, TaskData, FutureTaskData, AllBursts, IDs, pos, out>>
  BY DEF vars
<1>2. CompleteBursts(AllBursts') = CompleteBursts(AllBursts)
  BY <1>1
<1>3. TypeOK => TypeOK'
  BY <1>1, <1>2 DEF TypeOK
<1>4. /\ Shapes => Shapes'
      /\ \A t \in Thread : Ahead(t) => Ahead(t)'
      /\ WhileReading => WhileReading'
      /\ AfterReading => AfterReading'
  BY <1>1 DEF Shapes, Ahead, WhileReading, Now, AfterReading
<1> QED
  BY <1>1, <1>3, <1>4 DEF IInv

\* Every step keeps the invariant.
LEMMA NextOK == IInv /\ [Next]_vars => IInv'
<1> SUFFICES ASSUME IInv, [Next]_vars
             PROVE  IInv'
  OBVIOUS
<1>1. ASSUME NEW t \in Thread, ReadState(t) \/ ReadEvent(t) \/ SkipCommunication(t)
      PROVE  IInv'
  BY <1>1, ReadStateOK, ReadEventOK, SkipCommunicationOK
<1>2. CASE EndOfFile
  BY <1>2, EndOfFileOK
<1>3. CASE ClusterAnalysis \/ StartWriting \/ Finish
  BY <1>3, AnalysisOK
<1>4. CASE CloseAndOpen \/ Open \/ OpenAgain \/ Close \/ Copy
  BY <1>4, WritingOK
<1>5. CASE Terminated
  BY <1>5, StutterOK DEF Terminated
<1>6. CASE UNCHANGED vars
  BY <1>6, StutterOK
<1> QED
  BY <1>1, <1>2, <1>3, <1>4, <1>5, <1>6 DEF Next

\* The inductive invariant: what each thread holds and what is stored account
\* for every record that has been read, one thread never touching another.
THEOREM Invariant == Spec => []IInv
<1>1. Init => IInv
  BY InitOK
<1>2. IInv /\ [Next]_vars => IInv'
  BY NextOK
<1> QED
  BY <1>1, <1>2, PTL DEF Spec

\* The variables hold what TypeOK says: a burst waits only for one that is
\* being read and has nothing yet, the kinds are four, at most one event of the
\* clusters is written per record.
THEOREM TypeCorrect == Spec => []TypeOK
<1>1. IInv => TypeOK
  BY DEF IInv
<1> QED
  BY <1>1, Invariant, PTL

\* What is stored of a thread, while the trace is read and after.
LEMMA StoredBursts == ASSUME IInv, NEW t \in Thread PROVE StoredOK(AllBursts, t, trace)
<1>1. pc = "Reading" => ThreadOK(Now(t), t, trace, Len(trace))
  BY DEF IInv, WhileReading
<1>2. pc # "Reading" => StoredOK(AllBursts, t, trace)
  BY DEF IInv, AfterReading
<1> QED
  BY <1>1, <1>2, ThreadTypes

\* Every burst that is stored is a Running state of the trace, with its times,
\* and those of a thread do not overlap and are in time order: the order on
\* which ClusteredStatesPRVGenerator relies when it reads the trace again.
THEOREM BurstsAreStates == Spec => []BurstsAreRunningStates
<1>1. IInv => BurstsAreRunningStates
  <2> SUFFICES ASSUME IInv
               PROVE  BurstsAreRunningStates
    OBVIOUS
  <2>1. \A t \in Thread : StoredOK(AllBursts, t, trace)
    BY StoredBursts
  <2>2. DOMAIN AllBursts = 1 .. Len(AllBursts) /\ DOMAIN trace = 1 .. Len(trace)
    BY SequenceDomain DEF IInv, Shapes
  <2>3. \A k \in DOMAIN AllBursts : AllBursts[k].thread \in Thread
    BY <2>1, <2>2, FirstThread DEF StoredOK
  <2>4. \A k \in DOMAIN AllBursts : IsStateOf(AllBursts[k], AllBursts[k].thread, trace)
    BY <2>1, <2>2, <2>3 DEF StoredOK
  <2>5. \A k \in DOMAIN AllBursts :
          /\ AllBursts[k].Line \in RunningLines(AllBursts[k].thread)
          /\ trace[AllBursts[k].Line].time = AllBursts[k].BeginTime
          /\ trace[AllBursts[k].Line].end = AllBursts[k].EndTime
    BY <2>2, <2>4 DEF IsStateOf, RunningLines
  <2>6. \A i, k \in DOMAIN AllBursts :
          i < k /\ AllBursts[i].thread = AllBursts[k].thread
            => AllBursts[i].EndTime <= AllBursts[k].BeginTime
    BY <2>1, <2>2, <2>3 DEF StoredOK
  <2> QED
    BY <2>5, <2>6 DEF BurstsAreRunningStates
<1> QED
  BY <1>1, Invariant, PTL

\* No Running state is dropped while the trace is read: it is stored, or is the
\* current burst of its thread or waits for it (CheckState and CheckEvent of
\* PRVStatesDataExtractor); after the last record only one that waits is not stored.
THEOREM StatesAccounted == Spec => []EveryStateAccounted
<1>1. IInv => EveryStateAccounted
  <2> SUFFICES ASSUME IInv, NEW t \in Thread, NEW line \in RunningLines(t)
               PROVE  \/ Stored(line)
                      \/ Holds(FutureTaskData[t], line)
                      \/ Holds(TaskData[t], line) /\ pc = "Reading"
    BY DEF EveryStateAccounted
  <2>1. DOMAIN AllBursts = 1 .. Len(AllBursts) /\ DOMAIN trace = 1 .. Len(trace)
    BY SequenceDomain DEF IInv, Shapes
  <2>2. line \in 1 .. Len(trace) /\ trace[line].thread = t /\ IsRunning(trace[line])
    BY <2>1 DEF RunningLines
  <2>3. IsStored(AllBursts, line) => Stored(line)
    BY <2>1 DEF IsStored, Stored
  <2>4. CASE pc = "Reading"
    <3>1. ThreadOK(Now(t), t, trace, Len(trace))
      BY <2>4 DEF IInv, WhileReading
    <3>2. IsStored(AllBursts, line) \/ Holds(TaskData[t], line) \/ Holds(FutureTaskData[t], line)
      BY <2>2, <3>1 DEF ThreadOK, Now
    <3> QED
      BY <2>3, <2>4, <3>2
  <2>5. CASE pc # "Reading"
    BY <2>2, <2>3, <2>5 DEF IInv, AfterReading
  <2> QED
    BY <2>4, <2>5
<1> QED
  BY <1>1, Invariant, PTL

-----------------------------------------------------------------------------
(***************************************************************************)
(* What the writer works with: lists that are made burst by burst, and     *)
(* what a thread shows, event by event.                                    *)
(***************************************************************************)
\* One more burst, and one more event.
Completed(complete, b) == IF b.kind = 0 THEN Append(complete, b) ELSE complete

Pushed(t, bursts, completeOnly, list, k) ==
  IF bursts[k].thread = t /\ (completeOnly => bursts[k].kind = 0) THEN Append(list, k) ELSE list

Positions(bursts) == [k \in DOMAIN bursts |-> k]

Values(e) == [i \in DOMAIN e.values |-> <<e.time, e.values[i]>>]

WithEvent(t, shown, e) == IF e.thread = t THEN shown \o Values(e) ELSE shown

\* The complete bursts are collected one by one.
LEMMA CompleteStep ==
  ASSUME NEW bursts, NEW n \in Nat, DOMAIN bursts = 1 .. n
  PROVE  \E h : /\ h[0] = <<>> /\ CompleteBursts(bursts) = h[n]
                /\ \A k \in 1 .. n : h[k] = Completed(h[k - 1], bursts[k])
<1> DEFINE D == SUBSET (1 .. n)
           Step(f, T) == IF T = {} THEN <<>> ELSE Completed(f[T \ {Max(T)}], bursts[Max(T)])
           iter == CHOOSE f : f = [T \in D |-> Step(f, T)]
           S == {m \in 0 .. n : \E f : \A T \in SUBSET (1 .. m) : f[T] = Step(f, T)}
<1>1. CompleteBursts(bursts) = iter[1 .. n]
  BY Zenon DEF CompleteBursts, Completed, FoldLeft, MapThenFoldSet
<1>2. 0 \in S
  <2>1. \A T \in SUBSET (1 .. 0) : T = {}
    OBVIOUS
  <2> DEFINE f == [T \in {{}} |-> <<>>]
  <2>2. f[{}] = <<>>
    OBVIOUS
  <2> HIDE DEF f
  <2>3. \A T \in SUBSET (1 .. 0) : f[T] = Step(f, T)
    BY <2>1, <2>2
  <2>4. 0 \in 0 .. n
    OBVIOUS
  <2> HIDE DEF Step
  <2> QED
    BY <2>3, <2>4
<1>3. ASSUME NEW m \in 1 .. n, m - 1 \in S
      PROVE  m \in S
  <2>1. PICK f : \A T \in SUBSET (1 .. (m - 1)) : f[T] = Step(f, T)
    BY <1>3
  <2> DEFINE g == [T \in SUBSET (1 .. m) |-> Step(f, T)]
  <2>2. SUBSET (1 .. (m - 1)) \subseteq SUBSET (1 .. m)
    OBVIOUS
  <2>3. \A T \in SUBSET (1 .. (m - 1)) : g[T] = f[T]
    BY <2>1, <2>2
  <2>4. ASSUME NEW T \in SUBSET (1 .. m)
        PROVE  g[T] = Step(g, T)
    <3>1. T # {} => T \ {Max(T)} \in SUBSET (1 .. (m - 1))
      BY BelowMax
    <3>2. g[T] = Step(f, T)
      OBVIOUS
    <3> HIDE DEF g
    <3> QED
      BY <2>3, <3>1, <3>2
  <2>5. m \in 0 .. n
    OBVIOUS
  <2> HIDE DEF g, Step
  <2> QED
    BY <2>4, <2>5
<1>4. iter = [T \in D |-> Step(iter, T)]
  <2>1. n \in S
    <3> HIDE DEF S
    <3> QED
      BY <1>2, <1>3, BoundedInduction
  <2>2. PICK f : \A T \in D : f[T] = Step(f, T)
    BY <2>1
  <2> DEFINE g == [T \in D |-> f[T]]
  <2>3. \A T \in D : T # {} => T \ {Max(T)} \in D
    BY BelowMax
  <2>4. \A T \in D : Step(f, T) = Step(g, T)
    BY <2>3
  <2>5. g = [T \in D |-> Step(g, T)]
    <3> HIDE DEF Step
    <3> QED
      BY <2>2, <2>4
  <2> HIDE DEF g, Step
  <2> QED
    BY <2>5
<1> HIDE DEF iter
<1>5. ASSUME NEW k \in 0 .. n
      PROVE  1 .. k \in D /\ (k = 0 => 1 .. k = {}) /\ (k # 0 => 1 .. k # {})
  <2>1. 1 .. k \subseteq 1 .. n
    OBVIOUS
  <2>2. k = 0 => 1 .. k = {}
    OBVIOUS
  <2>3. k # 0 => 1 \in 1 .. k
    OBVIOUS
  <2> QED
    BY <2>1, <2>2, <2>3
<1>6. \A T \in D : iter[T] = Step(iter, T)
  BY <1>4
<1> HIDE DEF D
<1> DEFINE h == [k \in 0 .. n |-> iter[1 .. k]]
<1>7. h[0] = <<>> /\ h[n] = iter[1 .. n]
  <2>1. 0 \in 0 .. n /\ n \in 0 .. n
    OBVIOUS
  <2>2. iter[1 .. 0] = <<>>
    BY <1>5, <1>6, <2>1
  <2> QED
    BY <2>1, <2>2
<1>8. ASSUME NEW k \in 1 .. n
      PROVE  h[k] = Completed(h[k - 1], bursts[k])
  <2>1. k - 1 \in 0 .. n /\ k \in 0 .. n /\ k # 0
    OBVIOUS
  <2>2. Max(1 .. k) = k /\ (1 .. k) \ {Max(1 .. k)} = 1 .. (k - 1)
    BY MaxUpto
  <2>3. 1 .. k \in D /\ 1 .. k # {}
    BY <1>5, <2>1
  <2>4. iter[1 .. k] = Completed(iter[1 .. (k - 1)], bursts[k])
    BY <1>6, <2>2, <2>3
  <2> QED
    BY <2>1, <2>4
<1> HIDE DEF h
<1> QED
  BY <1>1, <1>7, <1>8

\* The bursts of a thread that are printed are listed one by one.
LEMMA PrintedStep ==
  ASSUME NEW t, NEW bursts, NEW completeOnly, NEW n \in Nat, DOMAIN Positions(bursts) = 1 .. n
  PROVE  \E h : /\ h[0] = <<>> /\ PrintedOf(t, bursts, completeOnly) = h[n]
                /\ \A k \in 1 .. n :
                     h[k] = Pushed(t, bursts, completeOnly, h[k - 1], Positions(bursts)[k])
<1> DEFINE D == SUBSET (1 .. n)
           Step(f, T) == IF T = {} THEN <<>>
                         ELSE Pushed(t, bursts, completeOnly, f[T \ {Max(T)}],
                                     Positions(bursts)[Max(T)])
           iter == CHOOSE f : f = [T \in D |-> Step(f, T)]
           S == {m \in 0 .. n : \E f : \A T \in SUBSET (1 .. m) : f[T] = Step(f, T)}
<1>1. PrintedOf(t, bursts, completeOnly) = iter[1 .. n]
  BY Zenon DEF PrintedOf, Pushed, Positions, FoldLeft, MapThenFoldSet
<1>2. 0 \in S
  <2>1. \A T \in SUBSET (1 .. 0) : T = {}
    OBVIOUS
  <2> DEFINE f == [T \in {{}} |-> <<>>]
  <2>2. f[{}] = <<>>
    OBVIOUS
  <2> HIDE DEF f
  <2>3. \A T \in SUBSET (1 .. 0) : f[T] = Step(f, T)
    BY <2>1, <2>2
  <2>4. 0 \in 0 .. n
    OBVIOUS
  <2> HIDE DEF Step
  <2> QED
    BY <2>3, <2>4
<1>3. ASSUME NEW m \in 1 .. n, m - 1 \in S
      PROVE  m \in S
  <2>1. PICK f : \A T \in SUBSET (1 .. (m - 1)) : f[T] = Step(f, T)
    BY <1>3
  <2> DEFINE g == [T \in SUBSET (1 .. m) |-> Step(f, T)]
  <2>2. SUBSET (1 .. (m - 1)) \subseteq SUBSET (1 .. m)
    OBVIOUS
  <2>3. \A T \in SUBSET (1 .. (m - 1)) : g[T] = f[T]
    BY <2>1, <2>2
  <2>4. ASSUME NEW T \in SUBSET (1 .. m)
        PROVE  g[T] = Step(g, T)
    <3>1. T # {} => T \ {Max(T)} \in SUBSET (1 .. (m - 1))
      BY BelowMax
    <3>2. g[T] = Step(f, T)
      OBVIOUS
    <3> HIDE DEF g
    <3> QED
      BY <2>3, <3>1, <3>2
  <2>5. m \in 0 .. n
    OBVIOUS
  <2> HIDE DEF g, Step
  <2> QED
    BY <2>4, <2>5
<1>4. iter = [T \in D |-> Step(iter, T)]
  <2>1. n \in S
    <3> HIDE DEF S
    <3> QED
      BY <1>2, <1>3, BoundedInduction
  <2>2. PICK f : \A T \in D : f[T] = Step(f, T)
    BY <2>1
  <2> DEFINE g == [T \in D |-> f[T]]
  <2>3. \A T \in D : T # {} => T \ {Max(T)} \in D
    BY BelowMax
  <2>4. \A T \in D : Step(f, T) = Step(g, T)
    BY <2>3
  <2>5. g = [T \in D |-> Step(g, T)]
    <3> HIDE DEF Step
    <3> QED
      BY <2>2, <2>4
  <2> HIDE DEF g, Step
  <2> QED
    BY <2>5
<1> HIDE DEF iter
<1>5. ASSUME NEW k \in 0 .. n
      PROVE  1 .. k \in D /\ (k = 0 => 1 .. k = {}) /\ (k # 0 => 1 .. k # {})
  <2>1. 1 .. k \subseteq 1 .. n
    OBVIOUS
  <2>2. k = 0 => 1 .. k = {}
    OBVIOUS
  <2>3. k # 0 => 1 \in 1 .. k
    OBVIOUS
  <2> QED
    BY <2>1, <2>2, <2>3
<1>6. \A T \in D : iter[T] = Step(iter, T)
  BY <1>4
<1> HIDE DEF D
<1> DEFINE h == [k \in 0 .. n |-> iter[1 .. k]]
<1>7. h[0] = <<>> /\ h[n] = iter[1 .. n]
  <2>1. 0 \in 0 .. n /\ n \in 0 .. n
    OBVIOUS
  <2>2. iter[1 .. 0] = <<>>
    BY <1>5, <1>6, <2>1
  <2> QED
    BY <2>1, <2>2
<1>8. ASSUME NEW k \in 1 .. n
      PROVE  h[k] = Pushed(t, bursts, completeOnly, h[k - 1], Positions(bursts)[k])
  <2>1. k - 1 \in 0 .. n /\ k \in 0 .. n /\ k # 0
    OBVIOUS
  <2>2. Max(1 .. k) = k /\ (1 .. k) \ {Max(1 .. k)} = 1 .. (k - 1)
    BY MaxUpto
  <2>3. 1 .. k \in D /\ 1 .. k # {}
    BY <1>5, <2>1
  <2>4. iter[1 .. k] = Pushed(t, bursts, completeOnly, iter[1 .. (k - 1)], Positions(bursts)[k])
    BY <1>6, <2>2, <2>3
  <2> QED
    BY <2>1, <2>4
<1> HIDE DEF h
<1> QED
  BY <1>1, <1>7, <1>8

\* The values of the events of a thread follow each other.
LEMMA ShownStep ==
  ASSUME NEW t, NEW events, NEW n \in Nat, DOMAIN events = 1 .. n
  PROVE  \E h : /\ h[0] = <<>> /\ ShownIn(t, events) = h[n]
                /\ \A k \in 1 .. n : h[k] = WithEvent(t, h[k - 1], events[k])
<1> DEFINE D == SUBSET (1 .. n)
           Step(f, T) == IF T = {} THEN <<>> ELSE WithEvent(t, f[T \ {Max(T)}], events[Max(T)])
           iter == CHOOSE f : f = [T \in D |-> Step(f, T)]
           S == {m \in 0 .. n : \E f : \A T \in SUBSET (1 .. m) : f[T] = Step(f, T)}
<1>1. ShownIn(t, events) = iter[1 .. n]
  BY Zenon DEF ShownIn, WithEvent, Values, FoldLeft, MapThenFoldSet
<1>2. 0 \in S
  <2>1. \A T \in SUBSET (1 .. 0) : T = {}
    OBVIOUS
  <2> DEFINE f == [T \in {{}} |-> <<>>]
  <2>2. f[{}] = <<>>
    OBVIOUS
  <2> HIDE DEF f
  <2>3. \A T \in SUBSET (1 .. 0) : f[T] = Step(f, T)
    BY <2>1, <2>2
  <2>4. 0 \in 0 .. n
    OBVIOUS
  <2> HIDE DEF Step
  <2> QED
    BY <2>3, <2>4
<1>3. ASSUME NEW m \in 1 .. n, m - 1 \in S
      PROVE  m \in S
  <2>1. PICK f : \A T \in SUBSET (1 .. (m - 1)) : f[T] = Step(f, T)
    BY <1>3
  <2> DEFINE g == [T \in SUBSET (1 .. m) |-> Step(f, T)]
  <2>2. SUBSET (1 .. (m - 1)) \subseteq SUBSET (1 .. m)
    OBVIOUS
  <2>3. \A T \in SUBSET (1 .. (m - 1)) : g[T] = f[T]
    BY <2>1, <2>2
  <2>4. ASSUME NEW T \in SUBSET (1 .. m)
        PROVE  g[T] = Step(g, T)
    <3>1. T # {} => T \ {Max(T)} \in SUBSET (1 .. (m - 1))
      BY BelowMax
    <3>2. g[T] = Step(f, T)
      OBVIOUS
    <3> HIDE DEF g
    <3> QED
      BY <2>3, <3>1, <3>2
  <2>5. m \in 0 .. n
    OBVIOUS
  <2> HIDE DEF g, Step
  <2> QED
    BY <2>4, <2>5
<1>4. iter = [T \in D |-> Step(iter, T)]
  <2>1. n \in S
    <3> HIDE DEF S
    <3> QED
      BY <1>2, <1>3, BoundedInduction
  <2>2. PICK f : \A T \in D : f[T] = Step(f, T)
    BY <2>1
  <2> DEFINE g == [T \in D |-> f[T]]
  <2>3. \A T \in D : T # {} => T \ {Max(T)} \in D
    BY BelowMax
  <2>4. \A T \in D : Step(f, T) = Step(g, T)
    BY <2>3
  <2>5. g = [T \in D |-> Step(g, T)]
    <3> HIDE DEF Step
    <3> QED
      BY <2>2, <2>4
  <2> HIDE DEF g, Step
  <2> QED
    BY <2>5
<1> HIDE DEF iter
<1>5. ASSUME NEW k \in 0 .. n
      PROVE  1 .. k \in D /\ (k = 0 => 1 .. k = {}) /\ (k # 0 => 1 .. k # {})
  <2>1. 1 .. k \subseteq 1 .. n
    OBVIOUS
  <2>2. k = 0 => 1 .. k = {}
    OBVIOUS
  <2>3. k # 0 => 1 \in 1 .. k
    OBVIOUS
  <2> QED
    BY <2>1, <2>2, <2>3
<1>6. \A T \in D : iter[T] = Step(iter, T)
  BY <1>4
<1> HIDE DEF D
<1> DEFINE h == [k \in 0 .. n |-> iter[1 .. k]]
<1>7. h[0] = <<>> /\ h[n] = iter[1 .. n]
  <2>1. 0 \in 0 .. n /\ n \in 0 .. n
    OBVIOUS
  <2>2. iter[1 .. 0] = <<>>
    BY <1>5, <1>6, <2>1
  <2> QED
    BY <2>1, <2>2
<1>8. ASSUME NEW k \in 1 .. n
      PROVE  h[k] = WithEvent(t, h[k - 1], events[k])
  <2>1. k - 1 \in 0 .. n /\ k \in 0 .. n /\ k # 0
    OBVIOUS
  <2>2. Max(1 .. k) = k /\ (1 .. k) \ {Max(1 .. k)} = 1 .. (k - 1)
    BY MaxUpto
  <2>3. 1 .. k \in D /\ 1 .. k # {}
    BY <1>5, <2>1
  <2>4. iter[1 .. k] = WithEvent(t, iter[1 .. (k - 1)], events[k])
    BY <1>6, <2>2, <2>3
  <2> QED
    BY <2>1, <2>4
<1> HIDE DEF h
<1> QED
  BY <1>1, <1>7, <1>8

\* What concatenation does to sequences of whatever elements.
LEMMA Concatenated ==
  ASSUME NEW s, IsSequence(s), NEW v, IsSequence(v)
  PROVE  /\ IsSequence(s \o v) /\ Len(s) \in Nat /\ Len(v) \in Nat
         /\ Len(s \o v) = Len(s) + Len(v)
         /\ \A i \in 1 .. Len(s) : (s \o v)[i] = s[i]
         /\ \A i \in 1 .. Len(v) : (s \o v)[Len(s) + i] = v[i]
<1>1. PICK S : s \in Seq(S)
  BY DEF IsSequence
<1>2. PICK V : v \in Seq(V)
  BY DEF IsSequence
<1> DEFINE T == S \cup V
<1>3. s \in Seq(T) /\ v \in Seq(T)
  BY <1>1, <1>2
<1> HIDE DEF T
<1>4. s \o v \in Seq(T) /\ Len(s) \in Nat /\ Len(v) \in Nat /\ Len(s \o v) = Len(s) + Len(v)
  BY <1>3
<1>5. \A i \in 1 .. Len(s) : (s \o v)[i] = s[i]
  BY <1>3
<1>6. \A i \in 1 .. Len(v) : (s \o v)[Len(s) + i] = v[i]
  BY <1>3
<1> QED
  BY <1>4, <1>5, <1>6 DEF IsSequence

\* One more event in the output adds its values to what its thread shows.
LEMMA ShownAppended ==
  ASSUME NEW t, NEW events, IsSequence(events), NEW e
  PROVE  ShownIn(t, Append(events, e)) = WithEvent(t, ShownIn(t, events), e)
<1> DEFINE n == Len(events)
           E == Append(events, e)
<1>1. /\ n \in Nat /\ DOMAIN events = 1 .. n /\ DOMAIN E = 1 .. (n + 1) /\ E[n + 1] = e
      /\ \A k \in 1 .. n : E[k] = events[k]
  BY Appended
<1> HIDE DEF n, E
<1>2. PICK h : /\ h[0] = <<>> /\ ShownIn(t, events) = h[n]
               /\ \A k \in 1 .. n : h[k] = WithEvent(t, h[k - 1], events[k])
  BY <1>1, ShownStep
<1>3. PICK g : /\ g[0] = <<>> /\ ShownIn(t, E) = g[n + 1]
               /\ \A k \in 1 .. (n + 1) : g[k] = WithEvent(t, g[k - 1], E[k])
  BY <1>1, ShownStep
<1> DEFINE S == {k \in 0 .. n : g[k] = h[k]}
<1>4. 0 \in S
  BY <1>1, <1>2, <1>3
<1>5. ASSUME NEW k \in 1 .. n, k - 1 \in S
      PROVE  k \in S
  <2>1. k \in 1 .. (n + 1) /\ k \in 0 .. n
    BY <1>1
  <2> QED
    BY <1>1, <1>2, <1>3, <1>5, <2>1
<1> HIDE DEF S
<1>6. n \in S
  <2>1. n \in Nat
    BY <1>1
  <2> HIDE <1>1, <1>2, <1>3
  <2>2. 0 .. n \subseteq S
    BY <1>4, <1>5, <2>1, BoundedInduction
  <2> QED
    BY <2>1, <2>2
<1>7. g[n] = h[n]
  BY <1>6 DEF S
<1>8. n + 1 \in 1 .. (n + 1) /\ (n + 1) - 1 = n
  BY <1>1
<1> QED
  BY <1>1, <1>2, <1>3, <1>7, <1>8 DEF E

\* Nothing is shown at first.
LEMMA NothingShown == \A t : ShownIn(t, <<>>) = <<>>
<1> TAKE t
<1>1. DOMAIN <<>> = 1 .. 0
  BY EmptyIsSequence
<1>2. PICK h : h[0] = <<>> /\ ShownIn(t, <<>>) = h[0]
  BY <1>1, ShownStep
<1> QED
  BY <1>2

\* A list of bursts of thread t among the first k, in order.
ListsBursts(L, k, t, bursts) ==
  /\ IsSequence(L)
  /\ \A n \in 1 .. Len(L) : L[n] \in 1 .. k /\ bursts[L[n]].thread = t
  /\ \A m, n \in 1 .. Len(L) : m < n => L[m] < L[n]

\* What the list of the bursts to print is.
LEMMA PrintedIs ==
  ASSUME NEW bursts, IsSequence(bursts), NEW t, NEW completeOnly
  PROVE  ListsBursts(PrintedOf(t, bursts, completeOnly), Len(bursts), t, bursts)
<1> DEFINE N == Len(bursts)
<1>1. N \in Nat /\ DOMAIN bursts = 1 .. N
  BY SequenceDomain
<1> HIDE DEF N
<1>2. DOMAIN Positions(bursts) = 1 .. N /\ \A k \in 1 .. N : Positions(bursts)[k] = k
  BY <1>1 DEF Positions
<1>3. PICK h : /\ h[0] = <<>> /\ PrintedOf(t, bursts, completeOnly) = h[N]
               /\ \A k \in 1 .. N :
                    h[k] = Pushed(t, bursts, completeOnly, h[k - 1], Positions(bursts)[k])
  <2>1. N \in Nat /\ DOMAIN Positions(bursts) = 1 .. N
    BY <1>1, <1>2
  <2> HIDE <1>1, <1>2
  <2> QED
    BY <2>1, PrintedStep
<1> DEFINE S == {k \in 0 .. N : ListsBursts(h[k], k, t, bursts)}
<1>4. 0 \in S
  BY <1>1, <1>3, EmptyIsSequence DEF ListsBursts
<1>5. ASSUME NEW k \in 1 .. N, k - 1 \in S
      PROVE  k \in S
  <2> DEFINE L == h[k - 1]
  <2>1. /\ ListsBursts(L, k - 1, t, bursts) /\ k \in 0 .. N
        /\ h[k] = Pushed(t, bursts, completeOnly, L, k)
    BY <1>1, <1>2, <1>3, <1>5
  <2> HIDE DEF L
  <2>2. /\ IsSequence(L) /\ Len(L) \in Nat
        /\ \A n \in 1 .. Len(L) : L[n] \in 1 .. k /\ L[n] < k /\ bursts[L[n]].thread = t
    <3>1. IsSequence(L) /\ \A n \in 1 .. Len(L) : L[n] \in 1 .. (k - 1) /\ bursts[L[n]].thread = t
      BY <2>1 DEF ListsBursts
    <3>2. \A x \in 1 .. (k - 1) : x \in 1 .. k /\ x < k
      BY <1>1
    <3> QED
      BY <3>1, <3>2, SequenceDomain
  <2>3. CASE h[k] = L
    <3>1. ListsBursts(L, k, t, bursts)
      BY <2>1, <2>2 DEF ListsBursts
    <3> QED
      BY <2>1, <2>3, <3>1
  <2>4. CASE h[k] = Append(L, k) /\ bursts[k].thread = t
    <3> DEFINE M == Append(L, k)
    <3>1. /\ IsSequence(M) /\ Len(M) = Len(L) + 1 /\ M[Len(L) + 1] = k
          /\ \A n \in 1 .. Len(L) : M[n] = L[n]
      BY <2>2, Appended
    <3> HIDE DEF M
    <3>2. \A n \in 1 .. Len(M) : n \in 1 .. Len(L) \/ n = Len(L) + 1
      BY <2>2, <3>1
    <3>3. \A n \in 1 .. Len(M) : M[n] \in 1 .. k /\ bursts[M[n]].thread = t
      <4> TAKE n \in 1 .. Len(M)
      <4>1. CASE n \in 1 .. Len(L)
        BY <2>2, <3>1, <4>1
      <4>2. CASE n = Len(L) + 1
        BY <1>1, <2>4, <3>1, <4>2
      <4> QED
        BY <3>2, <4>1, <4>2
    <3>4. ASSUME NEW m \in 1 .. Len(M), NEW n \in 1 .. Len(M), m < n
          PROVE  M[m] < M[n]
      <4>1. m \in 1 .. Len(L)
        BY <2>2, <3>1, <3>4
      <4>2. CASE n \in 1 .. Len(L)
        BY <2>1, <3>1, <3>4, <4>1, <4>2 DEF ListsBursts
      <4>3. CASE n = Len(L) + 1
        BY <2>2, <3>1, <4>1, <4>3
      <4> QED
        BY <3>2, <4>2, <4>3
    <3>5. ListsBursts(M, k, t, bursts)
      BY <3>1, <3>3, <3>4 DEF ListsBursts
    <3> QED
      BY <2>1, <2>4, <3>5 DEF M
  <2> QED
    BY <2>1, <2>3, <2>4 DEF Pushed
<1> HIDE DEF S
<1>6. N \in S
  BY <1>1, <1>4, <1>5, BoundedInduction
<1> QED
  BY <1>3, <1>6 DEF S, N

\* The number of complete bursts among the first k.
LEMMA CompleteCounted ==
  ASSUME NEW bursts, IsSequence(bursts), NEW k \in 1 .. Len(bursts)
  PROVE  Len(CompleteBursts(SubSeq(bursts, 1, k)))
           = Cardinality({i \in 1 .. k : bursts[i].kind = 0})
<1> DEFINE B == SubSeq(bursts, 1, k)
           Zero(j) == {i \in 1 .. j : bursts[i].kind = 0}
<1>1. Len(bursts) \in Nat /\ k \in Nat
  BY SequenceDomain
<1>2. DOMAIN B = 1 .. k /\ \A j \in 1 .. k : B[j] = bursts[j]
  <2>1. PICK V : bursts \in Seq(V)
    BY DEF IsSequence
  <2> QED
    BY <1>1, <2>1
<1> HIDE DEF B
<1>3. PICK h : /\ h[0] = <<>> /\ CompleteBursts(B) = h[k]
               /\ \A j \in 1 .. k : h[j] = Completed(h[j - 1], B[j])
  BY <1>1, <1>2, CompleteStep
<1> DEFINE S == {j \in 0 .. k : /\ IsSequence(h[j]) /\ IsFiniteSet(Zero(j))
                                /\ Len(h[j]) = Cardinality(Zero(j))}
<1>4. 0 \in S
  <2>1. Zero(0) = {}
    OBVIOUS
  <2>2. 0 \in 0 .. k
    BY <1>1
  <2> HIDE DEF Zero
  <2> QED
    BY <1>3, <2>1, <2>2, EmptyIsSequence, FS_EmptySet
<1>5. ASSUME NEW j \in 1 .. k, j - 1 \in S
      PROVE  j \in S
  <2>1. /\ IsSequence(h[j - 1]) /\ IsFiniteSet(Zero(j - 1))
        /\ Len(h[j - 1]) = Cardinality(Zero(j - 1)) /\ j \in 0 .. k
    BY <1>5
  <2>2. h[j] = Completed(h[j - 1], bursts[j])
    BY <1>2, <1>3
  <2>3. CASE bursts[j].kind = 0
    <3>1. Zero(j) = Zero(j - 1) \cup {j} /\ j \notin Zero(j - 1)
      BY <2>3
    <3> DEFINE Z == Zero(j - 1)
    <3>2. IsFiniteSet(Zero(j)) /\ Cardinality(Zero(j)) = Cardinality(Zero(j - 1)) + 1
      <4>1. IsFiniteSet(Z) /\ j \notin Z /\ Zero(j) = Z \cup {j}
        BY <2>1, <3>1
      <4> HIDE DEF Z
      <4>2. IsFiniteSet(Z \cup {j}) /\ Cardinality(Z \cup {j}) = Cardinality(Z) + 1
        BY <4>1, FS_AddElement
      <4> QED
        BY <4>1, <4>2 DEF Z
    <3>3. h[j] = Append(h[j - 1], bursts[j])
      BY <2>2, <2>3 DEF Completed
    <3>4. IsSequence(h[j]) /\ Len(h[j]) = Len(h[j - 1]) + 1
      BY <2>1, <3>3, Appended
    <3> QED
      BY <2>1, <3>2, <3>4
  <2>4. CASE bursts[j].kind # 0
    <3>1. Zero(j) = Zero(j - 1)
      BY <2>4
    <3> HIDE DEF Zero
    <3>2. h[j] = h[j - 1]
      BY <2>2, <2>4 DEF Completed
    <3> QED
      BY <2>1, <3>1, <3>2
  <2> QED
    BY <2>3, <2>4
<1> HIDE DEF S
<1>6. k \in S
  <2>1. k \in Nat
    BY <1>1
  <2>2. 0 .. k \subseteq S
    BY <1>4, <1>5, <2>1, BoundedInduction
  <2> QED
    BY <2>1, <2>2
<1> QED
  BY <1>3, <1>6 DEF S, B

\* The writer gives each burst the id that is its own.
LEMMA CurrentIDIs ==
  ASSUME IsSequence(AllBursts), NEW k \in 1 .. Len(AllBursts)
  PROVE  CurrentID(k) = IdOf(k)
BY CompleteCounted DEF CurrentID, IdOf

-----------------------------------------------------------------------------
(***************************************************************************)
(* The trace is in order of time, thread by thread.                        *)
(***************************************************************************)
InTime ==
  /\ \A i \in 1 .. Len(trace) : trace[i] \in Record
  /\ \A i, k \in 1 .. Len(trace) :
       i < k /\ trace[i].thread = trace[k].thread => trace[i].time <= trace[k].time
  /\ \A t \in Thread : \A i \in 1 .. Len(left[t]) :
       /\ \A j \in 1 .. i - 1 : left[t][j].time <= left[t][i].time
       /\ \A k \in 1 .. Len(trace) : trace[k].thread = t => trace[k].time <= left[t][i].time

\* At first it is empty.
LEMMA InTimeInit == Init => InTime
<1> SUFFICES ASSUME Init
             PROVE  InTime
  OBVIOUS
<1>1. trace = <<>> /\ left \in Inputs /\ left \in [Thread -> Seq(Record)]
  BY InputsAssumption DEF Init
<1>2. \A i : i \notin 1 .. Len(trace)
  BY <1>1, EmptyIsSequence
<1>3. \A t \in Thread : \A i \in 1 .. Len(left[t]) : \A j \in 1 .. i - 1 :
        left[t][j].time <= left[t][i].time
  BY <1>1, InputsAssumption
<1> QED
  BY <1>2, <1>3 DEF InTime

\* And the next record of a thread is not before those that are read.
LEMMA InTimeKept ==
  ASSUME IInv, InTime, NEW t \in Thread, GetNextRecord(t)
  PROVE  InTime'
<1> DEFINE L == left[t]
           n == Len(L)
           r == Head(L)
           N == Len(trace)
<1>1. /\ L # <<>> /\ left' = [left EXCEPT ![t] = Tail(L)] /\ trace' = Append(trace, r)
  BY DEF GetNextRecord
<1>2. IsSequence(trace) /\ left = [u \in Thread |-> left[u]] /\ L \in Seq(Record)
  BY DEF IInv, Shapes, Ahead
<1>3. /\ left'[t] = Tail(L) /\ \A u \in Thread : u # t => left'[u] = left[u]
  BY <1>1, <1>2
<1>4. /\ \A i \in 1 .. N : trace[i] \in Record
      /\ \A i, k \in 1 .. N :
           i < k /\ trace[i].thread = trace[k].thread => trace[i].time <= trace[k].time
      /\ \A u \in Thread : \A i \in 1 .. Len(left[u]) : \A j \in 1 .. i - 1 :
           left[u][j].time <= left[u][i].time
  BY DEF InTime
<1>5. \A u \in Thread : \A i \in 1 .. Len(left[u]) : \A k \in 1 .. N :
        trace[k].thread = u => trace[k].time <= left[u][i].time
  BY DEF InTime
<1>6. /\ \A i \in 1 .. n : \A j \in 1 .. i - 1 : L[j].time <= L[i].time
      /\ \A i \in 1 .. n : \A k \in 1 .. N : trace[k].thread = t => trace[k].time <= L[i].time
  BY <1>4, <1>5
<1>7. r \in Record /\ r.thread = t
  BY RecordIs
<1> HIDE DEF L
<1>8. /\ n \in Nat /\ 1 \in 1 .. n /\ r = L[1] /\ Len(Tail(L)) = n - 1
      /\ \A i \in 1 .. (n - 1) :
           i + 1 \in 1 .. n /\ 1 \in 1 .. (i + 1) - 1 /\ Tail(L)[i] = L[i + 1]
  BY <1>1, <1>2
<1> HIDE DEF n, r
<1>9. /\ N \in Nat /\ Len(trace') = N + 1 /\ trace'[N + 1] = r
      /\ \A k \in 1 .. N : trace'[k] = trace[k]
  BY <1>1, <1>2, Appended
<1> HIDE DEF N
<1>10. \A k \in 1 .. (N + 1) : k \in 1 .. N \/ k = N + 1
  BY <1>9
<1>11. \A k \in 1 .. N : trace[k].thread = t => trace[k].time <= r.time
  BY <1>6, <1>8
<1>12. \A i \in 1 .. (N + 1) : trace'[i] \in Record
  BY <1>4, <1>7, <1>9, <1>10
<1>13. ASSUME NEW i \in 1 .. (N + 1), NEW k \in 1 .. (N + 1), i < k,
              trace'[i].thread = trace'[k].thread
       PROVE  trace'[i].time <= trace'[k].time
  <2>1. i \in 1 .. N
    BY <1>9, <1>13
  <2>2. CASE k \in 1 .. N
    BY <1>4, <1>9, <1>13, <2>1, <2>2
  <2>3. CASE k = N + 1
    BY <1>7, <1>9, <1>11, <1>13, <2>1, <2>3
  <2> QED
    BY <1>10, <2>2, <2>3
<1>14. ASSUME NEW u \in Thread, NEW i \in 1 .. Len(left'[u])
       PROVE  /\ \A j \in 1 .. i - 1 : left'[u][j].time <= left'[u][i].time
              /\ \A k \in 1 .. (N + 1) :
                   trace'[k].thread = u => trace'[k].time <= left'[u][i].time
  <2>1. CASE u # t
    <3>1. left'[u] = left[u]
      BY <1>3, <2>1
    <3>2. \A j \in 1 .. i - 1 : left[u][j].time <= left[u][i].time
      BY <1>4, <3>1
    <3>3. \A k \in 1 .. N : trace[k].thread = u => trace[k].time <= left[u][i].time
      BY <1>5, <3>1
    <3>4. ASSUME NEW k \in 1 .. (N + 1), trace'[k].thread = u
          PROVE  k \in 1 .. N /\ trace'[k] = trace[k]
      BY <1>7, <1>9, <1>10, <2>1, <3>4
    <3> QED
      BY <3>1, <3>2, <3>3, <3>4
  <2>2. CASE u = t
    <3>1. /\ i \in 1 .. (n - 1) /\ left'[u][i] = L[i + 1]
          /\ i + 1 \in 1 .. n /\ 1 \in 1 .. (i + 1) - 1
      <4>1. left'[u] = Tail(L)
        BY <1>3, <2>2
      <4>2. i \in 1 .. (n - 1)
        BY <1>8, <4>1
      <4> QED
        BY <1>8, <4>1, <4>2
    <3>2. \A j \in 1 .. i - 1 : j + 1 \in 1 .. (i + 1) - 1 /\ left'[u][j] = L[j + 1]
      <4>1. left'[u] = Tail(L)
        BY <1>3, <2>2
      <4>2. \A j \in 1 .. i - 1 : j \in 1 .. (n - 1) /\ j + 1 \in 1 .. (i + 1) - 1
        BY <1>8, <3>1
      <4> QED
        BY <1>8, <4>1, <4>2
    <3>3. \A j \in 1 .. i - 1 : left'[u][j].time <= left'[u][i].time
      BY <1>6, <3>1, <3>2
    <3>4. ASSUME NEW k \in 1 .. (N + 1), trace'[k].thread = u
          PROVE  trace'[k].time <= left'[u][i].time
      <4>1. CASE k \in 1 .. N
        BY <1>6, <1>9, <2>2, <3>1, <3>4, <4>1
      <4>2. CASE k = N + 1
        BY <1>6, <1>8, <1>9, <3>1, <4>2
      <4> QED
        BY <1>10, <4>1, <4>2
    <3> QED
      BY <3>3, <3>4
  <2> QED
    BY <2>1, <2>2
<1> QED
  BY <1>9, <1>12, <1>13, <1>14 DEF InTime

\* Every step keeps the order.
LEMMA InTimeNext == IInv /\ InTime /\ [Next]_vars => InTime'
<1> SUFFICES ASSUME IInv, InTime, [Next]_vars
             PROVE  InTime'
  OBVIOUS
<1>1. CASE \E t \in Thread : GetNextRecord(t)
  BY <1>1, InTimeKept
<1>2. CASE UNCHANGED <<left, trace>>
  BY <1>2 DEF InTime
<1>3. (\E t \in Thread : GetNextRecord(t)) \/ UNCHANGED <<left, trace>>
  <2>1. ASSUME NEW t \in Thread, ReadState(t) \/ ReadEvent(t) \/ SkipCommunication(t)
        PROVE  GetNextRecord(t)
    BY <2>1 DEF ReadState, ReadEvent, SkipCommunication
  <2>2. CASE EndOfFile \/ ClusterAnalysis \/ StartWriting \/ Finish
    BY <2>2 DEF EndOfFile, ClusterAnalysis, StartWriting, Finish
  <2>3. CASE CloseAndOpen \/ Open \/ OpenAgain \/ Close \/ Copy
    BY <2>3 DEF CloseAndOpen, Open, OpenAgain, Close, Copy, NextRecord
  <2>4. CASE Terminated \/ UNCHANGED vars
    BY <2>4 DEF Terminated, vars
  <2> QED
    BY <2>1, <2>2, <2>3, <2>4 DEF Next
<1> QED
  BY <1>1, <1>2, <1>3

-----------------------------------------------------------------------------
(***************************************************************************)
(* What has been written for thread t.  R are the bursts to print, of      *)
(* which d have been closed, L is what is left of them, last what          *)
(* LastBurstsPrinted has, S what the thread shows; the records of the      *)
(* trace tr before p have been written.                                    *)
(***************************************************************************)
\* The bursts to print begin at a record, and do not overlap.
AreRegions(R, tr, t) ==
  /\ IsSequence(R)
  /\ \A n \in 1 .. Len(R) :
       /\ R[n].BeginTime \in Nat /\ R[n].EndTime \in Nat /\ R[n].BeginTime < R[n].EndTime
       /\ \E i \in 1 .. Len(tr) : tr[i].thread = t /\ tr[i].time = R[n].BeginTime
  /\ \A m, n \in 1 .. Len(R) : m < n => R[m].EndTime <= R[n].BeginTime

\* The records of thread t are in order.
AreInOrder(tr, t) ==
  /\ \A i \in 1 .. Len(tr) : tr[i].thread = t => tr[i].time \in Nat
  /\ \A i, k \in 1 .. Len(tr) :
       i < k /\ tr[i].thread = t /\ tr[k].thread = t => tr[i].time <= tr[k].time

\* The first burst of the list has an event that opened it.
IsOpen(L, last) == L # <<>> /\ (L[1].InUse \/ last = <<L[1].BeginTime, L[1].ID>>)

\* The list is the rest of R.
Remains(R, d, L) ==
  /\ d \in Nat /\ IsSequence(L) /\ IsSequence(R) /\ d + Len(L) = Len(R)
  /\ \A i \in 1 .. Len(L) :
       /\ L[i] \in [BeginTime : {R[d + i].BeginTime}, EndTime : {R[d + i].EndTime},
                    InUse : BOOLEAN, ID : {R[d + i].ID}]
       /\ i > 1 => ~ L[i].InUse

\* Each burst that is closed shows from its begin to its end, and one that is open, its begin.
Shows(R, d, open, S) ==
  /\ IsSequence(S) /\ Len(S) = IF open THEN 2 * d + 1 ELSE 2 * d
  /\ \A n \in 1 .. d : /\ S[2 * n - 1] = <<R[n].BeginTime, R[n].ID>>
                       /\ S[2 * n] = <<R[n].EndTime, 0>>
  /\ open => S[2 * d + 1] = <<R[d + 1].BeginTime, R[d + 1].ID>>

\* The last event that opened a burst.
Remembers(R, d, last) ==
  last = <<>> \/ \E n \in 1 .. Len(R) : n <= d + 1 /\ last = <<R[n].BeginTime, R[n].ID>>

\* No record so far ends the first burst of the list, or begins it while it is not open.
Waits(tr, t, L, open, p) ==
  L # <<>> =>
    \A i \in 1 .. (p - 1) : tr[i].thread = t =>
      /\ tr[i].time # L[1].EndTime
      /\ ~ open => tr[i].time < L[1].BeginTime

\* A burst that is closed has a record at its end.
AreMarked(R, tr, t, d) ==
  \A n \in 1 .. d : \E i \in 1 .. Len(tr) : tr[i].thread = t /\ tr[i].time = R[n].EndTime

Written(R, tr, t, d, L, last, S, p) ==
  /\ Remains(R, d, L) /\ Shows(R, d, IsOpen(L, last), S) /\ Remembers(R, d, last)
  /\ Waits(tr, t, L, IsOpen(L, last), p) /\ AreMarked(R, tr, t, d)

\* The first burst of the list and what follows it.
LEMMA FirstOf ==
  ASSUME NEW R, NEW tr, NEW t, AreRegions(R, tr, t), NEW d, NEW L, Remains(R, d, L), L # <<>>
  PROVE  /\ d \in Nat /\ d + 1 \in 1 .. Len(R) /\ Len(L) \in Nat /\ 1 \in 1 .. Len(L)
         /\ Head(L) = L[1] /\ L[1].BeginTime = R[d + 1].BeginTime
         /\ L[1].EndTime = R[d + 1].EndTime /\ L[1].ID = R[d + 1].ID
         /\ L[1].BeginTime \in Nat /\ L[1].EndTime \in Nat /\ L[1].BeginTime < L[1].EndTime
<1>1. IsSequence(L) /\ IsSequence(R) /\ d \in Nat /\ d + Len(L) = Len(R)
  BY DEF Remains
<1>2. PICK V : L \in Seq(V)
  BY <1>1 DEF IsSequence
<1>3. Len(L) \in Nat /\ 1 \in 1 .. Len(L) /\ Head(L) = L[1]
  BY <1>2
<1>4. d + 1 \in 1 .. Len(R)
  BY <1>1, <1>3, SequenceDomain
<1>5. /\ L[1].BeginTime = R[d + 1].BeginTime
      /\ L[1].EndTime = R[d + 1].EndTime /\ L[1].ID = R[d + 1].ID
  BY <1>3 DEF Remains
<1> QED
  BY <1>1, <1>3, <1>4, <1>5 DEF AreRegions

\* Until a burst is open, what is written of its thread is before it.
LEMMA NotYetOpen ==
  ASSUME NEW R, NEW tr, NEW t, AreRegions(R, tr, t), AreInOrder(tr, t), IsSequence(tr),
         NEW d, NEW L, Remains(R, d, L), L # <<>>,
         NEW p \in 1 .. Len(tr), tr[p].thread = t, Waits(tr, t, L, FALSE, p)
  PROVE  tr[p].time <= L[1].BeginTime
<1>1. /\ d + 1 \in 1 .. Len(R) /\ L[1].BeginTime = R[d + 1].BeginTime /\ L[1].BeginTime \in Nat
  BY FirstOf
<1>2. PICK i \in 1 .. Len(tr) : tr[i].thread = t /\ tr[i].time = L[1].BeginTime
  BY <1>1 DEF AreRegions
<1>3. i \notin 1 .. (p - 1)
  BY <1>1, <1>2 DEF Waits
<1>4. Len(tr) \in Nat
  BY SequenceDomain
<1>5. i = p \/ p < i
  BY <1>3, <1>4
<1> QED
  BY <1>2, <1>5 DEF AreInOrder

\* A burst that ends at a record is open.
LEMMA EndsOpen ==
  ASSUME NEW R, NEW tr, NEW t, AreRegions(R, tr, t), AreInOrder(tr, t), IsSequence(tr),
         NEW d, NEW L, NEW last, NEW S, NEW p \in 1 .. Len(tr), tr[p].thread = t,
         Written(R, tr, t, d, L, last, S, p), L # <<>>, L[1].EndTime = tr[p].time
  PROVE  IsOpen(L, last)
<1> SUFFICES ASSUME ~ IsOpen(L, last)
             PROVE  FALSE
  OBVIOUS
<1>1. Remains(R, d, L) /\ Waits(tr, t, L, FALSE, p)
  BY DEF Written, Waits
<1>2. tr[p].time <= L[1].BeginTime
  BY <1>1, NotYetOpen
<1>3. L[1].BeginTime \in Nat /\ L[1].EndTime \in Nat /\ L[1].BeginTime < L[1].EndTime
  BY <1>1, FirstOf
<1> QED
  BY <1>2, <1>3

\* What lies before the next record does, or is that record.
LEMMA UptoNext ==
  ASSUME NEW p \in Nat, NEW i \in 1 .. ((p + 1) - 1)
  PROVE  i \in 1 .. (p - 1) \/ i = p
OBVIOUS

\* Z is S with the values v after it.
Prolongs(Z, S, v) ==
  /\ IsSequence(Z) /\ Len(Z) = Len(S) + Len(v)
  /\ \A i \in 1 .. Len(S) : Z[i] = S[i]
  /\ \A i \in 1 .. Len(v) : Z[Len(S) + i] = v[i]

\* The burst that is open is closed, and perhaps the next one opened.
LEMMA ShowsClosed ==
  ASSUME NEW R, NEW d \in Nat, NEW S, Shows(R, d, TRUE, S), NEW Z,
         \/ Prolongs(Z, S, <<<<R[d + 1].EndTime, 0>>>>)
         \/ Prolongs(Z, S, <<<<R[d + 1].EndTime, 0>>, <<R[d + 2].BeginTime, R[d + 2].ID>>>>)
  PROVE  /\ Prolongs(Z, S, <<<<R[d + 1].EndTime, 0>>>>) => Shows(R, d + 1, FALSE, Z)
         /\ Prolongs(Z, S, <<<<R[d + 1].EndTime, 0>>, <<R[d + 2].BeginTime, R[d + 2].ID>>>>)
              => Shows(R, d + 1, TRUE, Z)
<1>1. /\ Len(S) = 2 * d + 1 /\ S[2 * d + 1] = <<R[d + 1].BeginTime, R[d + 1].ID>>
      /\ \A n \in 1 .. d : /\ S[2 * n - 1] = <<R[n].BeginTime, R[n].ID>>
                           /\ S[2 * n] = <<R[n].EndTime, 0>>
  BY DEF Shows
<1> DEFINE a == <<R[d + 1].EndTime, 0>>
           b == <<R[d + 2].BeginTime, R[d + 2].ID>>
           v == <<a>>
           w == <<a, b>>
<1>2. Len(v) = 1 /\ v[1] = a /\ Len(w) = 2 /\ w[1] = a /\ w[2] = b
  OBVIOUS
<1> HIDE DEF v, w
<1>3. /\ IsSequence(Z) /\ \A i \in 1 .. (2 * d + 1) : Z[i] = S[i]
      /\ Z[(2 * d + 1) + 1] = a
      /\ Prolongs(Z, S, v) => Len(Z) = 2 * d + 2
      /\ Prolongs(Z, S, w) => Len(Z) = 2 * d + 3 /\ Z[(2 * d + 1) + 2] = b
  <2>1. Prolongs(Z, S, v) \/ Prolongs(Z, S, w)
    BY DEF v, w
  <2>2. 1 \in 1 .. 1 /\ 1 \in 1 .. 2 /\ 2 \in 1 .. 2
    OBVIOUS
  <2> HIDE DEF a, b
  <2>3. /\ IsSequence(Z) /\ \A i \in 1 .. (2 * d + 1) : Z[i] = S[i]
        /\ Z[(2 * d + 1) + 1] = a
    BY <1>1, <1>2, <2>1, <2>2 DEF Prolongs
  <2>4. Prolongs(Z, S, v) => Len(Z) = 2 * d + 2
    BY <1>1, <1>2 DEF Prolongs
  <2>5. Prolongs(Z, S, w) => Len(Z) = 2 * d + 3 /\ Z[(2 * d + 1) + 2] = b
    BY <1>1, <1>2, <2>2 DEF Prolongs
  <2> QED
    BY <2>3, <2>4, <2>5
<1>4. ASSUME NEW n \in 1 .. (d + 1)
      PROVE  Z[2 * n - 1] = <<R[n].BeginTime, R[n].ID>> /\ Z[2 * n] = <<R[n].EndTime, 0>>
  <2>1. CASE n \in 1 .. d
    <3>1. 2 * n - 1 \in 1 .. (2 * d + 1) /\ 2 * n \in 1 .. (2 * d + 1)
      BY <2>1
    <3> QED
      BY <1>1, <1>3, <2>1, <3>1
  <2>2. CASE n = d + 1
    <3>1. /\ 2 * n - 1 = 2 * d + 1 /\ 2 * n = (2 * d + 1) + 1
          /\ 2 * d + 1 \in 1 .. (2 * d + 1)
      BY <2>2
    <3> QED
      BY <1>1, <1>3, <2>2, <3>1
  <2> QED
    BY <2>1, <2>2
<1>5. 2 * (d + 1) = 2 * d + 2 /\ 2 * (d + 1) + 1 = 2 * d + 3 /\ (2 * d + 1) + 2 = 2 * (d + 1) + 1
      /\ (d + 1) + 1 = d + 2
  OBVIOUS
<1>6. Prolongs(Z, S, v) => Shows(R, d + 1, FALSE, Z)
  BY <1>3, <1>4, <1>5 DEF Shows
<1>7. Prolongs(Z, S, w) => Shows(R, d + 1, TRUE, Z)
  BY <1>3, <1>4, <1>5 DEF Shows
<1> QED
  BY <1>6, <1>7 DEF v, w

\* The first burst of the list is opened.
LEMMA ShowsOpened ==
  ASSUME NEW R, NEW d \in Nat, NEW S, Shows(R, d, FALSE, S), NEW Z,
         Prolongs(Z, S, <<<<R[d + 1].BeginTime, R[d + 1].ID>>>>)
  PROVE  Shows(R, d, TRUE, Z)
<1>1. /\ Len(S) = 2 * d
      /\ \A n \in 1 .. d : /\ S[2 * n - 1] = <<R[n].BeginTime, R[n].ID>>
                           /\ S[2 * n] = <<R[n].EndTime, 0>>
  BY DEF Shows
<1> DEFINE a == <<R[d + 1].BeginTime, R[d + 1].ID>>
           v == <<a>>
<1>2. Len(v) = 1 /\ v[1] = a /\ Prolongs(Z, S, v)
  OBVIOUS
<1> HIDE DEF v, a
<1>3. /\ IsSequence(Z) /\ Len(Z) = 2 * d + 1 /\ Z[2 * d + 1] = a
      /\ \A i \in 1 .. 2 * d : Z[i] = S[i]
  BY <1>1, <1>2 DEF Prolongs
<1>4. \A n \in 1 .. d : 2 * n - 1 \in 1 .. 2 * d /\ 2 * n \in 1 .. 2 * d
  OBVIOUS
<1>5. \A n \in 1 .. d : /\ Z[2 * n - 1] = <<R[n].BeginTime, R[n].ID>>
                        /\ Z[2 * n] = <<R[n].EndTime, 0>>
  BY <1>1, <1>3, <1>4
<1> QED
  BY <1>3, <1>5 DEF Shows, a

\* What is left when the first burst has been closed.
LEMMA RestOf ==
  ASSUME NEW R, NEW d, NEW L, Remains(R, d, L), L # <<>>
  PROVE  /\ Remains(R, d + 1, Tail(L)) /\ Len(L) \in Nat /\ Len(Tail(L)) = Len(L) - 1
         /\ Tail(L) # <<>> => Len(L) > 1 /\ Tail(L)[1] = L[2] /\ ~ L[2].InUse
         /\ Len(L) > 1 => Tail(L) # <<>>
<1>1. IsSequence(L) /\ IsSequence(R) /\ d \in Nat /\ d + Len(L) = Len(R)
  BY DEF Remains
<1>2. PICK V : L \in Seq(V)
  BY <1>1 DEF IsSequence
<1> DEFINE T == Tail(L)
<1>3. /\ T \in Seq(V) /\ Len(L) \in Nat /\ Len(T) = Len(L) - 1
      /\ \A i \in 1 .. Len(T) : i + 1 \in 1 .. Len(L) /\ i + 1 > 1 /\ T[i] = L[i + 1]
  <2>1. T \in Seq(V) /\ Len(T) = Len(L) - 1
    BY <1>2, HeadTailProperties
  <2>2. Len(L) \in Nat
    BY <1>2
  <2>3. \A i \in 1 .. Len(T) : T[i] = L[i + 1]
    BY <1>2, HeadTailProperties
  <2> HIDE DEF T
  <2>4. \A i \in 1 .. Len(T) : i + 1 \in 1 .. Len(L) /\ i + 1 > 1
    BY <2>1, <2>2
  <2> QED
    BY <2>1, <2>2, <2>3, <2>4
<1>4. T # <<>> <=> Len(L) > 1
  <2>1. Len(T) = 0 <=> T = <<>>
    BY <1>3, EmptySeq
  <2> HIDE DEF T
  <2> QED
    BY <1>3, <2>1
<1> HIDE DEF T
<1>5. ASSUME NEW i \in 1 .. Len(T)
      PROVE  /\ T[i] \in [BeginTime : {R[(d + 1) + i].BeginTime},
                          EndTime : {R[(d + 1) + i].EndTime},
                          InUse : BOOLEAN, ID : {R[(d + 1) + i].ID}]
             /\ ~ T[i].InUse
  <2>1. d + (i + 1) = (d + 1) + i
    BY <1>1, <1>3
  <2>2. /\ L[i + 1] \in [BeginTime : {R[d + (i + 1)].BeginTime},
                         EndTime : {R[d + (i + 1)].EndTime},
                         InUse : BOOLEAN, ID : {R[d + (i + 1)].ID}]
        /\ ~ L[i + 1].InUse
    BY <1>3 DEF Remains
  <2> QED
    BY <1>3, <2>1, <2>2
<1>6. Remains(R, d + 1, T)
  <2>1. d + 1 \in Nat /\ \A n \in Nat : (d + 1) + (n - 1) = d + n
    BY <1>1
  <2>2. (d + 1) + Len(T) = Len(R)
    <3>1. d + Len(L) = Len(R) /\ Len(T) = Len(L) - 1 /\ Len(L) \in Nat
      BY <1>1, <1>3
    <3> QED
      BY <2>1, <3>1
  <2>3. IsSequence(T)
    BY <1>3 DEF IsSequence
  <2> QED
    BY <1>1, <1>5, <2>1, <2>2, <2>3 DEF Remains
<1>7. T # <<>> => T[1] = L[2] /\ ~ L[2].InUse
  <2>1. T # <<>> => 1 \in 1 .. Len(T) /\ 1 + 1 = 2
    BY <1>3, <1>4
  <2> QED
    BY <1>3, <1>5, <2>1
<1> QED
  BY <1>3, <1>4, <1>6, <1>7 DEF T

\* The list with its first burst in use.
Used(L) == <<[Head(L) EXCEPT !.InUse = TRUE]>> \o Tail(L)

\* It remains the same list.
LEMMA UsedOf ==
  ASSUME NEW R, NEW d, NEW L, Remains(R, d, L), L # <<>>,
         NEW M, M = Used(L)
  PROVE  /\ Remains(R, d, M) /\ M # <<>> /\ M[1].InUse
         /\ M[1].BeginTime = L[1].BeginTime /\ M[1].EndTime = L[1].EndTime /\ M[1].ID = L[1].ID
<1>1. IsSequence(L) /\ IsSequence(R) /\ d \in Nat /\ d + Len(L) = Len(R)
  BY DEF Remains
<1>2. PICK V : L \in Seq(V)
  BY <1>1 DEF IsSequence
<1> DEFINE c == [Head(L) EXCEPT !.InUse = TRUE]
           W == V \cup {c}
<1>3. Len(L) \in Nat /\ 1 \in 1 .. Len(L) /\ Head(L) = L[1] /\ Tail(L) \in Seq(W)
      /\ Len(Tail(L)) = Len(L) - 1 /\ \A i \in 1 .. (Len(L) - 1) : Tail(L)[i] = L[i + 1]
  BY <1>2
<1>4. c \in W
  OBVIOUS
<1>5. L[1] \in [BeginTime : {R[d + 1].BeginTime}, EndTime : {R[d + 1].EndTime},
                InUse : BOOLEAN, ID : {R[d + 1].ID}]
  BY <1>3 DEF Remains
<1>6. /\ c \in [BeginTime : {R[d + 1].BeginTime}, EndTime : {R[d + 1].EndTime},
                InUse : BOOLEAN, ID : {R[d + 1].ID}]
      /\ c.InUse /\ c.BeginTime = L[1].BeginTime /\ c.EndTime = L[1].EndTime /\ c.ID = L[1].ID
  BY <1>3, <1>5
<1> HIDE DEF c, W
<1>7. M = <<c>> \o Tail(L)
  BY DEF c, Used
<1>8. <<c>> \in Seq(W) /\ Len(<<c>>) = 1 /\ <<c>>[1] = c
  BY <1>4
<1>9. M \in Seq(W) /\ Len(M) = Len(L)
  <2>1. M \in Seq(W) /\ Len(M) = Len(<<c>>) + Len(Tail(L))
    BY <1>3, <1>7, <1>8, ConcatProperties
  <2> QED
    BY <1>3, <1>8, <2>1
<1>10. M[1] = c
  BY <1>3, <1>7, <1>8
<1>11. ASSUME NEW i \in 1 .. Len(L), i > 1
       PROVE  M[i] = L[i]
  <2>1. i - 1 \in 1 .. (Len(L) - 1) /\ 1 + (i - 1) = i
    BY <1>3, <1>11
  <2>2. M[i] = Tail(L)[i - 1]
    BY <1>3, <1>7, <1>8, <1>11, <2>1
  <2> QED
    BY <1>3, <2>1, <2>2
<1>12. \A i \in 1 .. Len(L) : i = 1 \/ i > 1
  BY <1>3
<1>13. IsSequence(M) /\ M # <<>>
  BY <1>3, <1>9 DEF IsSequence
<1>14. Remains(R, d, M)
  <2> SUFFICES ASSUME NEW i \in 1 .. Len(L)
               PROVE  /\ M[i] \in [BeginTime : {R[d + i].BeginTime}, EndTime : {R[d + i].EndTime},
                                   InUse : BOOLEAN, ID : {R[d + i].ID}]
                      /\ i > 1 => ~ M[i].InUse
    <3>1. d + Len(M) = Len(R) /\ \A i \in 1 .. Len(M) : i \in 1 .. Len(L)
      BY <1>1, <1>9
    <3> QED
      BY <1>1, <1>13, <3>1 DEF Remains
  <2>1. CASE i = 1
    <3>1. d + i = d + 1 /\ ~ (i > 1) /\ M[i] = c
      BY <1>1, <1>10, <2>1
    <3> QED
      BY <1>6, <3>1
  <2>2. CASE i > 1
    BY <1>11, <2>2 DEF Remains
  <2> QED
    BY <1>12, <2>1, <2>2
<1> QED
  BY <1>6, <1>10, <1>13, <1>14


\* The record p is not one that its thread waits for.
LEMMA WaitsOn ==
  ASSUME NEW tr, NEW t, NEW L, NEW open, NEW p \in Nat, Waits(tr, t, L, open, p),
         tr[p].thread = t /\ L # <<>> =>
           tr[p].time # L[1].EndTime /\ (~ open => tr[p].time < L[1].BeginTime)
  PROVE  Waits(tr, t, L, open, p + 1)
<1> SUFFICES ASSUME L # <<>>, NEW i \in 1 .. ((p + 1) - 1), tr[i].thread = t
             PROVE  tr[i].time # L[1].EndTime /\ (~ open => tr[i].time < L[1].BeginTime)
  BY DEF Waits
<1>1. CASE i \in 1 .. (p - 1)
  BY <1>1 DEF Waits
<1>2. CASE i = p
  BY <1>2
<1> QED
  BY <1>1, <1>2, UptoNext

\* What has been read of a thread is not after the last of it.
LEMMA ReadUpto ==
  ASSUME NEW tr, NEW t, AreInOrder(tr, t), IsSequence(tr), NEW p \in 1 .. Len(tr),
         tr[p].thread = t, NEW i \in 1 .. ((p + 1) - 1), tr[i].thread = t
  PROVE  tr[i].time \in Nat /\ tr[p].time \in Nat /\ tr[i].time <= tr[p].time
<1>1. Len(tr) \in Nat
  BY SequenceDomain
<1>2. i \in 1 .. Len(tr) /\ (i < p \/ i = p)
  BY <1>1
<1> QED
  BY <1>2 DEF AreInOrder

\* When a burst has been closed, what has been written is not after the next one begins.
LEMMA WaitsNext ==
  ASSUME NEW R, NEW tr, NEW t, AreRegions(R, tr, t), AreInOrder(tr, t), IsSequence(tr),
         NEW d, NEW L, Remains(R, d, L), L # <<>>,
         NEW p \in 1 .. Len(tr), tr[p].thread = t, L[1].EndTime = tr[p].time,
         NEW open, ~ open /\ Len(L) > 1 => L[2].BeginTime # tr[p].time
  PROVE  Waits(tr, t, Tail(L), open, p + 1)
<1> DEFINE T == Tail(L)
<1> SUFFICES ASSUME T # <<>>, NEW i \in 1 .. ((p + 1) - 1), tr[i].thread = t
             PROVE  tr[i].time # T[1].EndTime /\ (~ open => tr[i].time < T[1].BeginTime)
  BY DEF Waits
<1>1. Remains(R, d + 1, T) /\ Len(L) > 1 /\ T[1] = L[2]
  BY RestOf
<1> HIDE DEF T
<1>2. /\ d + 1 \in 1 .. Len(R) /\ L[1].EndTime = R[d + 1].EndTime /\ L[1].EndTime \in Nat
      /\ d \in Nat
  BY FirstOf
<1>3. /\ (d + 1) + 1 \in 1 .. Len(R) /\ T[1].BeginTime = R[(d + 1) + 1].BeginTime
      /\ T[1].BeginTime \in Nat /\ T[1].EndTime \in Nat /\ T[1].BeginTime < T[1].EndTime
  <2> DEFINE c == d + 1
  <2>1. Remains(R, c, T) /\ T # <<>>
    BY <1>1
  <2> HIDE DEF c
  <2>2. /\ c + 1 \in 1 .. Len(R) /\ T[1].BeginTime = R[c + 1].BeginTime
        /\ T[1].BeginTime \in Nat /\ T[1].EndTime \in Nat /\ T[1].BeginTime < T[1].EndTime
    BY <2>1, FirstOf
  <2> QED
    BY <2>2 DEF c
<1>4. R[d + 1].EndTime <= R[(d + 1) + 1].BeginTime
  <2>1. d + 1 < (d + 1) + 1
    BY <1>2
  <2> QED
    BY <1>2, <1>3, <2>1 DEF AreRegions
<1>5. tr[i].time \in Nat /\ tr[p].time \in Nat /\ tr[i].time <= tr[p].time
  BY ReadUpto
<1>6. tr[p].time <= T[1].BeginTime
  BY <1>2, <1>3, <1>4
<1>7. ~ open => tr[p].time # T[1].BeginTime
  BY <1>1
<1> QED
  BY <1>3, <1>5, <1>6, <1>7

\* The bursts that are closed have been marked, and now one more.
LEMMA MarkedNext ==
  ASSUME NEW R, NEW tr, NEW t, NEW d \in Nat, AreMarked(R, tr, t, d),
         NEW p \in 1 .. Len(tr), tr[p].thread = t, R[d + 1].EndTime = tr[p].time
  PROVE  AreMarked(R, tr, t, d + 1)
<1> SUFFICES ASSUME NEW n \in 1 .. (d + 1)
             PROVE  \E i \in 1 .. Len(tr) : tr[i].thread = t /\ tr[i].time = R[n].EndTime
  BY DEF AreMarked
<1>1. CASE n \in 1 .. d
  BY <1>1 DEF AreMarked
<1>2. CASE n = d + 1
  BY <1>2
<1>3. n \in 1 .. d \/ n = d + 1
  OBVIOUS
<1> QED
  BY <1>1, <1>2, <1>3

\* The event that opened the first burst of a list is not that of the next one.
LEMMA NextNotOpen ==
  ASSUME NEW R, NEW tr, NEW t, AreRegions(R, tr, t), NEW d, NEW L, Remains(R, d, L), L # <<>>,
         NEW last, Remembers(R, d, last)
  PROVE  ~ IsOpen(Tail(L), last)
<1> DEFINE T == Tail(L)
<1> SUFFICES ASSUME IsOpen(T, last)
             PROVE  FALSE
  OBVIOUS
<1>1. Remains(R, d + 1, T) /\ T # <<>> /\ ~ T[1].InUse
  BY RestOf DEF IsOpen
<1>2. last = <<T[1].BeginTime, T[1].ID>>
  BY <1>1 DEF IsOpen
<1> HIDE DEF T
<1>3. /\ d \in Nat /\ (d + 1) + 1 \in 1 .. Len(R) /\ T[1].BeginTime = R[(d + 1) + 1].BeginTime
  BY <1>1, FirstOf
<1>4. PICK n \in 1 .. Len(R) : n <= d + 1 /\ last = <<R[n].BeginTime, R[n].ID>>
  BY <1>2 DEF Remembers
<1>5. R[n].BeginTime = T[1].BeginTime
  BY <1>2, <1>4
<1>6. n < (d + 1) + 1
  BY <1>3, <1>4
<1>7. /\ R[n].BeginTime \in Nat /\ R[n].EndTime \in Nat /\ R[n].BeginTime < R[n].EndTime
      /\ R[(d + 1) + 1].BeginTime \in Nat /\ R[n].EndTime <= R[(d + 1) + 1].BeginTime
  BY <1>3, <1>6 DEF AreRegions
<1> QED
  BY <1>3, <1>5, <1>7

\* What is known of a list when it is known whether it is open.
LEMMA ShowsIf ==
  ASSUME NEW R, NEW tr, NEW t, NEW d, NEW L, NEW last, NEW S, NEW p,
         NEW open, IsOpen(L, last) <=> open, open \in BOOLEAN
  PROVE  /\ Shows(R, d, IsOpen(L, last), S) <=> Shows(R, d, open, S)
         /\ Waits(tr, t, L, IsOpen(L, last), p) <=> Waits(tr, t, L, open, p)
<1> DEFINE o == IsOpen(L, last)
<1>1. o \in BOOLEAN
  BY DEF IsOpen
<1>2. o = open
  BY <1>1
<1> HIDE DEF o
<1>3. /\ Shows(R, d, o, S) <=> Shows(R, d, open, S)
      /\ Waits(tr, t, L, o, p) <=> Waits(tr, t, L, open, p)
  BY <1>2 DEF Shows, Waits
<1> QED
  BY <1>3 DEF o

-----------------------------------------------------------------------------
(***************************************************************************)
(* One record, in each of the cases of the writer.                         *)
(***************************************************************************)
\* A record of another thread.
LEMMA WrittenOther ==
  ASSUME NEW R, NEW tr, NEW t, NEW d, NEW L, NEW last, NEW S, NEW p \in Nat,
         Written(R, tr, t, d, L, last, S, p), tr[p].thread # t
  PROVE  Written(R, tr, t, d, L, last, S, p + 1)
<1> DEFINE open == IsOpen(L, last)
<1>1. Waits(tr, t, L, open, p)
  BY DEF Written
<1> HIDE DEF open
<1>2. Waits(tr, t, L, open, p + 1)
  BY <1>1, WaitsOn
<1> QED
  BY <1>2 DEF Written, open

\* A record that closes the burst.
LEMMA WrittenClose ==
  ASSUME NEW R, NEW tr, NEW t, AreRegions(R, tr, t), AreInOrder(tr, t), IsSequence(tr),
         NEW d, NEW L, NEW last, NEW S, NEW p \in 1 .. Len(tr), tr[p].thread = t,
         Written(R, tr, t, d, L, last, S, p), L # <<>>, L[1].EndTime = tr[p].time,
         Len(L) > 1 => L[2].BeginTime # tr[p].time,
         NEW Z, Prolongs(Z, S, <<<<tr[p].time, 0>>>>)
  PROVE  Written(R, tr, t, d + 1, Tail(L), last, Z, p + 1)
<1>1. IsOpen(L, last)
  BY EndsOpen
<1>2. /\ Remains(R, d, L) /\ Shows(R, d, TRUE, S) /\ Remembers(R, d, last)
      /\ AreMarked(R, tr, t, d)
  <2>1. Shows(R, d, IsOpen(L, last), S) <=> Shows(R, d, TRUE, S)
    BY <1>1, ShowsIf
  <2> QED
    BY <2>1 DEF Written
<1>3. d \in Nat /\ L[1].EndTime = R[d + 1].EndTime /\ Len(R) \in Nat
  <2>1. d \in Nat /\ L[1].EndTime = R[d + 1].EndTime
    BY <1>2, FirstOf
  <2>2. Len(R) \in Nat
    BY SequenceDomain DEF AreRegions
  <2> QED
    BY <2>1, <2>2
<1>4. Remains(R, d + 1, Tail(L))
  BY <1>2, RestOf
<1>5. ~ IsOpen(Tail(L), last)
  BY <1>2, NextNotOpen
<1>6. Shows(R, d + 1, FALSE, Z)
  BY <1>2, <1>3, ShowsClosed
<1>7. Remembers(R, d + 1, last)
  <2>1. \A n \in 1 .. Len(R) : n <= d + 1 => n <= (d + 1) + 1
    BY <1>3
  <2> QED
    BY <1>2, <2>1 DEF Remembers
<1>8. Waits(tr, t, Tail(L), FALSE, p + 1)
  BY <1>2, WaitsNext
<1>9. AreMarked(R, tr, t, d + 1)
  BY <1>2, <1>3, MarkedNext
<1>10. /\ Shows(R, d + 1, IsOpen(Tail(L), last), Z)
       /\ Waits(tr, t, Tail(L), IsOpen(Tail(L), last), p + 1)
  BY <1>5, <1>6, <1>8, ShowsIf
<1> QED
  BY <1>4, <1>7, <1>9, <1>10 DEF Written

\* A record that closes the burst and opens the next one.
LEMMA WrittenCloseAndOpen ==
  ASSUME NEW R, NEW tr, NEW t, AreRegions(R, tr, t), AreInOrder(tr, t), IsSequence(tr),
         NEW d, NEW L, NEW last, NEW S, NEW p \in 1 .. Len(tr), tr[p].thread = t,
         Written(R, tr, t, d, L, last, S, p), L # <<>>, L[1].EndTime = tr[p].time,
         Len(L) > 1, L[2].BeginTime = tr[p].time,
         NEW Z, Prolongs(Z, S, <<<<tr[p].time, 0>>, <<tr[p].time, L[2].ID>>>>)
  PROVE  Written(R, tr, t, d + 1, Tail(L), <<tr[p].time, L[2].ID>>, Z, p + 1)
<1> DEFINE T == Tail(L)
           l == <<tr[p].time, L[2].ID>>
<1>1. IsOpen(L, last)
  BY EndsOpen
<1>2. /\ Remains(R, d, L) /\ Shows(R, d, TRUE, S) /\ AreMarked(R, tr, t, d)
  <2>1. Shows(R, d, IsOpen(L, last), S) <=> Shows(R, d, TRUE, S)
    BY <1>1, ShowsIf
  <2> QED
    BY <2>1 DEF Written
<1>3. d \in Nat /\ L[1].EndTime = R[d + 1].EndTime
  BY <1>2, FirstOf
<1>4. Remains(R, d + 1, T) /\ T # <<>> /\ T[1] = L[2]
  BY <1>2, RestOf
<1>5. /\ (d + 1) + 1 \in 1 .. Len(R) /\ (d + 1) + 1 = d + 2
      /\ L[2].BeginTime = R[(d + 1) + 1].BeginTime /\ L[2].ID = R[(d + 1) + 1].ID
  <2> DEFINE c == d + 1
  <2>1. Remains(R, c, T) /\ T # <<>> /\ T[1] = L[2] /\ c + 1 = d + 2
    BY <1>3, <1>4
  <2> HIDE DEF T, c
  <2>2. /\ c + 1 \in 1 .. Len(R) /\ T[1].BeginTime = R[c + 1].BeginTime
        /\ T[1].ID = R[c + 1].ID
    BY <2>1, FirstOf
  <2> QED
    BY <2>1, <2>2 DEF c
<1>6. IsOpen(T, l)
  BY <1>4 DEF IsOpen
<1>7. Shows(R, d + 1, TRUE, Z)
  <2>1. Prolongs(Z, S, <<<<R[d + 1].EndTime, 0>>, <<R[d + 2].BeginTime, R[d + 2].ID>>>>)
    BY <1>3, <1>5
  <2> QED
    BY <1>2, <1>3, <2>1, ShowsClosed
<1>8. Remembers(R, d + 1, l)
  <2>1. (d + 1) + 1 <= (d + 1) + 1
    BY <1>3
  <2> QED
    BY <1>5, <2>1 DEF Remembers
<1>9. Waits(tr, t, T, TRUE, p + 1)
  BY <1>2, WaitsNext
<1>10. AreMarked(R, tr, t, d + 1)
  BY <1>2, <1>3, MarkedNext
<1> HIDE DEF T, l
<1>11. Shows(R, d + 1, IsOpen(T, l), Z) /\ Waits(tr, t, T, IsOpen(T, l), p + 1)
  BY <1>6, <1>7, <1>9, ShowsIf
<1>12. Written(R, tr, t, d + 1, T, l, Z, p + 1)
  BY <1>4, <1>8, <1>10, <1>11 DEF Written
<1> QED
  BY <1>12 DEF T, l

\* A record that opens the burst.
LEMMA WrittenOpen ==
  ASSUME NEW R, NEW tr, NEW t, AreRegions(R, tr, t), AreInOrder(tr, t), IsSequence(tr),
         NEW d, NEW L, NEW last, NEW S, NEW p \in 1 .. Len(tr), tr[p].thread = t,
         Written(R, tr, t, d, L, last, S, p), L # <<>>, L[1].BeginTime = tr[p].time,
         ~ L[1].InUse, last # <<tr[p].time, L[1].ID>>,
         NEW Z, Prolongs(Z, S, <<<<tr[p].time, L[1].ID>>>>)
  PROVE  Written(R, tr, t, d, Used(L), <<tr[p].time, L[1].ID>>, Z, p + 1)
<1> DEFINE M == Used(L)
           l == <<tr[p].time, L[1].ID>>
<1>1. ~ IsOpen(L, last)
  BY DEF IsOpen
<1>2. /\ Remains(R, d, L) /\ Shows(R, d, FALSE, S) /\ AreMarked(R, tr, t, d)
      /\ Waits(tr, t, L, FALSE, p)
  <2>1. /\ Shows(R, d, IsOpen(L, last), S) <=> Shows(R, d, FALSE, S)
        /\ Waits(tr, t, L, IsOpen(L, last), p) <=> Waits(tr, t, L, FALSE, p)
    BY <1>1, ShowsIf
  <2> QED
    BY <2>1 DEF Written
<1>3. /\ d \in Nat /\ d + 1 \in 1 .. Len(R) /\ L[1].BeginTime = R[d + 1].BeginTime
      /\ L[1].ID = R[d + 1].ID /\ L[1].BeginTime \in Nat /\ L[1].EndTime \in Nat
      /\ L[1].BeginTime < L[1].EndTime
  BY <1>2, FirstOf
<1>4. /\ Remains(R, d, M) /\ M # <<>> /\ M[1].InUse
      /\ M[1].BeginTime = L[1].BeginTime /\ M[1].EndTime = L[1].EndTime
  <2>1. M = Used(L)
    OBVIOUS
  <2> HIDE DEF M
  <2> QED
    BY <1>2, <2>1, UsedOf
<1>5. Waits(tr, t, M, TRUE, p)
  BY <1>2, <1>4 DEF Waits
<1> HIDE DEF M, l
<1>6. IsOpen(M, l)
  BY <1>4 DEF IsOpen
<1>7. Shows(R, d, TRUE, Z)
  BY <1>2, <1>3, ShowsOpened
<1>8. Remembers(R, d, l)
  <2>1. d + 1 <= d + 1
    BY <1>3
  <2> QED
    BY <1>3, <2>1 DEF Remembers, l
<1>9. Waits(tr, t, M, TRUE, p + 1)
  <2>1. tr[p].time # M[1].EndTime /\ p \in Nat
    BY <1>3, <1>4
  <2> QED
    BY <1>5, <2>1, WaitsOn
<1>10. Shows(R, d, IsOpen(M, l), Z) /\ Waits(tr, t, M, IsOpen(M, l), p + 1)
  BY <1>6, <1>7, <1>9, ShowsIf
<1>11. Written(R, tr, t, d, M, l, Z, p + 1)
  BY <1>2, <1>4, <1>8, <1>10 DEF Written
<1> QED
  BY <1>11 DEF M, l

\* A record that would open it again.
LEMMA WrittenOpenAgain ==
  ASSUME NEW R, NEW tr, NEW t, AreRegions(R, tr, t), AreInOrder(tr, t), IsSequence(tr),
         NEW d, NEW L, NEW last, NEW S, NEW p \in 1 .. Len(tr), tr[p].thread = t,
         Written(R, tr, t, d, L, last, S, p), L # <<>>, L[1].BeginTime = tr[p].time,
         last = <<tr[p].time, L[1].ID>>
  PROVE  Written(R, tr, t, d, Used(L), last, S, p + 1)
<1> DEFINE M == Used(L)
<1>1. IsOpen(L, last)
  BY DEF IsOpen
<1>2. /\ Remains(R, d, L) /\ Shows(R, d, TRUE, S) /\ AreMarked(R, tr, t, d)
      /\ Waits(tr, t, L, TRUE, p) /\ Remembers(R, d, last)
  <2>1. /\ Shows(R, d, IsOpen(L, last), S) <=> Shows(R, d, TRUE, S)
        /\ Waits(tr, t, L, IsOpen(L, last), p) <=> Waits(tr, t, L, TRUE, p)
    BY <1>1, ShowsIf
  <2> QED
    BY <2>1 DEF Written
<1>3. /\ L[1].BeginTime \in Nat /\ L[1].EndTime \in Nat /\ L[1].BeginTime < L[1].EndTime
  BY <1>2, FirstOf
<1>4. /\ Remains(R, d, M) /\ M # <<>> /\ M[1].InUse /\ M[1].EndTime = L[1].EndTime
  <2>1. M = Used(L)
    OBVIOUS
  <2> HIDE DEF M
  <2> QED
    BY <1>2, <2>1, UsedOf
<1>5. Waits(tr, t, M, TRUE, p)
  BY <1>2, <1>4 DEF Waits
<1> HIDE DEF M
<1>6. IsOpen(M, last)
  BY <1>4 DEF IsOpen
<1>7. Waits(tr, t, M, TRUE, p + 1)
  <2>1. tr[p].time # M[1].EndTime /\ p \in Nat
    BY <1>3, <1>4
  <2> QED
    BY <1>5, <2>1, WaitsOn
<1>8. Shows(R, d, IsOpen(M, last), S) /\ Waits(tr, t, M, IsOpen(M, last), p + 1)
  BY <1>2, <1>6, <1>7, ShowsIf
<1>9. Written(R, tr, t, d, M, last, S, p + 1)
  BY <1>2, <1>4, <1>8 DEF Written
<1> QED
  BY <1>9 DEF M

\* A record that is only copied.
LEMMA WrittenCopy ==
  ASSUME NEW R, NEW tr, NEW t, AreRegions(R, tr, t), AreInOrder(tr, t), IsSequence(tr),
         NEW d, NEW L, NEW last, NEW S, NEW p \in 1 .. Len(tr), tr[p].thread = t,
         Written(R, tr, t, d, L, last, S, p),
         L # <<>> => /\ L[1].EndTime # tr[p].time
                     /\ L[1].BeginTime = tr[p].time => L[1].InUse
  PROVE  Written(R, tr, t, d, L, last, S, p + 1)
<1> DEFINE open == IsOpen(L, last)
<1>1. Waits(tr, t, L, open, p) /\ Remains(R, d, L)
  BY DEF Written
<1>2. ASSUME L # <<>>, ~ open
      PROVE  tr[p].time < L[1].BeginTime
  <2>1. ~ L[1].InUse /\ L[1].BeginTime # tr[p].time
    BY <1>2 DEF IsOpen
  <2> HIDE DEF open
  <2>2. Waits(tr, t, L, FALSE, p)
    BY <1>1, <1>2 DEF Waits
  <2>3. tr[p].time <= L[1].BeginTime
    BY <1>1, <1>2, <2>2, NotYetOpen
  <2>4. L[1].BeginTime \in Nat
    BY <1>1, <1>2, FirstOf
  <2>5. tr[p].time \in Nat
    BY DEF AreInOrder
  <2> QED
    BY <2>1, <2>3, <2>4, <2>5
<1> HIDE DEF open
<1>3. Waits(tr, t, L, open, p + 1)
  <2>1. p \in Nat
    OBVIOUS
  <2> QED
    BY <1>1, <1>2, <2>1, WaitsOn
<1> QED
  BY <1>3 DEF Written, open

-----------------------------------------------------------------------------
(***************************************************************************)
(* The bursts to print, and the records they are printed at.               *)
(***************************************************************************)
\* What there is to print of a thread.
BurstsToBe(t) ==
  /\ IsSequence(BurstsOf(t)) /\ Len(BurstsOf(t)) = Len(Printed(t))
  /\ ListsBursts(Printed(t), Len(AllBursts), t, AllBursts)
  /\ \A n \in 1 .. Len(BurstsOf(t)) :
       LET k == Printed(t)[n] IN
       BurstsOf(t)[n] \in [BeginTime : {AllBursts[k].BeginTime}, EndTime : {AllBursts[k].EndTime},
                           InUse : {FALSE}, ID : {IdOf(k) + PARAVER_OFFSET}]

\* The list is that of the bursts of the thread.
LEMMA BurstsAre == ASSUME IInv, NEW t \in Thread PROVE BurstsToBe(t)
<1> DEFINE P == Printed(t)
           B == BurstsOf(t)
<1>1. IsSequence(AllBursts)
  BY DEF IInv, Shapes
<1>2. ListsBursts(P, Len(AllBursts), t, AllBursts)
  BY <1>1, PrintedIs DEF Printed
<1>3. IsSequence(P) /\ Len(P) \in Nat /\ DOMAIN P = 1 .. Len(P)
  BY <1>2, SequenceDomain DEF ListsBursts
<1>4. B = [n \in 1 .. Len(P) |-> BurstInfo(P[n])]
  BY <1>3 DEF BurstsOf
<1> HIDE DEF P, B
<1>5. IsSequence(B) /\ Len(B) = Len(P)
  <2> DEFINE V == {BurstInfo(P[n]) : n \in 1 .. Len(P)}
  <2>1. \A n \in 1 .. Len(P) : BurstInfo(P[n]) \in V
    OBVIOUS
  <2> HIDE DEF V
  <2>2. B \in [1 .. Len(P) -> V]
    BY <1>4, <2>1
  <2>3. B \in Seq(V) /\ Len(B) = Len(P)
    BY <1>3, <2>2
  <2> QED
    BY <2>3 DEF IsSequence
<1>6. ASSUME NEW n \in 1 .. Len(B)
      PROVE  LET k == P[n] IN
             B[n] \in [BeginTime : {AllBursts[k].BeginTime}, EndTime : {AllBursts[k].EndTime},
                       InUse : {FALSE}, ID : {IdOf(k) + PARAVER_OFFSET}]
  <2> DEFINE k == P[n]
  <2>1. n \in 1 .. Len(P) /\ B[n] = BurstInfo(k)
    BY <1>4, <1>5
  <2>2. k \in 1 .. Len(AllBursts)
    BY <1>2, <2>1 DEF ListsBursts
  <2> HIDE DEF k
  <2>3. CurrentID(k) = IdOf(k)
    BY <1>1, <2>2, CurrentIDIs
  <2>4. B[n] = [BeginTime |-> AllBursts[k].BeginTime, EndTime |-> AllBursts[k].EndTime,
                InUse |-> FALSE, ID |-> IdOf(k) + PARAVER_OFFSET]
    BY <2>1, <2>3 DEF BurstInfo
  <2>5. B[n] \in [BeginTime : {AllBursts[k].BeginTime}, EndTime : {AllBursts[k].EndTime},
                  InUse : {FALSE}, ID : {IdOf(k) + PARAVER_OFFSET}]
    BY <2>4
  <2> QED
    BY <2>5 DEF k
<1>7. /\ IsSequence(B) /\ Len(B) = Len(P) /\ ListsBursts(P, Len(AllBursts), t, AllBursts)
      /\ \A n \in 1 .. Len(B) :
           LET k == P[n] IN
           B[n] \in [BeginTime : {AllBursts[k].BeginTime}, EndTime : {AllBursts[k].EndTime},
                     InUse : {FALSE}, ID : {IdOf(k) + PARAVER_OFFSET}]
  BY <1>2, <1>5, <1>6
<1> QED
  BY <1>7 DEF BurstsToBe, B, P

\* They are regions between records of the trace.
LEMMA RegionsOf == ASSUME IInv, NEW t \in Thread PROVE AreRegions(BurstsOf(t), trace, t)
<1> DEFINE P == Printed(t)
           B == BurstsOf(t)
<1>1. /\ IsSequence(B) /\ Len(B) = Len(P) /\ ListsBursts(P, Len(AllBursts), t, AllBursts)
      /\ \A n \in 1 .. Len(B) : /\ B[n].BeginTime = AllBursts[P[n]].BeginTime
                                /\ B[n].EndTime = AllBursts[P[n]].EndTime
  BY BurstsAre DEF BurstsToBe
<1> HIDE DEF P, B
<1>2. StoredOK(AllBursts, t, trace)
  BY StoredBursts
<1>3. \A n \in 1 .. Len(B) : P[n] \in 1 .. Len(AllBursts) /\ AllBursts[P[n]].thread = t
  BY <1>1 DEF ListsBursts
<1>4. ASSUME NEW n \in 1 .. Len(B)
      PROVE  /\ B[n].BeginTime \in Nat /\ B[n].EndTime \in Nat /\ B[n].BeginTime < B[n].EndTime
             /\ \E i \in 1 .. Len(trace) : trace[i].thread = t /\ trace[i].time = B[n].BeginTime
  <2> DEFINE b == AllBursts[P[n]]
  <2>1. /\ b.BeginTime \in Nat /\ b.EndTime \in Nat /\ IsStateOf(b, t, trace)
        /\ B[n].BeginTime = b.BeginTime /\ B[n].EndTime = b.EndTime
    BY <1>1, <1>2, <1>3 DEF StoredOK
  <2> HIDE DEF b
  <2> QED
    BY <2>1 DEF IsStateOf
<1>5. ASSUME NEW m \in 1 .. Len(B), NEW n \in 1 .. Len(B), m < n
      PROVE  B[m].EndTime <= B[n].BeginTime
  <2>1. P[m] < P[n]
    BY <1>1, <1>5 DEF ListsBursts
  <2>2. AllBursts[P[m]].EndTime <= AllBursts[P[n]].BeginTime
    BY <1>2, <1>3, <2>1 DEF StoredOK
  <2> QED
    BY <1>1, <2>2
<1>6. AreRegions(B, trace, t)
  BY <1>1, <1>4, <1>5 DEF AreRegions
<1> QED
  BY <1>6 DEF B

\* The records of a thread are in order.
LEMMA OrderOf == ASSUME IInv, InTime, NEW t \in Thread PROVE AreInOrder(trace, t)
<1>1. \A r \in Record : r.time \in Nat
  BY DEF Record, StateRecord, EventRecord, CommunicationRecord
<1> QED
  BY <1>1 DEF InTime, AreInOrder

\* Nothing is written yet.
LEMMA NothingWritten ==
  ASSUME IInv, NEW t \in Thread
  PROVE  Written(BurstsOf(t), trace, t, 0, BurstsOf(t), <<>>, <<>>, 1)
<1> DEFINE R == BurstsOf(t)
<1>1. IsSequence(R) /\ Len(R) \in Nat /\ AreRegions(R, trace, t)
  BY BurstsAre, RegionsOf, SequenceDomain DEF BurstsToBe
<1>2. \A n \in 1 .. Len(R) :
        /\ R[n] \in [BeginTime : {R[n].BeginTime}, EndTime : {R[n].EndTime},
                     InUse : BOOLEAN, ID : {R[n].ID}]
        /\ ~ R[n].InUse
  BY BurstsAre DEF BurstsToBe
<1> HIDE DEF R
<1>3. Remains(R, 0, R)
  <2>1. 0 + Len(R) = Len(R) /\ \A n \in 1 .. Len(R) : 0 + n = n
    BY <1>1
  <2> QED
    BY <1>1, <1>2, <2>1 DEF Remains
<1>4. ~ IsOpen(R, <<>>)
  <2>1. R # <<>> => ~ R[1].InUse
    BY <1>2, <1>3, <1>1, FirstOf
  <2> QED
    BY <2>1 DEF IsOpen
<1>5. Shows(R, 0, FALSE, <<>>)
  <2>1. 2 * 0 = 0 /\ \A n : n \notin 1 .. 0
    OBVIOUS
  <2> QED
    BY <2>1, EmptyIsSequence DEF Shows
<1>6. Remembers(R, 0, <<>>)
  BY DEF Remembers
<1>7. Waits(trace, t, R, FALSE, 1) /\ AreMarked(R, trace, t, 0)
  <2>1. \A n : n \notin 1 .. 0 /\ n \notin 1 .. (1 - 1)
    OBVIOUS
  <2> QED
    BY <2>1 DEF Waits, AreMarked
<1>8. Written(R, trace, t, 0, R, <<>>, <<>>, 1)
  BY <1>3, <1>4, <1>5, <1>6, <1>7, ShowsIf DEF Written
<1> QED
  BY <1>8 DEF R

\* The values of an event that is written come after what its thread shows.
LEMMA OneValue ==
  ASSUME NEW S, IsSequence(S), NEW t, NEW time, NEW x,
         NEW e, e = [thread |-> t, time |-> time, values |-> <<x>>]
  PROVE  Prolongs(WithEvent(t, S, e), S, <<<<time, x>>>>)
<1>1. Values(e) = <<<<time, x>>>>
  BY DEF Values
<1>2. e.thread = t
  OBVIOUS
<1> DEFINE v == <<<<time, x>>>>
<1>3. IsSequence(v)
  <2>1. v \in Seq({<<time, x>>})
    OBVIOUS
  <2> HIDE DEF v
  <2> QED
    BY <2>1 DEF IsSequence
<1> HIDE DEF v
<1>4. WithEvent(t, S, e) = S \o v
  BY <1>1, <1>2 DEF WithEvent, v
<1>5. Prolongs(S \o v, S, v)
  BY <1>3, Concatenated DEF Prolongs
<1> QED
  BY <1>4, <1>5 DEF v

\* Two values as well.
LEMMA TwoValues ==
  ASSUME NEW S, IsSequence(S), NEW t, NEW time, NEW x, NEW y,
         NEW e, e = [thread |-> t, time |-> time, values |-> <<x, y>>]
  PROVE  Prolongs(WithEvent(t, S, e), S, <<<<time, x>>, <<time, y>>>>)
<1>1. Values(e) = <<<<time, x>>, <<time, y>>>>
  BY DEF Values
<1>2. e.thread = t
  OBVIOUS
<1> DEFINE v == <<<<time, x>>, <<time, y>>>>
<1>3. IsSequence(v)
  <2>1. v \in Seq({<<time, x>>, <<time, y>>})
    OBVIOUS
  <2> HIDE DEF v
  <2> QED
    BY <2>1 DEF IsSequence
<1> HIDE DEF v
<1>4. WithEvent(t, S, e) = S \o v
  BY <1>1, <1>2 DEF WithEvent, v
<1>5. Prolongs(S \o v, S, v)
  BY <1>3, Concatenated DEF Prolongs
<1> QED
  BY <1>4, <1>5 DEF v

-----------------------------------------------------------------------------
(***************************************************************************)
(* The invariant of the writer.                                            *)
(***************************************************************************)
BeforeWriting ==
  pos = 1 /\ out = <<>> /\ LastBurstsPrinted = [t \in Thread |-> <<>>]

WrittenFor(t) ==
  \E d : Written(BurstsOf(t), trace, t, d, BurstsToPrint[t], LastBurstsPrinted[t], Shown(t), pos)

WhileWriting ==
  /\ BurstsToPrint = [t \in Thread |-> BurstsToPrint[t]]
  /\ LastBurstsPrinted = [t \in Thread |-> LastBurstsPrinted[t]]
  /\ \A t \in Thread : WrittenFor(t)

WInv ==
  /\ InTime
  /\ pc \in {"Reading", "Analysing", "Failed"} => BeforeWriting
  /\ pc \in {"Writing", "Done"} => WhileWriting
  /\ pc = "Done" => pos > Len(trace)

\* The bursts to print stay the same.
LEMMA BurstsOfKept ==
  ASSUME UNCHANGED <<AllBursts, IDs, DoNotPrintFilteredBursts>>
  PROVE  \A t : BurstsOf(t)' = BurstsOf(t)
<1> TAKE t
<1>1. Printed(t)' = Printed(t)
  BY DEF Printed
<1>2. \A k : CurrentID(k)' = CurrentID(k)
  BY DEF CurrentID
<1>3. \A k : BurstInfo(k)' = BurstInfo(k)
  BY <1>2 DEF BurstInfo
<1> QED
  BY <1>1, <1>3 DEF BurstsOf

\* What is shown of a thread once an event has been written.
LEMMA ShownNext ==
  ASSUME IInv, NEW e, out' = Append(out, e), NEW t
  PROVE  Shown(t)' = WithEvent(t, Shown(t), e)
BY ShownAppended DEF IInv, Shapes, Shown

\* At first nothing is written.
LEMMA WriterInit == Init => WInv
BY InTimeInit DEF Init, WInv, BeforeWriting

\* One record: what is written of its thread, and that nothing changes for the others.
WrittenNext(u, list, last, e) ==
  /\ BurstsToPrint' = [BurstsToPrint EXCEPT ![u] = list]
  /\ LastBurstsPrinted' = [LastBurstsPrinted EXCEPT ![u] = last]
  /\ out' = out \/ (out' = Append(out, e) /\ e.thread = u)
  /\ u \in Thread =>
       \E d : Written(BurstsOf(u), trace, u, d, list, last, ShownIn(u, out'), pos + 1)

\* The case of the record then keeps the invariant.
LEMMA RecordKept ==
  ASSUME IInv, WInv, NextRecord,
         NEW list, NEW last, NEW e, WrittenNext(trace[pos].thread, list, last, e)
  PROVE  WInv'
<1> DEFINE u == trace[pos].thread
<1>1. /\ pc = "Writing" /\ pc' = pc /\ pos' = pos + 1 /\ trace' = trace /\ left' = left
      /\ UNCHANGED <<AllBursts, IDs, DoNotPrintFilteredBursts>>
  BY DEF NextRecord
<1>2. WhileWriting /\ InTime
  BY <1>1 DEF WInv
<1>3. InTime'
  BY <1>1, <1>2 DEF InTime
<1>4. \A t : BurstsOf(t)' = BurstsOf(t)
  BY <1>1, BurstsOfKept
<1>5. pos \in Nat
  BY SequenceDomain DEF IInv, TypeOK, Shapes
<1>6. ASSUME NEW t \in Thread
      PROVE  WrittenFor(t)'
  <2>1. CASE t = u
    <3>1. BurstsToPrint'[t] = list /\ LastBurstsPrinted'[t] = last
      BY <1>2, <2>1 DEF WrittenNext, WhileWriting
    <3>2. \E d : Written(BurstsOf(t), trace, t, d, list, last, Shown(t)', pos + 1)
      BY <2>1 DEF WrittenNext, Shown
    <3> QED
      BY <1>1, <1>4, <3>1, <3>2 DEF WrittenFor
  <2>2. CASE t # u
    <3>1. BurstsToPrint'[t] = BurstsToPrint[t] /\ LastBurstsPrinted'[t] = LastBurstsPrinted[t]
      BY <1>2, <2>2 DEF WrittenNext, WhileWriting
    <3>2. Shown(t)' = Shown(t)
      <4>1. CASE out' = out
        BY <4>1 DEF Shown
      <4>2. CASE out' = Append(out, e) /\ e.thread = u
        BY <2>2, <4>2, ShownNext DEF WithEvent
      <4> QED
        BY <4>1, <4>2 DEF WrittenNext
    <3>3. PICK d : Written(BurstsOf(t), trace, t, d, BurstsToPrint[t], LastBurstsPrinted[t],
                           Shown(t), pos)
      BY <1>2 DEF WhileWriting, WrittenFor
    <3>4. Written(BurstsOf(t), trace, t, d, BurstsToPrint[t], LastBurstsPrinted[t],
                  Shown(t), pos + 1)
      BY <1>5, <2>2, <3>3, WrittenOther
    <3> QED
      BY <1>1, <1>4, <3>1, <3>2, <3>4 DEF WrittenFor
  <2> QED
    BY <2>1, <2>2
<1>7. /\ BurstsToPrint' = [t \in Thread |-> BurstsToPrint'[t]]
      /\ LastBurstsPrinted' = [t \in Thread |-> LastBurstsPrinted'[t]]
  BY <1>2 DEF WrittenNext, WhileWriting
<1>8. WhileWriting'
  BY <1>6, <1>7 DEF WhileWriting
<1> QED
  BY <1>1, <1>3, <1>8 DEF WInv

\* What is known of the thread of the record.
LEMMA ThisRecord ==
  ASSUME IInv, WInv, NextRecord, trace[pos].thread \in Thread
  PROVE  LET u == trace[pos].thread IN
         /\ WrittenFor(u) /\ AreRegions(BurstsOf(u), trace, u) /\ AreInOrder(trace, u)
         /\ IsSequence(trace) /\ pos \in 1 .. Len(trace) /\ IsSequence(Shown(u))
<1> DEFINE u == trace[pos].thread
<1>1. IsSequence(trace) /\ pos \in 1 .. Len(trace)
  BY SequenceDomain DEF IInv, TypeOK, Shapes, NextRecord
<1>2. pc = "Writing"
  BY DEF NextRecord
<1>3. WrittenFor(u) /\ InTime
  BY <1>2 DEF WInv, WhileWriting
<1>4. AreRegions(BurstsOf(u), trace, u) /\ AreInOrder(trace, u)
  BY <1>3, RegionsOf, OrderOf
<1>5. IsSequence(Shown(u))
  BY <1>3 DEF WrittenFor, Written, Shows
<1> QED
  BY <1>1, <1>3, <1>4, <1>5

\* A list that is not changed.
LEMMA SameFunction ==
  ASSUME NEW T, NEW f, f = [t \in T |-> f[t]], NEW u
  PROVE  f = [f EXCEPT ![u] = f[u]]
<1>1. \A t \in T : f[t] = [f EXCEPT ![u] = f[u]][t]
  OBVIOUS
<1> QED
  BY <1>1

\* The record closes a burst.
LEMMA CloseOK == ASSUME IInv, WInv, Close PROVE WInv'
<1> DEFINE u == trace[pos].thread
           now == trace[pos].time
           L == BurstsToPrint[u]
           last == LastBurstsPrinted[u]
           e == [thread |-> u, time |-> now, values |-> <<0>>]
<1>1. /\ NextRecord /\ BurstsToPrint' = [BurstsToPrint EXCEPT ![u] = Tail(L)]
      /\ out' = Append(out, e) /\ LastBurstsPrinted' = LastBurstsPrinted
  BY DEF Close, Listed, List, Flushed
<1>2. /\ L # <<>> /\ Head(L).EndTime = now
      /\ Len(L) > 1 => L[2].BeginTime # now
  BY DEF Close, BurstClosingRecord, BurstCloseAndOpenRecord, Ends, List
<1>3. WhileWriting
  BY <1>1 DEF WInv, NextRecord
<1>4. LastBurstsPrinted' = [LastBurstsPrinted EXCEPT ![u] = last]
  <2>1. LastBurstsPrinted = [t \in Thread |-> LastBurstsPrinted[t]]
    BY <1>3 DEF WhileWriting
  <2>2. LastBurstsPrinted = [LastBurstsPrinted EXCEPT ![u] = last]
    BY <2>1, SameFunction
  <2> QED
    BY <1>1, <2>2
<1>5. ASSUME u \in Thread
      PROVE  \E d : Written(BurstsOf(u), trace, u, d, Tail(L), last, ShownIn(u, out'), pos + 1)
  <2> DEFINE R == BurstsOf(u)
             S == Shown(u)
             Z == ShownIn(u, out')
  <2>1. /\ WrittenFor(u) /\ AreRegions(R, trace, u) /\ AreInOrder(trace, u)
        /\ IsSequence(trace) /\ pos \in 1 .. Len(trace) /\ IsSequence(S)
    BY <1>1, <1>5, ThisRecord
  <2>2. PICK d : Written(R, trace, u, d, L, last, S, pos)
    BY <2>1 DEF WrittenFor
  <2>3. L[1].EndTime = now
    <3>1. Head(L) = L[1]
      BY <1>2, <2>1, <2>2, FirstOf DEF Written
    <3> QED
      BY <1>2, <3>1
  <2>4. Z = WithEvent(u, S, e)
    BY <1>1, ShownAppended DEF IInv, Shapes, Shown
  <2>5. Prolongs(Z, S, <<<<now, 0>>>>)
    <3> HIDE DEF S, Z, u
    <3> QED
      BY <2>1, <2>4, OneValue
  <2> HIDE DEF R, S, Z, L, last
  <2>6. Written(R, trace, u, d + 1, Tail(L), last, Z, pos + 1)
    BY <1>2, <2>1, <2>2, <2>3, <2>5, WrittenClose
  <2> QED
    BY <2>6 DEF R, Z
<1>6. WrittenNext(u, Tail(L), last, e)
  BY <1>1, <1>4, <1>5 DEF WrittenNext
<1> HIDE DEF L, last, e
<1> QED
  BY <1>1, <1>6, RecordKept

\* It closes a burst and opens the next one.
LEMMA CloseAndOpenOK == ASSUME IInv, WInv, CloseAndOpen PROVE WInv'
<1> DEFINE u == trace[pos].thread
           now == trace[pos].time
           L == BurstsToPrint[u]
           last == LastBurstsPrinted[u]
           id == L[2].ID
           e == [thread |-> u, time |-> now, values |-> <<0, id>>]
<1>1. /\ NextRecord /\ BurstsToPrint' = [BurstsToPrint EXCEPT ![u] = Tail(L)]
      /\ out' = Append(out, e)
      /\ LastBurstsPrinted' = [LastBurstsPrinted EXCEPT ![u] = <<now, id>>]
  BY DEF CloseAndOpen, Listed, List, Flushed, Opened
<1>2. L # <<>> /\ Head(L).EndTime = now /\ Len(L) > 1 /\ L[2].BeginTime = now
  BY DEF CloseAndOpen, BurstCloseAndOpenRecord, Ends, List
<1>3. ASSUME u \in Thread
      PROVE  \E d : Written(BurstsOf(u), trace, u, d, Tail(L), <<now, id>>,
                            ShownIn(u, out'), pos + 1)
  <2> DEFINE R == BurstsOf(u)
             S == Shown(u)
             Z == ShownIn(u, out')
  <2>1. /\ WrittenFor(u) /\ AreRegions(R, trace, u) /\ AreInOrder(trace, u)
        /\ IsSequence(trace) /\ pos \in 1 .. Len(trace) /\ IsSequence(S)
    BY <1>1, <1>3, ThisRecord
  <2>2. PICK d : Written(R, trace, u, d, L, last, S, pos)
    BY <2>1 DEF WrittenFor
  <2>3. L[1].EndTime = now
    <3>1. Head(L) = L[1]
      BY <1>2, <2>1, <2>2, FirstOf DEF Written
    <3> QED
      BY <1>2, <3>1
  <2>4. Z = WithEvent(u, S, e)
    BY <1>1, ShownAppended DEF IInv, Shapes, Shown
  <2>5. Prolongs(Z, S, <<<<now, 0>>, <<now, id>>>>)
    <3> HIDE DEF S, Z, u, id
    <3> QED
      BY <2>1, <2>4, TwoValues
  <2> HIDE DEF R, S, Z, L, last
  <2>6. Written(R, trace, u, d + 1, Tail(L), <<now, id>>, Z, pos + 1)
    BY <1>2, <2>1, <2>2, <2>3, <2>5, WrittenCloseAndOpen
  <2> QED
    BY <2>6 DEF R, Z
<1>4. WrittenNext(u, Tail(L), <<now, id>>, e)
  BY <1>1, <1>3 DEF WrittenNext
<1> DEFINE l == <<now, id>>
<1>5. WrittenNext(u, Tail(L), l, e)
  BY <1>4
<1> HIDE DEF L, l, e
<1> QED
  BY <1>1, <1>5, RecordKept

\* It opens a burst.
LEMMA OpenOK == ASSUME IInv, WInv, Open PROVE WInv'
<1> DEFINE u == trace[pos].thread
           now == trace[pos].time
           L == BurstsToPrint[u]
           last == LastBurstsPrinted[u]
           id == L[1].ID
           e == [thread |-> u, time |-> now, values |-> <<Head(L).ID>>]
           l == <<now, Head(L).ID>>
<1>1. /\ NextRecord /\ BurstsToPrint' = [BurstsToPrint EXCEPT ![u] = Used(L)]
      /\ out' = Append(out, e)
      /\ LastBurstsPrinted' = [LastBurstsPrinted EXCEPT ![u] = l]
  BY DEF Open, Listed, List, InUse, Used, Flushed, Opened
<1>2. /\ L # <<>> /\ Head(L).BeginTime = now /\ ~ Head(L).InUse
      /\ last # l
  BY DEF Open, BurstOpeningRecord, DuplicatedOpening, List
<1>3. ASSUME u \in Thread
      PROVE  \E d : Written(BurstsOf(u), trace, u, d, Used(L), l, ShownIn(u, out'), pos + 1)
  <2> DEFINE R == BurstsOf(u)
             S == Shown(u)
             Z == ShownIn(u, out')
  <2>1. /\ WrittenFor(u) /\ AreRegions(R, trace, u) /\ AreInOrder(trace, u)
        /\ IsSequence(trace) /\ pos \in 1 .. Len(trace) /\ IsSequence(S)
    BY <1>1, <1>3, ThisRecord
  <2>2. PICK d : Written(R, trace, u, d, L, last, S, pos)
    BY <2>1 DEF WrittenFor
  <2>3. Head(L) = L[1]
    BY <1>2, <2>1, <2>2, FirstOf DEF Written
  <2>4. Z = WithEvent(u, S, e)
    BY <1>1, ShownAppended DEF IInv, Shapes, Shown
  <2>5. e = [thread |-> u, time |-> now, values |-> <<id>>] /\ l = <<now, id>>
    BY <2>3
  <2>6. Prolongs(Z, S, <<<<now, id>>>>)
    <3> HIDE DEF S, Z, u, id, e
    <3> QED
      BY <2>1, <2>4, <2>5, OneValue
  <2>7. L[1].BeginTime = now /\ ~ L[1].InUse /\ last # <<now, id>>
    BY <1>2, <2>3
  <2> HIDE DEF R, S, Z, L, last, l
  <2>8. Written(R, trace, u, d, Used(L), <<now, id>>, Z, pos + 1)
    BY <1>2, <2>1, <2>2, <2>6, <2>7, WrittenOpen
  <2> QED
    BY <2>5, <2>8 DEF R, Z
<1>4. WrittenNext(u, Used(L), l, e)
  BY <1>1, <1>3 DEF WrittenNext
<1> HIDE DEF L, l, e
<1> QED
  BY <1>1, <1>4, RecordKept

\* It would open a burst that is open.
LEMMA OpenAgainOK == ASSUME IInv, WInv, OpenAgain PROVE WInv'
<1> DEFINE u == trace[pos].thread
           now == trace[pos].time
           L == BurstsToPrint[u]
           last == LastBurstsPrinted[u]
<1>1. /\ NextRecord /\ BurstsToPrint' = [BurstsToPrint EXCEPT ![u] = Used(L)]
      /\ out' = out /\ LastBurstsPrinted' = LastBurstsPrinted
  BY DEF OpenAgain, Listed, List, InUse, Used
<1>2. L # <<>> /\ Head(L).BeginTime = now /\ last = <<now, Head(L).ID>>
  BY DEF OpenAgain, BurstOpeningRecord, DuplicatedOpening, List
<1>3. LastBurstsPrinted' = [LastBurstsPrinted EXCEPT ![u] = last]
  <2>1. LastBurstsPrinted = [t \in Thread |-> LastBurstsPrinted[t]]
    BY <1>1 DEF WInv, NextRecord, WhileWriting
  <2>2. LastBurstsPrinted = [LastBurstsPrinted EXCEPT ![u] = last]
    BY <2>1, SameFunction
  <2> QED
    BY <1>1, <2>2
<1>4. ASSUME u \in Thread
      PROVE  \E d : Written(BurstsOf(u), trace, u, d, Used(L), last, ShownIn(u, out'), pos + 1)
  <2> DEFINE R == BurstsOf(u)
             S == Shown(u)
  <2>1. /\ WrittenFor(u) /\ AreRegions(R, trace, u) /\ AreInOrder(trace, u)
        /\ IsSequence(trace) /\ pos \in 1 .. Len(trace)
    BY <1>1, <1>4, ThisRecord
  <2>2. PICK d : Written(R, trace, u, d, L, last, S, pos)
    BY <2>1 DEF WrittenFor
  <2>3. Head(L) = L[1]
    BY <1>2, <2>1, <2>2, FirstOf DEF Written
  <2>4. L[1].BeginTime = now /\ last = <<now, L[1].ID>>
    BY <1>2, <2>3
  <2>5. ShownIn(u, out') = S
    BY <1>1 DEF Shown
  <2> HIDE DEF R, S, L, last
  <2>6. Written(R, trace, u, d, Used(L), last, S, pos + 1)
    BY <1>2, <2>1, <2>2, <2>4, WrittenOpenAgain
  <2> QED
    BY <2>5, <2>6 DEF R
<1>5. WrittenNext(u, Used(L), last, u)
  BY <1>1, <1>3, <1>4 DEF WrittenNext
<1> HIDE DEF L, last
<1> QED
  BY <1>1, <1>5, RecordKept

\* It is copied.
LEMMA CopyOK == ASSUME IInv, WInv, Copy PROVE WInv'
<1> DEFINE u == trace[pos].thread
           now == trace[pos].time
           L == BurstsToPrint[u]
           last == LastBurstsPrinted[u]
<1>1. /\ NextRecord /\ BurstsToPrint' = BurstsToPrint
      /\ out' = out /\ LastBurstsPrinted' = LastBurstsPrinted
  BY DEF Copy
<1>2. L # <<>> => /\ Head(L).EndTime # now
                  /\ Head(L).BeginTime = now => Head(L).InUse
  BY DEF Copy, BurstCloseAndOpenRecord, BurstOpeningRecord, BurstClosingRecord, Ends, List
<1>3. /\ BurstsToPrint' = [BurstsToPrint EXCEPT ![u] = L]
      /\ LastBurstsPrinted' = [LastBurstsPrinted EXCEPT ![u] = last]
  <2>1. /\ LastBurstsPrinted = [t \in Thread |-> LastBurstsPrinted[t]]
        /\ BurstsToPrint = [t \in Thread |-> BurstsToPrint[t]]
    BY <1>1 DEF WInv, NextRecord, WhileWriting
  <2>2. LastBurstsPrinted = [LastBurstsPrinted EXCEPT ![u] = last]
    BY <2>1, SameFunction
  <2>3. BurstsToPrint = [BurstsToPrint EXCEPT ![u] = L]
    BY <2>1, SameFunction
  <2> QED
    BY <1>1, <2>2, <2>3
<1>4. ASSUME u \in Thread
      PROVE  \E d : Written(BurstsOf(u), trace, u, d, L, last, ShownIn(u, out'), pos + 1)
  <2> DEFINE R == BurstsOf(u)
             S == Shown(u)
  <2>1. /\ WrittenFor(u) /\ AreRegions(R, trace, u) /\ AreInOrder(trace, u)
        /\ IsSequence(trace) /\ pos \in 1 .. Len(trace)
    BY <1>1, <1>4, ThisRecord
  <2>2. PICK d : Written(R, trace, u, d, L, last, S, pos)
    BY <2>1 DEF WrittenFor
  <2>3. L # <<>> => Head(L) = L[1]
    BY <2>1, <2>2, FirstOf DEF Written
  <2>4. L # <<>> => L[1].EndTime # now /\ (L[1].BeginTime = now => L[1].InUse)
    BY <1>2, <2>3
  <2>5. ShownIn(u, out') = S
    BY <1>1 DEF Shown
  <2> HIDE DEF R, S, L, last
  <2>6. Written(R, trace, u, d, L, last, S, pos + 1)
    BY <2>1, <2>2, <2>4, WrittenCopy
  <2> QED
    BY <2>5, <2>6 DEF R
<1>5. WrittenNext(u, L, last, u)
  BY <1>1, <1>3, <1>4 DEF WrittenNext
<1> HIDE DEF L, last
<1> QED
  BY <1>1, <1>5, RecordKept

\* The writing begins.
LEMMA StartWritingOK == ASSUME IInv, WInv, InTime', StartWriting PROVE WInv'
<1>1. /\ pc = "Analysing" /\ pc' = "Writing" /\ trace' = trace /\ pos' = pos /\ out' = out
      /\ LastBurstsPrinted' = LastBurstsPrinted
      /\ BurstsToPrint' = [t \in Thread |-> BurstsOf(t)]
      /\ UNCHANGED <<AllBursts, IDs, DoNotPrintFilteredBursts>>
  BY DEF StartWriting
<1>2. BeforeWriting
  BY <1>1 DEF WInv
<1>3. \A t : BurstsOf(t)' = BurstsOf(t)
  BY <1>1, BurstsOfKept
<1>4. ASSUME NEW t \in Thread
      PROVE  WrittenFor(t)'
  <2>1. /\ BurstsToPrint'[t] = BurstsOf(t) /\ LastBurstsPrinted'[t] = <<>>
        /\ trace' = trace /\ pos' = 1 /\ BurstsOf(t)' = BurstsOf(t)
    BY <1>1, <1>2, <1>3 DEF BeforeWriting
  <2>2. Shown(t)' = <<>>
    BY <1>1, <1>2, NothingShown DEF BeforeWriting, Shown
  <2>3. Written(BurstsOf(t), trace, t, 0, BurstsOf(t), <<>>, <<>>, 1)
    BY NothingWritten
  <2> QED
    BY <2>1, <2>2, <2>3 DEF WrittenFor
<1>5. /\ BurstsToPrint' = [t \in Thread |-> BurstsToPrint'[t]]
      /\ LastBurstsPrinted' = [t \in Thread |-> LastBurstsPrinted'[t]]
  BY <1>1, <1>2 DEF BeforeWriting
<1>6. WhileWriting'
  BY <1>4, <1>5 DEF WhileWriting
<1> QED
  BY <1>1, <1>6 DEF WInv

\* The writing ends, or nothing changes.
LEMMA WrittenStays ==
  ASSUME IInv, WInv, InTime',
         UNCHANGED <<trace, AllBursts, IDs, DoNotPrintFilteredBursts,
                     pos, BurstsToPrint, LastBurstsPrinted, out>>,
         pc' = pc \/ (pc = "Writing" /\ pc' = "Done" /\ pos > Len(trace))
  PROVE  WInv'
<1>1. BeforeWriting => BeforeWriting'
  BY DEF BeforeWriting
<1>2. \A t : BurstsOf(t)' = BurstsOf(t)
  BY BurstsOfKept
<1>3. \A t : Shown(t)' = Shown(t)
  BY DEF Shown
<1>4. \A t : WrittenFor(t) => WrittenFor(t)'
  <2> TAKE t
  <2>1. BurstsOf(t)' = BurstsOf(t) /\ Shown(t)' = Shown(t)
    BY <1>2, <1>3
  <2> QED
    BY <2>1 DEF WrittenFor
<1>5. WhileWriting => WhileWriting'
  BY <1>4 DEF WhileWriting
<1> QED
  BY <1>1, <1>5 DEF WInv

\* Every step keeps the invariant of the writer.
LEMMA WriterNext == IInv /\ WInv /\ [Next]_vars => WInv'
<1> SUFFICES ASSUME IInv, WInv, [Next]_vars
             PROVE  WInv'
  OBVIOUS
<1>1. InTime'
  BY InTimeNext DEF WInv
<1>2. ASSUME pc \in {"Reading", "Analysing"}, pc' \in {"Reading", "Analysing", "Failed"},
             UNCHANGED <<pos, LastBurstsPrinted, out>>
      PROVE  WInv'
  BY <1>1, <1>2 DEF WInv, BeforeWriting
<1>3. ASSUME NEW t \in Thread, ReadState(t) \/ ReadEvent(t) \/ SkipCommunication(t)
      PROVE  WInv'
  BY <1>2, <1>3 DEF ReadState, ReadEvent, SkipCommunication, UnchangedReading
<1>4. CASE EndOfFile
  BY <1>2, <1>4 DEF EndOfFile
<1>5. CASE ClusterAnalysis
  BY <1>2, <1>5 DEF ClusterAnalysis
<1>6. CASE StartWriting
  BY <1>1, <1>6, StartWritingOK
<1>7. CASE CloseAndOpen \/ Open \/ OpenAgain \/ Close \/ Copy
  BY <1>7, CloseAndOpenOK, OpenOK, OpenAgainOK, CloseOK, CopyOK
<1>8. CASE Finish
  BY <1>1, <1>8, WrittenStays DEF Finish
<1>9. CASE Terminated \/ UNCHANGED vars
  BY <1>1, <1>9, WrittenStays DEF Terminated, vars
<1> QED
  BY <1>3, <1>4, <1>5, <1>6, <1>7, <1>8, <1>9 DEF Next

\* While the trace is written, each thread shows the bursts that are closed and
\* the one that is open, and no record passed by was one the next burst waits for.
THEOREM WriterInvariant == Spec => []WInv
<1>1. Init => WInv
  BY WriterInit
<1>2. IInv /\ WInv /\ [Next]_vars => WInv'
  BY WriterNext
<1> QED
  BY <1>1, <1>2, Invariant, PTL DEF Spec

\* Every second event ends a region.
LEMMA OddOrEven ==
  ASSUME NEW i \in Nat
  PROVE  LET n == (i + 1) \div 2 IN
         n \in Nat /\ ((i % 2 = 1 /\ i = 2 * n - 1) \/ (i % 2 = 0 /\ i = 2 * n))
<1> DEFINE S == {j \in 0 .. i : \E k \in Nat : j = 2 * k \/ j = 2 * k - 1}
<1>1. 0 \in S
  <2>1. 0 \in Nat /\ 0 = 2 * 0 /\ 0 \in 0 .. i
    OBVIOUS
  <2> QED
    BY <2>1
<1>2. ASSUME NEW m \in 1 .. i, m - 1 \in S
      PROVE  m \in S
  <2>1. m \in 0 .. i
    OBVIOUS
  <2>2. PICK k \in Nat : m - 1 = 2 * k \/ m - 1 = 2 * k - 1
    BY <1>2
  <2>3. k + 1 \in Nat /\ (m = 2 * k \/ m = 2 * (k + 1) - 1)
    BY <2>2
  <2> QED
    BY <2>1, <2>3
<1> HIDE DEF S
<1>3. i \in S
  BY <1>1, <1>2, BoundedInduction
<1>4. PICK k \in Nat : i = 2 * k \/ i = 2 * k - 1
  BY <1>3 DEF S
<1>5. CASE i = 2 * k
  <2>1. i % 2 = 0 /\ (i + 1) \div 2 = k
    BY <1>5
  <2> QED
    BY <1>5, <2>1
<1>6. CASE i = 2 * k - 1
  <2>1. i % 2 = 1 /\ (i + 1) \div 2 = k
    BY <1>6
  <2>2. i = 2 * k - 1
    BY <1>6
  <2> QED
    BY <2>1, <2>2
<1> QED
  BY <1>4, <1>5, <1>6

\* What a thread shows, event by event.
LEMMA ShownAt ==
  ASSUME NEW R, NEW d, NEW open, NEW S, Shows(R, d, open, S), d \in Nat,
         d + (IF open THEN 1 ELSE 0) <= Len(R), Len(R) \in Nat, NEW i \in DOMAIN S
  PROVE  /\ (i + 1) \div 2 \in 1 .. Len(R)
         /\ S[i] = IF i % 2 = 1 THEN <<R[(i + 1) \div 2].BeginTime, R[(i + 1) \div 2].ID>>
                   ELSE <<R[(i + 1) \div 2].EndTime, 0>>
<1> DEFINE n == (i + 1) \div 2
<1>1. DOMAIN S = 1 .. Len(S) /\ Len(S) = IF open THEN 2 * d + 1 ELSE 2 * d
  BY SequenceDomain DEF Shows
<1>2. i \in 1 .. (2 * d + 1) /\ (~ open => i \in 1 .. 2 * d)
  BY <1>1
<1>3. i \in Nat
  BY <1>2
<1>4. n \in Nat /\ ((i % 2 = 1 /\ i = 2 * n - 1) \/ (i % 2 = 0 /\ i = 2 * n))
  BY <1>3, OddOrEven
<1> HIDE DEF n
<1>5. \/ n \in 1 .. d
      \/ n = d + 1 /\ i = 2 * n - 1 /\ open
  BY <1>2, <1>4
<1>6. CASE n \in 1 .. d
  <2>1. S[2 * n - 1] = <<R[n].BeginTime, R[n].ID>> /\ S[2 * n] = <<R[n].EndTime, 0>>
    BY <1>6 DEF Shows
  <2>2. n \in 1 .. Len(R)
    BY <1>6
  <2>3. i % 2 = 1 /\ i = 2 * n - 1 => S[i] = <<R[n].BeginTime, R[n].ID>>
    BY <2>1
  <2>4. i % 2 = 0 /\ i = 2 * n => S[i] = <<R[n].EndTime, 0>>
    BY <2>1
  <2> QED
    BY <1>4, <2>2, <2>3, <2>4 DEF n
<1>7. CASE n = d + 1 /\ i = 2 * n - 1 /\ open
  <2>1. S[2 * d + 1] = <<R[d + 1].BeginTime, R[d + 1].ID>>
    BY <1>7 DEF Shows
  <2>2. i = 2 * d + 1 /\ i % 2 = 1 /\ n \in 1 .. Len(R)
    BY <1>4, <1>7
  <2> QED
    BY <1>7, <2>1, <2>2 DEF n
<1> QED
  BY <1>5, <1>6, <1>7

\* Whenever the writer is, the regions of a thread are its bursts, in order,
\* each from its begin to its end and with the id its own analysis gave it: no
\* id is shown over another burst, and nothing is closed that is not open
\* (ClusteredStatesPRVGenerator::Run, CurrentClusteringBurst).
THEOREM RegionsRight == Spec => []RegionsAreBursts
<1>1. IInv /\ WInv => RegionsAreBursts
  <2> SUFFICES ASSUME IInv, WInv, NEW t \in Thread, NEW i \in DOMAIN Shown(t)
               PROVE  LET n == (i + 1) \div 2
                          b == AllBursts[Printed(t)[n]]
                          id == IdOf(Printed(t)[n]) + PARAVER_OFFSET
                      IN /\ n <= Len(Printed(t))
                         /\ Shown(t)[i] = IF i % 2 = 1 THEN <<b.BeginTime, id>>
                                          ELSE <<b.EndTime, 0>>
    BY DEF RegionsAreBursts
  <2>1. pc \in {"Writing", "Done"}
    <3>1. BeforeWriting => Shown(t) = <<>>
      BY NothingShown DEF BeforeWriting, Shown
    <3>2. ~ BeforeWriting
      BY <3>1, EmptyIsSequence
    <3> QED
      BY <3>2 DEF WInv, IInv, TypeOK
  <2> DEFINE R == BurstsOf(t)
             S == Shown(t)
             L == BurstsToPrint[t]
             open == IsOpen(L, LastBurstsPrinted[t])
             n == (i + 1) \div 2
  <2>2. PICK d : Written(R, trace, t, d, L, LastBurstsPrinted[t], S, pos)
    BY <2>1 DEF WInv, WhileWriting, WrittenFor
  <2>3. /\ Remains(R, d, L) /\ Shows(R, d, open, S)
    BY <2>2 DEF Written
  <2>4. AreRegions(R, trace, t)
    BY RegionsOf
  <2>5. d \in Nat /\ Len(L) \in Nat /\ Len(R) \in Nat /\ d + Len(L) = Len(R)
    BY <2>3, SequenceDomain DEF Remains
  <2>6. open => Len(L) >= 1
    <3>1. open => L # <<>>
      BY DEF IsOpen
    <3> HIDE DEF R, S, L, open
    <3> QED
      BY <2>3, <2>4, <3>1, FirstOf
  <2> HIDE DEF open
  <2>7. d + (IF open THEN 1 ELSE 0) <= Len(R)
    <3> HIDE DEF R, L
    <3> QED
      BY <2>5, <2>6
  <2>8. /\ n \in 1 .. Len(R)
        /\ S[i] = IF i % 2 = 1 THEN <<R[n].BeginTime, R[n].ID>> ELSE <<R[n].EndTime, 0>>
    <3> HIDE DEF R, L
    <3> QED
      BY <2>3, <2>5, <2>7, ShownAt
  <2>9. BurstsToBe(t)
    BY BurstsAre
  <2> HIDE DEF n
  <2>10. /\ Len(R) = Len(Printed(t)) /\ R[n].BeginTime = AllBursts[Printed(t)[n]].BeginTime
         /\ R[n].EndTime = AllBursts[Printed(t)[n]].EndTime
         /\ R[n].ID = IdOf(Printed(t)[n]) + PARAVER_OFFSET
    BY <2>8, <2>9 DEF BurstsToBe
  <2>11. n <= Len(Printed(t))
    BY <2>5, <2>8, <2>10
  <2> QED
    BY <2>8, <2>10, <2>11 DEF n
<1> QED
  BY <1>1, Invariant, WriterInvariant, PTL

\* When all the trace has been written, the burst that is left first is open,
\* and no record of its thread is at its end.
LEMMA LeftOpen ==
  ASSUME NEW R, NEW tr, NEW t, AreRegions(R, tr, t), IsSequence(tr),
         NEW d, NEW L, NEW last, NEW S, NEW p, p = Len(tr) + 1,
         Written(R, tr, t, d, L, last, S, p), L # <<>>
  PROVE  /\ IsOpen(L, last) /\ d + 1 \in 1 .. Len(R)
         /\ \A i \in 1 .. Len(tr) : tr[i].thread = t => tr[i].time # R[d + 1].EndTime
<1> DEFINE open == IsOpen(L, last)
<1>1. Remains(R, d, L) /\ Waits(tr, t, L, open, p)
  BY DEF Written
<1>2. /\ d + 1 \in 1 .. Len(R) /\ L[1].BeginTime = R[d + 1].BeginTime
      /\ L[1].EndTime = R[d + 1].EndTime /\ L[1].BeginTime \in Nat
  BY <1>1, FirstOf
<1>3. p - 1 = Len(tr)
  BY SequenceDomain
<1> HIDE DEF open
<1>4. \A i \in 1 .. Len(tr) : tr[i].thread = t =>
        tr[i].time # L[1].EndTime /\ (~ open => tr[i].time < L[1].BeginTime)
  BY <1>1, <1>3 DEF Waits
<1>5. PICK i \in 1 .. Len(tr) : tr[i].thread = t /\ tr[i].time = R[d + 1].BeginTime
  BY <1>2 DEF AreRegions
<1>6. open
  BY <1>2, <1>4, <1>5
<1> QED
  BY <1>2, <1>4, <1>6 DEF open

\* When the trace has been written, what is missing in the output is what
\* follows, on its thread, a burst with no record at its end: every burst
\* before that one has its region, and that one is opened and stays open
\* (ClusteredStatesPRVGenerator::Run looks at the first burst of the list only).
THEOREM MissingExplained == Spec => []MissingOnlyAfterUnmarked
<1>1. IInv /\ WInv => MissingOnlyAfterUnmarked
  <2> SUFFICES ASSUME IInv, WInv, pc = "Done", NEW t \in Thread
               PROVE  LET unmarked == {n \in DOMAIN Printed(t) : ~ EndIsMarked(Printed(t)[n])}
                      IN IF unmarked = {} THEN Len(Shown(t)) = 2 * Len(Printed(t))
                         ELSE \E n \in unmarked : /\ \A m \in unmarked : n <= m
                                                  /\ Len(Shown(t)) = 2 * n - 1
    BY DEF MissingOnlyAfterUnmarked
  <2> DEFINE R == BurstsOf(t)
             P == Printed(t)
             S == Shown(t)
             L == BurstsToPrint[t]
             last == LastBurstsPrinted[t]
             unmarked == {n \in DOMAIN P : ~ EndIsMarked(P[n])}
  <2>1. IsSequence(trace) /\ DOMAIN trace = 1 .. Len(trace) /\ pos = Len(trace) + 1
    BY SequenceDomain DEF IInv, Shapes, TypeOK, WInv
  <2>2. PICK d : Written(R, trace, t, d, L, last, S, pos)
    BY DEF WInv, WhileWriting, WrittenFor
  <2>3. /\ Remains(R, d, L) /\ Shows(R, d, IsOpen(L, last), S) /\ AreMarked(R, trace, t, d)
    BY <2>2 DEF Written
  <2>4. AreRegions(R, trace, t)
    BY RegionsOf
  <2>5. BurstsToBe(t)
    BY BurstsAre
  <2>6. /\ Len(P) = Len(R) /\ DOMAIN P = 1 .. Len(R)
        /\ \A n \in 1 .. Len(R) : /\ AllBursts[P[n]].thread = t
                                  /\ R[n].EndTime = AllBursts[P[n]].EndTime
    BY <2>5, SequenceDomain DEF BurstsToBe, ListsBursts
  <2>7. d \in Nat /\ Len(L) \in Nat /\ Len(R) \in Nat /\ d + Len(L) = Len(R)
    BY <2>3, SequenceDomain DEF Remains
  <2> HIDE DEF R, P, S, L, last
  <2>8. \A n \in 1 .. Len(R) :
          EndIsMarked(P[n]) <=>
            \E i \in 1 .. Len(trace) : trace[i].thread = t /\ trace[i].time = R[n].EndTime
    BY <2>1, <2>6 DEF EndIsMarked
  <2>9. \A n \in 1 .. d : n \in 1 .. Len(R) /\ EndIsMarked(P[n])
    <3>1. \A n \in 1 .. d : n \in 1 .. Len(R)
      BY <2>7
    <3> QED
      BY <2>3, <2>8, <3>1 DEF AreMarked
  <2>10. CASE L = <<>>
    <3>1. Len(R) = d
      BY <2>7, <2>10, EmptyIsSequence
    <3>2. unmarked = {}
      BY <2>6, <2>9, <3>1
    <3>3. ~ IsOpen(L, last)
      BY <2>10 DEF IsOpen
    <3>4. Len(S) = 2 * Len(P)
      BY <2>3, <2>6, <3>1, <3>3 DEF Shows
    <3> QED
      BY <3>2, <3>4 DEF P, S
  <2>11. CASE L # <<>>
    <3>1. /\ IsOpen(L, last) /\ d + 1 \in 1 .. Len(R)
          /\ \A i \in 1 .. Len(trace) :
               trace[i].thread = t => trace[i].time # R[d + 1].EndTime
      BY <2>1, <2>2, <2>4, <2>11, LeftOpen
    <3>2. d + 1 \in unmarked
      BY <2>6, <2>8, <3>1
    <3>3. \A m \in unmarked : d + 1 <= m
      <4> SUFFICES ASSUME NEW m \in 1 .. Len(R), ~ EndIsMarked(P[m])
                   PROVE  d + 1 <= m
        BY <2>6
      <4>1. m \notin 1 .. d
        BY <2>9
      <4> QED
        BY <2>7, <4>1
    <3>4. Len(S) = 2 * (d + 1) - 1
      <4>1. Len(S) = 2 * d + 1
        BY <2>3, <3>1 DEF Shows
      <4> QED
        BY <2>7, <4>1
    <3>5. unmarked # {} /\ \E n \in unmarked : /\ \A m \in unmarked : n <= m
                                               /\ Len(S) = 2 * n - 1
      BY <3>2, <3>3, <3>4
    <3> QED
      BY <3>5 DEF P, S
  <2> QED
    BY <2>10, <2>11
<1> QED
  BY <1>1, Invariant, WriterInvariant, PTL

-----------------------------------------------------------------------------
(***************************************************************************)
(* The counters of the bursts.                                             *)
(***************************************************************************)
\* One more record, for the values of a thread at some times.
Meeting(t, W, values, r) ==
  IF r.thread = t /\ r.kind = "event" /\ r.time \in W THEN values \o r.data ELSE values

\* The values that Met passes through, as one formula.
MetTrail(h, tr, t, W, n) ==
  /\ h[0] = <<>> /\ Met(tr, t, W) = h[n]
  /\ \A k \in 1 .. n : h[k] = Meeting(t, W, h[k - 1], tr[k])

\* The values of a record follow those of the records before it.
LEMMA MetStep ==
  ASSUME NEW t, NEW W, NEW tr, NEW n \in Nat, DOMAIN tr = 1 .. n
  PROVE  \E h : MetTrail(h, tr, t, W, n)
<1> DEFINE D == SUBSET (1 .. n)
           Step(f, T) == IF T = {} THEN <<>> ELSE Meeting(t, W, f[T \ {Max(T)}], tr[Max(T)])
           iter == CHOOSE f : f = [T \in D |-> Step(f, T)]
           S == {m \in 0 .. n : \E f : \A T \in SUBSET (1 .. m) : f[T] = Step(f, T)}
<1>1. Met(tr, t, W) = iter[1 .. n]
  BY Zenon DEF Met, Meeting, FoldLeft, MapThenFoldSet
<1>2. 0 \in S
  <2>1. \A T \in SUBSET (1 .. 0) : T = {}
    OBVIOUS
  <2> DEFINE f == [T \in {{}} |-> <<>>]
  <2>2. f[{}] = <<>>
    OBVIOUS
  <2> HIDE DEF f
  <2>3. \A T \in SUBSET (1 .. 0) : f[T] = Step(f, T)
    BY <2>1, <2>2
  <2>4. 0 \in 0 .. n
    OBVIOUS
  <2> HIDE DEF Step
  <2> QED
    BY <2>3, <2>4
<1>3. ASSUME NEW m \in 1 .. n, m - 1 \in S
      PROVE  m \in S
  <2>1. PICK f : \A T \in SUBSET (1 .. (m - 1)) : f[T] = Step(f, T)
    BY <1>3
  <2> DEFINE g == [T \in SUBSET (1 .. m) |-> Step(f, T)]
  <2>2. SUBSET (1 .. (m - 1)) \subseteq SUBSET (1 .. m)
    OBVIOUS
  <2>3. \A T \in SUBSET (1 .. (m - 1)) : g[T] = f[T]
    BY <2>1, <2>2
  <2>4. ASSUME NEW T \in SUBSET (1 .. m)
        PROVE  g[T] = Step(g, T)
    <3>1. T # {} => T \ {Max(T)} \in SUBSET (1 .. (m - 1))
      BY BelowMax
    <3>2. g[T] = Step(f, T)
      OBVIOUS
    <3> HIDE DEF g
    <3> QED
      BY <2>3, <3>1, <3>2
  <2>5. m \in 0 .. n
    OBVIOUS
  <2> HIDE DEF g, Step
  <2> QED
    BY <2>4, <2>5
<1>4. iter = [T \in D |-> Step(iter, T)]
  <2>1. n \in S
    <3> HIDE DEF S
    <3> QED
      BY <1>2, <1>3, BoundedInduction
  <2>2. PICK f : \A T \in D : f[T] = Step(f, T)
    BY <2>1
  <2> DEFINE g == [T \in D |-> f[T]]
  <2>3. \A T \in D : T # {} => T \ {Max(T)} \in D
    BY BelowMax
  <2>4. \A T \in D : Step(f, T) = Step(g, T)
    BY <2>3
  <2>5. g = [T \in D |-> Step(g, T)]
    <3> HIDE DEF Step
    <3> QED
      BY <2>2, <2>4
  <2> HIDE DEF g, Step
  <2> QED
    BY <2>5
<1> HIDE DEF iter
<1>5. ASSUME NEW k \in 0 .. n
      PROVE  1 .. k \in D /\ (k = 0 => 1 .. k = {}) /\ (k # 0 => 1 .. k # {})
  <2>1. 1 .. k \subseteq 1 .. n
    OBVIOUS
  <2>2. k = 0 => 1 .. k = {}
    OBVIOUS
  <2>3. k # 0 => 1 \in 1 .. k
    OBVIOUS
  <2> QED
    BY <2>1, <2>2, <2>3
<1>6. \A T \in D : iter[T] = Step(iter, T)
  BY <1>4
<1> HIDE DEF D
<1> DEFINE h == [k \in 0 .. n |-> iter[1 .. k]]
<1>7. h[0] = <<>> /\ h[n] = iter[1 .. n]
  <2>1. 0 \in 0 .. n /\ n \in 0 .. n
    OBVIOUS
  <2>2. iter[1 .. 0] = <<>>
    BY <1>5, <1>6, <2>1
  <2> QED
    BY <2>1, <2>2
<1>8. ASSUME NEW k \in 1 .. n
      PROVE  h[k] = Meeting(t, W, h[k - 1], tr[k])
  <2>1. k - 1 \in 0 .. n /\ k \in 0 .. n /\ k # 0
    OBVIOUS
  <2>2. Max(1 .. k) = k /\ (1 .. k) \ {Max(1 .. k)} = 1 .. (k - 1)
    BY MaxUpto
  <2>3. 1 .. k \in D /\ 1 .. k # {}
    BY <1>5, <2>1
  <2>4. iter[1 .. k] = Meeting(t, W, iter[1 .. (k - 1)], tr[k])
    BY <1>6, <2>2, <2>3
  <2> QED
    BY <2>1, <2>4
<1> HIDE DEF h
<1>9. MetTrail(h, tr, t, W, n)
  BY <1>1, <1>7, <1>8 DEF MetTrail
<1> QED
  BY <1>9

\* The values that AddValues passes through, as one formula.
AddTrail(h, data, values, n) ==
  /\ h[0] = data /\ AddValues(data, values) = h[n]
  /\ \A k \in 1 .. n : h[k] = AddValue(h[k - 1], values[k])

\* The values are added one after the other.
LEMMA AddValuesStep ==
  ASSUME NEW data, NEW values, NEW n \in Nat, DOMAIN values = 1 .. n
  PROVE  \E h : AddTrail(h, data, values, n)
<1> DEFINE D == SUBSET (1 .. n)
           Step(f, T) == IF T = {} THEN data ELSE AddValue(f[T \ {Max(T)}], values[Max(T)])
           iter == CHOOSE f : f = [T \in D |-> Step(f, T)]
           S == {m \in 0 .. n : \E f : \A T \in SUBSET (1 .. m) : f[T] = Step(f, T)}
<1>1. AddValues(data, values) = iter[1 .. n]
  BY Zenon DEF AddValues, FoldLeft, MapThenFoldSet
<1>2. 0 \in S
  <2>1. \A T \in SUBSET (1 .. 0) : T = {}
    OBVIOUS
  <2> DEFINE f == [T \in {{}} |-> data]
  <2>2. f[{}] = data
    OBVIOUS
  <2> HIDE DEF f
  <2>3. \A T \in SUBSET (1 .. 0) : f[T] = Step(f, T)
    BY <2>1, <2>2
  <2>4. 0 \in 0 .. n
    OBVIOUS
  <2> HIDE DEF Step
  <2> QED
    BY <2>3, <2>4
<1>3. ASSUME NEW m \in 1 .. n, m - 1 \in S
      PROVE  m \in S
  <2>1. PICK f : \A T \in SUBSET (1 .. (m - 1)) : f[T] = Step(f, T)
    BY <1>3
  <2> DEFINE g == [T \in SUBSET (1 .. m) |-> Step(f, T)]
  <2>2. SUBSET (1 .. (m - 1)) \subseteq SUBSET (1 .. m)
    OBVIOUS
  <2>3. \A T \in SUBSET (1 .. (m - 1)) : g[T] = f[T]
    BY <2>1, <2>2
  <2>4. ASSUME NEW T \in SUBSET (1 .. m)
        PROVE  g[T] = Step(g, T)
    <3>1. T # {} => T \ {Max(T)} \in SUBSET (1 .. (m - 1))
      BY BelowMax
    <3>2. g[T] = Step(f, T)
      OBVIOUS
    <3> HIDE DEF g
    <3> QED
      BY <2>3, <3>1, <3>2
  <2>5. m \in 0 .. n
    OBVIOUS
  <2> HIDE DEF g, Step
  <2> QED
    BY <2>4, <2>5
<1>4. iter = [T \in D |-> Step(iter, T)]
  <2>1. n \in S
    <3> HIDE DEF S
    <3> QED
      BY <1>2, <1>3, BoundedInduction
  <2>2. PICK f : \A T \in D : f[T] = Step(f, T)
    BY <2>1
  <2> DEFINE g == [T \in D |-> f[T]]
  <2>3. \A T \in D : T # {} => T \ {Max(T)} \in D
    BY BelowMax
  <2>4. \A T \in D : Step(f, T) = Step(g, T)
    BY <2>3
  <2>5. g = [T \in D |-> Step(g, T)]
    <3> HIDE DEF Step
    <3> QED
      BY <2>2, <2>4
  <2> HIDE DEF g, Step
  <2> QED
    BY <2>5
<1> HIDE DEF iter
<1>5. ASSUME NEW k \in 0 .. n
      PROVE  1 .. k \in D /\ (k = 0 => 1 .. k = {}) /\ (k # 0 => 1 .. k # {})
  <2>1. 1 .. k \subseteq 1 .. n
    OBVIOUS
  <2>2. k = 0 => 1 .. k = {}
    OBVIOUS
  <2>3. k # 0 => 1 \in 1 .. k
    OBVIOUS
  <2> QED
    BY <2>1, <2>2, <2>3
<1>6. \A T \in D : iter[T] = Step(iter, T)
  BY <1>4
<1> HIDE DEF D
<1> DEFINE h == [k \in 0 .. n |-> iter[1 .. k]]
<1>7. h[0] = data /\ h[n] = iter[1 .. n]
  <2>1. 0 \in 0 .. n /\ n \in 0 .. n
    OBVIOUS
  <2>2. iter[1 .. 0] = data
    BY <1>5, <1>6, <2>1
  <2> QED
    BY <2>1, <2>2
<1>8. ASSUME NEW k \in 1 .. n
      PROVE  h[k] = AddValue(h[k - 1], values[k])
  <2>1. k - 1 \in 0 .. n /\ k \in 0 .. n /\ k # 0
    OBVIOUS
  <2>2. Max(1 .. k) = k /\ (1 .. k) \ {Max(1 .. k)} = 1 .. (k - 1)
    BY MaxUpto
  <2>3. 1 .. k \in D /\ 1 .. k # {}
    BY <1>5, <2>1
  <2>4. iter[1 .. k] = AddValue(iter[1 .. (k - 1)], values[k])
    BY <1>6, <2>2, <2>3
  <2> QED
    BY <2>1, <2>4
<1> HIDE DEF h
<1>9. AddTrail(h, data, values, n)
  BY <1>1, <1>7, <1>8 DEF AddTrail
<1> QED
  BY <1>9

-----------------------------------------------------------------------------
(***************************************************************************)
(* The counters.  What a thread has met in the trace so far, and the sums. *)
(***************************************************************************)
TypeValue == [type : STRING, value : Int]

\* One more record.
LEMMA MetAppended ==
  ASSUME NEW t, NEW W, NEW tr, IsSequence(tr), NEW r
  PROVE  Met(Append(tr, r), t, W) = Meeting(t, W, Met(tr, t, W), r)
<1> DEFINE n == Len(tr)
           E == Append(tr, r)
<1>1. /\ n \in Nat /\ DOMAIN tr = 1 .. n /\ DOMAIN E = 1 .. (n + 1) /\ E[n + 1] = r
      /\ \A k \in 1 .. n : E[k] = tr[k]
  BY Appended
<1> HIDE DEF n, E
<1>0. n \in Nat /\ DOMAIN tr = 1 .. n
  BY <1>1
<1>h. PICK h : MetTrail(h, tr, t, W, n)
  BY <1>0, MetStep
<1>2. /\ h[0] = <<>> /\ Met(tr, t, W) = h[n]
      /\ \A k \in 1 .. n : h[k] = Meeting(t, W, h[k - 1], tr[k])
  BY <1>h DEF MetTrail
<1>e. n + 1 \in Nat
  BY <1>1
<1>g. PICK g : MetTrail(g, E, t, W, n + 1)
  BY <1>1, <1>e, MetStep
<1>3. /\ g[0] = <<>> /\ Met(E, t, W) = g[n + 1]
      /\ \A k \in 1 .. (n + 1) : g[k] = Meeting(t, W, g[k - 1], E[k])
  BY <1>g DEF MetTrail
<1> DEFINE S == {k \in 0 .. n : g[k] = h[k]}
<1>4. 0 \in S
  BY <1>1, <1>2, <1>3
<1>5. ASSUME NEW k \in 1 .. n, k - 1 \in S
      PROVE  k \in S
  <2>1. k \in 1 .. (n + 1) /\ k \in 0 .. n
    BY <1>1
  <2> QED
    BY <1>1, <1>2, <1>3, <1>5, <2>1
<1> HIDE DEF S
<1>6. n \in S
  <2>1. n \in Nat
    BY <1>1
  <2> HIDE <1>1, <1>2, <1>3
  <2>2. 0 .. n \subseteq S
    BY <1>4, <1>5, <2>1, BoundedInduction
  <2> QED
    BY <2>1, <2>2
<1>7. g[n] = h[n]
  BY <1>6 DEF S
<1>8. n + 1 \in 1 .. (n + 1) /\ (n + 1) - 1 = n
  BY <1>1
<1> QED
  BY <1>1, <1>2, <1>3, <1>7, <1>8 DEF E

AreRecords(tr) == IsSequence(tr) /\ \A i \in 1 .. Len(tr) : tr[i] \in Record

\* What is met are types and values.
LEMMA MetType ==
  ASSUME NEW t, NEW W, NEW tr, AreRecords(tr)
  PROVE  Met(tr, t, W) \in Seq(TypeValue)
<1> DEFINE n == Len(tr)
<1>1. n \in Nat /\ DOMAIN tr = 1 .. n
  BY SequenceDomain DEF AreRecords
<1>2. \A k \in 1 .. n : tr[k].kind = "event" => tr[k].data \in Seq(TypeValue)
  BY DEF AreRecords, Record, StateRecord, EventRecord, CommunicationRecord, TypeValue
<1> HIDE DEF n
<1>h. PICK h : MetTrail(h, tr, t, W, n)
  BY <1>1, MetStep
<1>3. /\ h[0] = <<>> /\ Met(tr, t, W) = h[n]
      /\ \A k \in 1 .. n : h[k] = Meeting(t, W, h[k - 1], tr[k])
  BY <1>h DEF MetTrail
<1> DEFINE S == {k \in 0 .. n : h[k] \in Seq(TypeValue)}
<1>4. 0 \in S
  <2>1. <<>> \in Seq(TypeValue) /\ 0 \in 0 .. n
    BY <1>1
  <2> QED
    BY <1>3, <2>1
<1>5. ASSUME NEW k \in 1 .. n, k - 1 \in S
      PROVE  k \in S
  <2>1. h[k - 1] \in Seq(TypeValue) /\ h[k] = Meeting(t, W, h[k - 1], tr[k])
    BY <1>3, <1>5
  <2>2. h[k] \in Seq(TypeValue)
    BY <1>2, <2>1 DEF Meeting
  <2> QED
    BY <1>1, <2>2
<1> HIDE DEF S
<1>6. n \in S
  <2>1. n \in Nat
    BY <1>1
  <2> HIDE <1>1, <1>2, <1>3
  <2>2. 0 .. n \subseteq S
    BY <1>4, <1>5, <2>1, BoundedInduction
  <2> QED
    BY <2>1, <2>2
<1> QED
  BY <1>3, <1>6 DEF S

\* Nothing is met where the thread has no record.
LEMMA MetNothing ==
  ASSUME NEW t, NEW W, NEW tr, IsSequence(tr),
         \A i \in 1 .. Len(tr) : tr[i].thread = t => tr[i].time \notin W
  PROVE  Met(tr, t, W) = <<>>
<1> DEFINE n == Len(tr)
<1>1. n \in Nat /\ DOMAIN tr = 1 .. n
  BY SequenceDomain
<1>2. \A k \in 1 .. n : tr[k].thread = t => tr[k].time \notin W
  OBVIOUS
<1> HIDE DEF n
<1>h. PICK h : MetTrail(h, tr, t, W, n)
  BY <1>1, MetStep
<1>3. /\ h[0] = <<>> /\ Met(tr, t, W) = h[n]
      /\ \A k \in 1 .. n : h[k] = Meeting(t, W, h[k - 1], tr[k])
  BY <1>h DEF MetTrail
<1> DEFINE S == {k \in 0 .. n : h[k] = <<>>}
<1>4. 0 \in S
  BY <1>1, <1>3
<1>5. ASSUME NEW k \in 1 .. n, k - 1 \in S
      PROVE  k \in S
  <2>1. h[k] = Meeting(t, W, <<>>, tr[k])
    BY <1>3, <1>5
  <2> QED
    BY <1>1, <1>2, <2>1 DEF Meeting
<1> HIDE DEF S
<1>6. n \in S
  <2>1. n \in Nat
    BY <1>1
  <2> HIDE <1>1, <1>2, <1>3
  <2>2. 0 .. n \subseteq S
    BY <1>4, <1>5, <2>1, BoundedInduction
  <2> QED
    BY <2>1, <2>2
<1> QED
  BY <1>3, <1>6 DEF S

\* Adding no value.
LEMMA AddedNone ==
  ASSUME NEW data
  PROVE  AddValues(data, <<>>) = data
<1>1. DOMAIN <<>> = 1 .. 0
  BY EmptyIsSequence
<1>2. PICK h : AddTrail(h, data, <<>>, 0)
  BY <1>1, AddValuesStep
<1> QED
  BY <1>2 DEF AddTrail

\* Adding the values of two sequences.
LEMMA AddedConcat ==
  ASSUME NEW data, NEW V, NEW v \in Seq(V), NEW w \in Seq(V)
  PROVE  AddValues(data, v \o w) = AddValues(AddValues(data, v), w)
<1> DEFINE n == Len(v)
           m == Len(w)
           z == v \o w
           N == n + m
<1>12. n \in Nat /\ DOMAIN v = 1 .. n
  OBVIOUS
<1>13. m \in Nat /\ DOMAIN w = 1 .. m
  OBVIOUS
<1>1. /\ n \in Nat /\ m \in Nat /\ DOMAIN v = 1 .. n /\ DOMAIN w = 1 .. m
      /\ N \in Nat /\ DOMAIN z = 1 .. N
      /\ \A k \in 1 .. n : z[k] = v[k] /\ k \in 1 .. N
      /\ \A k \in 1 .. m : z[n + k] = w[k] /\ n + k \in 1 .. N /\ (n + k) - 1 = n + (k - 1)
  OBVIOUS
<1>0. N = n + m
  OBVIOUS
<1> HIDE DEF n, m, z, N
<1>h. PICK h : AddTrail(h, data, z, N)
  BY <1>1, AddValuesStep
<1>2. /\ h[0] = data /\ AddValues(data, z) = h[N]
      /\ \A k \in 1 .. N : h[k] = AddValue(h[k - 1], z[k])
  BY <1>h DEF AddTrail
<1>g. PICK g : AddTrail(g, data, v, n)
  BY <1>12, AddValuesStep
<1>3. /\ g[0] = data /\ AddValues(data, v) = g[n]
      /\ \A k \in 1 .. n : g[k] = AddValue(g[k - 1], v[k])
  BY <1>g DEF AddTrail
<1> DEFINE S == {k \in 0 .. n : g[k] = h[k]}
<1>4. 0 \in S
  BY <1>1, <1>2, <1>3
<1>5. ASSUME NEW k \in 1 .. n, k - 1 \in S
      PROVE  k \in S
  <2>1. k \in 0 .. n /\ g[k - 1] = h[k - 1]
    BY <1>1, <1>5
  <2> QED
    BY <1>1, <1>2, <1>3, <2>1
<1> HIDE DEF S
<1>6. n \in S
  <2>1. n \in Nat
    BY <1>1
  <2> HIDE <1>0, <1>1, <1>2, <1>3
  <2>2. 0 .. n \subseteq S
    BY <1>4, <1>5, <2>1, BoundedInduction
  <2> QED
    BY <2>1, <2>2
<1>7. AddValues(data, v) = h[n]
  BY <1>3, <1>6 DEF S
<1> HIDE <1>3
<1> DEFINE sum == h[n]
<1>14. sum = h[n]
  OBVIOUS
<1> HIDE DEF sum
<1>f. PICK f : AddTrail(f, sum, w, m)
  BY <1>13, AddValuesStep
<1>8. /\ f[0] = sum /\ AddValues(sum, w) = f[m]
      /\ \A k \in 1 .. m : f[k] = AddValue(f[k - 1], w[k])
  BY <1>f DEF AddTrail
<1> DEFINE R == {k \in 0 .. m : f[k] = h[n + k]}
<1>9. 0 \in R
  BY <1>1, <1>8, <1>14
<1>10. ASSUME NEW k \in 1 .. m, k - 1 \in R
       PROVE  k \in R
  <2>1. k \in 0 .. m /\ f[k - 1] = h[n + (k - 1)]
    BY <1>1, <1>10
  <2>2. f[k] = AddValue(f[k - 1], w[k])
    BY <1>8
  <2>3. h[n + k] = AddValue(h[(n + k) - 1], z[n + k])
    BY <1>1, <1>2
  <2>4. z[n + k] = w[k] /\ (n + k) - 1 = n + (k - 1)
    BY <1>1
  <2> QED
    BY <2>1, <2>2, <2>3, <2>4
<1> HIDE DEF R
<1>11. m \in R
  <2>1. m \in Nat
    BY <1>1
  <2> HIDE <1>0, <1>1, <1>2, <1>8, <1>14
  <2>2. 0 .. m \subseteq R
    BY <1>9, <1>10, <2>1, BoundedInduction
  <2> QED
    BY <2>1, <2>2
<1> QED
  BY <1>0, <1>2, <1>7, <1>8, <1>11, <1>14 DEF R, z

\* Every type that is added is there.
LEMMA AddedTypes ==
  ASSUME NEW data, NEW V, NEW v \in Seq(V)
  PROVE  Types(v) \subseteq DOMAIN AddValues(data, v)
<1> DEFINE n == Len(v)
<1>1. n \in Nat /\ DOMAIN v = 1 .. n
  OBVIOUS
<1>2. Types(v) = {v[i].type : i \in 1 .. n}
  BY DEF Types
<1> HIDE DEF n
<1>h. PICK h : AddTrail(h, data, v, n)
  BY <1>1, AddValuesStep
<1>3. /\ h[0] = data /\ AddValues(data, v) = h[n]
      /\ \A k \in 1 .. n : h[k] = AddValue(h[k - 1], v[k])
  BY <1>h DEF AddTrail
<1> DEFINE S == {k \in 0 .. n : \A i \in 1 .. k : v[i].type \in DOMAIN h[k]}
<1>4. 0 \in S
  BY <1>1
<1>5. ASSUME NEW k \in 1 .. n, k - 1 \in S
      PROVE  k \in S
  <2>1. h[k] = AddValue(h[k - 1], v[k])
    BY <1>3
  <2>2. DOMAIN h[k] = DOMAIN h[k - 1] \cup {v[k].type}
    BY <2>1 DEF AddValue
  <2>3. \A i \in 1 .. (k - 1) : v[i].type \in DOMAIN h[k - 1]
    BY <1>5
  <2>4. \A i \in 1 .. k : i \in 1 .. (k - 1) \/ i = k
    BY <1>1
  <2>5. k \in 0 .. n
    BY <1>1
  <2> QED
    BY <2>2, <2>3, <2>4, <2>5
<1> HIDE DEF S
<1>6. n \in S
  <2>1. n \in Nat
    BY <1>1
  <2> HIDE <1>1, <1>2, <1>3
  <2>2. 0 .. n \subseteq S
    BY <1>4, <1>5, <2>1, BoundedInduction
  <2> QED
    BY <2>1, <2>2
<1> QED
  BY <1>2, <1>3, <1>6 DEF S

-----------------------------------------------------------------------------
IsFirstChange(v, n) ==
  /\ n \in 1 .. Len(v) + 1
  /\ n <= Len(v) => v[n].type = HWC_GROUP_CHANGE_TYPE
  /\ \A i \in 1 .. n - 1 : v[i].type # HWC_GROUP_CHANGE_TYPE

NoChange(v) == \A i \in 1 .. Len(v) : v[i].type # HWC_GROUP_CHANGE_TYPE

\* The values before the first change, wherever that is.
LEMMA UpToFirst ==
  ASSUME NEW V, NEW v \in Seq(V), NEW n, IsFirstChange(v, n)
  PROVE  UpToChange(v) = SubSeq(v, 1, n - 1)
<1> DEFINE c == CHOOSE x \in 1 .. Len(v) + 1 :
                  /\ x <= Len(v) => v[x].type = HWC_GROUP_CHANGE_TYPE
                  /\ \A i \in 1 .. x - 1 : v[i].type # HWC_GROUP_CHANGE_TYPE
<1>1. UpToChange(v) = SubSeq(v, 1, c - 1)
  BY Zenon DEF UpToChange
<1>2. IsFirstChange(v, c)
  BY DEF IsFirstChange
<1> HIDE DEF c
<1>3. Len(v) \in Nat
  OBVIOUS
<1>4. c = n
  <2>1. n \in Int /\ c \in Int
    BY <1>2, <1>3 DEF IsFirstChange
  <2>2. CASE c < n
    <3>1. c \in 1 .. n - 1 /\ c <= Len(v)
      BY <1>2, <1>3, <2>1, <2>2 DEF IsFirstChange
    <3> QED
      BY <1>2, <3>1 DEF IsFirstChange
  <2>3. CASE n < c
    <3>1. n \in 1 .. c - 1 /\ n <= Len(v)
      BY <1>2, <1>3, <2>1, <2>3 DEF IsFirstChange
    <3> QED
      BY <1>2, <3>1 DEF IsFirstChange
  <2> QED
    BY <2>1, <2>2, <2>3
<1> QED
  BY <1>1, <1>4

\* Without a change it is all of them.
LEMMA UpToNone ==
  ASSUME NEW V, NEW v \in Seq(V), NoChange(v)
  PROVE  UpToChange(v) = v
<1>1. Len(v) \in Nat /\ (Len(v) + 1) - 1 = Len(v)
  OBVIOUS
<1>2. IsFirstChange(v, Len(v) + 1)
  BY <1>1 DEF IsFirstChange, NoChange
<1>3. SubSeq(v, 1, Len(v)) = v
  OBVIOUS
<1> DEFINE n == Len(v) + 1
<1>4. n - 1 = Len(v) /\ IsFirstChange(v, n)
  BY <1>1, <1>2
<1> HIDE DEF n
<1>5. UpToChange(v) = SubSeq(v, 1, n - 1)
  BY <1>4, UpToFirst
<1> QED
  BY <1>3, <1>4, <1>5

\* A change that comes last, after none.
LEMMA UpToLast ==
  ASSUME NEW V, NEW v \in Seq(V), NoChange(v), NEW w \in Seq(V), NoChange(w), NEW x \in V,
         x.type = HWC_GROUP_CHANGE_TYPE
  PROVE  UpToChange(v \o Append(w, x)) = v \o w /\ ~ NoChange(v \o Append(w, x))
<1> DEFINE u == v \o w
           z == v \o Append(w, x)
           n == Len(u) + 1
<1>1. /\ u \in Seq(V) /\ Len(u) \in Nat /\ z \in Seq(V) /\ Len(z) = n /\ z[n] = x
      /\ \A i \in 1 .. Len(u) : z[i] = u[i]
      /\ SubSeq(z, 1, n - 1) = u
  OBVIOUS
<1>2. \A i \in 1 .. Len(u) : u[i].type # HWC_GROUP_CHANGE_TYPE
  <2> TAKE i \in 1 .. Len(u)
  <2>1. (i \in 1 .. Len(v) /\ u[i] = v[i]) \/ (i - Len(v) \in 1 .. Len(w) /\ u[i] = w[i - Len(v)])
    OBVIOUS
  <2> HIDE DEF u
  <2> QED
    BY <2>1 DEF NoChange
<1>3. n - 1 = Len(u) /\ n \in 1 .. n + 1 /\ n \in 1 .. n
  BY <1>1
<1> HIDE DEF u, z, n
<1>4. IsFirstChange(z, n)
  BY <1>1, <1>2, <1>3 DEF IsFirstChange
<1>5. UpToChange(z) = SubSeq(z, 1, n - 1)
  BY <1>1, <1>4, UpToFirst
<1>6. ~ NoChange(z)
  BY <1>1, <1>3 DEF NoChange
<1> QED
  BY <1>1, <1>5, <1>6 DEF u, z

\* What follows a change does not count.
LEMMA UpToKept ==
  ASSUME NEW V, NEW v \in Seq(V), ~ NoChange(v), NEW w \in Seq(V)
  PROVE  UpToChange(v \o w) = UpToChange(v) /\ ~ NoChange(v \o w)
<1> DEFINE z == v \o w
           T == {i \in 1 .. Len(v) : v[i].type = HWC_GROUP_CHANGE_TYPE}
<1>1. /\ z \in Seq(V) /\ Len(v) \in Nat /\ Len(z) \in Nat /\ Len(v) <= Len(z)
      /\ \A i \in 1 .. Len(v) : z[i] = v[i]
  OBVIOUS
<1>2. T # {} /\ T \in SUBSET Nat
  BY DEF NoChange
<1>3. PICK n \in T : \A m \in T : n <= m
  BY <1>2, LeastNumber
<1>4. n \in 1 .. Len(v) /\ v[n].type = HWC_GROUP_CHANGE_TYPE
  OBVIOUS
<1>5. \A i \in 1 .. n - 1 : v[i].type # HWC_GROUP_CHANGE_TYPE /\ z[i] = v[i]
  <2> TAKE i \in 1 .. n - 1
  <2>1. i \in 1 .. Len(v) /\ ~ (n <= i)
    BY <1>1, <1>4
  <2> QED
    BY <1>1, <1>3, <2>1
<1>6. SubSeq(z, 1, n - 1) = SubSeq(v, 1, n - 1)
  BY <1>4
<1> HIDE DEF z, T
<1>7. IsFirstChange(v, n) /\ IsFirstChange(z, n)
  BY <1>1, <1>4, <1>5 DEF IsFirstChange
<1>8. UpToChange(v) = SubSeq(v, 1, n - 1) /\ UpToChange(z) = SubSeq(z, 1, n - 1)
  BY <1>1, <1>7, UpToFirst
<1>9. ~ NoChange(z)
  BY <1>1, <1>4 DEF NoChange
<1> QED
  BY <1>6, <1>8, <1>9 DEF z

-----------------------------------------------------------------------------
\* The current burst, or the one in wait, has the values that have been met in it.
HasItsOwn(c, t, tr) ==
  /\ c.EventsData = Own(tr, t, c)
  /\ Types(EndValues(tr, t, c)) \subseteq c.BurstEndEvents

\* The states of thread t that begin at a time or later.
BegunFrom(tr, t, time) ==
  {k \in 1 .. Len(tr) : tr[k].thread = t /\ IsRunning(tr[k]) /\ time <= tr[k].time}

\* Record i of thread t has values behind a change, at the end of a state of t.
IsEarly(i, tr, t) ==
  /\ i \in 1 .. Len(tr) /\ tr[i].thread = t /\ ChangesEarly(tr[i])
  /\ \E j \in 1 .. Len(tr) :
       tr[j].thread = t /\ IsRunning(tr[j]) /\ tr[j].end = tr[i].time

\* No burst has got the values that were behind a change: the next one will.
Dangling(tr, t) ==
  \E i \in 1 .. Len(tr) :
    /\ IsEarly(i, tr, t)
    /\ \A k \in BegunFrom(tr, t, tr[i].time) :
         tr[k].time = tr[i].time /\ ChangesTwice(tr[i])

\* The types that ended c, or a burst before it, were met at the ends of states.
SomeEnds(c, t, tr) == \E time \in Nat : c.BurstEndEvents \subseteq EndTypes(tr, t, time)

EndsSeen(c, t, tr) ==
  /\ SomeEnds(c, t, tr)
  /\ c.OngoingBurst => c.BurstEndEvents \subseteq EndTypes(tr, t, c.EndTime)

\* No change of the counters has been met at the end of a burst under construction:
\* with one it would have been stored.
ContainerOwn(c, t, tr) ==
  /\ EndsSeen(c, t, tr)
  /\ c.OngoingBurst =>
       Spoilt(tr, t, c) \/ (HasItsOwn(c, t, tr) /\ NoChange(Met(tr, t, {c.EndTime})))
  /\ ~ c.OngoingBurst => c.EventsData = NoEvents \/ Dangling(tr, t)

\* No value of the rest of the trace is one of burst b.
Closed(b, t, tr) ==
  \E i \in 1 .. Len(tr) :
    /\ tr[i].thread = t
    /\ \/ tr[i].time > b.EndTime
       \/ tr[i].time = b.EndTime /\ ~ NoChange(Met(tr, t, {b.EndTime}))

\* What CountersAreOwn says of one burst.
BurstOwn(b, t, tr) ==
  /\ Types(EndValues(tr, t, b)) \subseteq DOMAIN b.data
  /\ DOMAIN b.data \subseteq DOMAIN Own(tr, t, b) \cup {DURATION_EVT_TYPE}
  /\ \A type \in DOMAIN b.data \cap DOMAIN Own(tr, t, b) :
       b.data[type] = Own(tr, t, b)[type]
  /\ Types(EndValues(tr, t, b)) # {} =>
       DOMAIN b.data \subseteq EndTypes(tr, t, b.EndTime) \cup {DURATION_EVT_TYPE}

StoredOwn(B, t, tr) ==
  \A k \in 1 .. Len(B) : B[k].thread = t =>
    Spoilt(tr, t, B[k]) \/ (BurstOwn(B[k], t, tr) /\ Closed(B[k], t, tr))

ThreadOwn(s, t, tr) ==
  /\ ContainerOwn(s.Current, t, tr) /\ ContainerOwn(s.Next, t, tr)
  /\ StoredOwn(s.Stored, t, tr)

\* The records of thread t are not after a time.
NotLater(tr, t, time) == \A i \in 1 .. Len(tr) : tr[i].thread = t => tr[i].time <= time

\* Record r has no value for burst b of thread t.
Outside(r, t, b) ==
  r.thread = t /\ r.kind = "event" =>
    r.time \notin b.BeginTime + 1 .. b.EndTime - 1 /\ r.time # b.EndTime

\* What is spoilt, in other words.
LEMMA SpoiltIs ==
  ASSUME NEW tr, IsSequence(tr), NEW t, NEW b
  PROVE  Spoilt(tr, t, b) <=>
           \E i \in 1 .. Len(tr) :
             /\ IsEarly(i, tr, t) /\ tr[i].time <= b.BeginTime
             /\ \A k \in BegunFrom(tr, t, tr[i].time) :
                  tr[k].time < b.BeginTime => tr[k].time = tr[i].time /\ ChangesTwice(tr[i])
BY DEF Spoilt, IsEarly, BegunFrom

\* The trace T is tr with one more record.
OneMore(T, tr, r) == IsSequence(tr) /\ T = Append(tr, r)

\* What has been met at ends stays met, and a later time only adds to it.
LEMMA EndsGrow ==
  ASSUME NEW tr, AreRecords(tr), NEW r, NEW T, T = tr \/ OneMore(T, tr, r), NEW t,
         NEW y \in Nat, NEW z \in Nat, y <= z \/ NotLater(tr, t, z)
  PROVE  EndTypes(tr, t, y) \subseteq EndTypes(T, t, z)
<1>1. \A i \in 1 .. Len(tr) : i \in 1 .. Len(T) /\ T[i] = tr[i]
  <2>1. CASE T = tr
    BY <2>1
  <2>2. CASE OneMore(T, tr, r)
    <3>1. Len(tr) \in Nat /\ Len(T) = Len(tr) + 1 /\ \A i \in 1 .. Len(tr) : T[i] = tr[i]
      BY <2>2, Appended DEF OneMore
    <3> QED
      BY <3>1
  <2> QED
    BY <2>1, <2>2
<1>2. \A i \in 1 .. Len(tr) : tr[i].time \in Nat
  BY DEF AreRecords, Record, StateRecord, EventRecord, CommunicationRecord
<1>3. ASSUME NEW i \in 1 .. Len(tr), MarksEnd(tr, t, i), tr[i].time <= y
      PROVE  MarksEnd(T, t, i) /\ T[i].time <= z
  <2>1. T[i] = tr[i] /\ tr[i].thread = t
    BY <1>1, <1>3 DEF MarksEnd
  <2>2. MarksEnd(T, t, i)
    BY <1>1, <1>3 DEF MarksEnd
  <2>3. tr[i].time <= z
    BY <1>2, <1>3, <2>1 DEF NotLater
  <2> QED
    BY <2>1, <2>2, <2>3
<1> QED
  BY <1>1, <1>3 DEF EndTypes

\* What a burst under construction has of ends stays seen.
LEMMA EndsSeenKept ==
  ASSUME NEW tr, AreRecords(tr), NEW r, NEW T, OneMore(T, tr, r), NEW t, NEW c,
         c.OngoingBurst => c.EndTime \in Nat, EndsSeen(c, t, tr)
  PROVE  EndsSeen(c, t, T)
<1>1. PICK time \in Nat : c.BurstEndEvents \subseteq EndTypes(tr, t, time)
  BY DEF EndsSeen, SomeEnds
<1>2. EndTypes(tr, t, time) \subseteq EndTypes(T, t, time)
  BY EndsGrow
<1>3. c.OngoingBurst => EndTypes(tr, t, c.EndTime) \subseteq EndTypes(T, t, c.EndTime)
  BY EndsGrow
<1> QED
  BY <1>1, <1>2, <1>3 DEF EndsSeen, SomeEnds

\* The record that marks the end of a state is seen there.
LEMMA EndIsSeen ==
  ASSUME NEW tr, NEW t, NEW i \in 1 .. Len(tr), MarksEnd(tr, t, i), tr[i].time \in Nat
  PROVE  Types(tr[i].data) \subseteq EndTypes(tr, t, tr[i].time)
<1>1. tr[i].time <= tr[i].time
  OBVIOUS
<1> QED
  BY <1>1 DEF EndTypes

\* Nothing is behind an empty set of them.
LEMMA NoneSeen ==
  ASSUME NEW c, c.BurstEndEvents = {}, NEW t, NEW tr
  PROVE  EndsSeen(c, t, tr)
<1>1. 0 \in Nat /\ c.BurstEndEvents \subseteq EndTypes(tr, t, 0)
  OBVIOUS
<1> QED
  BY <1>1 DEF EndsSeen, SomeEnds

\* A state of the longer trace is one of the other, or the record.
LEMMA BegunAppended ==
  ASSUME NEW tr, NEW r, NEW T, OneMore(T, tr, r), NEW t, NEW i, IsEarly(i, tr, t)
  PROVE  /\ i \in 1 .. Len(T) /\ T[i] = tr[i] /\ IsEarly(i, T, t)
         /\ \A k \in BegunFrom(T, t, tr[i].time) :
              \/ k \in BegunFrom(tr, t, tr[i].time) /\ T[k] = tr[k]
              \/ T[k] = r /\ r.thread = t /\ IsRunning(r)
<1> DEFINE n == Len(tr)
           time == tr[i].time
<1>1. /\ n \in Nat /\ Len(T) = n + 1 /\ T[n + 1] = r
      /\ \A k \in 1 .. n : T[k] = tr[k]
  BY Appended DEF OneMore
<1>2. \A k \in 1 .. Len(T) : k \in 1 .. n \/ k = n + 1
  BY <1>1
<1>3. \A k \in 1 .. n : k \in 1 .. Len(T)
  BY <1>1
<1>4. i \in 1 .. Len(T) /\ T[i] = tr[i] /\ IsEarly(i, T, t)
  BY <1>1, <1>3 DEF IsEarly
<1> HIDE DEF time
<1>5. ASSUME NEW k \in BegunFrom(T, t, time)
      PROVE  \/ k \in BegunFrom(tr, t, time) /\ T[k] = tr[k]
             \/ T[k] = r /\ r.thread = t /\ IsRunning(r)
  <2>1. k \in 1 .. Len(T) /\ T[k].thread = t /\ IsRunning(T[k]) /\ time <= T[k].time
    BY DEF BegunFrom
  <2>2. CASE k \in 1 .. n
    BY <1>1, <2>1, <2>2 DEF BegunFrom
  <2>3. CASE k = n + 1
    BY <1>1, <2>1, <2>3
  <2> QED
    BY <1>2, <2>1, <2>2, <2>3
<1> QED
  BY <1>4, <1>5 DEF time

\* A burst that is spoilt stays so.
LEMMA SpoiltKept ==
  ASSUME NEW tr, IsSequence(tr), NEW r, NEW t, NEW b, b.BeginTime \in Nat, Spoilt(tr, t, b),
         r.thread = t /\ IsRunning(r) => b.BeginTime <= r.time /\ r.time \in Nat
  PROVE  Spoilt(Append(tr, r), t, b)
<1> DEFINE T == Append(tr, r)
<1>1. PICK i \in 1 .. Len(tr) :
        /\ IsEarly(i, tr, t) /\ tr[i].time <= b.BeginTime
        /\ \A k \in BegunFrom(tr, t, tr[i].time) :
             tr[k].time < b.BeginTime => tr[k].time = tr[i].time /\ ChangesTwice(tr[i])
  BY SpoiltIs
<1>2. /\ i \in 1 .. Len(T) /\ T[i] = tr[i] /\ IsEarly(i, T, t)
      /\ \A k \in BegunFrom(T, t, tr[i].time) :
           \/ k \in BegunFrom(tr, t, tr[i].time) /\ T[k] = tr[k]
           \/ T[k] = r /\ r.thread = t /\ IsRunning(r)
  <2>1. OneMore(T, tr, r)
    BY DEF OneMore
  <2> HIDE DEF T
  <2> QED
    BY <1>1, <2>1, BegunAppended
<1>3. IsSequence(T)
  BY Appended
<1> HIDE DEF T
<1>4. ASSUME NEW k \in BegunFrom(T, t, T[i].time), T[k].time < b.BeginTime
      PROVE  T[k].time = T[i].time /\ ChangesTwice(T[i])
  <2>1. CASE k \in BegunFrom(tr, t, tr[i].time) /\ T[k] = tr[k]
    BY <1>1, <1>2, <1>4, <2>1
  <2>2. CASE T[k] = r /\ r.thread = t /\ IsRunning(r)
    BY <1>4, <2>2
  <2> QED
    BY <1>2, <1>4, <2>1, <2>2
<1>5. Spoilt(T, t, b)
  BY <1>1, <1>2, <1>3, <1>4, SpoiltIs
<1> QED
  BY <1>5 DEF T

\* The values that no burst has got stay, but for a state.
LEMMA DanglingKept ==
  ASSUME NEW tr, IsSequence(tr), NEW r, NEW t, Dangling(tr, t), ~ (r.thread = t /\ IsRunning(r))
  PROVE  Dangling(Append(tr, r), t)
<1> DEFINE T == Append(tr, r)
<1>1. PICK i \in 1 .. Len(tr) :
        /\ IsEarly(i, tr, t)
        /\ \A k \in BegunFrom(tr, t, tr[i].time) :
             tr[k].time = tr[i].time /\ ChangesTwice(tr[i])
  BY DEF Dangling
<1>2. /\ i \in 1 .. Len(T) /\ T[i] = tr[i] /\ IsEarly(i, T, t)
      /\ \A k \in BegunFrom(T, t, tr[i].time) :
           k \in BegunFrom(tr, t, tr[i].time) /\ T[k] = tr[k]
  <2>1. OneMore(T, tr, r)
    BY DEF OneMore
  <2> HIDE DEF T
  <2> QED
    BY <1>1, <2>1, BegunAppended
<1> HIDE DEF T
<1>3. Dangling(T, t)
  BY <1>1, <1>2 DEF Dangling
<1> QED
  BY <1>3 DEF T

\* A state that begins a burst gets them.
LEMMA DanglingEnds ==
  ASSUME NEW tr, AreRecords(tr), NEW r \in Record, NEW t, Dangling(tr, t),
         NotLater(tr, t, r.time), NEW b, b.BeginTime = r.time
  PROVE  Spoilt(Append(tr, r), t, b)
<1> DEFINE T == Append(tr, r)
<1>1. PICK i \in 1 .. Len(tr) :
        /\ IsEarly(i, tr, t)
        /\ \A k \in BegunFrom(tr, t, tr[i].time) :
             tr[k].time = tr[i].time /\ ChangesTwice(tr[i])
  BY DEF Dangling
<1>2. IsSequence(tr) /\ IsSequence(T) /\ r.time \in Nat
  BY Appended DEF AreRecords, Record, StateRecord, EventRecord, CommunicationRecord
<1>3. /\ i \in 1 .. Len(T) /\ T[i] = tr[i] /\ IsEarly(i, T, t)
      /\ \A k \in BegunFrom(T, t, tr[i].time) :
           \/ k \in BegunFrom(tr, t, tr[i].time) /\ T[k] = tr[k]
           \/ T[k] = r
  <2>1. OneMore(T, tr, r)
    BY <1>2 DEF OneMore
  <2> HIDE DEF T
  <2> QED
    BY <1>1, <2>1, BegunAppended
<1>4. T[i].time <= b.BeginTime
  BY <1>1, <1>3 DEF NotLater, IsEarly
<1> HIDE DEF T
<1>5. ASSUME NEW k \in BegunFrom(T, t, T[i].time), T[k].time < b.BeginTime
      PROVE  T[k].time = T[i].time /\ ChangesTwice(T[i])
  <2>1. T[k] # r
    BY <1>2, <1>5
  <2> QED
    BY <1>1, <1>3, <1>5, <2>1
<1>6. Spoilt(T, t, b)
  BY <1>2, <1>3, <1>4, <1>5, SpoiltIs
<1> QED
  BY <1>6 DEF T

\* What is met at the times of a burst when a record has no value for it.
LEMMA OutsideKept ==
  ASSUME NEW tr, IsSequence(tr), NEW r, NEW t, NEW b, Outside(r, t, b)
  PROVE  /\ Met(Append(tr, r), t, {b.EndTime}) = Met(tr, t, {b.EndTime})
         /\ InsideValues(Append(tr, r), t, b) = InsideValues(tr, t, b)
         /\ EndValues(Append(tr, r), t, b) = EndValues(tr, t, b)
         /\ Own(Append(tr, r), t, b) = Own(tr, t, b)
<1> DEFINE W == b.BeginTime + 1 .. b.EndTime - 1
           T == Append(tr, r)
<1>1. Met(T, t, W) = Meeting(t, W, Met(tr, t, W), r)
  BY MetAppended
<1>2. Met(T, t, {b.EndTime}) = Meeting(t, {b.EndTime}, Met(tr, t, {b.EndTime}), r)
  BY MetAppended
<1> HIDE DEF T
<1>3. Met(T, t, W) = Met(tr, t, W)
  BY <1>1 DEF Meeting, Outside
<1>4. Met(T, t, {b.EndTime}) = Met(tr, t, {b.EndTime})
  BY <1>2 DEF Meeting, Outside
<1>5. InsideValues(T, t, b) = InsideValues(tr, t, b)
  BY <1>3 DEF InsideValues
<1>6. EndValues(T, t, b) = EndValues(tr, t, b)
  BY <1>4 DEF EndValues
<1>7. Own(T, t, b) = Own(tr, t, b)
  BY <1>5, <1>6 DEF Own
<1> QED
  BY <1>4, <1>5, <1>6, <1>7 DEF T

\* A burst under construction keeps its counters then.
LEMMA ContainerKept ==
  ASSUME NEW tr, AreRecords(tr), NEW r \in Record, NEW t, NEW c, c.BeginTime \in Nat,
         c.EndTime \in Nat,
         IF c.OngoingBurst
         THEN Outside(r, t, c) /\ (r.thread = t /\ IsRunning(r) => c.BeginTime <= r.time)
         ELSE c.EventsData = NoEvents \/ ~ (r.thread = t /\ IsRunning(r)),
         ContainerOwn(c, t, tr)
  PROVE  ContainerOwn(c, t, Append(tr, r))
<1>3. r.time \in Nat /\ IsSequence(tr)
  BY DEF AreRecords, Record, StateRecord, EventRecord, CommunicationRecord
<1>4. EndsSeen(c, t, Append(tr, r))
  <2> DEFINE T == Append(tr, r)
  <2>1. OneMore(T, tr, r) /\ EndsSeen(c, t, tr)
    BY <1>3 DEF OneMore, ContainerOwn
  <2> HIDE DEF T
  <2>2. EndsSeen(c, t, T)
    BY <2>1, EndsSeenKept
  <2> QED
    BY <2>2 DEF T
<1>1. CASE c.OngoingBurst
  <2>1. /\ Met(Append(tr, r), t, {c.EndTime}) = Met(tr, t, {c.EndTime})
        /\ EndValues(Append(tr, r), t, c) = EndValues(tr, t, c)
        /\ Own(Append(tr, r), t, c) = Own(tr, t, c)
    BY <1>1, <1>3, OutsideKept
  <2>2. Spoilt(tr, t, c) => Spoilt(Append(tr, r), t, c)
    BY <1>1, <1>3, SpoiltKept
  <2> QED
    BY <1>1, <1>4, <2>1, <2>2 DEF ContainerOwn, HasItsOwn
<1>2. CASE ~ c.OngoingBurst
  <2>1. c.EventsData = NoEvents \/ Dangling(tr, t)
    BY <1>2 DEF ContainerOwn
  <2>2. c.EventsData = NoEvents \/ Dangling(Append(tr, r), t)
    BY <1>2, <1>3, <2>1, DanglingKept
  <2> QED
    BY <1>2, <1>4, <2>2 DEF ContainerOwn
<1> QED
  BY <1>1, <1>2

\* A burst that is closed gets no value from the next record.
LEMMA ClosedKept ==
  ASSUME NEW tr, AreRecords(tr), NEW r \in Record, NEW t, NEW b,
         b.EndTime \in Nat, b.BeginTime \in Nat,
         r.thread = t => NotLater(tr, t, r.time), Closed(b, t, tr)
  PROVE  /\ Closed(b, t, Append(tr, r))
         /\ Own(Append(tr, r), t, b) = Own(tr, t, b)
         /\ EndValues(Append(tr, r), t, b) = EndValues(tr, t, b)
<1> DEFINE T == Append(tr, r)
           e == b.EndTime
<1>0. IsSequence(tr)
  BY DEF AreRecords
<1>1. PICK i \in 1 .. Len(tr) :
        /\ tr[i].thread = t
        /\ tr[i].time > e \/ (tr[i].time = e /\ ~ NoChange(Met(tr, t, {e})))
  BY DEF Closed
<1>2. Len(tr) \in Nat /\ i \in 1 .. Len(T) /\ T[i] = tr[i]
  BY <1>0, Appended
<1>3. tr[i].time \in Nat /\ r.time \in Nat
  BY DEF AreRecords, Record, StateRecord, EventRecord, CommunicationRecord
<1>4. CASE Outside(r, t, b)
  <2>1. /\ Met(T, t, {e}) = Met(tr, t, {e})
        /\ EndValues(T, t, b) = EndValues(tr, t, b)
        /\ Own(T, t, b) = Own(tr, t, b)
    BY <1>0, <1>4, OutsideKept
  <2> HIDE DEF T
  <2>2. Closed(b, t, T)
    BY <1>1, <1>2, <2>1 DEF Closed
  <2> QED
    BY <2>1, <2>2 DEF T
<1>5. CASE ~ Outside(r, t, b)
  <2>1. /\ r.thread = t /\ r.kind = "event"
        /\ r.time \in b.BeginTime + 1 .. e - 1 \/ r.time = e
    BY <1>5 DEF Outside
  <2>2. tr[i].time <= r.time
    BY <1>1, <2>1 DEF NotLater
  <2>3. /\ r.time = e /\ tr[i].time = e /\ ~ NoChange(Met(tr, t, {e}))
        /\ r.time \notin b.BeginTime + 1 .. e - 1
    BY <1>1, <1>3, <2>1, <2>2
  <2>4. /\ Met(T, t, {e}) = Met(tr, t, {e}) \o r.data
        /\ InsideValues(T, t, b) = InsideValues(tr, t, b)
    <3>1. Met(T, t, {e}) = Meeting(t, {e}, Met(tr, t, {e}), r)
      BY <1>0, MetAppended
    <3> DEFINE W == b.BeginTime + 1 .. b.EndTime - 1
    <3>2. Met(T, t, W) = Meeting(t, W, Met(tr, t, W), r) /\ r.time \notin W
      BY <1>0, <2>3, MetAppended
    <3> HIDE DEF T, W
    <3>3. Met(T, t, W) = Met(tr, t, W)
      BY <3>2 DEF Meeting
    <3> QED
      BY <2>1, <2>3, <3>1, <3>3 DEF Meeting, InsideValues, W
  <2>5. Met(tr, t, {e}) \in Seq(TypeValue) /\ r.data \in Seq(TypeValue)
    BY <2>1, MetType DEF Record, StateRecord, EventRecord, CommunicationRecord, TypeValue
  <2> HIDE DEF T
  <2>6. UpToChange(Met(T, t, {e})) = UpToChange(Met(tr, t, {e})) /\ ~ NoChange(Met(T, t, {e}))
    BY <2>3, <2>4, <2>5, UpToKept
  <2>7. EndValues(T, t, b) = EndValues(tr, t, b)
    BY <2>6 DEF EndValues
  <2>8. Own(T, t, b) = Own(tr, t, b)
    BY <2>4, <2>7 DEF Own
  <2>9. Closed(b, t, T)
    BY <1>1, <1>2, <2>3, <2>6 DEF Closed
  <2> QED
    BY <2>7, <2>8, <2>9 DEF T
<1> QED
  BY <1>4, <1>5

\* So the bursts that are stored keep what they have.
LEMMA StoredOwnKept ==
  ASSUME NEW tr, AreRecords(tr), NEW r \in Record, NEW t, NEW B, StoredOK(B, t, tr),
         r.thread = t => NotLater(tr, t, r.time), StoredOwn(B, t, tr)
  PROVE  StoredOwn(B, t, Append(tr, r))
<1> SUFFICES ASSUME NEW k \in 1 .. Len(B), B[k].thread = t
             PROVE  \/ Spoilt(Append(tr, r), t, B[k])
                    \/ BurstOwn(B[k], t, Append(tr, r)) /\ Closed(B[k], t, Append(tr, r))
  BY DEF StoredOwn
<1> DEFINE b == B[k]
<1>0. Spoilt(tr, t, b) \/ (BurstOwn(b, t, tr) /\ Closed(b, t, tr))
  BY DEF StoredOwn
<1>2. b.EndTime \in Nat /\ b.BeginTime \in Nat /\ IsStateOf(b, t, tr)
  BY DEF StoredOK
<1> HIDE DEF b
<1>5. CASE Spoilt(tr, t, b)
  <2>1. r.thread = t => b.BeginTime <= r.time
    BY <1>2 DEF IsStateOf, NotLater
  <2>2. r.time \in Nat /\ IsSequence(tr)
    BY DEF AreRecords, Record, StateRecord, EventRecord, CommunicationRecord
  <2>3. Spoilt(Append(tr, r), t, b)
    BY <1>2, <1>5, <2>1, <2>2, SpoiltKept
  <2> QED
    BY <2>3 DEF b
<1>6. CASE ~ Spoilt(tr, t, b)
  <2>1. BurstOwn(b, t, tr) /\ Closed(b, t, tr)
    BY <1>0, <1>6
  <2>2. /\ Closed(b, t, Append(tr, r))
        /\ Own(Append(tr, r), t, b) = Own(tr, t, b)
        /\ EndValues(Append(tr, r), t, b) = EndValues(tr, t, b)
    BY <1>2, <2>1, ClosedKept
  <2> DEFINE T == Append(tr, r)
  <2>4. OneMore(T, tr, r)
    BY DEF OneMore, AreRecords
  <2> HIDE DEF T
  <2>5. EndTypes(tr, t, b.EndTime) \subseteq EndTypes(T, t, b.EndTime)
    BY <1>2, <2>4, EndsGrow
  <2>6. EndTypes(tr, t, b.EndTime) \subseteq EndTypes(Append(tr, r), t, b.EndTime)
    BY <2>5 DEF T
  <2>3. BurstOwn(b, t, Append(tr, r))
    BY <2>1, <2>2, <2>6 DEF BurstOwn
  <2> QED
    BY <2>2, <2>3 DEF b
<1> QED
  BY <1>5, <1>6

\* What TraceData::NewBurst keeps of the counters of a burst are its own.
LEMMA NewDataOwn ==
  ASSUME NEW c, NEW t, NEW tr, AreRecords(tr), HasItsOwn(c, t, tr),
         EndsSeen(c, t, tr), c.OngoingBurst,
         NEW b, b.BeginTime = c.BeginTime, b.EndTime = c.EndTime, b.data = NewData(c)
  PROVE  BurstOwn(b, t, tr)
<1> DEFINE own == Own(tr, t, c)
           end == EndValues(tr, t, c)
           ends == c.BurstEndEvents
           kept == IF ends = {} THEN DOMAIN own ELSE DOMAIN own \cap ends
<1>1. Own(tr, t, b) = own /\ EndValues(tr, t, b) = end
  BY DEF Own, InsideValues, EndValues
<1>2. c.EventsData = own /\ Types(end) \subseteq ends
  BY DEF HasItsOwn
<1>3. b.data = [type \in kept \cup {DURATION_EVT_TYPE} |->
                 IF type \in DOMAIN own THEN own[type] ELSE c.EndTime - c.BeginTime]
  <2> HIDE DEF own
  <2> QED
    BY <1>2 DEF NewData
<1>4. Types(end) \subseteq DOMAIN own
  <2> DEFINE v == InsideValues(tr, t, c)
             m == Met(tr, t, {c.EndTime})
  <2>1. v \in Seq(TypeValue) /\ m \in Seq(TypeValue)
    BY MetType DEF InsideValues
  <2>2. end \in Seq(TypeValue)
    <3>1. end = UpToChange(m)
      BY DEF EndValues
    <3> HIDE DEF m
    <3>2. CASE NoChange(m)
      BY <2>1, <3>1, <3>2, UpToNone
    <3>3. CASE ~ NoChange(m)
      <4> DEFINE N == {i \in 1 .. Len(m) : m[i].type = HWC_GROUP_CHANGE_TYPE}
      <4>1. N # {} /\ N \in SUBSET Nat
        BY <3>3 DEF NoChange
      <4>2. PICK n \in N : \A i \in N : n <= i
        BY <4>1, LeastNumber
      <4>3. Len(m) \in Nat /\ n \in 1 .. Len(m)
        BY <2>1
      <4>4. IsFirstChange(m, n)
        BY <4>2, <4>3 DEF IsFirstChange
      <4>5. UpToChange(m) = SubSeq(m, 1, n - 1)
        BY <2>1, <4>4, UpToFirst
      <4>6. SubSeq(m, 1, n - 1) \in Seq(TypeValue)
        BY <2>1, <4>3
      <4> QED
        BY <3>1, <4>5, <4>6
    <3> QED
      BY <3>2, <3>3
  <2>3. own = AddValues(NoEvents, v \o end)
    BY DEF Own
  <2> HIDE DEF v, m, end, own
  <2>4. v \o end \in Seq(TypeValue)
    BY <2>1, <2>2
  <2>5. Types(v \o end) \subseteq DOMAIN own
    BY <2>3, <2>4, AddedTypes
  <2>6. Types(end) \subseteq Types(v \o end)
    <3> SUFFICES ASSUME NEW i \in 1 .. Len(end)
                 PROVE  \E k \in 1 .. Len(v \o end) : (v \o end)[k] = end[i]
      BY DEF Types
    <3>1. Len(v) + i \in 1 .. Len(v \o end) /\ (v \o end)[Len(v) + i] = end[i]
      BY <2>1, <2>2
    <3> QED
      BY <3>1
  <2> QED
    BY <2>5, <2>6
<1>8. ends \subseteq EndTypes(tr, t, b.EndTime)
  BY DEF EndsSeen
<1> HIDE DEF own, end, ends
<1>5. DOMAIN b.data = kept \cup {DURATION_EVT_TYPE}
  BY <1>3
<1>6. Types(end) \subseteq kept /\ kept \subseteq DOMAIN own
  BY <1>2, <1>4
<1>7. \A type \in DOMAIN b.data \cap DOMAIN own : b.data[type] = own[type]
  BY <1>3
<1>9. Types(end) # {} => kept \subseteq EndTypes(tr, t, b.EndTime)
  BY <1>2, <1>8
<1> HIDE DEF kept
<1> QED
  BY <1>1, <1>5, <1>6, <1>7, <1>9 DEF BurstOwn

-----------------------------------------------------------------------------
\* What is a burst's own depends on its times alone.
LEMMA SameTimes ==
  ASSUME NEW b, NEW c, b.BeginTime = c.BeginTime, b.EndTime = c.EndTime, NEW t, NEW tr
  PROVE  /\ Own(tr, t, b) = Own(tr, t, c) /\ EndValues(tr, t, b) = EndValues(tr, t, c)
         /\ InsideValues(tr, t, b) = InsideValues(tr, t, c)
         /\ Closed(b, t, tr) <=> Closed(c, t, tr)
         /\ Spoilt(tr, t, b) <=> Spoilt(tr, t, c)
<1>1. EndValues(tr, t, b) = EndValues(tr, t, c)
  BY DEF EndValues
<1>2. InsideValues(tr, t, b) = InsideValues(tr, t, c)
  BY DEF InsideValues
<1>3. Own(tr, t, b) = Own(tr, t, c)
  BY <1>1, <1>2 DEF Own
<1>4. Closed(b, t, tr) <=> Closed(c, t, tr)
  BY DEF Closed
<1>5. Spoilt(tr, t, b) <=> Spoilt(tr, t, c)
  BY DEF Spoilt
<1> QED
  BY <1>1, <1>2, <1>3, <1>4, <1>5

\* The current burst is stored with its own counters, once it is closed, or spoilt.
LEMMA StoreOwn ==
  ASSUME NEW B, IsSequence(B), NEW t, NEW c, NEW tr, AreRecords(tr), ContainerOK(c, t, tr),
         c.OngoingBurst => Spoilt(tr, t, c) \/ (HasItsOwn(c, t, tr) /\ Closed(c, t, tr)),
         EndsSeen(c, t, tr), StoredOwn(B, t, tr)
  PROVE  StoredOwn(NewBurst(B, t, c), t, tr)
<1>1. c.OngoingBurst => c.Line # 0
  BY DEF ContainerOK, IsStateOf
<1>2. ~ c.OngoingBurst => c.Line = 0 /\ c.EndTime = c.BeginTime
  BY DEF ContainerOK
<1>3. CASE ~ c.OngoingBurst
  BY <1>2, <1>3 DEF NewBurst
<1>4. CASE c.OngoingBurst
  <2> DEFINE b == [thread |-> t, Line |-> c.Line, BeginTime |-> c.BeginTime,
                   EndTime |-> c.EndTime, data |-> NewData(c),
                   kind |-> Kind(NewData(c), c.EndTime - c.BeginTime)]
             C == NewBurst(B, t, c)
  <2>1. C = Append(B, b)
    BY <1>1, <1>4 DEF NewBurst
  <2>2. b.BeginTime = c.BeginTime /\ b.EndTime = c.EndTime /\ b.data = NewData(c)
    OBVIOUS
  <2> HIDE DEF b, C
  <2>3. HasItsOwn(c, t, tr) => BurstOwn(b, t, tr)
    BY <1>4, <2>2, NewDataOwn
  <2>4. /\ Closed(b, t, tr) <=> Closed(c, t, tr)
        /\ Spoilt(tr, t, b) <=> Spoilt(tr, t, c)
    BY <2>2, SameTimes
  <2>7. Spoilt(tr, t, b) \/ (BurstOwn(b, t, tr) /\ Closed(b, t, tr))
    BY <1>4, <2>3, <2>4
  <2>5. /\ Len(B) \in Nat /\ Len(C) = Len(B) + 1 /\ C[Len(B) + 1] = b
        /\ \A k \in 1 .. Len(B) : C[k] = B[k]
    BY <2>1, Appended
  <2>6. ASSUME NEW k \in 1 .. Len(C), C[k].thread = t
        PROVE  Spoilt(tr, t, C[k]) \/ (BurstOwn(C[k], t, tr) /\ Closed(C[k], t, tr))
    <3>1. CASE k \in 1 .. Len(B)
      BY <2>5, <2>6, <3>1 DEF StoredOwn
    <3>2. CASE k = Len(B) + 1
      BY <2>5, <2>7, <3>2
    <3> QED
      BY <2>5, <3>1, <3>2
  <2> QED
    BY <2>6 DEF StoredOwn, C
<1> QED
  BY <1>3, <1>4

\* The one in wait becomes current with what it has.
LEMMA FlushOwn ==
  ASSUME NEW s, NEW t \in Thread, NEW tr, AreRecords(tr), NEW m, ThreadOK(s, t, tr, m),
         s.Current.OngoingBurst =>
           Spoilt(tr, t, s.Current) \/ (HasItsOwn(s.Current, t, tr) /\ Closed(s.Current, t, tr)),
         EndsSeen(s.Current, t, tr), StoredOwn(s.Stored, t, tr), NEW before,
         AreRecords(before), EndsSeen(s.Current, t, before), ContainerOwn(s.Next, t, before)
  PROVE  /\ ContainerOwn(Flush(s, t).Current, t, before)
         /\ ContainerOwn(Flush(s, t).Next, t, before)
         /\ StoredOwn(Flush(s, t).Stored, t, tr)
<1> DEFINE c == s.Current
           n == s.Next
           f == Flush(s, t)
           a == Assigned(c, n)
<1>1. /\ ContainerOK(c, t, tr) /\ ContainerOK(n, t, tr) /\ IsSequence(s.Stored)
      /\ n.EventsData = NoEvents /\ n.BurstEndEvents = {}
  BY DEF ThreadOK, StoredOK
<1>2. StoredOwn(f.Stored, t, tr)
  <2>1. f.Stored = NewBurst(s.Stored, t, c)
    BY DEF Flush
  <2> HIDE DEF f
  <2> QED
    BY <1>1, <2>1, StoreOwn
<1>3. /\ n.OngoingBurst => f.Current = a /\ f.Next = Clear(n)
      /\ ~ n.OngoingBurst => f.Current = Clear(c) /\ f.Next = n
  BY DEF Flush
<1>4. \A x : SomeEnds(x, t, before) => ContainerOwn(Clear(x), t, before)
  BY DEF ContainerOwn, EndsSeen, SomeEnds, Clear, TaskDataContainer
<1>8. SomeEnds(c, t, before) /\ SomeEnds(n, t, before)
  BY <1>1, NoneSeen DEF EndsSeen
<1>5. /\ a.EventsData = n.EventsData /\ a.BeginTime = n.BeginTime /\ a.EndTime = n.EndTime
      /\ a.OngoingBurst = c.OngoingBurst /\ a.BurstEndEvents = c.BurstEndEvents
  BY <1>1 DEF Assigned, ContainerOK
<1>6. n.OngoingBurst => c.OngoingBurst
  BY DEF ThreadOK
<1>9. n.OngoingBurst => c.BurstEndEvents \subseteq EndTypes(before, t, n.EndTime)
  <2>1. /\ c.EndTime \in Nat /\ n.EndTime \in Nat
        /\ n.OngoingBurst => c.EndTime <= n.EndTime
    BY DEF ThreadOK, ContainerOK, IsStateOf
  <2>2. n.OngoingBurst =>
          EndTypes(before, t, c.EndTime) \subseteq EndTypes(before, t, n.EndTime)
    BY <2>1, EndsGrow
  <2> QED
    BY <1>6, <2>2 DEF EndsSeen
<1> HIDE DEF a, f, c, n
<1>7. ASSUME n.OngoingBurst
      PROVE  ContainerOwn(a, t, before)
  <2>1. \/ Spoilt(before, t, n)
        \/ HasItsOwn(n, t, before) /\ NoChange(Met(before, t, {n.EndTime}))
    BY <1>7 DEF ContainerOwn, n
  <2>2. /\ Own(before, t, a) = Own(before, t, n)
        /\ EndValues(before, t, a) = EndValues(before, t, n)
        /\ Spoilt(before, t, a) <=> Spoilt(before, t, n)
    BY <1>5, SameTimes
  <2>3. HasItsOwn(n, t, before) => HasItsOwn(a, t, before)
    BY <1>1, <1>5, <2>2 DEF HasItsOwn
  <2>4. a.OngoingBurst
    BY <1>5, <1>6, <1>7
  <2>5. EndsSeen(a, t, before)
    BY <1>5, <1>7, <1>8, <1>9 DEF EndsSeen, SomeEnds
  <2> QED
    BY <1>5, <2>1, <2>2, <2>3, <2>4, <2>5 DEF ContainerOwn
<1> QED
  BY <1>2, <1>3, <1>4, <1>7, <1>8 DEF f, n

\* Values at the end of the current burst, none of them a change.
LEMMA ValuesAtEnd ==
  ASSUME NEW s, NEW t, NEW tr, NEW m, ThreadOK(s, t, tr, m),
         NEW data \in Seq(TypeValue), NoChange(data)
  PROVE  EndEvents(s, t, data) =
           [Current |-> Counted(s.Current, AddValues(s.Current.EventsData, data),
                                s.Current.BurstEndEvents \cup Types(data)),
            Next |-> s.Next, Stored |-> s.Stored]
<1> DEFINE n == Len(data)
           c == s.Current
           d0 == c.EventsData
           ends == c.BurstEndEvents
           upto(k) == {data[i].type : i \in 1 .. k}
           after(d, e) == [Current |-> Counted(c, d, e), Next |-> s.Next, Stored |-> s.Stored]
<1>1. n \in Nat /\ DOMAIN data = 1 .. n
  OBVIOUS
<1>2. Types(data) = upto(n) /\ \A k \in 1 .. n : data[k].type # HWC_GROUP_CHANGE_TYPE
  BY DEF Types, NoChange
<1>3. /\ s = [Current |-> c, Next |-> s.Next, Stored |-> s.Stored]
      /\ c \in [OngoingBurst : BOOLEAN, Line : Nat, BeginTime : Nat, EndTime : Nat,
                EventsData : {d0}, BurstEndEvents : {ends}]
  BY DEF ThreadOK, ContainerOK
<1> HIDE DEF n, c, d0, ends
<1>h. PICK h : EndTrail(h, s, t, data, n)
  BY <1>1, EndEventsStep
<1>4. /\ h[0] = s /\ EndEvents(s, t, data) = h[n]
      /\ \A k \in 1 .. n : h[k] = EndEvent(h[k - 1], t, data[k])
  BY <1>h DEF EndTrail
<1>g. PICK g : AddTrail(g, d0, data, n)
  BY <1>1, AddValuesStep
<1>5. /\ g[0] = d0 /\ AddValues(d0, data) = g[n]
      /\ \A k \in 1 .. n : g[k] = AddValue(g[k - 1], data[k])
  BY <1>g DEF AddTrail
<1> DEFINE S == {k \in 0 .. n : h[k] = after(g[k], ends \cup upto(k))}
<1>6. 0 \in S
  <2>1. upto(0) = {}
    OBVIOUS
  <2>2. Counted(c, d0, ends) = c
    BY <1>3 DEF Counted
  <2>3. after(d0, ends) = s
    BY <1>3, <2>2
  <2> HIDE DEF upto, after
  <2>4. h[0] = after(g[0], ends \cup upto(0))
    BY <1>4, <1>5, <2>1, <2>3
  <2> QED
    BY <1>1, <2>4
<1>7. ASSUME NEW k \in 1 .. n, k - 1 \in S
      PROVE  k \in S
  <2> DEFINE x == data[k]
             d == g[k - 1]
             e == ends \cup upto(k - 1)
             q == after(d, e)
  <2>1. h[k - 1] = q
    BY <1>7
  <2>2. h[k] = EndEvent(q, t, x) /\ g[k] = AddValue(d, x) /\ x.type # HWC_GROUP_CHANGE_TYPE
    BY <1>2, <1>4, <1>5, <2>1
  <2>3. ends \cup upto(k) = e \cup {x.type}
    <3>1. \A i \in 1 .. k : i \in 1 .. (k - 1) \/ i = k
      BY <1>1
    <3>2. k \in 1 .. k /\ \A i \in 1 .. (k - 1) : i \in 1 .. k
      BY <1>1
    <3> QED
      BY <3>1, <3>2
  <2> HIDE DEF upto, x, d, e
  <2>4. q.Current = Counted(c, d, e) /\ q.Next = s.Next /\ q.Stored = s.Stored
    OBVIOUS
  <2>5. q.Current.EventsData = d /\ q.Current.BurstEndEvents = e
    BY <1>3 DEF Counted
  <2> DEFINE old == Counted(c, d, e)
             new == Counted(old, AddValue(d, x), e \cup {x.type})
  <2>6. q = [Current |-> old, Next |-> s.Next, Stored |-> s.Stored]
    OBVIOUS
  <2>7. new = Counted(c, AddValue(d, x), e \cup {x.type})
    <3> DEFINE y == AddValue(d, x)
               u == e \cup {x.type}
    <3> HIDE DEF y, u
    <3> QED
      BY <1>3 DEF Counted, y, u
  <2>9. EndEvent(q, t, x) = [Current |-> new, Next |-> s.Next, Stored |-> s.Stored]
    <3> HIDE DEF q
    <3>1. EndEvent(q, t, x) = [q EXCEPT !.Current = new]
      <4>1. q.Current = old
        BY <2>4
      <4> HIDE DEF old
      <4> QED
        BY <2>2, <2>5, <2>6, <4>1 DEF EndEvent, Counted
    <3> HIDE DEF new, old
    <3> QED
      BY <2>6, <3>1
  <2>10. EndEvent(q, t, x) = after(AddValue(d, x), e \cup {x.type})
    <3> HIDE DEF q, new
    <3> QED
      BY <2>7, <2>9
  <2> HIDE DEF q, after
  <2>8. h[k] = after(g[k], ends \cup upto(k))
    BY <2>2, <2>3, <2>10
  <2> QED
    BY <1>1, <2>8
<1> HIDE DEF S
<1>8. n \in S
  <2>1. n \in Nat
    BY <1>1
  <2> HIDE <1>1, <1>2, <1>3, <1>4, <1>5
  <2>2. 0 .. n \subseteq S
    BY <1>6, <1>7, <2>1, BoundedInduction
  <2> QED
    BY <2>1, <2>2
<1>9. h[n] = after(g[n], ends \cup upto(n))
  BY <1>8 DEF S
<1> QED
  BY <1>2, <1>4, <1>5, <1>9 DEF d0, ends, c

\* A change at the end of a record stores the burst with the values before it.
LEMMA ChangeAtEnd ==
  ASSUME NEW s, NEW t, NEW V, NEW w \in Seq(V), NEW x \in V, x.type = HWC_GROUP_CHANGE_TYPE
  PROVE  EndEvents(s, t, Append(w, x)) = Flush(EndEvents(s, t, w), t)
<1> DEFINE n == Len(w)
           z == Append(w, x)
<1>1. n \in Nat /\ DOMAIN w = 1 .. n
  OBVIOUS
<1>2. n + 1 \in Nat /\ DOMAIN z = 1 .. (n + 1)
  OBVIOUS
<1>3. z[n + 1] = x /\ \A k \in 1 .. n : z[k] = w[k]
  OBVIOUS
<1> HIDE DEF n, z
<1>h. PICK h : EndTrail(h, s, t, w, n)
  BY <1>1, EndEventsStep
<1>4. /\ h[0] = s /\ EndEvents(s, t, w) = h[n]
      /\ \A k \in 1 .. n : h[k] = EndEvent(h[k - 1], t, w[k])
  BY <1>h DEF EndTrail
<1> DEFINE N == n + 1
<1>5. N \in Nat /\ DOMAIN z = 1 .. N
  BY <1>2
<1>14. N = n + 1
  OBVIOUS
<1> HIDE DEF N
<1>g. PICK g : EndTrail(g, s, t, z, N)
  BY <1>5, EndEventsStep
<1>6. /\ g[0] = s /\ EndEvents(s, t, z) = g[N]
      /\ \A k \in 1 .. N : g[k] = EndEvent(g[k - 1], t, z[k])
  BY <1>g DEF EndTrail
<1> DEFINE S == {k \in 0 .. n : g[k] = h[k]}
<1>7. 0 \in S
  BY <1>1, <1>4, <1>6
<1>8. ASSUME NEW k \in 1 .. n, k - 1 \in S
      PROVE  k \in S
  <2>1. k \in 1 .. N /\ k \in 0 .. n /\ g[k - 1] = h[k - 1]
    BY <1>1, <1>5, <1>8, <1>14
  <2> QED
    BY <1>3, <1>4, <1>6, <2>1
<1> HIDE DEF S
<1>9. n \in S
  <2>1. n \in Nat
    BY <1>1
  <2> HIDE <1>1, <1>2, <1>3, <1>4, <1>5, <1>6, <1>14
  <2>2. 0 .. n \subseteq S
    BY <1>7, <1>8, <2>1, BoundedInduction
  <2> QED
    BY <2>1, <2>2
<1>10. g[n] = h[n]
  BY <1>9 DEF S
<1>11. N \in 1 .. N /\ N - 1 = n
  BY <1>1, <1>14
<1>12. g[N] = EndEvent(h[n], t, x)
  BY <1>3, <1>6, <1>10, <1>11, <1>14
<1>13. EndEvent(h[n], t, x) = Flush(h[n], t)
  BY DEF EndEvent
<1> QED
  BY <1>4, <1>6, <1>12, <1>13 DEF z

-----------------------------------------------------------------------------
\* The values of two sequences, at the end of a burst.
LEMMA EndConcat ==
  ASSUME NEW s, NEW t, NEW V, NEW v \in Seq(V), NEW w \in Seq(V)
  PROVE  EndEvents(s, t, v \o w) = EndEvents(EndEvents(s, t, v), t, w)
<1> DEFINE n == Len(v)
           m == Len(w)
           z == v \o w
           N == n + m
<1>12. n \in Nat /\ DOMAIN v = 1 .. n
  OBVIOUS
<1>13. m \in Nat /\ DOMAIN w = 1 .. m
  OBVIOUS
<1>1. /\ n \in Nat /\ m \in Nat /\ DOMAIN v = 1 .. n /\ DOMAIN w = 1 .. m
      /\ N \in Nat /\ DOMAIN z = 1 .. N
      /\ \A k \in 1 .. n : z[k] = v[k] /\ k \in 1 .. N
      /\ \A k \in 1 .. m : z[n + k] = w[k] /\ n + k \in 1 .. N /\ (n + k) - 1 = n + (k - 1)
  OBVIOUS
<1>0. N = n + m
  OBVIOUS
<1> HIDE DEF n, m, z, N
<1>h. PICK h : EndTrail(h, s, t, z, N)
  BY <1>1, EndEventsStep
<1>2. /\ h[0] = s /\ EndEvents(s, t, z) = h[N]
      /\ \A k \in 1 .. N : h[k] = EndEvent(h[k - 1], t, z[k])
  BY <1>h DEF EndTrail
<1>g. PICK g : EndTrail(g, s, t, v, n)
  BY <1>12, EndEventsStep
<1>3. /\ g[0] = s /\ EndEvents(s, t, v) = g[n]
      /\ \A k \in 1 .. n : g[k] = EndEvent(g[k - 1], t, v[k])
  BY <1>g DEF EndTrail
<1> DEFINE S == {k \in 0 .. n : g[k] = h[k]}
<1>4. 0 \in S
  BY <1>1, <1>2, <1>3
<1>5. ASSUME NEW k \in 1 .. n, k - 1 \in S
      PROVE  k \in S
  <2>1. k \in 0 .. n /\ g[k - 1] = h[k - 1]
    BY <1>1, <1>5
  <2> QED
    BY <1>1, <1>2, <1>3, <2>1
<1> HIDE DEF S
<1>6. n \in S
  <2>1. n \in Nat
    BY <1>1
  <2> HIDE <1>0, <1>1, <1>2, <1>3
  <2>2. 0 .. n \subseteq S
    BY <1>4, <1>5, <2>1, BoundedInduction
  <2> QED
    BY <2>1, <2>2
<1>7. EndEvents(s, t, v) = h[n]
  BY <1>3, <1>6 DEF S
<1> HIDE <1>3
<1> DEFINE q == h[n]
<1>14. q = h[n]
  OBVIOUS
<1> HIDE DEF q
<1>f. PICK f : EndTrail(f, q, t, w, m)
  BY <1>13, EndEventsStep
<1>8. /\ f[0] = q /\ EndEvents(q, t, w) = f[m]
      /\ \A k \in 1 .. m : f[k] = EndEvent(f[k - 1], t, w[k])
  BY <1>f DEF EndTrail
<1> DEFINE R == {k \in 0 .. m : f[k] = h[n + k]}
<1>9. 0 \in R
  BY <1>1, <1>8, <1>14
<1>10. ASSUME NEW k \in 1 .. m, k - 1 \in R
       PROVE  k \in R
  <2>1. k \in 0 .. m /\ f[k - 1] = h[n + (k - 1)]
    BY <1>1, <1>10
  <2>2. f[k] = EndEvent(f[k - 1], t, w[k])
    BY <1>8
  <2>3. h[n + k] = EndEvent(h[(n + k) - 1], t, z[n + k])
    BY <1>1, <1>2
  <2>4. z[n + k] = w[k] /\ (n + k) - 1 = n + (k - 1)
    BY <1>1
  <2> QED
    BY <2>1, <2>2, <2>3, <2>4
<1> HIDE DEF R
<1>11. m \in R
  <2>1. m \in Nat
    BY <1>1
  <2> HIDE <1>0, <1>1, <1>2, <1>8, <1>14
  <2>2. 0 .. m \subseteq R
    BY <1>9, <1>10, <2>1, BoundedInduction
  <2> QED
    BY <2>1, <2>2
<1> QED
  BY <1>0, <1>2, <1>7, <1>8, <1>11, <1>14 DEF R, z

\* A sequence up to its first change and behind it.
LEMMA SplitAtChange ==
  ASSUME NEW V, NEW v \in Seq(V), ~ NoChange(v)
  PROVE  \E w, rest \in Seq(V) : \E x \in V :
           /\ v = Append(w, x) \o rest /\ NoChange(w) /\ x.type = HWC_GROUP_CHANGE_TYPE
<1> DEFINE m == Len(v)
           N == {i \in 1 .. m : v[i].type = HWC_GROUP_CHANGE_TYPE}
<1>1. N # {} /\ N \in SUBSET Nat
  BY DEF NoChange
<1>2. PICK n \in N : \A i \in N : n <= i
  BY <1>1, LeastNumber
<1>3. m \in Nat /\ n \in 1 .. m /\ v[n].type = HWC_GROUP_CHANGE_TYPE /\ v[n] \in V
  BY <1>2
<1> DEFINE p == n - 1
           w == SubSeq(v, 1, p)
           rest == SubSeq(v, n + 1, m)
           x == v[n]
           z == Append(w, x) \o rest
<1>4. p \in Nat /\ p + 1 = n /\ p <= m
  BY <1>3
<1>5. /\ w \in Seq(V) /\ Len(w) = p /\ \A k \in 1 .. p : w[k] = v[k] /\ k \in 1 .. m
  BY <1>3, <1>4
<1>6. /\ rest \in Seq(V) /\ Len(rest) = m - n
      /\ \A k \in 1 .. (m - n) : rest[k] = v[n + k] /\ n + k \in 1 .. m
  BY <1>3
<1>7. NoChange(w)
  <2> SUFFICES ASSUME NEW k \in 1 .. Len(w)
               PROVE  w[k].type # HWC_GROUP_CHANGE_TYPE
    BY DEF NoChange
  <2>1. k \in 1 .. m /\ w[k] = v[k] /\ ~ (n <= k)
    BY <1>3, <1>4, <1>5
  <2> HIDE DEF w
  <2> QED
    BY <1>2, <2>1
<1> HIDE DEF w, rest, x, p
<1>8. x = v[n]
  BY DEF x
<1>9. z = v
  <2> DEFINE y == Append(w, x)
  <2>6. y \in Seq(V) /\ Len(y) = n
    BY <1>3, <1>4, <1>5, <1>8
  <2> HIDE DEF y
  <2>1. z \in Seq(V) /\ Len(z) = m
    <3>1. y \o rest \in Seq(V) /\ Len(y \o rest) = n + (m - n)
      BY <1>6, <2>6
    <3> QED
      BY <1>3, <3>1 DEF y
  <2>2. \A k \in 1 .. p : z[k] = w[k]
    BY <1>4, <1>5, <1>6
  <2>3. z[n] = x
    BY <1>4, <1>5, <1>6
  <2>4. \A k \in 1 .. (m - n) : z[n + k] = rest[k]
    BY <1>3, <1>4, <1>5, <1>6
  <2> HIDE DEF z
  <2>5. ASSUME NEW k \in 1 .. m
        PROVE  z[k] = v[k]
    <3>1. CASE k <= p
      <4>1. k \in 1 .. p
        BY <1>3, <1>4, <3>1
      <4> QED
        BY <1>5, <2>2, <4>1
    <3>2. CASE k = n
      BY <1>8, <2>3, <3>2
    <3>3. CASE k > n
      <4>1. k - n \in 1 .. (m - n) /\ n + (k - n) = k
        BY <1>3, <3>3
      <4> QED
        BY <1>6, <2>4, <4>1
    <3> QED
      BY <1>3, <1>4, <3>1, <3>2, <3>3
  <2> QED
    BY <2>1, <2>5, SeqEqual
<1> QED
  BY <1>3, <1>5, <1>6, <1>7, <1>8, <1>9

\* Values that are added at the end of a burst.
LEMMA AddedAtEnd ==
  ASSUME NEW V, NEW v \in Seq(V), NEW d \in Seq(V), NEW w \in Seq(V)
  PROVE  /\ AddValues(NoEvents, v \o (d \o w)) = AddValues(AddValues(NoEvents, v \o d), w)
         /\ Types(d \o w) \subseteq Types(d) \cup Types(w)
<1>1. v \o d \in Seq(V) /\ v \o (d \o w) = (v \o d) \o w
  OBVIOUS
<1>2. AddValues(NoEvents, (v \o d) \o w) = AddValues(AddValues(NoEvents, v \o d), w)
  <2> DEFINE u == v \o d
  <2>1. u \in Seq(V)
    BY <1>1
  <2> HIDE DEF u
  <2>2. AddValues(NoEvents, u \o w) = AddValues(AddValues(NoEvents, u), w)
    BY <2>1, AddedConcat
  <2> QED
    BY <2>2 DEF u
<1>3. \A i \in 1 .. Len(d \o w) : \/ i \in 1 .. Len(d) /\ (d \o w)[i] = d[i]
                                  \/ i - Len(d) \in 1 .. Len(w) /\ (d \o w)[i] = w[i - Len(d)]
  OBVIOUS
<1>4. Types(d \o w) \subseteq Types(d) \cup Types(w)
  <2> DEFINE z == d \o w
  <2> SUFFICES ASSUME NEW i \in 1 .. Len(z)
               PROVE  z[i].type \in Types(d) \cup Types(w)
    BY DEF Types
  <2>1. (i \in 1 .. Len(d) /\ z[i] = d[i]) \/ (i - Len(d) \in 1 .. Len(w) /\ z[i] = w[i - Len(d)])
    BY <1>3
  <2> HIDE DEF z
  <2> QED
    BY <2>1 DEF Types
<1> QED
  BY <1>1, <1>2, <1>4

\* Two sequences without a change make one.
LEMMA NoChangeConcat ==
  ASSUME NEW V, NEW v \in Seq(V), NEW w \in Seq(V), NoChange(v), NoChange(w)
  PROVE  NoChange(v \o w)
<1> DEFINE z == v \o w
<1> SUFFICES ASSUME NEW i \in 1 .. Len(z)
             PROVE  z[i].type # HWC_GROUP_CHANGE_TYPE
  BY DEF NoChange
<1>1. (i \in 1 .. Len(v) /\ z[i] = v[i]) \/ (i - Len(v) \in 1 .. Len(w) /\ z[i] = w[i - Len(v)])
  OBVIOUS
<1> HIDE DEF z
<1> QED
  BY <1>1 DEF NoChange

\* No state of the thread begins after the burst that was read last.
Begun(s, t, tr) ==
  s.Current.OngoingBurst =>
    \A k \in 1 .. Len(tr) : tr[k].thread = t /\ IsRunning(tr[k]) =>
      tr[k].time <= IF s.Next.OngoingBurst THEN s.Next.BeginTime ELSE s.Current.BeginTime

\* A record that is no state does not change that, nor does storing the current burst.
LEMMA BegunKept ==
  ASSUME NEW s, NEW t, NEW tr, IsSequence(tr), NEW r, ~ IsRunning(r), Begun(s, t, tr)
  PROVE  Begun(s, t, Append(tr, r))
<1> DEFINE T == Append(tr, r)
           n == Len(tr)
<1>1. /\ n \in Nat /\ Len(T) = n + 1 /\ T[n + 1] = r
      /\ \A k \in 1 .. n : T[k] = tr[k]
  BY Appended
<1> HIDE DEF T
<1>2. \A k \in 1 .. Len(T) : k \in 1 .. n \/ k = n + 1
  BY <1>1
<1>3. \A k \in 1 .. Len(T) : IsRunning(T[k]) => k \in 1 .. n /\ T[k] = tr[k]
  BY <1>1, <1>2
<1>4. Begun(s, t, T)
  BY <1>3 DEF Begun
<1> QED
  BY <1>4 DEF T

LEMMA BegunFlush ==
  ASSUME NEW s, NEW t \in Thread, NEW tr, NEW m, ThreadOK(s, t, tr, m), NEW T, Begun(s, t, T)
  PROVE  Begun(Flush(s, t), t, T)
<1> DEFINE c == s.Current
           n == s.Next
           f == Flush(s, t)
<1>1. f.Current.OngoingBurst = n.OngoingBurst /\ ~ f.Next.OngoingBurst
  BY FlushOK
<1>2. n.OngoingBurst => c.OngoingBurst
  BY DEF ThreadOK
<1>3. n.OngoingBurst => f.Current.BeginTime = n.BeginTime
  <2>1. n.OngoingBurst => f.Current = Assigned(c, n)
    BY DEF Flush
  <2>2. ContainerOK(n, t, tr)
    BY DEF ThreadOK
  <2> HIDE DEF f
  <2> QED
    BY <2>1, <2>2 DEF Assigned, ContainerOK
<1> HIDE DEF f
<1>4. Begun(f, t, T)
  BY <1>1, <1>2, <1>3 DEF Begun
<1> QED
  BY <1>4 DEF f

\* Every burst of thread t that begins at a time is spoilt.
SpoiltAt(tr, t, time) == \A b : b.BeginTime = time => Spoilt(tr, t, b)

\* Between a change and the end of its record nothing is in wait, and the current burst,
\* if there is one, begins at the time of the record.
Behind(e, t, tr, m, time) ==
  /\ ThreadOK(e, t, tr, m) /\ StoredOwn(e.Stored, t, tr) /\ ~ e.Next.OngoingBurst
  /\ e.Current.OngoingBurst => e.Current.BeginTime = time
  /\ e.Current.BurstEndEvents \subseteq EndTypes(tr, t, time)

\* What is behind a change: that burst takes it, and a second change stores the burst.
LEMMA RestOwn ==
  ASSUME NEW q, NEW t \in Thread, NEW tr, AreRecords(tr), NEW m, NEW time \in Nat,
         Behind(q, t, tr, m, time), SpoiltAt(tr, t, time), NEW data \in Seq(TypeValue),
         Types(data) \subseteq EndTypes(tr, t, time)
  PROVE  /\ Behind(EndEvents(q, t, data), t, tr, m, time)
         /\ NoChange(data) =>
              EndEvents(q, t, data).Current.OngoingBurst = q.Current.OngoingBurst
<1> DEFINE n == Len(data)
<1>1. n \in Nat /\ DOMAIN data = 1 .. n
  OBVIOUS
<1> HIDE DEF n
<1>h. PICK h : EndTrail(h, q, t, data, n)
  BY <1>1, EndEventsStep
<1>2. /\ h[0] = q /\ EndEvents(q, t, data) = h[n]
      /\ \A k \in 1 .. n : h[k] = EndEvent(h[k - 1], t, data[k])
  BY <1>h DEF EndTrail
<1> DEFINE P(e) == /\ Behind(e, t, tr, m, time)
                   /\ NoChange(data) => e.Current.OngoingBurst = q.Current.OngoingBurst
           S == {k \in 0 .. n : P(h[k])}
<1>4. 0 \in S
  BY <1>1, <1>2
<1>5. ASSUME NEW k \in 1 .. n, k - 1 \in S
      PROVE  k \in S
  <2> DEFINE e == h[k - 1]
             tv == data[k]
             f == EndEvent(e, t, tv)
             before == <<>>
  <2>1. P(e) /\ h[k] = f
    BY <1>2, <1>5
  <2>5. tv.type \in EndTypes(tr, t, time)
    BY <1>1 DEF Types, n
  <2> HIDE DEF e, tv
  <2>2. ThreadOK(f, t, tr, m)
    BY <2>1, EndEventOK DEF Behind
  <2>3. CASE tv.type = HWC_GROUP_CHANGE_TYPE
    <3>1. f = Flush(e, t)
      BY <2>3 DEF EndEvent
    <3> HIDE DEF f
    <3>2. ~ f.Next.OngoingBurst /\ ~ f.Current.OngoingBurst
      BY <2>1, <3>1, FlushOK DEF Behind
    <3>3. f.Stored = NewBurst(e.Stored, t, e.Current)
      BY <3>1 DEF Flush
    <3>4. e.Current.OngoingBurst => Spoilt(tr, t, e.Current)
      BY <2>1 DEF SpoiltAt, Behind
    <3>5. ContainerOK(e.Current, t, tr) /\ IsSequence(e.Stored)
      BY <2>1 DEF ThreadOK, StoredOK, Behind
    <3>9. EndsSeen(e.Current, t, tr)
      <4>1. e.Current.OngoingBurst => e.Current.EndTime \in Nat /\ time <= e.Current.EndTime
        BY <2>1, <3>5 DEF ContainerOK, IsStateOf, Behind
      <4>2. e.Current.OngoingBurst =>
              EndTypes(tr, t, time) \subseteq EndTypes(tr, t, e.Current.EndTime)
        BY <4>1, EndsGrow
      <4> QED
        BY <2>1, <4>2 DEF EndsSeen, SomeEnds, Behind
    <3>10. f.Current.BurstEndEvents = e.Current.BurstEndEvents
      BY <2>1, <3>1 DEF Flush, Clear, TaskDataContainer, Behind
    <3>6. StoredOwn(f.Stored, t, tr)
      BY <2>1, <3>3, <3>4, <3>5, <3>9, StoreOwn DEF Behind
    <3>7. ~ NoChange(data)
      BY <1>1, <2>3 DEF NoChange, n, tv
    <3>8. P(f)
      BY <2>1, <2>2, <3>2, <3>6, <3>7, <3>10 DEF Behind
    <3> QED
      BY <1>1, <2>1, <3>8
  <2>4. CASE tv.type # HWC_GROUP_CHANGE_TYPE
    <3> DEFINE c == e.Current
               d == Counted(c, AddValue(c.EventsData, tv), c.BurstEndEvents \cup {tv.type})
    <3>1. /\ e = [Current |-> c, Next |-> e.Next, Stored |-> e.Stored]
          /\ ContainerOK(c, t, tr)
      BY <2>1 DEF ThreadOK, Behind
    <3>2. f = [e EXCEPT !.Current = d]
      BY <2>4, <3>1 DEF EndEvent, Counted
    <3>3. d.OngoingBurst = c.OngoingBurst /\ d.BeginTime = c.BeginTime
      BY <3>1, CountedIs
    <3>6. d.BurstEndEvents = c.BurstEndEvents \cup {tv.type}
      BY <3>1 DEF Counted, ContainerOK
    <3> HIDE DEF d, f, c
    <3>4. f.Current = d /\ f.Next = e.Next /\ f.Stored = e.Stored
      BY <3>1, <3>2
    <3>5. P(f)
      BY <2>1, <2>2, <2>5, <3>3, <3>4, <3>6 DEF c, Behind
    <3> QED
      BY <1>1, <2>1, <3>5
  <2> QED
    BY <2>3, <2>4
<1> HIDE DEF S
<1>6. n \in S
  <2>1. n \in Nat
    BY <1>1
  <2> HIDE <1>1, <1>2
  <2>2. 0 .. n \subseteq S
    BY <1>4, <1>5, <2>1, BoundedInduction
  <2> QED
    BY <2>1, <2>2
<1> QED
  BY <1>2, <1>6 DEF S

\* A record at the end of the current burst.
LEMMA AtEndOwn ==
  ASSUME NEW s, NEW t \in Thread, NEW tr, AreRecords(tr), NEW r \in Record, NEW m,
         ThreadOK(s, t, Append(tr, r), m), s.Current.OngoingBurst,
         r.thread = t, r.kind = "event", r.time = s.Current.EndTime,
         Begun(s, t, Append(tr, r)), NotLater(Append(tr, r), t, r.time),
         ContainerOwn(s.Current, t, tr), ContainerOwn(s.Next, t, Append(tr, r)),
         StoredOwn(s.Stored, t, Append(tr, r)), AreRecords(Append(tr, r))
  PROVE  ThreadOwn(EndEvents(s, t, r.data), t, Append(tr, r))
<1> DEFINE T == Append(tr, r)
           c == s.Current
           v == InsideValues(tr, t, c)
           d == Met(tr, t, {c.EndTime})
           data == r.data
           after(w) == [Current |-> Counted(c, AddValues(c.EventsData, w),
                                            c.BurstEndEvents \cup Types(w)),
                        Next |-> s.Next, Stored |-> s.Stored]
<1>1. v \in Seq(TypeValue) /\ d \in Seq(TypeValue) /\ data \in Seq(TypeValue)
  BY MetType DEF InsideValues, Record, StateRecord, EventRecord, CommunicationRecord, TypeValue
<1>2. ~ Spoilt(T, t, c) => NoChange(d) /\ HasItsOwn(c, t, tr)
  <2>1. ContainerOK(c, t, T) /\ ~ IsRunning(r) /\ IsSequence(tr)
    BY DEF ThreadOK, IsRunning, AreRecords
  <2>2. c.BeginTime \in Nat
    BY <2>1 DEF ContainerOK
  <2>3. Spoilt(tr, t, c) => Spoilt(T, t, c)
    BY <2>1, <2>2, SpoiltKept
  <2> HIDE DEF T
  <2> QED
    BY <2>3 DEF ContainerOwn
<1>3. ASSUME ~ Spoilt(T, t, c)
      PROVE  c.EventsData = AddValues(NoEvents, v \o d) /\ Types(d) \subseteq c.BurstEndEvents
  <2>1. NoChange(d) /\ HasItsOwn(c, t, tr)
    BY <1>2, <1>3
  <2>2. EndValues(tr, t, c) = d
    BY <1>1, <2>1, UpToNone DEF EndValues
  <2> QED
    BY <2>1, <2>2 DEF HasItsOwn, Own
<1>4. Met(T, t, {c.EndTime}) = d \o data /\ InsideValues(T, t, c) = v
  <2> DEFINE W == c.BeginTime + 1 .. c.EndTime - 1
  <2>1. IsSequence(tr)
    BY DEF AreRecords
  <2>2. Met(T, t, W) = Meeting(t, W, Met(tr, t, W), r)
    BY <2>1, MetAppended
  <2>3. Met(T, t, {c.EndTime}) = Meeting(t, {c.EndTime}, d, r)
    BY <2>1, MetAppended
  <2>4. c.EndTime \in Nat /\ c.BeginTime \in Nat
    BY DEF ThreadOK, ContainerOK
  <2>5. r.time \notin W
    BY <2>4
  <2> HIDE DEF T, W, c
  <2>6. Met(T, t, W) = Met(tr, t, W)
    BY <2>2, <2>5 DEF Meeting
  <2> QED
    BY <2>3, <2>6 DEF Meeting, InsideValues, W, c
<1>5. ContainerOK(c, t, T) /\ IsSequence(T)
  BY DEF ThreadOK, AreRecords
<1>6. Len(T) \in Nat /\ Len(T) > 0 /\ T[Len(T)] = r
  <2>1. Len(tr) \in Nat /\ Len(T) = Len(tr) + 1 /\ T[Len(tr) + 1] = r
    BY Appended DEF AreRecords
  <2> QED
    BY <2>1
<1>10. r.time \in Nat /\ c.EndTime = r.time /\ AreRecords(T)
  BY DEF Record, StateRecord, EventRecord, CommunicationRecord
<1>11. Types(data) \subseteq EndTypes(T, t, r.time)
  <2> DEFINE n == Len(T)
  <2>1. n \in 1 .. Len(T) /\ T[n] = r
    BY <1>6
  <2>2. c.Line \in 1 .. Len(T) /\ T[c.Line].thread = t /\ IsRunning(T[c.Line])
        /\ T[c.Line].end = r.time
    BY <1>5 DEF ContainerOK, IsStateOf
  <2> HIDE DEF n, T, c
  <2>3. MarksEnd(T, t, n)
    BY <2>1, <2>2 DEF MarksEnd
  <2> QED
    BY <1>10, <2>1, <2>3, EndIsSeen DEF data
<1>12. EndsSeen(c, t, T)
  <2>1. EndsSeen(c, t, tr) /\ OneMore(T, tr, r)
    BY DEF ContainerOwn, OneMore, AreRecords
  <2> HIDE DEF T
  <2> QED
    BY <1>10, <2>1, EndsSeenKept
<1> HIDE DEF T, v, d, data
<1>7. ASSUME NEW w \in Seq(TypeValue), NoChange(w), Types(w) \subseteq Types(data),
             ~ Spoilt(T, t, c) => UpToChange(d \o data) = d \o w
      PROVE  /\ EndEvents(s, t, w) = after(w)
             /\ Spoilt(T, t, c) => Spoilt(T, t, after(w).Current)
             /\ ~ Spoilt(T, t, c) => HasItsOwn(after(w).Current, t, T)
             /\ after(w).Current.OngoingBurst
             /\ after(w).Current.BeginTime = c.BeginTime
             /\ after(w).Current.EndTime = c.EndTime
             /\ EndsSeen(after(w).Current, t, T)
             /\ after(w).Current.BurstEndEvents \subseteq EndTypes(T, t, r.time)
  <2> DEFINE e == Counted(c, AddValues(c.EventsData, w), c.BurstEndEvents \cup Types(w))
  <2>0. EndEvents(s, t, w) = after(w)
    BY <1>7, ValuesAtEnd DEF T
  <2>1. after(w).Current = e
    OBVIOUS
  <2>2. /\ e.BeginTime = c.BeginTime /\ e.EndTime = c.EndTime /\ e.OngoingBurst
        /\ e.BurstEndEvents = c.BurstEndEvents \cup Types(w)
        /\ e.EventsData = AddValues(c.EventsData, w)
    BY <1>5 DEF ContainerOK, Counted
  <2> HIDE DEF e, after
  <2>8. Spoilt(T, t, e) <=> Spoilt(T, t, c)
    BY <2>2, SameTimes
  <2>3. ~ Spoilt(T, t, c) => EndValues(T, t, e) = d \o w
    BY <1>4, <1>7, <2>2 DEF EndValues
  <2>4. InsideValues(T, t, e) = v
    BY <1>4, <2>2, SameTimes
  <2>5. ~ Spoilt(T, t, c) => Own(T, t, e) = AddValues(NoEvents, v \o (d \o w))
    BY <2>3, <2>4 DEF Own
  <2>6. /\ AddValues(NoEvents, v \o (d \o w)) = AddValues(AddValues(NoEvents, v \o d), w)
        /\ Types(d \o w) \subseteq Types(d) \cup Types(w)
    BY <1>1, AddedAtEnd
  <2>7. ~ Spoilt(T, t, c) => HasItsOwn(e, t, T)
    BY <1>3, <2>2, <2>3, <2>5, <2>6 DEF HasItsOwn
  <2>9. e.BurstEndEvents \subseteq EndTypes(T, t, r.time)
    BY <1>7, <1>10, <1>11, <1>12, <2>2 DEF EndsSeen
  <2>10. EndsSeen(e, t, T)
    BY <1>10, <2>2, <2>9 DEF EndsSeen, SomeEnds
  <2> QED
    BY <2>0, <2>1, <2>2, <2>7, <2>8, <2>9, <2>10
<1>8. CASE NoChange(data)
  <2>1. ASSUME ~ Spoilt(T, t, c)
        PROVE  NoChange(d \o data) /\ UpToChange(d \o data) = d \o data
    <3>0. NoChange(d)
      BY <1>2, <2>1
    <3>1. d \o data \in Seq(TypeValue)
      BY <1>1
    <3>2. NoChange(d \o data)
      BY <1>1, <1>8, <3>0, NoChangeConcat
    <3> QED
      BY <3>1, <3>2, UpToNone
  <2> DEFINE q == after(data)
  <2>2. /\ EndEvents(s, t, data) = q /\ q.Current.OngoingBurst
        /\ q.Current.EndTime = c.EndTime /\ EndsSeen(q.Current, t, T)
        /\ Spoilt(T, t, c) => Spoilt(T, t, q.Current)
        /\ ~ Spoilt(T, t, c) => HasItsOwn(q.Current, t, T)
    BY <1>1, <1>7, <1>8, <2>1
  <2>3. q.Next = s.Next /\ q.Stored = s.Stored
    OBVIOUS
  <2> HIDE DEF q
  <2>4. ContainerOwn(q.Current, t, T)
    BY <1>4, <2>1, <2>2 DEF ContainerOwn
  <2>5. ThreadOwn(q, t, T)
    BY <2>3, <2>4 DEF ThreadOwn, T
  <2> QED
    BY <2>2, <2>5 DEF data, T
<1>9. CASE ~ NoChange(data)
  <2>1. PICK w \in Seq(TypeValue), rest \in Seq(TypeValue), x \in TypeValue :
          /\ data = Append(w, x) \o rest /\ NoChange(w) /\ x.type = HWC_GROUP_CHANGE_TYPE
    BY <1>1, <1>9, SplitAtChange
  <2>2. ASSUME ~ Spoilt(T, t, c)
        PROVE  UpToChange(d \o data) = d \o w /\ ~ NoChange(d \o data)
    <3> DEFINE z == d \o Append(w, x)
    <3>1. UpToChange(z) = d \o w /\ ~ NoChange(z)
      BY <1>1, <1>2, <2>1, <2>2, UpToLast
    <3>2. z \in Seq(TypeValue) /\ d \o (Append(w, x) \o rest) = z \o rest
      <4> DEFINE y == Append(w, x)
      <4>1. y \in Seq(TypeValue)
        OBVIOUS
      <4> HIDE DEF y
      <4>2. d \o y \in Seq(TypeValue)
        BY <1>1, <4>1
      <4>3. d \o (y \o rest) = (d \o y) \o rest
        <5>1. \A g, h, k \in Seq(TypeValue) : g \o (h \o k) = (g \o h) \o k
          OBVIOUS
        <5> QED
          BY <1>1, <4>1, <5>1
      <4> QED
        BY <4>2, <4>3 DEF y
    <3> HIDE DEF z
    <3>3. UpToChange(z \o rest) = UpToChange(z) /\ ~ NoChange(z \o rest)
      BY <3>1, <3>2, UpToKept
    <3> QED
      BY <2>1, <3>1, <3>2, <3>3
  <2> DEFINE a == after(w)
             q == Flush(a, t)
  <2>14. Types(w) \subseteq Types(data) /\ Types(rest) \subseteq Types(data)
    <3>1. /\ Len(w) \in Nat /\ Len(rest) \in Nat
          /\ \A i \in 1 .. Len(w) : i \in 1 .. Len(Append(w, x) \o rest)
                                    /\ (Append(w, x) \o rest)[i] = w[i]
      OBVIOUS
    <3>2. \A i \in 1 .. Len(rest) :
            /\ (Len(w) + 1) + i \in 1 .. Len(Append(w, x) \o rest)
            /\ (Append(w, x) \o rest)[(Len(w) + 1) + i] = rest[i]
      OBVIOUS
    <3> DEFINE z == Append(w, x) \o rest
    <3> HIDE DEF z
    <3>3. Types(w) \subseteq Types(z)
      BY <3>1 DEF Types, z
    <3>4. Types(rest) \subseteq Types(z)
      <4> SUFFICES ASSUME NEW i \in 1 .. Len(rest)
                   PROVE  \E k \in 1 .. Len(z) : z[k].type = rest[i].type
        BY DEF Types
      <4>1. (Len(w) + 1) + i \in 1 .. Len(z) /\ z[(Len(w) + 1) + i] = rest[i]
        BY <3>2 DEF z
      <4> QED
        BY <4>1
    <3>5. data = z
      BY <2>1 DEF z
    <3> QED
      BY <3>3, <3>4, <3>5
  <2>3. /\ EndEvents(s, t, w) = a /\ a.Current.OngoingBurst
        /\ a.Current.BeginTime = c.BeginTime /\ a.Current.EndTime = c.EndTime
        /\ Spoilt(T, t, c) => Spoilt(T, t, a.Current)
        /\ ~ Spoilt(T, t, c) => HasItsOwn(a.Current, t, T)
        /\ EndsSeen(a.Current, t, T)
        /\ a.Current.BurstEndEvents \subseteq EndTypes(T, t, r.time)
    BY <1>7, <2>1, <2>2, <2>14
  <2>4. a.Next = s.Next /\ a.Stored = s.Stored
    OBVIOUS
  <2> HIDE DEF a
  <2>5. EndEvents(s, t, Append(w, x)) = q
    BY <2>1, <2>3, ChangeAtEnd
  <2>6. ThreadOK(a, t, T, m)
    <3>1. ThreadOK(EndEvents(s, t, w), t, T, m)
      BY EndEventsOK DEF T
    <3> QED
      BY <2>3, <3>1
  <2>7. ~ Spoilt(T, t, c) => Closed(a.Current, t, T)
    <3>1. Len(T) \in 1 .. Len(T)
      BY <1>6
    <3>2. T[Len(T)].thread = t /\ T[Len(T)].time = a.Current.EndTime
      BY <1>6, <2>3
    <3>3. ~ Spoilt(T, t, c) => ~ NoChange(Met(T, t, {a.Current.EndTime}))
      BY <1>4, <2>2, <2>3
    <3> QED
      BY <3>1, <3>2, <3>3 DEF Closed
  <2>8. ContainerOwn(q.Current, t, T) /\ ContainerOwn(q.Next, t, T) /\ StoredOwn(q.Stored, t, T)
    BY <1>10, <2>3, <2>4, <2>6, <2>7, FlushOwn DEF T
  <2>15. q.Current.BurstEndEvents = a.Current.BurstEndEvents
    <3>1. ContainerOK(s.Next, t, T) /\ ContainerOK(a.Current, t, T)
      BY <2>6 DEF ThreadOK, T
    <3>2. q.Current = IF s.Next.OngoingBurst THEN Assigned(a.Current, s.Next)
                      ELSE Clear(a.Current)
      BY <2>4 DEF Flush
    <3> HIDE DEF q
    <3> QED
      BY <3>1, <3>2 DEF Assigned, Clear, TaskDataContainer, ContainerOK
  <2>9. /\ ThreadOK(q, t, T, m) /\ ~ q.Next.OngoingBurst
        /\ q.Current.OngoingBurst = s.Next.OngoingBurst
    BY <2>4, <2>6, FlushOK
  <2>10. q.Current.OngoingBurst => q.Current.BeginTime = s.Next.BeginTime
    <3>1. ContainerOK(s.Next, t, T)
      BY DEF ThreadOK, T
    <3>2. s.Next.OngoingBurst => q.Current = Assigned(a.Current, s.Next)
      BY <2>4 DEF Flush
    <3> HIDE DEF q
    <3>3. s.Next.OngoingBurst => q.Current.BeginTime = s.Next.BeginTime
      BY <3>1, <3>2 DEF Assigned, ContainerOK
    <3> QED
      BY <2>9, <3>3
  <2> HIDE DEF q
  <2> DEFINE e == EndEvents(q, t, rest)
  <2>11. EndEvents(s, t, data) = e
    <3> DEFINE z == Append(w, x)
    <3>1. z \in Seq(TypeValue)
      OBVIOUS
    <3>2. data = z \o rest /\ EndEvents(s, t, z) = q
      BY <2>1, <2>5
    <3> HIDE DEF z
    <3> QED
      BY <3>1, <3>2, EndConcat
  <2>12. CASE rest = <<>>
    <3>1. Append(w, x) \o <<>> = Append(w, x)
      OBVIOUS
    <3>2. EndEvents(s, t, data) = q
      BY <2>1, <2>5, <2>12, <3>1
    <3>3. ThreadOwn(q, t, T)
      BY <2>8 DEF ThreadOwn
    <3> QED
      BY <3>2, <3>3 DEF data, T
  <2>13. CASE rest # <<>>
    <3> DEFINE p == Len(w) + 1
    <3>1. /\ p \in 1 .. Len(data) - 1 /\ data[p] = x
          /\ \A k \in 1 .. Len(rest) :
               p + k \in 1 .. Len(data) /\ data[p + k] = rest[k] /\ p + k # p
      <4>1. Len(rest) \in Nat /\ Len(rest) # 0 /\ Len(w) \in Nat
        BY <2>13
      <4>2. Len(Append(w, x) \o rest) = p + Len(rest) /\ (Append(w, x) \o rest)[p] = x
        BY <4>1
      <4>3. \A k \in 1 .. Len(rest) : (Append(w, x) \o rest)[p + k] = rest[k]
        BY <4>1
      <4> HIDE DEF p
      <4>4. p \in Nat /\ p > 0
        BY <4>1 DEF p
      <4> QED
        BY <2>1, <4>1, <4>2, <4>3, <4>4
    <3>2. ChangesEarly(r)
      BY <2>1, <3>1 DEF ChangesEarly, data
    <3>3. ~ NoChange(rest) => ChangesTwice(r)
      <4> SUFFICES ASSUME NEW k \in 1 .. Len(rest), rest[k].type = HWC_GROUP_CHANGE_TYPE
                   PROVE  ChangesTwice(r)
        BY DEF NoChange
      <4>1. /\ p \in 1 .. Len(data) /\ data[p].type = HWC_GROUP_CHANGE_TYPE
            /\ p + k \in 1 .. Len(data) /\ data[p + k].type = HWC_GROUP_CHANGE_TYPE
            /\ p + k # p
        <5>1. Len(data) \in Nat
          BY <1>1
        <5>2. /\ p \in 1 .. Len(data) /\ data[p] = x
              /\ p + k \in 1 .. Len(data) /\ data[p + k] = rest[k] /\ p + k # p
          BY <3>1, <5>1
        <5> QED
          BY <2>1, <5>2
      <4> HIDE DEF p
      <4> QED
        BY <4>1 DEF ChangesTwice, data
    <3> HIDE DEF p
    <3> DEFINE n == Len(T)
    <3>4. IsEarly(n, T, t) /\ n \in 1 .. Len(T) /\ T[n] = r
      <4>1. n \in 1 .. Len(T)
        BY <1>6
      <4>2. c.Line \in 1 .. Len(T) /\ T[c.Line].thread = t /\ IsRunning(T[c.Line])
            /\ T[c.Line].end = r.time
        BY <1>5 DEF ContainerOK, IsStateOf
      <4> QED
        BY <1>6, <3>2, <4>1, <4>2 DEF IsEarly
    <3> HIDE DEF n
    <3>5. \A k \in BegunFrom(T, t, r.time) : T[k].time = r.time
      <4>1. AreRecords(T) /\ NotLater(T, t, r.time) /\ r.time \in Nat
        BY DEF T, Record, StateRecord, EventRecord, CommunicationRecord
      <4>2. \A k \in 1 .. Len(T) : T[k].time \in Nat
        BY <4>1 DEF AreRecords, Record, StateRecord, EventRecord, CommunicationRecord
      <4> QED
        BY <4>1, <4>2 DEF BegunFrom, NotLater
    <3>6. r.time \in Nat
      BY DEF Record, StateRecord, EventRecord, CommunicationRecord
    <3>7. ASSUME NEW b, b.BeginTime = r.time
          PROVE  Spoilt(T, t, b)
      <4>1. \A k \in BegunFrom(T, t, T[n].time) : ~ (T[k].time < b.BeginTime)
        BY <3>4, <3>5, <3>6, <3>7
      <4>2. T[n].time <= b.BeginTime
        BY <3>4, <3>6, <3>7
      <4> QED
        BY <1>5, <3>4, <4>1, <4>2, SpoiltIs
    <3>8. s.Next.OngoingBurst => s.Next.BeginTime = r.time
      <4>1. s.Next.OngoingBurst => /\ IsStateOf(s.Next, t, T) /\ c.EndTime <= s.Next.BeginTime
                                   /\ s.Next.BeginTime \in Nat
        BY DEF ThreadOK, ContainerOK, T
      <4>2. s.Next.OngoingBurst => s.Next.BeginTime <= r.time
        BY <4>1 DEF NotLater, IsStateOf, T
      <4> QED
        BY <3>6, <4>1, <4>2
    <3>9. /\ StoredOwn(e.Stored, t, T) /\ ~ e.Next.OngoingBurst
          /\ e.Current.OngoingBurst => e.Current.BeginTime = r.time
          /\ NoChange(rest) => e.Current.OngoingBurst = q.Current.OngoingBurst
          /\ e.Current.BurstEndEvents \subseteq EndTypes(T, t, r.time)
      <4>1. q.Current.OngoingBurst => q.Current.BeginTime = r.time
        BY <2>9, <2>10, <3>8
      <4>2. AreRecords(T)
        BY DEF T
      <4> HIDE DEF e
      <4> DEFINE time == r.time
      <4>3. Behind(q, t, T, m, time) /\ SpoiltAt(T, t, time)
        BY <2>3, <2>8, <2>9, <2>15, <3>7, <4>1 DEF SpoiltAt, Behind
      <4>5. time \in Nat /\ Types(rest) \subseteq EndTypes(T, t, time)
        BY <1>11, <2>14, <3>6
      <4> HIDE DEF time
      <4>4. /\ Behind(e, t, T, m, time)
            /\ NoChange(rest) => e.Current.OngoingBurst = q.Current.OngoingBurst
        BY <2>1, <4>2, <4>3, <4>5, RestOwn DEF e
      <4> QED
        BY <4>4 DEF time, Behind
    <3>10. ThreadOK(e, t, T, m)
      BY <2>9, EndEventsOK
    <3> HIDE DEF e
    <3>11. ASSUME ~ e.Current.OngoingBurst
           PROVE  Dangling(T, t)
      <4>1. ASSUME NEW k \in BegunFrom(T, t, r.time)
            PROVE  ChangesTwice(r)
        <5>1. CASE s.Next.OngoingBurst
          BY <2>9, <3>3, <3>9, <3>11, <5>1
        <5>2. CASE ~ s.Next.OngoingBurst
          <6>1. T[k].time <= c.BeginTime /\ T[k].time = r.time
            BY <3>5, <5>2 DEF Begun, BegunFrom, T
          <6>2. c.BeginTime \in Nat /\ c.BeginTime < r.time
            BY <1>5 DEF ContainerOK, IsStateOf
          <6> QED
            BY <3>6, <6>1, <6>2
        <5> QED
          BY <5>1, <5>2
      <4> QED
        BY <3>4, <3>5, <4>1 DEF Dangling
    <3>15. EndsSeen(e.Current, t, T)
      <4>1. e.Current.OngoingBurst => /\ e.Current.EndTime \in Nat
                                      /\ r.time <= e.Current.EndTime
        BY <3>9, <3>10 DEF ThreadOK, ContainerOK, IsStateOf
      <4>2. ASSUME e.Current.OngoingBurst
            PROVE  EndTypes(T, t, r.time) \subseteq EndTypes(T, t, e.Current.EndTime)
        <5> DEFINE y == r.time
                   z == e.Current.EndTime
        <5>1. y \in Nat /\ z \in Nat /\ y <= z /\ AreRecords(T)
          BY <1>10, <4>1, <4>2
        <5> HIDE DEF y, z
        <5>2. EndTypes(T, t, y) \subseteq EndTypes(T, t, z)
          BY <5>1, EndsGrow
        <5> QED
          BY <5>2 DEF y, z
      <4> QED
        BY <3>6, <3>9, <4>2 DEF EndsSeen, SomeEnds
    <3>12. ContainerOwn(e.Current, t, T)
      BY <3>7, <3>9, <3>11, <3>15 DEF ContainerOwn
    <3>16. EndsSeen(e.Next, t, T)
      BY <3>10, NoneSeen DEF ThreadOK
    <3>13. ContainerOwn(e.Next, t, T)
      BY <3>9, <3>10, <3>16 DEF ContainerOwn, ThreadOK
    <3>14. ThreadOwn(e, t, T)
      BY <3>9, <3>12, <3>13 DEF ThreadOwn
    <3> QED
      BY <2>11, <3>14 DEF data, T
  <2> QED
    BY <2>12, <2>13
<1> QED
  BY <1>8, <1>9

\* A record inside the current burst.
LEMMA InsideOwn ==
  ASSUME NEW s, NEW t \in Thread, NEW tr, AreRecords(tr), NEW r \in Record, NEW m,
         ThreadOK(s, t, Append(tr, r), m), s.Current.OngoingBurst,
         r.thread = t, r.kind = "event", NotLater(tr, t, r.time),
         s.Current.BeginTime < r.time, r.time < s.Current.EndTime,
         ContainerOwn(s.Current, t, tr), ContainerOwn(s.Next, t, Append(tr, r)),
         StoredOwn(s.Stored, t, Append(tr, r)),
         NEW e, e.Current = Counted(s.Current, AddValues(s.Current.EventsData, r.data),
                                    s.Current.BurstEndEvents),
         e.Next = s.Next, e.Stored = s.Stored
  PROVE  ThreadOwn(e, t, Append(tr, r))
<1> DEFINE T == Append(tr, r)
           c == s.Current
           v == InsideValues(tr, t, c)
           data == r.data
           b == e.Current
<1>1. v \in Seq(TypeValue) /\ data \in Seq(TypeValue)
  BY MetType DEF InsideValues, Record, StateRecord, EventRecord, CommunicationRecord, TypeValue
<1>2. IsSequence(tr) /\ ContainerOK(c, t, T)
  BY DEF AreRecords, ThreadOK
<1>3. /\ c.BeginTime \in Nat /\ c.EndTime \in Nat /\ r.time \in Nat
      /\ \A i \in 1 .. Len(tr) : tr[i].time \in Nat
  BY <1>2 DEF ContainerOK, AreRecords, Record, StateRecord, EventRecord, CommunicationRecord
<1>4. Met(tr, t, {c.EndTime}) = <<>>
  <2>1. \A i \in 1 .. Len(tr) : tr[i].thread = t => tr[i].time \notin {c.EndTime}
    BY <1>3 DEF NotLater
  <2> QED
    BY <1>2, <2>1, MetNothing
<1>5. Met(T, t, {c.EndTime}) = <<>> /\ InsideValues(T, t, c) = v \o data
  <2> DEFINE W == c.BeginTime + 1 .. c.EndTime - 1
  <2>1. Met(T, t, W) = Meeting(t, W, Met(tr, t, W), r)
    BY <1>2, MetAppended
  <2>2. Met(T, t, {c.EndTime}) = Meeting(t, {c.EndTime}, <<>>, r)
    BY <1>2, <1>4, MetAppended
  <2>3. r.time \in W /\ r.time \notin {c.EndTime}
    BY <1>3
  <2> HIDE DEF T, W
  <2>4. Met(T, t, W) = Met(tr, t, W) \o data
    BY <2>1, <2>3 DEF Meeting
  <2>5. Met(T, t, {c.EndTime}) = <<>>
    BY <2>2, <2>3 DEF Meeting
  <2> QED
    BY <2>4, <2>5 DEF InsideValues, W
<1>6. UpToChange(<<>>) = <<>> /\ NoChange(<<>>)
  <2>1. <<>> \in Seq(TypeValue) /\ NoChange(<<>>)
    BY DEF NoChange
  <2> QED
    BY <2>1, UpToNone
<1> HIDE DEF T, v, data
<1>7. HasItsOwn(c, t, tr) => c.EventsData = AddValues(NoEvents, v)
  <2>1. SUFFICES ASSUME HasItsOwn(c, t, tr)
                 PROVE  c.EventsData = AddValues(NoEvents, v)
    OBVIOUS
  <2>2. EndValues(tr, t, c) = <<>>
    BY <1>4, <1>6 DEF EndValues
  <2>3. v \o <<>> = v
    BY <1>1
  <2> QED
    BY <2>1, <2>2, <2>3 DEF HasItsOwn, Own, v
<1>12. EndsSeen(c, t, T)
  <2>1. EndsSeen(c, t, tr) /\ OneMore(T, tr, r)
    BY <1>2 DEF ContainerOwn, OneMore, T
  <2> QED
    BY <1>3, <2>1, EndsSeenKept
<1>8. /\ b.BeginTime = c.BeginTime /\ b.EndTime = c.EndTime /\ b.OngoingBurst
      /\ b.BurstEndEvents = c.BurstEndEvents
      /\ b.EventsData = AddValues(c.EventsData, data)
  BY <1>2 DEF ContainerOK, Counted, data
<1>10. Spoilt(tr, t, c) => Spoilt(T, t, b)
  <2>1. ~ IsRunning(r)
    BY DEF IsRunning
  <2>2. Spoilt(tr, t, c) => Spoilt(T, t, c)
    BY <1>2, <1>3, <2>1, SpoiltKept DEF T
  <2> QED
    BY <1>8, <2>2, SameTimes
<1>11. Spoilt(tr, t, c) \/ HasItsOwn(c, t, tr)
  BY DEF ContainerOwn
<1> HIDE DEF b, c
<1>9. ContainerOwn(b, t, T)
  <2>1. EndValues(T, t, b) = <<>> /\ Met(T, t, {b.EndTime}) = <<>>
    BY <1>5, <1>6, <1>8 DEF EndValues
  <2>2. InsideValues(T, t, b) = v \o data
    BY <1>5, <1>8, SameTimes
  <2>3. (v \o data) \o <<>> = v \o data
    BY <1>1
  <2>4. Own(T, t, b) = AddValues(NoEvents, v \o data)
    BY <2>1, <2>2, <2>3 DEF Own
  <2>5. AddValues(NoEvents, v \o data) = AddValues(AddValues(NoEvents, v), data)
    BY <1>1, AddedConcat
  <2>6. Types(<<>>) = {}
    BY DEF Types
  <2>7. HasItsOwn(c, t, tr) => HasItsOwn(b, t, T)
    BY <1>7, <1>8, <2>1, <2>4, <2>5, <2>6 DEF HasItsOwn
  <2>8. EndsSeen(b, t, T)
    BY <1>8, <1>12 DEF EndsSeen, SomeEnds, c
  <2> QED
    BY <1>6, <1>8, <1>10, <1>11, <2>1, <2>7, <2>8 DEF ContainerOwn
<1> QED
  BY <1>9 DEF ThreadOwn, T, b

-----------------------------------------------------------------------------
\* The trace with one more record.
LEMMA OneMoreRecord ==
  ASSUME NEW tr, AreRecords(tr), NEW r \in Record
  PROVE  LET T == Append(tr, r) IN
         /\ AreRecords(T) /\ Len(T) \in 1 .. Len(T) /\ T[Len(T)] = r
         /\ \A t : NotLater(tr, t, r.time) => NotLater(T, t, r.time)
<1> DEFINE T == Append(tr, r)
           n == Len(tr)
<1>1. /\ IsSequence(T) /\ n \in Nat /\ Len(T) = n + 1 /\ T[n + 1] = r
      /\ \A k \in 1 .. n : T[k] = tr[k]
  BY Appended DEF AreRecords
<1>2. \A i \in 1 .. n : tr[i] \in Record
  BY DEF AreRecords
<1>3. r.time \in Nat
  BY DEF Record, StateRecord, EventRecord, CommunicationRecord
<1> HIDE DEF T, n
<1>4. \A i \in 1 .. Len(T) : i \in 1 .. n \/ i = n + 1
  BY <1>1
<1>5. AreRecords(T)
  BY <1>1, <1>2, <1>4 DEF AreRecords
<1>6. \A t : NotLater(tr, t, r.time) => NotLater(T, t, r.time)
  BY <1>1, <1>3, <1>4 DEF NotLater, n
<1>7. Len(T) \in 1 .. Len(T) /\ T[Len(T)] = r
  BY <1>1
<1> QED
  BY <1>5, <1>6, <1>7 DEF T

\* The times of what is kept of a thread.
LEMMA TimesOf ==
  ASSUME NEW s, NEW t, NEW tr, NEW m, ThreadOK(s, t, tr, m)
  PROVE  /\ s.Current.BeginTime \in Nat /\ s.Current.EndTime \in Nat
         /\ s.Next.BeginTime \in Nat /\ s.Next.EndTime \in Nat
         /\ s.Current.OngoingBurst => s.Current.BeginTime < s.Current.EndTime
         /\ ~ s.Current.OngoingBurst => s.Current.EndTime = 0 /\ ~ s.Next.OngoingBurst
         /\ s.Next.OngoingBurst => /\ s.Next.BeginTime < s.Next.EndTime
                                   /\ s.Current.EndTime <= s.Next.BeginTime
BY DEF ThreadOK, ContainerOK, IsStateOf

\* An event goes to the burst that is current once those it closes are stored.
LEMMA SecondLookOwn ==
  ASSUME NEW now, NEW t \in Thread, NEW tr, AreRecords(tr), NEW r \in Record, NEW m,
         ThreadOK(now, t, Append(tr, r), m), r.thread = t, r.kind = "event",
         NotLater(tr, t, r.time), Begun(now, t, Append(tr, r)),
         now.Current.OngoingBurst \/ r.time > 0,
         ContainerOwn(now.Current, t, tr), ContainerOwn(now.Next, t, Append(tr, r)),
         StoredOwn(now.Stored, t, Append(tr, r)),
         NEW inside, inside.Current = Counted(now.Current,
                       AddValues(now.Current.EventsData, r.data), now.Current.BurstEndEvents),
         inside.Next = now.Next, inside.Stored = now.Stored
  PROVE  ThreadOwn(IF r.time = now.Current.EndTime THEN EndEvents(now, t, r.data)
                   ELSE IF now.Current.BeginTime < r.time /\ r.time < now.Current.EndTime
                   THEN inside ELSE now, t, Append(tr, r))
<1> DEFINE T == Append(tr, r)
           c == now.Current
<1>1. AreRecords(T) /\ IsSequence(tr) /\ NotLater(T, t, r.time) /\ ~ IsRunning(r)
  BY OneMoreRecord DEF AreRecords, IsRunning
<1>2. /\ c.BeginTime \in Nat /\ c.EndTime \in Nat
      /\ ~ c.OngoingBurst => c.EndTime = 0
  BY TimesOf
<1>3. r.time \in Nat
  BY DEF Record, StateRecord, EventRecord, CommunicationRecord
<1>4. CASE r.time = c.EndTime
  <2>1. c.OngoingBurst
    BY <1>2, <1>3, <1>4
  <2>2. ThreadOwn(EndEvents(now, t, r.data), t, T)
    BY <1>1, <1>4, <2>1, AtEndOwn
  <2> QED
    BY <1>4, <2>2
<1>5. CASE c.BeginTime < r.time /\ r.time < c.EndTime
  <2>1. c.OngoingBurst /\ r.time # c.EndTime
    BY <1>2, <1>3, <1>5
  <2>2. ThreadOwn(inside, t, T)
    BY <1>5, <2>1, InsideOwn
  <2> QED
    BY <1>5, <2>1, <2>2
<1>6. CASE r.time # c.EndTime /\ ~ (c.BeginTime < r.time /\ r.time < c.EndTime)
  <2>1. Outside(r, t, c)
    BY <1>2, <1>3, <1>6 DEF Outside
  <2>2. ContainerOwn(c, t, T)
    BY <1>1, <1>2, <2>1, ContainerKept
  <2>3. ThreadOwn(now, t, T)
    BY <2>2 DEF ThreadOwn
  <2> QED
    BY <1>6, <2>3
<1> QED
  BY <1>4, <1>5, <1>6

\* An event record, for its own thread.
LEMMA CheckEventOwn ==
  ASSUME NEW s, NEW t \in Thread, NEW tr, AreRecords(tr), NEW r \in EventRecord, r.thread = t,
         NEW m, ThreadOK(s, t, tr, m), NEW k, ThreadOK(s, t, Append(tr, r), k),
         NotLater(tr, t, r.time), Begun(s, t, tr), ThreadOwn(s, t, tr)
  PROVE  ThreadOwn(CheckEvent(s, t, r), t, Append(tr, r))
<1> DEFINE T == Append(tr, r)
           c == s.Current
           n == s.Next
           f == Flush(s, t)
           now == IF r.time > c.EndTime THEN f ELSE s
           inside == [now EXCEPT !.Current.EventsData = AddValues(@, r.data)]
<1>1. r \in Record /\ r.kind = "event" /\ r.time \in Nat /\ ~ IsRunning(r)
  BY DEF Record, EventRecord, IsRunning
<1>2. AreRecords(T) /\ IsSequence(tr) /\ Len(T) \in 1 .. Len(T) /\ T[Len(T)] = r
  BY <1>1, OneMoreRecord DEF AreRecords
<1>3. StoredOwn(s.Stored, t, T)
  BY <1>1, StoredOwnKept DEF ThreadOwn, ThreadOK
<1>4. /\ c.BeginTime \in Nat /\ c.EndTime \in Nat /\ n.BeginTime \in Nat /\ n.EndTime \in Nat
      /\ c.OngoingBurst => c.BeginTime < c.EndTime
      /\ ~ c.OngoingBurst => c.EndTime = 0 /\ ~ n.OngoingBurst
      /\ n.OngoingBurst => n.BeginTime < n.EndTime /\ c.EndTime <= n.BeginTime
  BY TimesOf
<1>5. ContainerOwn(c, t, tr) /\ ContainerOwn(n, t, tr)
  BY DEF ThreadOwn
<1>6. CASE ~ c.OngoingBurst
  <2>1. ContainerOwn(c, t, T) /\ ContainerOwn(n, t, T)
    BY <1>1, <1>2, <1>4, <1>5, <1>6, ContainerKept
  <2>2. ThreadOwn(s, t, T)
    BY <1>3, <2>1 DEF ThreadOwn
  <2> QED
    BY <1>6, <2>2 DEF CheckEvent
<1>7. CASE c.OngoingBurst
  <2>1. /\ ThreadOK(now, t, T, k) /\ ContainerOwn(now.Current, t, tr)
        /\ ContainerOwn(now.Next, t, T) /\ StoredOwn(now.Stored, t, T)
        /\ now.Current.OngoingBurst \/ r.time > 0
        /\ Begun(now, t, T)
    <3>0. Begun(s, t, T)
      BY <1>1, <1>2, BegunKept
    <3>1. CASE r.time > c.EndTime
      <4>1. Outside(r, t, c)
        BY <1>1, <1>4, <3>1 DEF Outside
      <4>2. ContainerOwn(c, t, T)
        BY <1>1, <1>2, <1>4, <1>5, <1>7, <4>1, ContainerKept
      <4>3. Spoilt(T, t, c) \/ HasItsOwn(c, t, T)
        BY <1>7, <4>2 DEF ContainerOwn
      <4>4. Closed(c, t, T)
        BY <1>2, <3>1 DEF Closed
      <4>11. EndsSeen(c, t, T) /\ EndsSeen(c, t, tr)
        BY <1>5, <4>2 DEF ContainerOwn
      <4>5. /\ ContainerOwn(f.Current, t, tr) /\ ContainerOwn(f.Next, t, tr)
            /\ StoredOwn(f.Stored, t, T)
        BY <1>2, <1>3, <1>5, <4>3, <4>4, <4>11, FlushOwn
      <4>6. ThreadOK(f, t, T, k) /\ ~ f.Next.OngoingBurst
        BY FlushOK
      <4>9. Begun(f, t, T)
        BY <3>0, BegunFlush
      <4> HIDE DEF T, f
      <4>10. f.Next.BeginTime \in Nat /\ f.Next.EndTime \in Nat
        BY <4>6, TimesOf
      <4>7. ContainerOwn(f.Next, t, T)
        BY <1>1, <1>2, <4>5, <4>6, <4>10, ContainerKept DEF T
      <4>8. now = f /\ r.time > 0
        BY <1>1, <1>4, <3>1
      <4> HIDE DEF now
      <4> QED
        BY <4>5, <4>6, <4>7, <4>8, <4>9
    <3>2. CASE ~ (r.time > c.EndTime)
      <4>1. n.OngoingBurst => Outside(r, t, n)
        BY <1>1, <1>4, <3>2 DEF Outside
      <4>2. ContainerOwn(n, t, T)
        BY <1>1, <1>2, <1>4, <1>5, <4>1, ContainerKept
      <4>3. now = s
        BY <3>2
      <4> HIDE DEF now
      <4> QED
        BY <1>3, <1>5, <1>7, <3>0, <4>2, <4>3
    <3> QED
      BY <3>1, <3>2
  <2>2. CheckEvent(s, t, r) =
          IF r.time = now.Current.EndTime THEN EndEvents(now, t, r.data)
          ELSE IF now.Current.BeginTime < r.time /\ r.time < now.Current.EndTime
          THEN inside ELSE now
    BY <1>7 DEF CheckEvent
  <2> HIDE DEF now
  <2>3. /\ inside.Current = Counted(now.Current, AddValues(now.Current.EventsData, r.data),
                                    now.Current.BurstEndEvents)
        /\ inside.Next = now.Next /\ inside.Stored = now.Stored
    <3> DEFINE d == now.Current
               data == AddValues(d.EventsData, r.data)
               e == [d EXCEPT !.EventsData = data]
    <3>1. /\ now = [Current |-> d, Next |-> now.Next, Stored |-> now.Stored]
          /\ d \in [OngoingBurst : BOOLEAN, Line : Nat, BeginTime : Nat, EndTime : Nat,
                    EventsData : {d.EventsData}, BurstEndEvents : {d.BurstEndEvents}]
      BY <2>1 DEF ThreadOK, ContainerOK
    <3> HIDE DEF d
    <3>2. data = AddValues(d.EventsData, r.data)
      OBVIOUS
    <3> HIDE DEF data
    <3>3. e = Counted(d, data, d.BurstEndEvents)
      BY <3>1 DEF Counted
    <3>4. inside = [now EXCEPT !.Current = e]
      BY <3>1, <3>2 DEF d
    <3> HIDE DEF e, inside
    <3>5. inside.Current = e /\ inside.Next = now.Next /\ inside.Stored = now.Stored
      BY <3>1, <3>4
    <3> QED
      BY <3>2, <3>3, <3>5 DEF d
  <2> HIDE DEF inside
  <2> QED
    BY <1>1, <2>1, <2>2, <2>3, SecondLookOwn
<1> QED
  BY <1>6, <1>7

-----------------------------------------------------------------------------
\* A state that fills a container has met nothing yet, but what was behind a change.
LEMMA FilledOwn ==
  ASSUME NEW tr, AreRecords(tr), NEW r \in StateRecord, NEW t, NotLater(tr, t, r.time),
         NEW c, c.EventsData = NoEvents \/ Dangling(tr, t), SomeEnds(c, t, Append(tr, r)),
         NEW d, d.EventsData = c.EventsData, d.BurstEndEvents = c.BurstEndEvents,
         d.BeginTime = r.time, d.EndTime = r.end, r.time < r.end, d.OngoingBurst
  PROVE  ContainerOwn(d, t, Append(tr, r))
<1> DEFINE T == Append(tr, r)
           W == d.BeginTime + 1 .. d.EndTime - 1
<1>1. AreRecords(T) /\ NotLater(T, t, r.time)
  BY OneMoreRecord DEF Record
<1>2. r.time \in Nat /\ r.end \in Nat
  BY DEF StateRecord
<1>3. IsSequence(T) /\ \A i \in 1 .. Len(T) : T[i].time \in Nat
  BY <1>1 DEF AreRecords, Record, StateRecord, EventRecord, CommunicationRecord
<1> HIDE DEF T
<1>4. \A i \in 1 .. Len(T) : T[i].thread = t => T[i].time \notin W /\ T[i].time \notin {d.EndTime}
  BY <1>1, <1>2, <1>3 DEF NotLater
<1> HIDE DEF W
<1>5. Met(T, t, W) = <<>> /\ Met(T, t, {d.EndTime}) = <<>>
  BY <1>3, <1>4, MetNothing
<1>6. UpToChange(<<>>) = <<>> /\ NoChange(<<>>) /\ Types(<<>>) = {} /\ <<>> \o <<>> = <<>>
  <2>1. <<>> \in Seq(TypeValue) /\ NoChange(<<>>)
    BY DEF NoChange
  <2>2. UpToChange(<<>>) = <<>>
    BY <2>1, UpToNone
  <2> QED
    BY <2>1, <2>2 DEF Types
<1>7. InsideValues(T, t, d) = <<>> /\ EndValues(T, t, d) = <<>>
  BY <1>5, <1>6 DEF InsideValues, EndValues, W
<1>8. Own(T, t, d) = NoEvents
  BY <1>6, <1>7, AddedNone DEF Own
<1>9. Dangling(tr, t) => Spoilt(T, t, d)
  BY DanglingEnds DEF T, Record
<1>10. EndsSeen(d, t, T)
  <2>1. PICK time \in Nat : c.BurstEndEvents \subseteq EndTypes(T, t, time)
    BY DEF SomeEnds, T
  <2>2. NotLater(T, t, d.EndTime) /\ d.EndTime \in Nat
    BY <1>1, <1>2, <1>3 DEF NotLater
  <2>3. EndTypes(T, t, time) \subseteq EndTypes(T, t, d.EndTime)
    BY <1>1, <2>2, EndsGrow
  <2> QED
    BY <2>1, <2>2, <2>3 DEF EndsSeen, SomeEnds
<1> QED
  BY <1>5, <1>6, <1>7, <1>8, <1>9, <1>10 DEF ContainerOwn, HasItsOwn, T

\* The current burst, or the one in wait, is filled and the other is kept.
LEMMA FillOwn ==
  ASSUME NEW s, NEW t \in Thread, NEW tr, AreRecords(tr), NEW r \in StateRecord,
         NotLater(tr, t, r.time), r.time < r.end, NEW m, ThreadOK(s, t, Append(tr, r), m),
         StoredOwn(s.Stored, t, Append(tr, r)), NEW line
  PROVE  /\ /\ s.Current.EventsData = NoEvents \/ Dangling(tr, t)
            /\ SomeEnds(s.Current, t, Append(tr, r))
            /\ ContainerOwn(s.Next, t, Append(tr, r))
            => ThreadOwn(WithCurrent(s, r, line), t, Append(tr, r))
         /\ ContainerOwn(s.Current, t, Append(tr, r)) =>
              ThreadOwn(WithNext(s, r, line), t, Append(tr, r))
<1> DEFINE T == Append(tr, r)
           fill(c) == FillDataContainer(c, r, line)
<1>1. /\ s = [Current |-> s.Current, Next |-> s.Next, Stored |-> s.Stored]
      /\ s.Next.EventsData = NoEvents /\ s.Next.BurstEndEvents = {}
      /\ ContainerOK(s.Current, t, T) /\ ContainerOK(s.Next, t, T)
  BY DEF ThreadOK
<1>2. ASSUME NEW c, ContainerOK(c, t, T)
      PROVE  LET d == fill(c)
             IN /\ d.BeginTime = r.time /\ d.EndTime = r.end /\ d.OngoingBurst
                /\ d.EventsData = c.EventsData /\ d.BurstEndEvents = c.BurstEndEvents
  BY <1>2 DEF FillDataContainer, ContainerOK
<1> HIDE DEF fill
<1>3. ASSUME NEW c, ContainerOK(c, t, T), c.EventsData = NoEvents \/ Dangling(tr, t),
             SomeEnds(c, t, T)
      PROVE  ContainerOwn(fill(c), t, T)
  <2> DEFINE d == fill(c)
  <2>1. /\ d.BeginTime = r.time /\ d.EndTime = r.end /\ d.OngoingBurst
        /\ d.EventsData = c.EventsData /\ d.BurstEndEvents = c.BurstEndEvents
    BY <1>2, <1>3
  <2> HIDE DEF d
  <2>2. ContainerOwn(d, t, T)
    BY <1>3, <2>1, FilledOwn
  <2> QED
    BY <2>2 DEF d
<1>4. StoredOwn(s.Stored, t, T)
  OBVIOUS
<1>5. ASSUME s.Current.EventsData = NoEvents \/ Dangling(tr, t), ContainerOwn(s.Next, t, T),
             SomeEnds(s.Current, t, T)
      PROVE  ThreadOwn(WithCurrent(s, r, line), t, T)
  <2> DEFINE e == WithCurrent(s, r, line)
             c == s.Current
             d == fill(c)
  <2>1. (c.EventsData = NoEvents \/ Dangling(tr, t)) /\ SomeEnds(c, t, T)
    BY <1>5
  <2>2. ContainerOwn(d, t, T)
    BY <1>1, <1>3, <2>1
  <2>3. e.Current = d /\ e.Next = s.Next /\ e.Stored = s.Stored
    <3> HIDE DEF c
    <3>1. e = [s EXCEPT !.Current = d]
      BY <1>1 DEF c, fill, WithCurrent
    <3> HIDE DEF d, e
    <3> QED
      BY <1>1, <3>1
  <2> HIDE DEF d, e
  <2> QED
    BY <1>4, <1>5, <2>2, <2>3 DEF ThreadOwn, e
<1>6. ASSUME ContainerOwn(s.Current, t, T)
      PROVE  ThreadOwn(WithNext(s, r, line), t, T)
  <2> DEFINE e == WithNext(s, r, line)
             c == s.Next
             d == fill(c)
  <2>1. c.EventsData = NoEvents /\ SomeEnds(c, t, T)
    BY <1>1, NoneSeen DEF EndsSeen
  <2>2. ContainerOwn(d, t, T)
    BY <1>1, <1>3, <2>1
  <2>3. e.Next = d /\ e.Current = s.Current /\ e.Stored = s.Stored
    <3> HIDE DEF c
    <3>1. e = [s EXCEPT !.Next = d]
      BY <1>1 DEF c, fill, WithNext
    <3> HIDE DEF d, e
    <3> QED
      BY <1>1, <3>1
  <2> HIDE DEF d, e
  <2> QED
    BY <1>4, <1>6, <2>2, <2>3 DEF ThreadOwn, e
<1> QED
  BY <1>5, <1>6

\* A record that is no event leaves the counters of every thread alone.
LEMMA NoEventOwn ==
  ASSUME NEW s, NEW u, NEW tr, AreRecords(tr), NEW r \in Record,
         r.thread # u \/ (r.kind # "event" /\ NotLater(tr, u, r.time)),
         r.thread = u /\ IsRunning(r) => s.Current.OngoingBurst,
         NEW m, ThreadOK(s, u, tr, m), ThreadOwn(s, u, tr)
  PROVE  ThreadOwn(s, u, Append(tr, r))
<1>1. IsSequence(tr)
  BY DEF AreRecords
<1>2. \A c : Outside(r, u, c)
  BY DEF Outside
<1>3. ContainerOwn(s.Current, u, tr) /\ ContainerOwn(s.Next, u, tr)
  BY DEF ThreadOwn
<1>6. /\ s.Current.BeginTime \in Nat /\ s.Next.BeginTime \in Nat
      /\ s.Current.EndTime \in Nat /\ s.Next.EndTime \in Nat
      /\ s.Next.EventsData = NoEvents
      /\ s.Current.OngoingBurst => IsStateOf(s.Current, u, tr)
      /\ s.Next.OngoingBurst => IsStateOf(s.Next, u, tr)
  BY DEF ThreadOK, ContainerOK
<1>7. r.thread = u /\ IsRunning(r) =>
        /\ (s.Current.OngoingBurst => s.Current.BeginTime <= r.time)
        /\ (s.Next.OngoingBurst => s.Next.BeginTime <= r.time)
  BY <1>6 DEF NotLater, IsStateOf
<1>8. ASSUME NEW c \in {s.Current, s.Next}
      PROVE  ContainerOwn(c, u, Append(tr, r))
  <2>1. c.BeginTime \in Nat /\ c.EndTime \in Nat /\ ContainerOwn(c, u, tr)
    BY <1>3, <1>6
  <2>2. c.OngoingBurst =>
          Outside(r, u, c) /\ (r.thread = u /\ IsRunning(r) => c.BeginTime <= r.time)
    BY <1>2, <1>7
  <2>3. ~ c.OngoingBurst => c.EventsData = NoEvents \/ ~ (r.thread = u /\ IsRunning(r))
    BY <1>6
  <2> QED
    BY <1>1, <2>1, <2>2, <2>3, ContainerKept
<1>4. ContainerOwn(s.Current, u, Append(tr, r)) /\ ContainerOwn(s.Next, u, Append(tr, r))
  BY <1>8
<1>5. StoredOwn(s.Stored, u, Append(tr, r))
  BY StoredOwnKept DEF ThreadOwn, ThreadOK
<1> QED
  BY <1>4, <1>5 DEF ThreadOwn

\* A state record, for its own thread.
LEMMA CheckStateOwn ==
  ASSUME NEW s, NEW t \in Thread, NEW tr, AreRecords(tr), ThreadOK(s, t, tr, Len(tr)),
         NEW r \in StateRecord, r.thread = t,
         IsRunning(r) => r.time < r.end /\ EndBefore(tr, t, r),
         NotLater(tr, t, r.time), ThreadOwn(s, t, tr)
  PROVE  ThreadOwn(CheckState(s, t, r, Len(tr) + 1), t, Append(tr, r))
<1> DEFINE m == Len(tr)
           T == Append(tr, r)
           c == s.Current
           n == s.Next
           f == Flush(s, t)
           now == CheckState(s, t, r, m + 1)
<1>1. r \in Record /\ r.kind = "state" /\ r.running \in BOOLEAN /\ r.time \in Nat
  BY DEF Record, StateRecord
<1>2. /\ AreRecords(T) /\ IsSequence(tr) /\ m \in Nat
      /\ Len(T) \in 1 .. Len(T) /\ T[Len(T)] = r
  BY <1>1, OneMoreRecord, Appended DEF AreRecords
<1>3. (IsRunning(r) => c.OngoingBurst) => ThreadOwn(s, t, T)
  BY <1>1, NoEventOwn
<1>8. /\ StoredOwn(s.Stored, t, T) /\ n.EventsData = NoEvents
      /\ EndsSeen(n, t, T)
  BY <1>1, StoredOwnKept, NoneSeen DEF ThreadOwn, ThreadOK
<1>9. EndsSeen(c, t, T)
  <2>1. EndsSeen(c, t, tr) /\ OneMore(T, tr, r) /\ c.EndTime \in Nat
    BY <1>2 DEF ContainerOwn, ThreadOwn, OneMore, ThreadOK, ContainerOK
  <2> HIDE DEF T
  <2> QED
    BY <2>1, EndsSeenKept
<1> HIDE DEF m
<1>4. ThreadOK(s, t, T, m)
  BY <1>2, Lifted DEF m
<1>5. /\ c.BeginTime \in Nat /\ c.EndTime \in Nat /\ n.BeginTime \in Nat /\ n.EndTime \in Nat
      /\ n.OngoingBurst => n.BeginTime < n.EndTime /\ c.EndTime <= n.BeginTime
  BY TimesOf
<1>6. CASE ~ r.running
  BY <1>3, <1>6 DEF CheckState, IsRunning
<1>7. CASE r.running
  <2>1. /\ IsRunning(r) /\ r.time < r.end
        /\ c.OngoingBurst => c.EndTime <= r.time
        /\ n.OngoingBurst => n.EndTime <= r.time
    BY <1>1, <1>7 DEF IsRunning, EndBefore, ThreadOK, ContainerOK, IsStateOf
  <2>2. CASE ~ c.OngoingBurst
    <3>1. now = WithCurrent(s, r, m + 1)
      BY <1>7, <2>2 DEF CheckState, WithCurrent
    <3>3. c.EventsData = NoEvents \/ Dangling(tr, t)
      BY <2>2 DEF ThreadOwn, ContainerOwn
    <3>4. ~ n.OngoingBurst
      BY <2>2 DEF ThreadOK
    <3>5. ContainerOwn(n, t, T)
      BY <1>8, <3>4 DEF ContainerOwn
    <3>2. ThreadOwn(WithCurrent(s, r, m + 1), t, T)
      BY <1>4, <1>8, <1>9, <2>1, <3>3, <3>5, FillOwn DEF EndsSeen
    <3> QED
      BY <3>1, <3>2 DEF m
  <2>3. CASE c.OngoingBurst /\ c.EndTime = r.time
    <3>1. now = WithNext(s, r, m + 1)
      BY <1>1, <1>5, <1>7, <2>3 DEF CheckState, WithNext
    <3>2. ContainerOwn(c, t, T)
      BY <1>3, <2>3 DEF ThreadOwn
    <3>3. ThreadOwn(WithNext(s, r, m + 1), t, T)
      BY <1>4, <1>8, <2>1, <3>2, FillOwn
    <3> QED
      BY <3>1, <3>3 DEF m
  <2>4. CASE c.OngoingBurst /\ c.EndTime < r.time
    <3>8. ThreadOwn(s, t, T)
      BY <1>3, <2>4
    <3>1. Spoilt(T, t, c) \/ (HasItsOwn(c, t, T) /\ Closed(c, t, T))
      BY <1>2, <2>4, <3>8 DEF ThreadOwn, ContainerOwn, Closed
    <3>2. /\ ContainerOwn(f.Current, t, T) /\ ContainerOwn(f.Next, t, T)
          /\ StoredOwn(f.Stored, t, T)
      BY <1>2, <1>4, <1>9, <3>1, <3>8, FlushOwn DEF ThreadOwn
    <3>3. /\ ThreadOK(f, t, T, m) /\ ~ f.Next.OngoingBurst
          /\ f.Current.OngoingBurst = n.OngoingBurst
          /\ ~ n.OngoingBurst => f.Current.EventsData = NoEvents
      BY <1>4, FlushOK DEF Flush, Clear, TaskDataContainer
    <3>4. now = IF n.OngoingBurst THEN WithNext(f, r, m + 1) ELSE WithCurrent(f, r, m + 1)
      <4>1. ~ (~ c.OngoingBurst) /\ ~ (c.EndTime = r.time) /\ c.EndTime < r.time
        BY <1>1, <1>5, <2>4
      <4> HIDE DEF c, n, f
      <4> QED
        BY <1>7, <2>4, <4>1 DEF CheckState, WithCurrent, WithNext, c, n, f
    <3> HIDE DEF f, now
    <3>6. /\ ~ n.OngoingBurst => ThreadOwn(WithCurrent(f, r, m + 1), t, T)
          /\ ThreadOwn(WithNext(f, r, m + 1), t, T)
      BY <2>1, <3>2, <3>3, FillOwn DEF ContainerOwn, EndsSeen
    <3>7. ThreadOwn(now, t, T)
      BY <3>3, <3>4, <3>6
    <3> QED
      BY <3>7 DEF m, now
  <2> QED
    BY <1>1, <1>5, <2>1, <2>2, <2>3, <2>4
<1> QED
  BY <1>1, <1>6, <1>7

\* The counters of another thread when bursts of thread t are stored.
LEMMA OtherOwn ==
  ASSUME NEW s, NEW u, NEW tr, NEW m, ThreadOK(s, u, tr, m), ThreadOwn(s, u, tr),
         NEW t \in Thread, t # u, NEW C, Extends(s.Stored, C, t)
  PROVE  ThreadOwn([Current |-> s.Current, Next |-> s.Next, Stored |-> C], u, tr)
<1> DEFINE B == s.Stored
           e == [Current |-> s.Current, Next |-> s.Next, Stored |-> C]
<1>1. StoredOK(B, u, tr)
  BY DEF ThreadOK
<1>2. \A k \in 1 .. Len(C) : C[k].thread = u => k \in 1 .. Len(B) /\ C[k] = B[k]
  BY <1>1, OtherStoredOK
<1>3. e.Current = s.Current /\ e.Next = s.Next /\ e.Stored = C
  OBVIOUS
<1> HIDE DEF e
<1>4. StoredOwn(C, u, tr)
  BY <1>2 DEF StoredOwn, ThreadOwn
<1>5. ThreadOwn(e, u, tr)
  BY <1>3, <1>4 DEF ThreadOwn
<1> QED
  BY <1>5 DEF e

-----------------------------------------------------------------------------
(***************************************************************************)
(* The invariant of the counters.                                          *)
(***************************************************************************)
BurstsOwn(B) ==
  \A k \in 1 .. Len(B) : \/ Spoilt(trace, B[k].thread, B[k])
                         \/ BurstOwn(B[k], B[k].thread, trace)

OwnInv ==
  /\ pc = "Reading" => \A t \in Thread : ThreadOwn(Now(t), t, trace)
  /\ pc # "Reading" => BurstsOwn(AllBursts)

\* At first nothing is met.
LEMMA OwnInit == Init => OwnInv
<1> SUFFICES ASSUME Init
             PROVE  OwnInv
  OBVIOUS
<1>1. /\ pc = "Reading" /\ trace = <<>> /\ AllBursts = <<>>
      /\ TaskData = [t \in Thread |-> TaskDataContainer]
      /\ FutureTaskData = [t \in Thread |-> TaskDataContainer]
  BY DEF Init
<1>3. ASSUME NEW t \in Thread
      PROVE  ThreadOwn(Now(t), t, trace)
  <2> DEFINE s == Now(t)
  <2>1. s.Current = TaskDataContainer /\ s.Next = TaskDataContainer /\ s.Stored = <<>>
    BY <1>1 DEF Now
  <2> HIDE DEF s
  <2>2. ContainerOwn(TaskDataContainer, t, trace)
    BY NoneSeen DEF ContainerOwn, TaskDataContainer
  <2>3. \A k : k \notin 1 .. Len(s.Stored)
    BY <2>1, EmptyIsSequence
  <2>4. ThreadOwn(s, t, trace)
    BY <2>1, <2>2, <2>3 DEF ThreadOwn, StoredOwn
  <2> QED
    BY <2>4 DEF s
<1> QED
  BY <1>1, <1>3 DEF OwnInv

\* The next record of a thread, and what has been read of it.
LEMMA NextRecordIs ==
  ASSUME IInv, InTime, NEW t \in Thread, GetNextRecord(t), NEW r, r = Head(left[t])
  PROVE  /\ AreRecords(trace) /\ r \in Record /\ r.thread = t /\ NotLater(trace, t, r.time)
         /\ trace' = Append(trace, r)
<1> DEFINE L == left[t]
           n == Len(L)
<1>1. AreRecords(trace)
  BY DEF AreRecords, InTime, IInv, Shapes
<1>2. r \in Record /\ r.thread = t /\ trace' = Append(trace, r)
  BY RecordIs
<1>3. L # <<>> /\ L \in Seq(Record)
  BY DEF GetNextRecord, IInv, Ahead
<1>4. \A i \in 1 .. n : \A k \in 1 .. Len(trace) :
        trace[k].thread = t => trace[k].time <= L[i].time
  BY DEF InTime
<1> HIDE DEF L
<1>5. 1 \in 1 .. n /\ Head(L) = L[1]
  BY <1>3
<1> HIDE DEF n
<1>6. NotLater(trace, t, r.time)
  BY <1>4, <1>5 DEF NotLater, L
<1> QED
  BY <1>1, <1>2, <1>6

\* While the trace is read, the burst of a thread that was read last is the one in wait,
\* or the current one.
LEMMA BegunIs ==
  ASSUME IInv, InTime, pc = "Reading", NEW t \in Thread
  PROVE  Begun(Now(t), t, trace)
<1> DEFINE s == Now(t)
<1>1. ThreadOK(s, t, trace, Len(trace)) /\ s.Stored = AllBursts
  BY DEF IInv, WhileReading, Now
<1> HIDE DEF s
<1> SUFFICES ASSUME s.Current.OngoingBurst, NEW k \in 1 .. Len(trace),
                    trace[k].thread = t, IsRunning(trace[k])
             PROVE  trace[k].time <= IF s.Next.OngoingBurst THEN s.Next.BeginTime
                                     ELSE s.Current.BeginTime
  BY DEF Begun, s
<1>2. /\ IsStateOf(s.Current, t, trace) /\ s.Current.BeginTime \in Nat
      /\ s.Current.EndTime \in Nat /\ s.Next.BeginTime \in Nat
      /\ s.Next.OngoingBurst =>
           IsStateOf(s.Next, t, trace) /\ s.Current.EndTime <= s.Next.BeginTime
  BY <1>1 DEF ThreadOK, ContainerOK
<1>8. s.Current.BeginTime < s.Current.EndTime
  BY <1>2 DEF IsStateOf
<1>7. s.Next.OngoingBurst => s.Current.BeginTime <= s.Next.BeginTime
  BY <1>2, <1>8
<1>3. IsStored(s.Stored, k) \/ Holds(s.Current, k) \/ Holds(s.Next, k)
  BY <1>1 DEF ThreadOK
<1>4. CASE IsStored(s.Stored, k)
  <2>1. PICK i \in 1 .. Len(s.Stored) : s.Stored[i].Line = k
    BY <1>4 DEF IsStored
  <2> DEFINE b == s.Stored[i]
  <2>2. b.thread \in Thread /\ b.BeginTime \in Nat /\ b.EndTime \in Nat
    BY <1>1 DEF ThreadOK, StoredOK
  <2>3. IsStateOf(b, b.thread, trace)
    <3>1. StoredOK(AllBursts, b.thread, trace)
      BY <2>2, StoredBursts
    <3>2. b = AllBursts[i] /\ i \in 1 .. Len(AllBursts)
      BY <1>1
    <3> QED
      BY <3>1, <3>2 DEF StoredOK
  <2>4. b.thread = t /\ trace[k].time = b.BeginTime /\ b.BeginTime < b.EndTime
    BY <2>1, <2>3 DEF IsStateOf
  <2>5. b.EndTime <= s.Current.BeginTime
    BY <1>1, <2>4 DEF ThreadOK
  <2> HIDE DEF b
  <2>7. s.Current.BeginTime \in Nat
    BY <1>2
  <2>8. b.BeginTime <= s.Current.BeginTime
    BY <2>2, <2>4, <2>5, <2>7
  <2>6. trace[k].time <= s.Current.BeginTime /\ trace[k].time \in Nat
    BY <2>2, <2>4, <2>8
  <2> QED
    BY <1>2, <1>7, <2>6
<1>5. CASE Holds(s.Current, k)
  <2>1. trace[k].time = s.Current.BeginTime
    BY <1>2, <1>5 DEF Holds, IsStateOf
  <2> QED
    BY <1>2, <1>7, <2>1
<1>6. CASE Holds(s.Next, k)
  <2>1. s.Next.OngoingBurst /\ trace[k].time = s.Next.BeginTime
    BY <1>2, <1>6 DEF Holds, IsStateOf
  <2> QED
    BY <1>2, <2>1
<1> QED
  BY <1>3, <1>4, <1>5, <1>6

\* A record is read: its thread counts it, the others do not.
LEMMA OwnStep ==
  ASSUME IInv, InTime, OwnInv, pc = "Reading", NEW t \in Thread, GetNextRecord(t), NEW s,
         Become(t, s), Extends(AllBursts, s.Stored, t),
         ThreadOK(s, t, trace', Len(trace')), ThreadOwn(s, t, trace'), UnchangedReading
  PROVE  OwnInv'
<1> DEFINE r == Head(left[t])
<1>1. AreRecords(trace) /\ r \in Record /\ r.thread = t /\ trace' = Append(trace, r)
  BY NextRecordIs
<1> HIDE DEF r
<1>2. /\ WhileReading /\ pc' = "Reading"
      /\ TaskData = [u \in Thread |-> TaskData[u]]
      /\ FutureTaskData = [u \in Thread |-> FutureTaskData[u]]
  BY DEF IInv, Shapes, UnchangedReading
<1>3. /\ TaskData'[t] = s.Current /\ FutureTaskData'[t] = s.Next /\ AllBursts' = s.Stored
      /\ \A u \in Thread : u # t => /\ TaskData'[u] = TaskData[u]
                                   /\ FutureTaskData'[u] = FutureTaskData[u]
  BY <1>2 DEF Become
<1>4. Now(t)' = s
  BY <1>3 DEF Now, ThreadOK
<1>5. Len(trace) \in Nat /\ Len(trace) <= Len(trace) /\ IsSequence(trace)
  BY <1>1, Appended DEF AreRecords
<1>6. ASSUME NEW u \in Thread, u # t
      PROVE  ThreadOwn(Now(u)', u, trace')
  <2>1. ThreadOK(Now(u), u, trace, Len(trace)) /\ ThreadOwn(Now(u), u, trace)
    BY <1>2, <1>6 DEF WhileReading, OwnInv
  <2>2. ThreadOK(Now(u), u, trace', Len(trace))
    BY <1>1, <1>5, <2>1, Lifted
  <2>3. ThreadOwn(Now(u), u, trace')
    BY <1>1, <1>6, <2>1, NoEventOwn
  <2>4. /\ Now(u).Current = TaskData[u] /\ Now(u).Next = FutureTaskData[u]
        /\ Now(u).Stored = AllBursts
        /\ Now(u)' = [Current |-> TaskData[u], Next |-> FutureTaskData[u], Stored |-> s.Stored]
    BY <1>3, <1>6 DEF Now
  <2> QED
    BY <1>6, <2>2, <2>3, <2>4, OtherOwn
<1>7. \A u \in Thread : ThreadOwn(Now(u), u, trace)'
  <2> TAKE u \in Thread
  <2>1. CASE u = t
    BY <1>4, <2>1
  <2>2. CASE u # t
    BY <1>6, <2>2
  <2> QED
    BY <2>1, <2>2
<1> QED
  BY <1>2, <1>7 DEF OwnInv

\* A record of each kind.
LEMMA OwnRead ==
  ASSUME IInv, InTime, OwnInv, NEW t \in Thread,
         ReadState(t) \/ ReadEvent(t) \/ SkipCommunication(t)
  PROVE  OwnInv'
<1> DEFINE r == Head(left[t])
           m == Len(trace)
<1>1. /\ pc = "Reading" /\ GetNextRecord(t) /\ UnchangedReading
  BY DEF ReadState, ReadEvent, SkipCommunication
<1>2. /\ AreRecords(trace) /\ r \in Record /\ r.thread = t /\ NotLater(trace, t, r.time)
      /\ trace' = Append(trace, r)
  BY <1>1, NextRecordIs
<1>11. Begun(Now(t), t, trace)
  BY <1>1, BegunIs
<1>3. IsRunning(r) => r.time < r.end /\ EndBefore(trace, t, r)
  BY <1>1, RecordIs
<1>4. /\ ThreadOK(Now(t), t, trace, m) /\ ThreadOwn(Now(t), t, trace)
      /\ Now(t).Stored = AllBursts /\ IsSequence(trace)
      /\ TaskData = [u \in Thread |-> TaskData[u]]
      /\ FutureTaskData = [u \in Thread |-> FutureTaskData[u]]
  BY <1>1 DEF IInv, WhileReading, Shapes, Now, OwnInv
<1>5. /\ m \in Nat /\ Len(trace') = m + 1 /\ trace'[m + 1] = r
  BY <1>2, <1>4, Appended
<1> HIDE DEF r
<1>6. ThreadOK(Now(t), t, trace', m)
  BY <1>2, <1>4, <1>5, Lifted
<1>7. ~ IsRunning(r) => ThreadOK(Now(t), t, trace', Len(trace'))
  BY <1>5, <1>6, NoStateToKeep
<1>8. CASE ReadState(t)
  <2> DEFINE s == CheckState(Now(t), t, r, m + 1)
  <2>1. r.kind = "state" /\ Become(t, s)
    BY <1>8 DEF ReadState, r
  <2>2. r \in StateRecord
    BY <1>2, <2>1 DEF Record, EventRecord, CommunicationRecord
  <2>3. ThreadOK(s, t, trace', Len(trace')) /\ Extends(AllBursts, s.Stored, t)
    BY <1>2, <1>3, <1>4, <1>5, <2>2, CheckStateOK
  <2>4. ThreadOwn(s, t, trace')
    BY <1>2, <1>3, <1>4, <2>2, CheckStateOwn
  <2> HIDE DEF s
  <2> QED
    BY <1>1, <2>1, <2>3, <2>4, OwnStep
<1>9. CASE ReadEvent(t)
  <2> DEFINE s == CheckEvent(Now(t), t, r)
  <2>1. r.kind = "event" /\ Become(t, s)
    BY <1>9 DEF ReadEvent, r
  <2>2. r \in EventRecord /\ ~ IsRunning(r)
    BY <1>2, <2>1 DEF Record, StateRecord, CommunicationRecord, IsRunning
  <2>3. ThreadOK(s, t, trace', Len(trace')) /\ Extends(AllBursts, s.Stored, t)
    BY <1>4, <1>7, <2>2, CheckEventOK
  <2>4. ThreadOwn(s, t, trace')
    BY <1>2, <1>4, <1>6, <1>11, <2>2, CheckEventOwn
  <2> HIDE DEF s
  <2> QED
    BY <1>1, <2>1, <2>3, <2>4, OwnStep
<1>10. CASE SkipCommunication(t)
  <2> DEFINE s == Now(t)
  <2>1. r.kind = "communication" /\ UNCHANGED <<TaskData, FutureTaskData, AllBursts>>
    BY <1>10 DEF SkipCommunication, r
  <2>2. ~ IsRunning(r) /\ r.kind # "event"
    BY <2>1 DEF IsRunning
  <2>3. ThreadOK(s, t, trace', Len(trace')) /\ Extends(AllBursts, s.Stored, t)
    BY <1>4, <1>7, <2>2, ExtendsItself DEF ThreadOK
  <2>4. ThreadOwn(s, t, trace')
    BY <1>2, <1>4, <2>2, NoEventOwn
  <2>5. Become(t, s)
    BY <1>4, <2>1 DEF Become, Now
  <2> HIDE DEF s
  <2> QED
    BY <1>1, <2>3, <2>4, <2>5, OwnStep
<1> QED
  BY <1>8, <1>9, <1>10

\* The current burst of a thread is stored with its own counters at the end of the file.
LEMMA SettledOwn ==
  ASSUME AreRecords(trace), NEW t, NEW B, IsSequence(B), BurstsOwn(B),
         ContainerOK(TaskData[t], t, trace), ContainerOwn(TaskData[t], t, trace)
  PROVE  IsSequence(Settled(B, t)) /\ BurstsOwn(Settled(B, t))
<1> DEFINE c == TaskData[t]
           C == Settled(B, t)
<1>1. CASE ~ c.OngoingBurst
  BY <1>1 DEF Settled
<1>2. CASE c.OngoingBurst
  <2> DEFINE b == [thread |-> t, Line |-> c.Line, BeginTime |-> c.BeginTime,
                   EndTime |-> c.EndTime, data |-> NewData(c),
                   kind |-> Kind(NewData(c), c.EndTime - c.BeginTime)]
  <2>1. c.Line # 0
    BY <1>2 DEF ContainerOK, IsStateOf
  <2>2. C = Append(B, b)
    BY <1>2, <2>1 DEF Settled, NewBurst
  <2>3. b.thread = t /\ b.BeginTime = c.BeginTime /\ b.EndTime = c.EndTime /\ b.data = NewData(c)
    OBVIOUS
  <2>4. /\ Spoilt(trace, t, c) \/ HasItsOwn(c, t, trace)
        /\ EndsSeen(c, t, trace) /\ c.OngoingBurst
    BY <1>2 DEF ContainerOwn
  <2> HIDE DEF b, C, c
  <2>8. HasItsOwn(c, t, trace) => BurstOwn(b, t, trace)
    BY <2>3, <2>4, NewDataOwn
  <2>9. Spoilt(trace, t, b) <=> Spoilt(trace, t, c)
    BY <2>3, SameTimes
  <2>5. Spoilt(trace, t, b) \/ BurstOwn(b, t, trace)
    BY <2>4, <2>8, <2>9
  <2>6. /\ Len(B) \in Nat /\ Len(C) = Len(B) + 1 /\ C[Len(B) + 1] = b /\ IsSequence(C)
        /\ \A k \in 1 .. Len(B) : C[k] = B[k]
    BY <2>2, Appended
  <2>7. ASSUME NEW k \in 1 .. Len(C)
        PROVE  Spoilt(trace, C[k].thread, C[k]) \/ BurstOwn(C[k], C[k].thread, trace)
    <3>1. CASE k \in 1 .. Len(B)
      BY <2>6, <3>1 DEF BurstsOwn
    <3>2. CASE k = Len(B) + 1
      BY <2>3, <2>5, <2>6, <3>2
    <3> QED
      BY <2>6, <3>1, <3>2
  <2> QED
    BY <2>6, <2>7 DEF BurstsOwn, C
<1> QED
  BY <1>1, <1>2

\* And so are those of all threads.
LEMMA PendingOwn ==
  ASSUME AreRecords(trace), IsSequence(AllBursts), BurstsOwn(AllBursts),
         \A t \in Thread : /\ ContainerOK(TaskData[t], t, trace)
                            /\ ContainerOwn(TaskData[t], t, trace)
  PROVE  BurstsOwn(PendingBursts)
<1> DEFINE n == Threads
<1>1. n \in Nat /\ Thread = 1 .. n /\ DOMAIN InOrder = 1 .. n /\ \A k \in 1 .. n : InOrder[k] = k
  BY ThreadsAssumption DEF Thread, InOrder
<1> HIDE DEF n
<1>0. n \in Nat /\ DOMAIN InOrder = 1 .. n
  BY <1>1
<1>2. PICK h : /\ h[0] = AllBursts /\ PendingBursts = h[n]
               /\ \A k \in 1 .. n : h[k] = Settled(h[k - 1], InOrder[k])
  BY <1>0, PendingStep
<1> DEFINE S == {k \in 0 .. n : IsSequence(h[k]) /\ BurstsOwn(h[k])}
<1>3. 0 \in S
  BY <1>1, <1>2
<1>4. ASSUME NEW k \in 1 .. n, k - 1 \in S
      PROVE  k \in S
  <2>1. k \in Thread /\ h[k] = Settled(h[k - 1], k) /\ IsSequence(h[k - 1]) /\ BurstsOwn(h[k - 1])
    BY <1>1, <1>2, <1>4
  <2> DEFINE B == h[k - 1]
  <2> HIDE DEF B
  <2>2. IsSequence(Settled(B, k)) /\ BurstsOwn(Settled(B, k))
    BY <2>1, SettledOwn DEF B
  <2> QED
    BY <1>1, <2>1, <2>2 DEF B
<1> HIDE DEF S
<1>5. n \in S
  <2>1. n \in Nat
    BY <1>1
  <2> HIDE <1>1, <1>2
  <2> QED
    BY <2>1, <1>3, <1>4, BoundedInduction
<1> QED
  BY <1>2, <1>5 DEF S

\* What the invariant says of the bursts stored while the trace is read.
LEMMA OwnWhileReading ==
  ASSUME IInv, OwnInv, pc = "Reading"
  PROVE  IsSequence(AllBursts) /\ BurstsOwn(AllBursts)
<1> SUFFICES ASSUME NEW k \in 1 .. Len(AllBursts)
             PROVE  \/ Spoilt(trace, AllBursts[k].thread, AllBursts[k])
                    \/ BurstOwn(AllBursts[k], AllBursts[k].thread, trace)
  BY DEF BurstsOwn, IInv, Shapes
<1> DEFINE t == AllBursts[k].thread
<1>1. t \in Thread
  <2>1. StoredOK(AllBursts, 1, trace)
    BY FirstThread DEF IInv, WhileReading, ThreadOK, Now
  <2> QED
    BY <2>1 DEF StoredOK
<1>2. StoredOwn(AllBursts, t, trace)
  <2>1. Now(t).Stored = AllBursts
    BY DEF Now
  <2> HIDE DEF t
  <2> QED
    BY <1>1, <2>1 DEF OwnInv, ThreadOwn
<1> QED
  BY <1>2 DEF StoredOwn

\* The end of the file.
LEMMA OwnEnd == ASSUME IInv, InTime, OwnInv, EndOfFile PROVE OwnInv'
<1>1. /\ pc = "Reading" /\ pc' # "Reading" /\ AllBursts' = PendingBursts
      /\ trace' = trace
  BY DEF EndOfFile
<1>2. AreRecords(trace)
  BY DEF AreRecords, InTime, IInv, Shapes
<1>3. ASSUME NEW t \in Thread
      PROVE  ContainerOK(TaskData[t], t, trace) /\ ContainerOwn(TaskData[t], t, trace)
  <2>1. ThreadOK(Now(t), t, trace, Len(trace)) /\ ThreadOwn(Now(t), t, trace)
    BY <1>1 DEF IInv, WhileReading, OwnInv
  <2> QED
    BY <2>1 DEF ThreadOK, ThreadOwn, Now
<1>4. IsSequence(AllBursts) /\ BurstsOwn(AllBursts)
  BY <1>1, OwnWhileReading
<1>5. BurstsOwn(PendingBursts)
  BY <1>2, <1>3, <1>4, PendingOwn
<1>6. BurstsOwn(AllBursts)'
  BY <1>1, <1>5 DEF BurstsOwn
<1> QED
  BY <1>1, <1>6 DEF OwnInv

\* Once they are stored nothing touches them.
LEMMA OwnStays ==
  ASSUME OwnInv, UNCHANGED <<trace, AllBursts>>,
         UNCHANGED <<pc, TaskData, FutureTaskData>> \/ (pc # "Reading" /\ pc' # "Reading")
  PROVE  OwnInv'
<1>1. BurstsOwn(AllBursts) => BurstsOwn(AllBursts)'
  BY DEF BurstsOwn
<1>2. CASE UNCHANGED <<pc, TaskData, FutureTaskData>>
  <2>1. \A t : Now(t)' = Now(t)
    BY <1>2 DEF Now
  <2>2. \A t : ThreadOwn(Now(t), t, trace) => ThreadOwn(Now(t)', t, trace')
    BY <2>1
  <2> QED
    BY <1>1, <1>2, <2>2 DEF OwnInv
<1>3. CASE pc # "Reading" /\ pc' # "Reading"
  BY <1>1, <1>3 DEF OwnInv
<1> QED
  BY <1>2, <1>3

\* Every step keeps the invariant.
LEMMA OwnNext == IInv /\ InTime /\ OwnInv /\ [Next]_vars => OwnInv'
<1> SUFFICES ASSUME IInv, InTime, OwnInv, [Next]_vars
             PROVE  OwnInv'
  OBVIOUS
<1>1. ASSUME NEW t \in Thread, ReadState(t) \/ ReadEvent(t) \/ SkipCommunication(t)
      PROVE  OwnInv'
  BY <1>1, OwnRead
<1>2. CASE EndOfFile
  BY <1>2, OwnEnd
<1>3. CASE ClusterAnalysis \/ StartWriting \/ Finish
  BY <1>3, OwnStays DEF ClusterAnalysis, StartWriting, Finish
<1>4. CASE CloseAndOpen \/ Open \/ OpenAgain \/ Close \/ Copy
  BY <1>4, OwnStays DEF CloseAndOpen, Open, OpenAgain, Close, Copy, NextRecord
<1>5. CASE Terminated \/ UNCHANGED vars
  BY <1>5, OwnStays DEF Terminated, vars
<1> QED
  BY <1>1, <1>2, <1>3, <1>4, <1>5 DEF Next

\* The counters of every burst that is not spoilt are the sums of what its thread met
\* inside it and, up to a change of the group of counters, at its end: no value is given
\* to the burst before or after, whatever the order of the records of one time.  And what
\* is behind a change spoils the next burst at most, or the one after when the record has
\* a second change.  A burst with values at its end keeps only types that were met at its
\* end or at that of an earlier state of its thread (PRVStatesDataExtractor::CheckEvent,
\* ParametersManager::NewData).
THEOREM CountersRight == Spec => []CountersAreOwn
<1>1. Init => InTime /\ OwnInv
  BY InTimeInit, OwnInit
<1>2. IInv /\ InTime /\ OwnInv /\ [Next]_vars => InTime' /\ OwnInv'
  BY InTimeNext, OwnNext
<1>3. IInv /\ OwnInv => CountersAreOwn
  <2> SUFFICES ASSUME IInv, OwnInv, NEW k \in DOMAIN AllBursts,
                      ~ Spoilt(trace, AllBursts[k].thread, AllBursts[k])
               PROVE  LET b == AllBursts[k]
                          own == Own(trace, b.thread, b)
                      IN /\ Types(EndValues(trace, b.thread, b)) \subseteq DOMAIN b.data
                         /\ DOMAIN b.data \subseteq DOMAIN own \cup {DURATION_EVT_TYPE}
                         /\ \A type \in DOMAIN b.data \cap DOMAIN own : b.data[type] = own[type]
                         /\ Types(EndValues(trace, b.thread, b)) # {} => DOMAIN b.data \subseteq
                              EndTypes(trace, b.thread, b.EndTime) \cup {DURATION_EVT_TYPE}
    BY DEF CountersAreOwn
  <2>1. IsSequence(AllBursts) /\ BurstsOwn(AllBursts)
    BY OwnWhileReading DEF OwnInv, IInv, Shapes
  <2>2. k \in 1 .. Len(AllBursts)
    BY <2>1, SequenceDomain
  <2>3. BurstOwn(AllBursts[k], AllBursts[k].thread, trace)
    BY <2>1, <2>2 DEF BurstsOwn
  <2> QED
    BY <2>3 DEF BurstOwn
<1> QED
  BY <1>1, <1>2, <1>3, Invariant, PTL DEF Spec
=============================================================================
