---------------------------- MODULE DataLemmas ----------------------------
(***************************************************************************)
(* Facts about numbers and sequences that the proofs about several         *)
(* components need: induction stated with sets, and pieces of a sequence.  *)
(***************************************************************************)
EXTENDS Integers, Bags, Functions, FiniteSetTheorems, SequenceTheorems,
        WellFoundedInduction, TLAPS

\* As many different elements as a set has are all of them.
LEMMA InjectionOnto ==
  ASSUME NEW S, IsFiniteSet(S), NEW f \in [1 .. Cardinality(S) -> S], IsInjective(f)
  PROVE  Range(f) = S
<1>1. Cardinality(S) \in Nat
  BY FS_CardinalityType
<1>2. Cardinality(1 .. Cardinality(S)) = Cardinality(S)
  BY <1>1, FS_Interval
<1>3. f \in Injection(1 .. Cardinality(S), S)
  BY DEF Injection
<1>4. f \in Surjection(1 .. Cardinality(S), S)
  BY <1>2, <1>3, FS_Injection
<1> QED
  BY <1>4 DEF Surjection, Range

\* What is in two sequences together.
LEMMA RangeConcat ==
  ASSUME NEW S, NEW s \in Seq(S), NEW t \in Seq(S)
  PROVE  s \o t \in Seq(S) /\ Range(s \o t) = Range(s) \cup Range(t)
<1> DEFINE st == s \o t
<1>1. /\ st \in Seq(S) /\ Len(st) = Len(s) + Len(t) /\ Len(s) \in Nat /\ Len(t) \in Nat
      /\ \A k \in 1 .. Len(s) : st[k] = s[k]
      /\ \A k \in 1 .. Len(t) : st[Len(s) + k] = t[k]
  OBVIOUS
<1> HIDE DEF st
<1>2. ASSUME NEW k \in 1 .. Len(st)
      PROVE  \/ k \in 1 .. Len(s) /\ st[k] = s[k]
             \/ k - Len(s) \in 1 .. Len(t) /\ st[k] = t[k - Len(s)]
  <2>1. CASE k <= Len(s)
    BY <1>1, <2>1
  <2>2. CASE k > Len(s)
    <3>1. k - Len(s) \in 1 .. Len(t) /\ Len(s) + (k - Len(s)) = k
      BY <1>1, <2>2
    <3> QED
      BY <1>1, <3>1
  <2> QED
    BY <1>1, <2>1, <2>2
<1>3. \A k \in 1 .. Len(t) : Len(s) + k \in 1 .. Len(st)
  BY <1>1
<1>4. 1 .. Len(s) \subseteq 1 .. Len(st)
  BY <1>1
<1>5. DOMAIN st = 1 .. Len(st) /\ DOMAIN s = 1 .. Len(s) /\ DOMAIN t = 1 .. Len(t)
  BY <1>1
<1>6. ASSUME NEW x \in Range(st)
      PROVE  x \in Range(s) \cup Range(t)
  <2>1. PICK k \in 1 .. Len(st) : st[k] = x
    BY <1>5, <1>6 DEF Range
  <2> QED
    BY <1>2, <1>5, <2>1 DEF Range
<1>7. Range(s) \subseteq Range(st)
  BY <1>1, <1>4, <1>5 DEF Range
<1>8. ASSUME NEW x \in Range(t)
      PROVE  x \in Range(st)
  <2>1. PICK k \in 1 .. Len(t) : t[k] = x
    BY <1>5, <1>8 DEF Range
  <2>2. Len(s) + k \in 1 .. Len(st) /\ st[Len(s) + k] = x
    BY <1>1, <1>3, <2>1
  <2> QED
    BY <1>5, <2>2 DEF Range
<1>9. st \in Seq(S)
  BY <1>1
<1> QED
  BY <1>6, <1>7, <1>8, <1>9 DEF st

\* Every nonempty set of numbers has a least one.
LEMMA LeastNumber ==
  ASSUME NEW T \in SUBSET Nat, T # {}
  PROVE  \E n \in T : \A m \in T : n <= m
<1>1. \E x \in T : \A y \in T : <<y, x>> \notin OpToRel(<, Nat)
  BY NatLessThanWellFounded, WFMin, Zenon
<1>2. \A x, y \in Nat : y < x => <<y, x>> \in OpToRel(<, Nat)
  BY DEF OpToRel
<1>3. \E x \in T : \A y \in T : ~(y < x)
  BY <1>1, <1>2, Zenon
<1> HIDE <1>1, <1>2
<1> QED
  BY <1>3

\* A set that has 0, and with a number the next one, has all of them.
LEMMA NumberInduction ==
  ASSUME NEW S, 0 \in S, \A n \in Nat : n \in S => n + 1 \in S
  PROVE  Nat \subseteq S
<1> SUFFICES ASSUME Nat \ S # {}
             PROVE  FALSE
  OBVIOUS
<1>1. PICK n \in Nat \ S : \A m \in Nat \ S : n <= m
  BY LeastNumber
<1>2. n # 0 /\ n - 1 \in Nat /\ n - 1 \in S
  BY <1>1
<1> QED
  BY <1>1, <1>2

\* Induction up to a bound.
LEMMA BoundedInduction ==
  ASSUME NEW K \in Nat, NEW S, 0 \in S, \A k \in 1 .. K : k - 1 \in S => k \in S
  PROVE  0 .. K \subseteq S
<1> DEFINE T == {n \in Nat : n \in 0 .. K => n \in S}
<1>1. 0 \in T
  OBVIOUS
<1>2. ASSUME NEW n \in Nat, n \in T
      PROVE  n + 1 \in T
  <2> SUFFICES ASSUME n + 1 \in 0 .. K
               PROVE  n + 1 \in S
    OBVIOUS
  <2>1. n \in S /\ n + 1 \in 1 .. K /\ (n + 1) - 1 = n
    BY <1>2
  <2> QED
    BY <2>1
<1> HIDE DEF T
<1>3. Nat \subseteq T
  BY <1>1, <1>2, NumberInduction
<1> QED
  BY <1>3 DEF T

\* The values of a recursive function on 0 .. K: the first, and the next from the last.
Steppable(K, V, start, G) == /\ K \in Nat /\ start \in V
                             /\ \A v \in V, k \in 1 .. K : G[k][v] \in V

Iterated(K, V, start, G) ==
  \E f \in [0 .. K -> V] : f[0] = start /\ \A k \in 1 .. K : f[k] = G[k][f[k - 1]]

\* There is such a function.
LEMMA IterationExists ==
  ASSUME NEW K, NEW V, NEW start, NEW G, Steppable(K, V, start, G)
  PROVE  Iterated(K, V, start, G)
<1> USE DEF Steppable, Iterated
<1> DEFINE Upto(f, n) == f[0] = start /\ \A k \in 1 .. n : f[k] = G[k][f[k - 1]]
           S == {n \in 0 .. K : \E f \in [0 .. K -> V] : Upto(f, n)}
<1>1. 0 \in S
  <2> DEFINE f == [k \in 0 .. K |-> start]
  <2>1. f \in [0 .. K -> V] /\ f[0] = start
    OBVIOUS
  <2>2. 1 .. 0 = {}
    OBVIOUS
  <2> HIDE DEF f
  <2>3. Upto(f, 0)
    BY <2>1, <2>2
  <2> QED
    BY <2>1, <2>3
<1>2. ASSUME NEW n \in 1 .. K, n - 1 \in S
      PROVE  n \in S
  <2>1. PICK f \in [0 .. K -> V] : Upto(f, n - 1)
    BY <1>2
  <2> DEFINE g == [k \in 0 .. K |-> IF k = n THEN G[n][f[n - 1]] ELSE f[k]]
  <2>2. g \in [0 .. K -> V]
    OBVIOUS
  <2>3. \A k \in 0 .. K : k # n => g[k] = f[k]
    OBVIOUS
  <2>4. g[n] = G[n][f[n - 1]] /\ n - 1 \in 0 .. K
    OBVIOUS
  <2> HIDE DEF g
  <2>5. ASSUME NEW k \in 1 .. n
        PROVE  g[k] = G[k][g[k - 1]]
    <3>1. CASE k = n
      BY <2>3, <2>4, <3>1
    <3>2. CASE k # n
      <4>1. k \in 1 .. (n - 1) /\ k - 1 # n /\ k - 1 \in 0 .. K /\ k \in 0 .. K
        BY <3>2
      <4> QED
        BY <2>1, <2>3, <3>2, <4>1
    <3> QED
      BY <3>1, <3>2
  <2>6. g[0] = start
    BY <2>1, <2>3
  <2> QED
    BY <2>2, <2>5, <2>6
<1> HIDE DEF S
<1>3. 0 .. K \subseteq S
  BY <1>1, <1>2, BoundedInduction
<1> QED
  BY <1>3 DEF S

\* A function on the subsets of S whose values depend on those of smaller subsets.
SetSteppable(S, V, G) ==
  /\ IsFiniteSet(S) /\ V # {}
  /\ \A T \in SUBSET S, f \in [SUBSET S -> V] : G[T][f] \in V
  /\ \A T \in SUBSET S, f, g \in [SUBSET S -> V] :
       (\A U \in SUBSET T : U # T => f[U] = g[U]) => G[T][f] = G[T][g]

SetIterated(S, V, G) == \E f \in [SUBSET S -> V] : \A T \in SUBSET S : f[T] = G[T][f]

\* There is such a function.
LEMMA SetRecursionExists ==
  ASSUME NEW S, NEW V, NEW G, SetSteppable(S, V, G)
  PROVE  SetIterated(S, V, G)
<1> USE DEF SetSteppable, SetIterated
<1> DEFINE Below(f, n) == \A T \in SUBSET S : Cardinality(T) < n => f[T] = G[T][f]
           N == {n \in Nat : \E f \in [SUBSET S -> V] : Below(f, n)}
<1>1. \A T \in SUBSET S : IsFiniteSet(T) /\ Cardinality(T) \in Nat
  BY FS_Subset, FS_CardinalityType
<1>2. 0 \in N
  <2>1. PICK v \in V : TRUE
    OBVIOUS
  <2>2. [T \in SUBSET S |-> v] \in [SUBSET S -> V]
    OBVIOUS
  <2>3. \A f : Below(f, 0)
    BY <1>1
  <2> HIDE DEF Below
  <2> QED
    BY <2>2, <2>3
<1>3. ASSUME NEW n \in Nat, n \in N
      PROVE  n + 1 \in N
  <2>1. PICK f \in [SUBSET S -> V] : Below(f, n)
    BY <1>3
  <2> DEFINE g == [T \in SUBSET S |-> G[T][f]]
  <2>2. g \in [SUBSET S -> V] /\ \A T \in SUBSET S : g[T] = G[T][f]
    OBVIOUS
  <2> HIDE DEF g
  <2>3. ASSUME NEW T \in SUBSET S, Cardinality(T) < n + 1
        PROVE  g[T] = G[T][g]
    <3>1. ASSUME NEW U \in SUBSET T, U # T
          PROVE  f[U] = g[U]
      <4>1. /\ Cardinality(U) <= Cardinality(T) /\ Cardinality(U) # Cardinality(T)
            /\ U \in SUBSET S
        BY <1>1, <3>1, FS_Subset
      <4>2. Cardinality(U) < n
        BY <1>1, <2>3, <4>1
      <4> QED
        BY <2>1, <2>2, <4>1, <4>2
    <3> QED
      BY <2>2, <3>1
  <2> QED
    BY <2>2, <2>3
<1> HIDE DEF N
<1>4. Nat \subseteq N
  BY <1>2, <1>3, NumberInduction
<1>5. PICK f \in [SUBSET S -> V] : Below(f, Cardinality(S) + 1)
  <2>1. Cardinality(S) + 1 \in N
    BY <1>1, <1>4
  <2> QED
    BY <2>1 DEF N
<1>6. \A T \in SUBSET S : Cardinality(T) < Cardinality(S) + 1
  <2> SUFFICES ASSUME NEW T \in SUBSET S
               PROVE  Cardinality(T) < Cardinality(S) + 1
    OBVIOUS
  <2>1. Cardinality(T) <= Cardinality(S)
    BY FS_Subset
  <2> QED
    BY <1>1, <2>1
<1> QED
  BY <1>5, <1>6

-----------------------------------------------------------------------------
\* What follows the first a elements of s, up to the b-th: the packets of a script
\* that have been sent and not been taken.
Segment(s, a, b) == [i \in 1 .. (b - a) |-> s[a + i]]

\* A segment is empty when nothing follows.
LEMMA SegmentEmpty ==
  ASSUME NEW s, NEW a \in Int
  PROVE  Segment(s, a, a) = << >>
BY DEF Segment

\* One that is not has the next element first, and loses it when that is taken.
LEMMA SegmentHead ==
  ASSUME NEW s, NEW a \in Int, NEW b \in Int, a < b
  PROVE  /\ Segment(s, a, b) # << >>
         /\ Head(Segment(s, a, b)) = s[a + 1]
         /\ Tail(Segment(s, a, b)) = Segment(s, a + 1, b)
<1> DEFINE seg == Segment(s, a, b)
           S == {s[i] : i \in (a + 1) .. b}
<1>1. b - a \in Nat \ {0} /\ seg \in [1 .. (b - a) -> S]
  BY DEF Segment
<1>2. seg \in Seq(S) /\ Len(seg) = b - a
  BY <1>1
<1>3. /\ seg # << >>
      /\ Head(seg) = seg[1] /\ Tail(seg) \in Seq(S) /\ Len(Tail(seg)) = (b - a) - 1
      /\ \A i \in 1 .. ((b - a) - 1) : Tail(seg)[i] = seg[i + 1]
  BY <1>1, <1>2, HeadTailProperties, EmptySeq
<1>4. Tail(seg) \in [1 .. ((b - a) - 1) -> S]
  BY <1>3, LenProperties
<1>5. \A i \in 1 .. (b - a) : seg[i] = s[a + i]
  BY DEF Segment
<1> HIDE DEF seg
<1>6. ASSUME NEW i \in 1 .. (b - (a + 1))
      PROVE  Tail(seg)[i] = s[(a + 1) + i]
  <2>1. /\ i \in 1 .. ((b - a) - 1) /\ i + 1 \in 1 .. (b - a)
        /\ a + (i + 1) = (a + 1) + i
    BY <1>1
  <2>2. Tail(seg)[i] = seg[i + 1] /\ seg[i + 1] = s[a + (i + 1)]
    BY <1>3, <1>5, <2>1
  <2> QED
    BY <2>1, <2>2
<1>7. Tail(seg) = Segment(s, a + 1, b)
  <2>1. b - (a + 1) = (b - a) - 1
    OBVIOUS
  <2>2. \A i \in 1 .. ((b - a) - 1) : Tail(seg)[i] = s[(a + 1) + i]
    BY <1>6, <2>1
  <2> QED
    BY <1>4, <2>1, <2>2 DEF Segment
<1>8. Head(seg) = s[a + 1]
  BY <1>1, <1>3, <1>5
<1> QED
  BY <1>3, <1>7, <1>8 DEF seg

\* One more element is sent.
LEMMA SegmentAppend ==
  ASSUME NEW s, NEW a \in Int, NEW b \in Int, a <= b
  PROVE  Segment(s, a, b) \o <<s[b + 1]>> = Segment(s, a, b + 1)
BY DEF Segment

\* Two scripts that agree on a segment have the same.
LEMMA SegmentEqual ==
  ASSUME NEW s, NEW t, NEW a \in Int, NEW b \in Int,
         \A i \in (a + 1) .. b : s[i] = t[i]
  PROVE  Segment(s, a, b) = Segment(t, a, b)
BY DEF Segment

\* Two pieces of a script that meet make one.
LEMMA SegmentConcat ==
  ASSUME NEW s, NEW a \in Int, NEW b \in Int, NEW c \in Int, a <= b, b <= c
  PROVE  Segment(s, a, b) \o Segment(s, b, c) = Segment(s, a, c)
BY DEF Segment

\* A sequence of one element with another appended.
LEMMA AppendOne ==
  ASSUME NEW x, NEW y
  PROVE  Append(<<x>>, y) = <<x, y>>
<1> DEFINE S == {x, y}
           s == <<x>>
           t == <<x, y>>
<1>1. s \in Seq(S) /\ Len(s) + 1 = 2 /\ 1 \in 1 .. Len(s) /\ s[1] = x /\ y \in S
  OBVIOUS
<1>2. t = [i \in 1 .. 2 |-> IF i = 1 THEN x ELSE y]
  OBVIOUS
<1> HIDE DEF S, s, t
<1>3. /\ Append(s, y) \in Seq(S) /\ Len(Append(s, y)) = 2
      /\ Append(s, y)[1] = x /\ Append(s, y)[2] = y
  <2>1. /\ Append(s, y) \in Seq(S) /\ Len(Append(s, y)) = Len(s) + 1
        /\ \A i \in 1 .. Len(s) : Append(s, y)[i] = s[i]
        /\ Append(s, y)[Len(s) + 1] = y
    BY <1>1, AppendProperties
  <2> QED
    BY <1>1, <2>1
<1>4. Append(s, y) = [i \in 1 .. 2 |-> IF i = 1 THEN x ELSE y]
  <2> DEFINE a == Append(s, y)
  <2> HIDE DEF a
  <2>1. a \in Seq(S) /\ Len(a) = 2 /\ a[1] = x /\ a[2] = y
    BY <1>3 DEF a
  <2>2. a = [i \in 1 .. 2 |-> a[i]]
    BY <2>1
  <2>3. \A i \in 1 .. 2 : i = 1 \/ i = 2
    OBVIOUS
  <2> QED
    BY <2>1, <2>2, <2>3 DEF a
<1> QED
  BY <1>2, <1>4 DEF s, t

-----------------------------------------------------------------------------
\* How many elements of X have each key: a bag of keys.
Tally(X, key) == [k \in {key[x] : x \in X} |-> Cardinality({x \in X : key[x] = k})]

\* The bags of elements of K.
Counts(K) == UNION {[D -> Nat \ {0}] : D \in SUBSET K}

\* The sizes of two sets with nothing in common add up.
LEMMA DisjointUnion ==
  ASSUME NEW S, NEW T, IsFiniteSet(S), IsFiniteSet(T), S \cap T = {}
  PROVE  /\ IsFiniteSet(S \cup T)
         /\ Cardinality(S) \in Nat /\ Cardinality(T) \in Nat
         /\ Cardinality(S \cup T) = Cardinality(S) + Cardinality(T)
<1>1. Cardinality(S) \in Nat /\ Cardinality(T) \in Nat /\ Cardinality(S \cap T) = 0
  BY FS_CardinalityType, FS_EmptySet
<1>2. IsFiniteSet(S \cup T)
      /\ Cardinality(S \cup T) = Cardinality(S) + Cardinality(T) - Cardinality(S \cap T)
  BY FS_Union, Zenon
<1> HIDE <1>2
<1>3. Cardinality(S \cup T) = Cardinality(S) + Cardinality(T)
  BY <1>1, <1>2
<1> QED
  BY <1>1, <1>2, <1>3

\* A finite set has a finite image.
LEMMA FiniteImage ==
  ASSUME NEW S, IsFiniteSet(S), NEW f, NEW T, \A t \in T : \E x \in S : f[x] = t
  PROVE  IsFiniteSet(T)
<1> DEFINE S1 == {x \in S : f[x] \in T}
           g == [x \in S1 |-> f[x]]
<1>1. g \in [S1 -> T] /\ \A t \in T : \E x \in S1 : g[x] = t
  OBVIOUS
<1>2. S1 \in SUBSET S
  OBVIOUS
<1>3. IsFiniteSet(S1)
  BY <1>2, FS_Subset
<1> HIDE DEF g, S1
<1>4. g \in Surjection(S1, T)
  BY <1>1 DEF Surjection
<1> QED
  BY <1>3, <1>4, FS_Surjection

\* The tallies of two sets with nothing in common add up.
LEMMA TallyUnion ==
  ASSUME NEW X, NEW Y, NEW key, IsFiniteSet(X), IsFiniteSet(Y), X \cap Y = {}
  PROVE  Tally(X \cup Y, key) = Tally(X, key) (+) Tally(Y, key)
<1> DEFINE of(Z, k) == {z \in Z : key[z] = k}
<1>1. ASSUME NEW k
      PROVE  /\ Cardinality(of(X, k)) \in Nat /\ Cardinality(of(Y, k)) \in Nat
             /\ Cardinality(of(X \cup Y, k)) = Cardinality(of(X, k)) + Cardinality(of(Y, k))
  <2>1. IsFiniteSet(of(X, k)) /\ IsFiniteSet(of(Y, k))
    BY FS_Subset
  <2>2. of(X \cup Y, k) = of(X, k) \cup of(Y, k) /\ of(X, k) \cap of(Y, k) = {}
    OBVIOUS
  <2> HIDE DEF of
  <2> QED
    BY <2>1, <2>2, DisjointUnion
<1>2. \A Z, k : k \notin {key[z] : z \in Z} => of(Z, k) = {}
  OBVIOUS
<1>3. Cardinality({}) = 0
  BY FS_EmptySet
<1>4. \A Z : Tally(Z, key) = [k \in {key[z] : z \in Z} |-> Cardinality(of(Z, k))]
  BY DEF Tally
<1>5. {key[x] : x \in X \cup Y} = {key[x] : x \in X} \cup {key[x] : x \in Y}
  OBVIOUS
<1> DEFINE D(Z) == {key[z] : z \in Z}
<1> HIDE DEF of, D
<1>6. ASSUME NEW k \in D(X) \cup D(Y)
      PROVE  Cardinality(of(X \cup Y, k)) = (IF k \in D(X) THEN Cardinality(of(X, k)) ELSE 0)
                                             + (IF k \in D(Y) THEN Cardinality(of(Y, k)) ELSE 0)
  <2>1. k \notin D(X) => Cardinality(of(X, k)) = 0
    BY <1>2, <1>3 DEF D
  <2>2. k \notin D(Y) => Cardinality(of(Y, k)) = 0
    BY <1>2, <1>3 DEF D
  <2> QED
    BY <1>1, <2>1, <2>2
<1>7. /\ Tally(X \cup Y, key) = [k \in D(X) \cup D(Y) |-> Cardinality(of(X \cup Y, k))]
      /\ Tally(X, key) = [k \in D(X) |-> Cardinality(of(X, k))]
      /\ Tally(Y, key) = [k \in D(Y) |-> Cardinality(of(Y, k))]
  BY <1>4, <1>5 DEF D
<1> QED
  BY <1>6, <1>7 DEF (+)

\* The sum, in whatever order, of the tallies of sets with nothing in common is the
\* tally of their union: what the filters and the front-end make of the packets they add.
LEMMA FoldTally ==
  ASSUME NEW I, IsFiniteSet(I), NEW X, NEW key,
         \A i \in I : IsFiniteSet(X[i]),
         \A i, j \in I : i # j => X[i] \cap X[j] = {}
  PROVE  /\ FoldFunction((+), EmptyBag, [i \in I |-> Tally(X[i], key)])
              = Tally(UNION {X[i] : i \in I}, key)
         /\ IsFiniteSet(UNION {X[i] : i \in I})
<1> DEFINE fun == [i \in I |-> Tally(X[i], key)]
           all(s) == UNION {X[i] : i \in s}
           closed == [s \in SUBSET I |-> Tally(all(s), key)]
           Add(f, s) == IF s = {} THEN EmptyBag
                    ELSE fun[CHOOSE x \in s : TRUE] (+) f[s \ {CHOOSE x \in s : TRUE}]
           sum == CHOOSE f : f = [s \in SUBSET I |-> Add(f, s)]
<1>1. FoldFunction((+), EmptyBag, fun) = sum[I]
  <2>1. DOMAIN fun = I
    OBVIOUS
  <2> HIDE DEF fun
  <2> QED
    BY <2>1, Zenon DEF FoldFunction, FoldFunctionOnSet, MapThenFoldSet
<1>2. \A s \in SUBSET I : IsFiniteSet(all(s))
  <2> SUFFICES ASSUME NEW s \in SUBSET I
               PROVE  IsFiniteSet(all(s))
    OBVIOUS
  <2>0. IsFiniteSet(s)
    BY FS_Subset
  <2>1. IsFiniteSet({X[i] : i \in s})
    <3> DEFINE T == {X[i] : i \in s}
    <3>1. \A t \in T : \E i \in s : X[i] = t
      OBVIOUS
    <3> HIDE DEF T
    <3>2. IsFiniteSet(T)
      BY <2>0, <3>1, FiniteImage
    <3> QED
      BY <3>2 DEF T
  <2> QED
    BY <2>1, FS_UNION
<1>3. ASSUME NEW s \in SUBSET I, s # {}
      PROVE  LET x == CHOOSE x \in s : TRUE
             IN  /\ x \in s /\ s \ {x} \in SUBSET I
                 /\ closed[s] = fun[x] (+) closed[s \ {x}]
  <2> DEFINE x == CHOOSE x \in s : TRUE
  <2>1. x \in s
    BY <1>3
  <2> HIDE DEF x
  <2>2. all(s) = X[x] \cup all(s \ {x}) /\ X[x] \cap all(s \ {x}) = {}
    BY <2>1
  <2>3. IsFiniteSet(X[x]) /\ IsFiniteSet(all(s \ {x}))
    BY <1>2, <2>1
  <2>4. fun[x] = Tally(X[x], key) /\ closed[s] = Tally(all(s), key)
        /\ closed[s \ {x}] = Tally(all(s \ {x}), key)
    BY <2>1
  <2> HIDE DEF all, fun, closed
  <2>5. Tally(X[x] \cup all(s \ {x}), key) = Tally(X[x], key) (+) Tally(all(s \ {x}), key)
    <3> DEFINE A == X[x]
               B == all(s \ {x})
    <3>1. IsFiniteSet(A) /\ IsFiniteSet(B) /\ A \cap B = {}
      BY <2>2, <2>3
    <3> HIDE DEF A, B
    <3>2. Tally(A \cup B, key) = Tally(A, key) (+) Tally(B, key)
      BY <3>1, TallyUnion
    <3> QED
      BY <3>2 DEF A, B
  <2> QED
    BY <2>1, <2>2, <2>4, <2>5 DEF x
<1>4. closed[{}] = EmptyBag
  BY DEF Tally, EmptyBag, SetToBag
<1> HIDE DEF fun, all
<1>5. closed = [s \in SUBSET I |-> Add(closed, s)]
  <2>1. \A s \in SUBSET I : closed[s] = Add(closed, s)
    BY <1>3, <1>4
  <2>2. closed = [s \in SUBSET I |-> closed[s]]
    OBVIOUS
  <2> HIDE DEF closed, Add
  <2> QED
    BY <2>1, <2>2
<1> HIDE DEF closed
<1>6. sum = [s \in SUBSET I |-> Add(sum, s)]
  <2> HIDE DEF Add
  <2> QED
    BY <1>5
<1> HIDE DEF sum
<1>7. \A s \in SUBSET I : IsFiniteSet(s) /\ Cardinality(s) \in Nat
  BY FS_Subset, FS_CardinalityType
<1> DEFINE S == {n \in Nat : \A s \in SUBSET I : Cardinality(s) = n => sum[s] = closed[s]}
<1>8. 0 \in S
  <2> SUFFICES ASSUME NEW s \in SUBSET I, Cardinality(s) = 0
               PROVE  sum[s] = closed[s]
    OBVIOUS
  <2>1. s = {}
    BY <1>7, FS_EmptySet
  <2> QED
    BY <1>4, <1>6, <2>1
<1>9. ASSUME NEW n \in Nat, n \in S
      PROVE  n + 1 \in S
  <2> SUFFICES ASSUME NEW s \in SUBSET I, Cardinality(s) = n + 1
               PROVE  sum[s] = closed[s]
    OBVIOUS
  <2> DEFINE x == CHOOSE x \in s : TRUE
  <2>1. s # {}
    BY FS_EmptySet
  <2>2. x \in s /\ s \ {x} \in SUBSET I /\ closed[s] = fun[x] (+) closed[s \ {x}]
    BY <1>3, <2>1
  <2>3. sum[s] = fun[x] (+) sum[s \ {x}]
    BY <1>6, <2>1
  <2> HIDE DEF x
  <2>4. Cardinality(s \ {x}) = n
    <3>1. Cardinality(s \ {x}) = Cardinality(s) - 1
      BY <1>7, <2>2, FS_RemoveElement, Zenon
    <3> QED
      BY <3>1
  <2>5. sum[s \ {x}] = closed[s \ {x}]
    BY <1>9, <2>2, <2>4
  <2> QED
    BY <2>2, <2>3, <2>5
<1> HIDE DEF S
<1>10. Nat \subseteq S
  BY <1>8, <1>9, NumberInduction
<1>11. sum[I] = closed[I]
  BY <1>7, <1>10 DEF S
<1> QED
  BY <1>1, <1>2, <1>11 DEF fun, closed, all

\* A tally is a bag of keys.
LEMMA TallyType ==
  ASSUME NEW X, IsFiniteSet(X), NEW key, NEW K, \A x \in X : key[x] \in K
  PROVE  Tally(X, key) \in Counts(K)
<1> DEFINE D == {key[x] : x \in X}
           of(k) == {x \in X : key[x] = k}
<1>1. D \in SUBSET K
  OBVIOUS
<1>2. ASSUME NEW k \in D
      PROVE  Cardinality(of(k)) \in Nat \ {0}
  <2>1. IsFiniteSet(of(k)) /\ of(k) # {}
    BY FS_Subset
  <2> HIDE DEF of
  <2> QED
    BY <2>1, FS_CardinalityType, FS_EmptySet
<1>3. Tally(X, key) = [k \in D |-> Cardinality(of(k))]
  BY DEF Tally
<1> HIDE DEF D, of
<1>4. Tally(X, key) \in [D -> Nat \ {0}]
  BY <1>2, <1>3
<1> QED
  BY <1>1, <1>4 DEF Counts

\* What is in Counts is a bag.
LEMMA CountsBag ==
  ASSUME NEW K, NEW B \in Counts(K)
  PROVE  IsABag(B) /\ B \in [DOMAIN B -> Nat \ {0}]
<1>1. PICK D \in SUBSET K : B \in [D -> Nat \ {0}]
  BY DEF Counts
<1>2. \A n \in Nat \ {0} : n > 0
  OBVIOUS
<1> QED
  BY <1>1, <1>2 DEF IsABag
=============================================================================
