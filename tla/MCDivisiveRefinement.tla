------------------------ MODULE MCDivisiveRefinement ------------------------
\* Instances of DivisiveRefinement.
EXTENDS DivisiveRefinement

\* Two tasks that take turns, and bursts of one length but the second.
TwoTasks  == [b \in 1 .. N |-> b % 2]
Durations == [b \in 1 .. N |-> IF b = 2 THEN 2 ELSE 1]

\* Four bursts in the layouts where 1 and 3, of one task, are within Eps at no more steps
\* than 2 and 4, of the other: about half of all.
Small == {[n |-> 4, minPoints |-> 2, within |-> w] :
            w \in {v \in [PairsOf(4) -> 0 .. Steps] : v[{1, 3}] <= v[{2, 4}]}}

\* Those with a cluster at the first level.
Clustered == {in \in Small : \E e \in PairsOf(4) : in.within[e] > 0}

\* Eight bursts on a line, three of them pairs.  A gap of 1 is within Eps at all steps,
\* one of 5 at none; the two bursts before the last pair belong to clusters or are noise.
Eps == <<4, 2, 1>>

Line(gaps) ==
  LET Distance(p, q) == MapThenSumSet(LAMBDA i : gaps[i], p .. (q - 1))
  IN  [e \in PairsOf(8) |->
         Cardinality({l \in 1 .. Steps : Distance(Min(e), Max(e)) <= Eps[l]})]

Lines == {[n |-> 8, minPoints |-> 2, within |-> Line(<<1, a, 1, b, c, d, 1>>)] :
            a, b, c, d \in {2, 4, 5}}

AllLayouts == Small \cup Lines
=============================================================================
