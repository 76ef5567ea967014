---------------------- MODULE MCAggregativeRefinement ----------------------
\* Instances of AggregativeRefinement.
EXTENDS AggregativeRefinement, TLC

\* Two tasks that take turns, and bursts of one length but the last.
TwoTasks   == [b \in 1 .. N |-> b % 2]
Durations  == [b \in 1 .. N |-> IF b = N THEN 2 ELSE 1]

\* Four bursts.  Those of one task get within reach at the second level or never.
\* Layouts that are others read backwards are left out.
Small == {[n |-> 4, minPoints |-> 2, within |-> w] :
            w \in {v \in [PairsOf(4) -> 1 .. (Steps + 1)] :
                     {v[{1, 3}], v[{2, 4}]} \subseteq {2, Steps + 1} /\ v[{1, 2}] <= v[{3, 4}]}}

\* Two stars around bursts 1 and 5.  Burst 4 belongs to the first and gets within
\* reach of the second, which grows at the same time or later.
Star    == {{1, 2}, {1, 3}, {1, 4}, {5, 6}}
Growing == {{4, 5}, {5, 7}, {3, 6}}
Stars   == {[n |-> 7, minPoints |-> 4, within |->
               [e \in PairsOf(7) |-> IF e \in Star THEN 1
                                     ELSE IF e \in Growing THEN g[e] ELSE Steps + 1]] :
              g \in [Growing -> 2 .. (Steps + 1)]}

\* Three pairs of bursts: the first two are clusters that join at the second level, the
\* third is noise until the last.
Late == ({1, 2} :> 1) @@ ({3, 4} :> 1) @@ ({2, 3} :> 2) @@ ({5, 6} :> Steps)
Trio == [n |-> 6, minPoints |-> 2, within |->
           [e \in PairsOf(6) |-> IF e \in DOMAIN Late THEN Late[e] ELSE Steps + 1]]

AllLayouts == Small \cup Stars \cup {Trio}
=============================================================================
