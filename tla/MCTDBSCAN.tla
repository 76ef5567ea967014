----------------------------- MODULE MCTDBSCAN -----------------------------
(* Model checking of the TreeDBSCAN protocol on a deep and a flat tree.     *)
EXTENDS TDBSCAN

CONSTANTS w1, w2, w3, c, fe

\* All ways to lay the bursts in two clumps, up to the names of the bursts a
\* back-end extracts in one round and of the two clumps.
InTwoClumps(bursts, home, arrives) ==
  {l \in [bursts -> 1 .. 2] :
     /\ \A a, b \in bursts :
          a < b /\ home[a] = home[b] /\ arrives[a] = arrives[b] => l[a] <= l[b]
     /\ Cardinality({b \in bursts : l[b] = 1}) >= Cardinality({b \in bursts : l[b] = 2})}

\* w1 and w2 under a communication process, w3 under the front-end; two rounds.
DeepParent  == w1 :> c @@ w2 :> c @@ w3 :> fe @@ c :> fe
DeepBurst   == 1 .. 11
DeepHome    == <<w1, w1, w1, w1, w2, w2, w2, w3, w3, w3, w3>>
DeepArrives == << 1,  1,  1,  1,  1,  1,  1,  1,  1,  1,  2>>
DeepLayouts == InTwoClumps(DeepBurst, DeepHome, DeepArrives)

\* Two back-ends under the front-end, one of them with noise only.
FlatParent  == w1 :> fe @@ w2 :> fe
FlatBurst   == 1 .. 6
FlatHome    == <<w1, w1, w1, w1, w2, w2>>
FlatArrives == [b \in FlatBurst |-> 1]
FlatLayouts == InTwoClumps(FlatBurst, FlatHome, FlatArrives)
=============================================================================
