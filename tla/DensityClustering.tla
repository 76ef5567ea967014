------------------------- MODULE DensityClustering -------------------------
(***************************************************************************)
(* What a density-based cluster analysis promises: in one step, a labelling *)
(* of the points in which the clusters are the density-connected sets of   *)
(* core points, a border point belongs to one of the clusters it touches,  *)
(* and only points no core point reaches are noise.  Which cluster a       *)
(* border point of several goes to, and how clusters are numbered, is left *)
(* open.                                                                   *)
(***************************************************************************)
EXTENDS Integers

VARIABLES
  n,        \* number of points
  near,     \* the epsilon graph
  cores,    \* the points with MinPoints points within Eps
  answer,   \* the labelling, << >> until it is given
  answered

vars == <<n, near, cores, answer, answered>>

\* q is reached from p through core points: every set of core points that
\* contains p and is closed under nearness contains q.
DensityConnected(p, q) ==
  \A S \in SUBSET cores :
    p \in S /\ (\A s \in S : near[s] \cap cores \subseteq S) => q \in S

\* The labellings that answer the analysis: 0 is noise, 1 .. k the clusters.
Answers(l) ==
  /\ DOMAIN l = 1 .. n
  /\ \A p, q \in cores : l[p] = l[q] <=> DensityConnected(p, q)
  /\ \A p \in cores : l[p] >= 1 /\ 1 .. l[p] \subseteq {l[q] : q \in cores}
  /\ \A p \in (1 .. n) \ cores :
       IF near[p] \cap cores = {} THEN l[p] = 0
                                  ELSE \E q \in near[p] \cap cores : l[p] = l[q]

Init == answer = << >> /\ ~answered

Answer ==
  /\ ~answered
  /\ Answers(answer')
  /\ answered'
  /\ UNCHANGED <<n, near, cores>>

Spec == Init /\ [][Answer]_vars
=============================================================================
