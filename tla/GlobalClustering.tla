-------------------------- MODULE GlobalClustering --------------------------
(***************************************************************************)
(* What a round of the distributed analysis promises: it shares the bursts *)
(* of all back-ends out between clusters and noise, names each burst by a  *)
(* cluster of this round or an earlier one, and counts the bursts of each  *)
(* name.  How many clusters a clump is shared out into is left open, and   *)
(* so is the numbering, and which of several clusters of its clump names a *)
(* burst; a burst that no dense cluster was made from may be noise.        *)
(***************************************************************************)
EXTENDS Integers, FiniteSets

CONSTANTS
  MinPoints,
  Processes   \* whose statistics are in a report

VARIABLES
  clump,      \* clump[b]: where burst b lies
  bursts,     \* the bursts extracted so far
  phase,      \* "idle", "gathering", "clustered" or "named"
  hulls,      \* the clusters of the round, sets of bursts
  noise,      \* the bursts of the round in no hull
  known,      \* the clusters of MinPoints bursts and more, of all rounds
  ids,        \* the id of each burst, 0 for noise; << >> until they are given
  report,     \* how many bursts have each id
  reporters   \* the processes whose statistics have arrived

vars == <<clump, bursts, phase, hulls, noise, known, ids, report, reporters>>

\* Hulls and noise share the bursts out, and a hull does not join clumps.
Clusters(hh, rest) ==
  /\ rest \cup UNION hh = bursts /\ rest \cap UNION hh = {}
  /\ \A G, H \in hh : G # H => G \cap H = {}
  /\ \A H \in hh : \A a, b \in H : clump[a] = clump[b]

Near(G, H) == \E g \in G, h \in H : clump[g] = clump[h]

\* A burst has the id of a known cluster of its clump or is noise, and clumps do not
\* share ids.  Those in a known cluster are not noise, and have one id if no other is
\* known of that clump.
Names(l) ==
  /\ DOMAIN l = bursts
  /\ \A b \in bursts : l[b] # 0 => \E H \in known : Near({b}, H)
  /\ \A a, b \in bursts : l[a] = l[b] /\ l[a] # 0 => clump[a] = clump[b]
  /\ \A H \in known : \A a, b \in bursts \cap H :
       l[a] # 0 /\ (l[a] = l[b] \/ \E G \in known \ {H} : Near(G, H))

Init ==
  /\ phase = "idle"
  /\ bursts = {} /\ hulls = {} /\ noise = {} /\ known = {}
  /\ ids = << >> /\ report = << >> /\ reporters = {}

Begin ==
  /\ phase = "idle" /\ phase' = "gathering"
  /\ hulls' = {} /\ noise' = {}
  /\ ids' = << >> /\ report' = << >> /\ reporters' = {}
  /\ UNCHANGED <<clump, bursts, known>>

Gather ==
  /\ phase = "gathering"
  /\ bursts \subseteq bursts'
  /\ UNCHANGED <<clump, phase, hulls, noise, known, ids, report, reporters>>

Cluster ==
  /\ phase = "gathering" /\ phase' = "clustered"
  /\ Clusters(hulls', noise')
  /\ known' = known \cup {H \in hulls' : Cardinality(H) >= MinPoints}
  /\ UNCHANGED <<clump, bursts, ids, report, reporters>>

Name ==
  /\ phase = "clustered" /\ phase' = "named"
  /\ Names(ids')
  /\ report' = [k \in {ids'[b] : b \in bursts} |-> Cardinality({b \in bursts : ids'[b] = k})]
  /\ UNCHANGED <<clump, bursts, hulls, noise, known, reporters>>

End ==
  /\ phase = "named" /\ phase' = "idle"
  /\ reporters' = Processes
  /\ UNCHANGED <<clump, bursts, hulls, noise, known, ids, report>>

Next == Begin \/ Gather \/ Cluster \/ Name \/ End

Spec == Init /\ [][Next]_vars
=============================================================================
