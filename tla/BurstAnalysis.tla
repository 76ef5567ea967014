--------------------------- MODULE BurstAnalysis ---------------------------
(***************************************************************************)
(* One analysis of a set of bursts, as both refinements make it: DBSCAN,   *)
(* the numbering of the clusters it found, and the alignment of the        *)
(* sequences of the tasks on which clusters are scored.                    *)
(***************************************************************************)
EXTENDS Integers, FiniteSets, FiniteSetsExt

CONSTANTS
  Task,       \* the task (and thread) of each burst
  Duration    \* the duration of each burst

NOISE_CLUSTERID == 0

\* A table f with the rows of g added that f has not.
Joined(f, g) == [x \in DOMAIN f \cup DOMAIN g |-> IF x \in DOMAIN f THEN f[x] ELSE g[x]]

\* In this section near[p] are the points within Eps of p, itself included.

Cores(near, minPoints) == {p \in DOMAIN near : Cardinality(near[p]) >= minPoints}

\* The core points of C that p is density-connected to.
Component(C, near, p) ==
  LET grown[k \in 0 .. Cardinality(C)] ==
        IF k = 0 THEN {p} ELSE UNION {C \cap near[q] : q \in grown[k - 1]}
  IN  grown[Cardinality(C)]

\* The clusterings that an analysis may find: every border point belongs to one of the
\* clusters it touches.
RunDBSCAN(near, minPoints) ==
  LET C      == Cores(near, minPoints)
      parts  == {Component(C, near, p) : p \in C}
      border == {p \in DOMAIN near \ C : near[p] \cap C # {}}
      owners == {o \in [border -> parts] : \A p \in border : near[p] \cap o[p] # {}}
  IN  {{P \cup {p \in border : o[p] = P} : P \in parts} : o \in owners}

-----------------------------------------------------------------------------
TotalDuration(S) == MapThenSumSet(LAMBDA b : Duration[b], S)

\* The ways to number clusters by duration, the longest first.
TranslatedIDs(clusters) ==
  {r \in [1 .. Cardinality(clusters) -> clusters] :
     /\ \A c \in clusters : \E i \in DOMAIN r : r[i] = c
     /\ \A i, j \in DOMAIN r : i < j => TotalDuration(r[i]) >= TotalDuration(r[j])}

NumberOfSequences(S) == Cardinality({Task[b] : b \in S})

\* The sets of columns that an alignment of the bursts S may have: a column holds at
\* most one burst of each task, tasks keep the order of their bursts.
Alignments(S) ==
  LET First(T) == {b \in T : \A c \in T : Task[c] = Task[b] => b <= c}
      aligned[T \in SUBSET S] ==
        IF T = {} THEN {{}}
        ELSE UNION {{A \cup {C} : A \in aligned[T \ C]} : C \in (SUBSET First(T)) \ {{}}}
  IN  aligned[S]
=============================================================================
