# A verification development for ClusteringSuite

ClusteringSuite clusters the CPU bursts of parallel program traces by density.
This directory holds TLA+ models of the parts in which it is decided *whether the
clusters are right*: how a trace is cut into bursts and the clusters are written back
to it, the density-based analysis itself, the two refinements that repeat it with a
growing or a shrinking Eps, the merge of convex hulls, and the distributed analysis
that runs all over a tree of processes. They are
model-checked with TLC and, where it is said, proved with TLAPS. All paths are
relative to the repository.

    DensityClustering      what an analysis promises (abstract)
      ^ implemented by
    DBSCAN                 one analysis: DBSCAN::Run, GenerateClusterModels
      DBSCAN_proofs        theorems about it
      MCDBSCAN             instances
    HullMerge              one filter's list of hulls: NewMerge
      HullMerge_proofs     theorems about it
      MCHullMerge          instances
    GlobalClustering       what a round of the distributed analysis promises (abstract)
      ^ implemented by
    TDBSCAN                front-end, back-ends, filters, network: the protocol
      TDBSCAN_proofs       theorems about the protocol
      MCTDBSCAN            instances
    BurstAnalysis          one analysis of a set of bursts in one step, and its scores
      AggregativeRefinement  analyses with growing Eps, a tree from the leaves
        AggregativeRefinement_proofs   theorems about it
        MCAggregativeRefinement   instances
      DivisiveRefinement   analyses with shrinking Eps, a tree from the top
        DivisiveRefinement_proofs      theorems about it
        MCDivisiveRefinement   instances
    ClusteredTrace         a trace cut into bursts, their ids, the trace written again
      ClusteredTrace_proofs   theorems about it
      MCClusteredTrace     instances
    DataLemmas             lemmas on numbers, segments, tallies and finite sets
      BurstLemmas          lemmas on BurstAnalysis

## The system and its parts

| Part | State | Operations | Hard because |
|---|---|---|---|
| `DBSCAN` (`src/src/libClustering/DBSCAN.cpp`) | assignment vector, set of ids, counter `NoisePoints`, `NeighbourhoodSize` of every point | `Run`, `ExpandCluster`, `EpsilonRangeQuery`, `Classify` | clusters take points from each other; the counter decides what is listed; numeric edges |
| Analysis of one node (`src/src/libDistributedClustering`) | last partition, models, classification | `ClusterAnalysis`, `GenerateClusterModels`, `GetNoisePoints`, `NormalizeData`, `ClassifyData` | vectors indexed by ids another class made |
| Convex hulls (`ConvexHullModel`, `HullModel`) | vertices with neighbourhood sizes, density, time | `Merge`, `IsNear` | not transitive, order matters |
| Filters (`src/src/TreeDBSCAN/*Filter.cpp` and managers) | globals of the process: four counters, noise, `MergedHulls`, statistics, reset flag | one case per tag | packets of all children interleave; state outlives rounds |
| Front-end (`TDBSCANRoot.cpp`) | `GlobalModel`, reports | `Run` | waits for packets in a fixed order |
| Back-ends (`TDBSCANWorker*.cpp`) | trace data, `GlobalModel`, ranges, classification | `Run`, with five exits | partial failure; stale state of the last round |
| Reports (`Support`, `ClustersInfo`, `Statistics`) | sums per cell, per cluster, per node | `Serialize`, `Unpack` at each level | must count each contribution once |
| Refinements (`ClusteringRefinementAggregative/Divisive.cpp`) | tree of clusters over several levels of Eps, nodes discarded | `Run`, `RunStep`, renaming, merge, collapse, reclassification | ids of several partitions kept in step; what one rule discards another relies on |
| Trace reader (`PRVStatesDataExtractor`) | for each thread the burst being read and the one behind it, counters | `CheckState`, `CheckEvent`, end of file | states and events of one time come in any order |
| Burst storage (`TraceData`, `BurstsDB`, `ParametersManager`) | bursts by kind, ranges | insertion, sampling, normalisation | singleton, never emptied |
| Trace writer (`ClusteredStatesPRVGenerator`) | bursts of each thread not yet written | one decision per record | finds bursts by time and ids by position |
| Facade (`libTraceClustering`) | flags of what has been done | extraction, analysis, flush, refinement | legal orders of calls |
| Sequence score, other readers, other algorithms, tools | | | algorithms and I/O |

Components, with what is modelled of each, are listed in `PROJECT.json`; so are
the hazards of the code with the properties that watch them.

How they interact: the front-end sends the configuration down an MRNet stream. Each
back-end extracts its bursts, sends the ranges of its dimensions up a second
stream, whose filter joins the ranges of all children, and normalises with what
the front-end sends back. It runs `ClusterAnalysis` (DBSCAN and one hull per
cluster) and enters a barrier with everybody. Then noise points, an end mark, hulls
and an end mark go up. Every filter accumulates its children's noise, clusters it
after the last child's mark, sends the remaining noise up and keeps the new hulls;
hulls of children are merged as they come and sent up after the last mark. The
front-end drops hulls that are not dense enough, sorts the others and broadcasts
them: a cluster's id is its position in that list. Back-ends classify their bursts
by it, exchange the support of cells on a third stream, and report; filters sum the
reports.

What makes each part correct: an analysis is right if its clusters are the
density-connected sets and nothing indexes a vector out of bounds; a merge, if no
hull is lost or kept twice; the protocol, if every burst is accounted for once, ids
mean the same everywhere, and no round mixes with another or waits for ever; a
refinement, if the leaves of its tree partition the bursts and ids keep their
meaning from level to level; reader and storage, if each Running state is one burst
with the counters that were read in it; the writer, if each burst appears from its
begin to its end with its own id; the facade, if no order of calls
works on data that is not there.

## Modules

### DBSCAN

`Init` is a call about to run: a fresh partition and any value of `InitialNoise` in
`NoisePoints`, since no constructor sets it. `StartRun` is the head of `Run` (count,
fill), `SkipClassified`, `ExpandNonCore` and `ExpandCore` the cases of the scan,
`VisitCoreSeed` and `VisitBorderSeed` an iteration of the loop of `ExpandCluster`,
`ClusterFound` its return, `FinishRun` the tail of `Run`. `GenerateClusterModels`
and `GetNoisePoints` are what the caller does next. Coordinates are abstracted to
the graph of which points lie within Eps: range queries are all the code does with
them. Seeds are visited in any order, which covers that of the kd-tree. With a label
out of bounds `GenerateClusterModels` has no defined behaviour; the model stops
there and `NoOverrun` says it does not happen.

`DensityClustering` says in one step what `Run` does in many: labels such that core
points share one exactly when they are density-connected, border points have the
label of a core point they are near, the rest is noise, and labels are 1 .. k.
`ImplementsDensityClustering` is the refinement; `cores` is mapped to the points with
enough neighbours and `answer` to the labels once `Run` has returned.

### HullMerge

One filter in one round. A child sends noise, an end mark, all hulls, an end mark
(`AllNoiseSent` stands for the first two). `NewMerge` is not one step: `MergeStep`,
`SkipStep` and `StoreMerged` are the passes of its loop, because the loop erases
from the list it walks. Hulls stand on one line, with the neighbourhood sizes of
their two ends, and keep `Merge`'s three cases (few vertices, intersection,
nearness) and so what matters: nearness is not transitive, depends on the
vertices, and a joint hull touches more than its parts did. `members` and `tried`
are histories. `HullMergeAssumption` asks for at least one child (a filter runs where
packets of children arrive), and for finitely many children and hulls.

### TDBSCAN

All processes and streams. `FilterX` is the case of tag X in `filterTDBSCAN`,
`FilterDimensions` and `FilterSupport` the two filters that wait for all children;
`StartRound` to `ReportResults` are the pieces of `TDBSCANWorker::Run` between two
waits, with its exits in `Failures`; `SendConfiguration` to `ReceiveStatistics` the
pieces of `TDBSCANRoot::Run`. `Fresh` is the filter's `Init`, which `Current` calls
as the code does: on the first packet after the last statistics, which includes the
front-end's own filter. Bursts come in clumps: bursts of a clump are near each
other and two hulls that share a clump merge. This keeps the protocol apart from
the geometry, which the other modules have. Which hulls a burst lies in, and which are
near and dense enough for it, is therefore left open: `Answers(b, model)` are the
answers `ConvexHullClassifier::Classify` can give for a burst. A burst that a hull was
made from lies in it, so that the answer is that hull or one before it in the list;
any other may be given to any hull of its clump, or be noise. With several hulls of one
clump in the list, which earlier rounds and unmerged noise bring about, bursts of a
clump do get different ids, in one back-end or in several; such states are among those
of the run. `dims` has for each burst the ranges it was normalised with, which
`ActualNormalize` does once (`Normalised`): bursts of earlier rounds keep theirs. The MRNet network is external, modelled
as the program uses it: order per sender is kept, different senders interleave
freely, `SFILTER_WAITFORALL` takes one packet of each child. Synapse's receive with a
named tag is not in the repository; `SkipUnexpected` says whether it drops a packet
with another tag or stays there. `Broadcast` delivers to back-ends; nothing in the
code filters on the way down.

`GlobalClustering` is what a round promises a user, with one process and no network:
it gathers bursts, clusters all of them, gives each an id and counts the bursts of
each. Clusters share the bursts out with the noise and join no two clumps; no id is
used in two clumps, an id is given only where a cluster of `MinPoints` bursts is known,
the bursts of such a cluster always have one, and the same unless another is known in their
clump. It leaves open how bursts of a clump are shared out among clusters, since that depends on
which back-end has them, and which of several clusters of a clump names a burst. The refinement mapping of `TDBSCAN`
(`ImplementsGlobalClustering`) takes the phase from where the front-end is (`Phase`);
hulls and noise are those that have arrived there (`FinalHulls`, `FinalNoise`), once
all have; the clusters known are the dense hulls of `GlobalModel` (`Dense`,
`KnownClusters`), without the hulls of a round that is not over; and ids are those in
the back-ends' own partitions (`GivenIds`), from the moment the front-end has its
information. That is the strong part: ids, hulls and noise are spread over processes,
and a back-end that classified, renamed or extracted anything while the front-end is
already past it would be a step that `GlobalClustering` does not have. Hulls of
earlier rounds stay known because `GlobalModel` is never cleared.

### AggregativeRefinement

`ClusteringRefinementAggregative::Run`: `RunFirstAnalysis`, then one `RunStep` per
level while there are candidates, then `GenerateLastPartition` and
`RenameLastPartition`. Nodes of `NodesPerLevel` are pairs of a level and a position
in it; `bursts`, `id`, `perfect` and `children` are their fields. Position 0 is the
noise of a level, which may be empty. A step analyses the bursts of the candidates
(`RunDBSCAN` of `BurstAnalysis` gives any answer of a density clustering, as a set of
clusters, and `TranslatedIDs` any numbering by duration), makes the nodes, links them
to the candidates (`LinkNodes`), names them (`RenameNode`), reads the partition back
from the leaves (`GeneratePartition`) and scores the new nodes. `MergesOf` finds the
clusters that only appear together; they are merged in the partition (`MergeIDs`) and
in the tree (`LinkLastNodes`), and the partition is read back again. The sequence
score is modelled as far as the code uses it: whether a cluster has score 1. The
alignment is external and may be any that keeps the order of each task, chosen anew
for each score and for the merge, which calls the aligner with other weights. Writing
the tree or the plots may fail: `Return` goes on or stops there. `IsDiscarded` and
`StopCondition` never hold in the code as it is built.

### DivisiveRefinement

`ClusteringRefinementDivisive::Run`: `RunFirstStep` analyses all bursts, then each step
is a pass over the nodes of the level above: `AnalyseNode` analyses the bursts of one
that is a candidate and judges the split (`IsSplitOK`), `SkipNode` goes on, `FinishStep`
renames the new nodes and reads the partition back. `Prune` is the loop behind the
steps: `Divisions` and `Collapsed` are what `ColapseNonDividedSubtrees` counts and
discards, `LeafParents`, `Nearest` and the rest of `Prune` are `ReclassifyNoise`. The
subtrees of the first level share nothing, so that the loop over them is one action.
Distances matter only as the last step at which two bursts are within Eps; which of
several equally near clusters gets a burst is left open. `score` is exact, in units of
`1 / One`, and divisions of integers are those of the code. A division by zero and
a null pointer end the program: `CrashOnCandidate`, `CrashOnReclassify`. Nodes keep the
bursts they were made with until noise is moved; `discarded` only grows.

### ClusteredTrace

`ReadState` and `ReadEvent` are the cases of the loop of
`PRVStatesDataExtractor::ExtractData`, each with the whole of `CheckState` or
`CheckEvent` (`Flush` is the call of `NewBurst` with what follows it), `EndOfFile` its
tail, `NewBurst` what `TraceData` and `ParametersManager` decide of a burst: the
counters that are kept, and whether it is complete, filtered or without data.
`ClusterAnalysis` gives the complete bursts any ids. `StartWriting` is the head of
`ClusteredStatesPRVGenerator::Run`; `CloseAndOpen`, `Open`, `OpenAgain`, `Close` and
`Copy` are what its loop does at a record. The trace is what the threads of `Inputs`
produce, in any order that respects time. `TaskDataContainer` keeps the habits of the
class: `Clear` leaves `BurstEndEvents`, an assignment copies neither that nor
`OngoingBurst`. `CheckEvent` goes on with the values of a record after a change of the
counters' group has stored the burst they were for, as the code does.

`CountersAreOwn` says of each stored burst that its counters are the sums of the values
met in it. What the code does with values behind a change of the group in one
record goes against that, and the property says for which bursts (`Spoilt`): the next one of the
thread, or, since a second change in the record stores that one too, the one after.
All others must be right whatever such records do before, at or behind them. A burst
with values at its end may keep a type that was only sampled inside it when an earlier
burst of its thread ended with that type, as `BurstEndEvents` never forgets one; the
property allows these types (`EndTypes`) and no others. Comments in the code promise more
in both cases; Findings quotes them.

## Runs

| Run | Instance | Shows |
|---|---|---|
| `dbscan` | all epsilon graphs of 0 .. 5 points, MinPoints 4, an 8-bit counter that starts at 0 or 7 | bounds, partition of the data, measured points, the counter, core points that stay, the refinement, termination |
| `hull_merge` | two children, five hulls owned by either, by the noise or by nobody | five properties of the list, in all orders |
| `hull_merge_noise` | the same | `NoiseHullsMerged` fails (finding) |
| `tdbscan` | w1, w2 under a communication process, w3 under the front-end; eleven bursts, one of them extracted in the second of two rounds; all layouts in two clumps | four invariants, resets, the refinement of `GlobalClustering`, and that rounds end |
| `tdbscan_failures` | w1, w2 under the front-end, six bursts, one round, every failure possible | `ReportsComplete`: partial results are never taken for complete ones; in `tdbscan` the refinement says what a complete report is |
| `tdbscan_stale_model`, `tdbscan_dies` | the flat tree | two findings |
| `refinement` | three levels; four bursts of two tasks in 640 layouts, two stars of seven bursts, three pairs | seven properties of tree, partition and ids |
| `divisive` | three levels; four bursts of two tasks in every layout where the first task's bursts stay close no longer than the second's (about half of all), eight bursts on a line in 81 | six properties of tree, partition and ids |
| `divisive_crash` | four bursts in layouts with a cluster at the first level | `RunReturns` fails (finding) |
| `trace` | one thread with three bursts, two threads with two and one; every order of records of one time; a change of the counters' group at the end of its record, or before other values, once or twice | six properties of reader and writer |
| `trace_lost` | the one thread, bursts known by their duration only | `EveryRunningStateIsABurst` fails (finding) |

Why the bounds are enough to see the interesting cases. With five points and
MinPoints 4 there are two clusters that compete for a border point, noise that a
later cluster takes over in the first neighbourhood and in a later one. The five hulls
include a sparse segment in a gap that two others bridge, a pair that intersects, and
one near nothing. Eleven bursts in two clumps let a back-end have hulls only, noise only
or both, let noise of siblings make a hull that no back-end has alone, let a hull fall
below the front-end's MinPoints, and leave noise at the top. The deep tree has a
filter that feeds another and one whose children are a filter and a back-end. Two
rounds reset every filter, begin with stale data, leave hulls of both rounds in one
list and extract a burst whose ranges are others than those of the rest
(325,412 states). Layouts that only exchange the clumps, or
bursts of one back-end and round, are left out: they are otherwise alike. Queues need
no bound: a round sends finitely many packets; `Rounds` bounds the rounds.
Four bursts in two tasks show merges of clusters and of noise, clusters that are
perfect early and those that never are, convergence before the last level, and two
clusters that always appear together; two bursts of one task get near each other at
the second level or never, which keeps the run short. The stars have a border
burst that a growing cluster of another level takes away, so that a node has two
parents and a parent two children. The pairs give up an id at the second level and
find a new cluster at the third. Layouts that are others read backwards are left out.
For the divisive refinement the line of eight has three pairs that stay together and
two bursts between, which are noise, borders or clusters depending on the gaps: splits
are accepted, rejected for noise and rejected for score, subtrees of several levels are
collapsed, and noise at the leaves has a choice of clusters. In a trace three bursts
that follow each other at once are the least in which a burst waits for one that
waits; gaps, idle states, samples inside a burst, complete and missing counters
and changes of their group at the end of a record occur in every combination, with states before or after
the events of their time. Where values follow a change in the record, the change is at
the end of the first burst, so that the two bursts it can reach are there, and a third
is behind them when the change comes once (234,428 states).

`CHECK_DEADLOCK FALSE` is used in the runs where the system may really stop: when a
process has left, a receive stays at an unexpected packet, or a filter has died.

Fairness. `WF_vars(Next)` only: some process that can go on, goes on. `DBSCAN::Run`
and a filter are sequential code that nothing suspends; in the protocol every order
of packets ends the round, so no fairness between processes is needed.
`EveryRoundEnds` excepts the death of a filter, which `tdbscan_dies` shows: in layouts
where some filter compares no two hulls the round stops there, and what comes after it
is checked on the others.

## Findings

Five places where the code does other than it says, each with its run and quoted in
`PROJECT.json`: noise hulls that are not merged; the global model kept between rounds;
the division by zero in a filter's statistics; the null pointer when a whole cluster has
turned into noise; and the last burst of a thread, lost at the end of the file.

Three more are part of the models, and the properties that hold say what is kept instead:

* `TDBSCANWorker.cpp:138`, "Normalize the input data with the global dimensions":
  `ActualNormalize` (`TraceData.cpp:729`) passes over bursts that are normalised already,
  so in a second round those of the first keep its ranges. `ClassifiedAlike` compares each
  burst with the ranges of the round that extracted it (`NormalisedAlike`).
* `PRVStatesDataExtractor.cpp:543`, "Hardware counters change. Future events are not
  eligible": the loop goes on, and the values behind the change in that record go to the
  burst that has become current, or to the next one read. `CountersAreOwn` leaves these
  bursts out (`Spoilt`) and no others.
* `ParametersManager.cpp:283`, "Use only those events that also appear at the end of the
  burst", and the manual at 481-483: the set they are compared with is never emptied
  (`PRVStatesDataExtractor.hpp:85`). `CountersAreOwn` allows the types of earlier ends (`EndTypes`).

## Proofs

`DBSCAN_proofs` is about `DBSCAN` for every `N`, `MinPoints`, `SizeLimit` and
`InitialNoise` that `ConstantsAssumption` allows.

| Theorem | Needs | Rests on |
|---|---|---|
| `TypeCorrect` | | inductive as it stands |
| `CorePointsStayProved` | | `CoreInv`: a core point in a cluster, unless it still waits as a seed, has only labelled neighbours, and noise is never a core point |
| `EveryPointMeasuredProved` | | `MeasuredInv`: a labelled point has been queried or is a seed |
| `NoOverrunProved` | `NoWrap` | `CounterInv`, `NumberingInv`: ids are 1 .. clusterId-1 while the scan runs |
| `NoiseCountedProved` | `NoWrap` | `CounterInv`: the counter exceeds the labelled noise and never passes what was counted |
| `ModelsPartitionDataProved` | `NoWrap` | `ModelsInv`: every cluster keeps a core point |
| `ImplementsDensityClusteringProved` | `NoWrap` | `AnswerInv`: a cluster's core points are density-connected, and those of different finished clusters are not |

`NoWrap` says that no initial value of the counter comes within N + 1 of the width.
Without it the theorems are false: no constructor sets `NoisePoints`, and a count that
wraps to zero leaves the noise out of the ids. The safety theorems
are proved by strengthening: each invariant above is shown to hold initially, to be
kept by every action under `TypeOK` and the ones before, and to imply the property. For
the refinement, every action but `FinishRun` stutters and `FinishRun` is `Answer`.
Why stolen points do no harm is the heart of `CoreInv`: when a new cluster starts at
an unlabelled core point, each core neighbour is unlabelled too, or its own
cluster would have labelled the point.

`HullMerge_proofs` is about `HullMerge` for any children, hulls, owners and order of
packets that `HullMergeAssumption` allows, and any geometry that `Shape` gives them.

| Theorem | Rests on |
|---|---|
| `TypeCorrect` | `CountersInv`: the counters are the numbers of children whose end marks are missing |
| `EachHullHeldOnceProved` | `HandInv`, `HeldInv`: hulls still to merge are new and of the child whose packet is in hand; list and hand share the received ones out and have no empty hull |
| `AllPreviousTriedProved` | `TriedInv`: what lies before the index has been compared; an erase moves the rest up to the index |
| `LoneHullTouchesNoEarlierProved` | `LoneInv`: a hull in hand that is still alone merges with nothing before the index; an erase keeps the order of the others |
| `NeverSplitProved` | what each action does to the list (`NoisePushed`, `MergeStepErases`, `StoreMergedAppends`) |
| `SentIsCompleteProved` | `SentInv`: while hulls are to be merged a child owes its end mark, so the last mark finds the loop at rest |

`AllPreviousTried` and `NeverSplit` are theorems only: `LoneHullTouchesNoEarlier` and
`EachHullHeldOnce`, which the run checks, are what they are there for.

`TDBSCAN_proofs` is about `TDBSCAN` for any tree, bursts, layouts
and number of rounds that its assumptions allow: the network is a finite tree in which
parents are filters and every filter has a child, and bursts are finitely many. They
hold with and without failures, in every combination of them; the run `tdbscan` has
none and two rounds, `tdbscan_failures` all of them.

| Theorem | Rests on |
|---|---|
| `Invariant` | `RoundInv`: there is an account `h` with which the state agrees (`IInv`), or the round is stuck because scripts failed (`Stuck`) |
| `TypeCorrect` | `FilterOK`: a counter is the number of children whose packet is missing |
| `BurstsAccounted` | `Contents`, `Holds`: noise and hulls sent by a process are its bursts, those of a filter the ones it has taken |
| `ClassifiedTheSame` | `WorkerOK`: all models are that of the account, and end with what the front-end sent; a burst has the ranges of the round it came in |
| `SupportCounted` | `Contents`: the packet of the support stream is the tally of the cells below |
| `ReportsAreComplete` | `Contents`, `RootOK`: information and statistics tally the bursts and the processes below |
| `ResetsLoseNothing` | `FilterOK`: a filter to be reset has taken all six packets of its children, or none |
| `RoundsAreGlobalClustering` | `Modelled`, `Promised`: see below; each action is a step of `GlobalClustering` or a stutter |

No variable says how far a round has come: what has been sent is partly in queues,
partly in counters of filters and partly forgotten. So the invariant is an account
that says it (`Accounts`): for each process and stream how many packets of
its script have been sent and how many taken, and what was in them. `Agrees(h)` fixes
each queue as the segment of the script between the two (`Queues`), each filter as a
function of what it has taken (`FilterOK`), and each process' place by its progress
(`WorkerOK`, `RootOK`). Every step of the code is a step of one number of the account,
which is why packets of all children may interleave. When the front-end begins a round
the account starts again at zero (`Begins`): all that was sent upwards has been taken,
and a back-end may still have the last packet downwards before it, which is then -1 of
the new round. Sums up
the tree are sums over sets of bursts that have nothing in common, which is
`FoldTally` and, for the tree, `TopDown` and `Acyclic`.

A back-end whose scripts cannot be written sends its statistics without its
`CLUSTERS_INFO`. Its filter then waits for ever while it takes what follows, and no
number of that account says so. The account of such a round (`Late`) is another one: of the two
streams of the reports, with the set of the processes that are silent, from those
back-ends up to the front-end (`Silent`). All else of the round is over by
then, or it could not have failed there (`AccountedInRound`, `ClassifiedInRound`): the
last packets downwards have been sent, and a
back-end that still classifies has all its models. `Stuck` says so; it is kept by every step
(`LateNext`), and in it the front-end never gets its report, so that no report is
wrong. `NextHolds` is that a step from `IInv` leads to `IInv` or to `Stuck`.

`RoundsAreGlobalClustering` needs two facts about the moments at which the abstract
steps happen, which follow from the account (`Promised`). When the front-end has all hulls
(`Clustered`), they and the noise share the bursts out and make the dense part of the
model what it was and the dense ones among them; for that `RootOK` says what
`GlobalModel` is made of (`Modelled`): the dense hulls of the round before, which are
those that were broadcast, and the hulls of this one at its end. When the front-end has
the information (`NamedAlike`), all back-ends have classified with the same list. A
burst's number is then one of the answers for it (`Answers`) wherever it is: a hull of its
clump, and for one that was made from the burst that hull or an earlier one of the same
clump, which is what `Names` asks. The information counts these numbers.
Both are promises about the state a step leads to, so they come in primed. All other
steps must change nothing a user sees: `WorkersInTime` is that a back-end extracts
bursts only in a round the front-end has begun, and classifies them before the
front-end has the information.

`AggregativeRefinement_proofs` is about `AggregativeRefinement` for any number of bursts
and levels, and any layouts, durations, tasks and alignments that
`RefinementAssumption` allows.

| Theorem | Rests on |
|---|---|
| `Invariant` | `IInv`: types, `Shared`, `PerfectStaysWhole`, `Lineage` and, while levels are added, `TreeGrows` |
| `TypeCorrect` | inductive with the rest of `IInv` |
| `OneLeafEach`, `PartitionIsTree` | `Shared`: the leaves share the bursts out and the partition names each by its leaf |
| `PerfectWhole` | `TreeGrows`: a perfect cluster is a leaf with an id no later node has |
| `IdsAreLineages`, `NoneComesBack` | `Lineage`: a node with the id of one not below it has it from a parent |
| `MergeMatchesTree` | `Mergeable`, `LocatesLeaf`: ids that are merged are those of leaves, and each belongs to one merge |

None of the six properties is inductive. `GetAssignment` finds leaves by walking the links,
and a node has several parents; what makes it right is `TreeGrows`, that the nodes with
bursts that are leaves are exactly those of the last level and the perfect ones. Ids of one level
differ and none exceeds `maxId`, so that a new name is new (`NamesAreNew`); a
name that is handed down goes to one child only. At the end names are changed twice,
by the merges and by the definitive renaming, which happens apart in tree and
partition; `Renaming` is that both do the same. The lemmas of `BurstLemmas` say what an
analysis and an alignment may return: clusters share no burst (`ClustersDisjoint`),
each has one number (`NumbersUnique`).

`DivisiveRefinement_proofs` is about `DivisiveRefinement`, under the same kind of
assumptions.

| Theorem | Rests on |
|---|---|
| `Invariant` | `IInv`: types, `Ranked`, `Share`, `Tree`, `Noisy`, `LineageOf` and, while a level is made, `Growing` |
| `TypeCorrect` | inductive with the rest of `IInv`; a score is at most one (`ScoreAtMostOne`) |
| `OneLeafEach` | `Share`: the leaves not discarded share the bursts out, and the walk of `GetAssignment` ends in exactly those (`EndsShare`) |
| `LeafIdsApart` | `LineageOf`: nodes with one id lie on one line (`EndsNamedApart`) |
| `FirstLevelStays` | `Tree`: the first level has no parents and is never discarded |
| `WholeOrInPieces` | `DivisionsAre`, `PrunedHeir`, `PrunedPieces`: what the pruning leaves of a cluster, level by level |
| `StepsOnlySplit` | a step adds a level under the last one, or discards children of one node together |

Here too none of the properties is inductive. Leaves are found by walking links, which only
`Ranked` makes finite: a link leads one level up. `Tree` says that the children of a
node share its bursts out and are discarded together, and that nothing hangs on what is
discarded; so the leaves keep sharing the bursts out when a level is added and when
divisions are taken back. A name may be handed down, and `RenameChildren` finds new ones above a
`maxId` of its own; `ChildrenAreRenamed` shows that these exceed every id in use. Noise
that is analysed again has no cluster in it (`Noisy`), because bursts that were sparse
stay so when there are fewer of them and Eps is smaller (`SparseStays`). The pruning is
the longest part: it visits the parents of leaves from the last level up, discards a
division whose score is no better, and gives noise back to the clusters it came from, which moves
bursts only among the children of one node (`Reclassified`).

`ClusteredTrace_proofs` is about `ClusteredTrace` for any number of threads, clustering
parameters and ids, and any trace that `InputsAssumption` allows: the records of a thread
are in order of time, and its Running states last and do not overlap, as in any trace
that Paraver can show.

| Theorem | Rests on |
|---|---|
| `Invariant` | `IInv`: what each thread has stored, reads and keeps waiting (`ThreadOK`), and what follows of it in the file (`Ahead`) |
| `TypeCorrect` | inductive with the rest of `IInv` |
| `BurstsAreStates` | `StoredOK`: bursts of a thread are states of it, in time order |
| `StatesAccounted` | `ThreadOK` while the trace is read, `AfterReading` after it: only what waits is not stored |
| `WriterInvariant` | `WInv`: what has been written of each thread (`Written`) |
| `RegionsRight` | `Shows`: each closed burst shows from begin to end, the open one its begin; `CurrentIDIs`: its id is its own |
| `MissingExplained` | `Waits`: no record passed by was one the first burst of the list waits for |
| `CountersRight` | `OwnInv`: what each burst that is not spoilt has counted, which bursts nothing can reach any more (`ThreadOwn`), where the types in `BurstEndEvents` come from (`EndsSeen`), and what values behind a change have left where no burst is (`Dangling`) |

That the states of a thread are stored in order is not inductive: it needs that the burst
that waits begins when the current one has ended, and that what follows in the file
begins after both. Bursts of all threads share one list, so that a step for one
thread must be shown to leave the others as they are: `Extends` says what the list may
become, and `OtherThreadOK` that `ThreadOK` survives it. The writer has no memory of what
it wrote but the list and the last event that opened a burst. `Written` relates the
two to the bursts of the first pass: the list is what is left of them after `d`
closed ones, its first burst is open when it is in use or its opening is the last event
remembered, and the events of the thread are those of `d` bursts and the open one. A
burst cannot end at a record before it has been opened (`EndsOpen`): its begin
has a record, that of its state, and the records of a thread come in order. An event
that opened an earlier burst cannot be taken for one of the next (`NextNotOpen`),
because bursts last. That ids are given by position among the complete bursts is
`CompleteCounted`.

`CountersRight` is of any such trace, with changes of the group at any place of a record.
`CountersAreOwn` is not inductive: what a burst
will be stored with is still being added up, and a stored burst must get nothing
from a record to come. `HasItsOwn` says that the burst that is current, and the one that waits,
has the sum of what the trace so far holds for it, with no change met at its end, or it
would have been stored. `Closed` says why a stored burst is complete: its thread has met a
record after its end, or a change at its end, and records come in order of time
(`InTime`). A record that is neither inside a burst nor at its end leaves both as they are
(`Outside`); at the end of the current burst the fold over the values of a record is shown to be
one sum up to the first change (`SplitAtChange`), which stores the burst with the values before
it. The values behind it are another fold, over whatever has become current. Either that is
the burst that waited, which is spoilt then (`SpoiltAt`; `BegunIs` is that no other can lie
between): its counters no longer matter, only that it is stored or goes on as a burst. Or nothing
waited, and the values stay in a container that has no burst (`Behind`). `Dangling` says of
such a container that no burst the values could reach has been read since the change, so that
the next one read into it is spoilt. That a burst is spoilt
depends only on records that begin no later than it does, so that it does not change while the
trace is read (`SpoiltKept`). Which types `NewData` keeps depends on ends long past:
`EndsSeen` says of a container that all of `BurstEndEvents` was met at ends of states,
up to its own end while it has a burst (`EndsGrow`, `EndIsSeen`). So a burst with values at
its end, whose types are then among these (`HasItsOwn`), keeps no others.

Recursive functions. That a function defined by recursion has its values is not
given to the provers, nor can they use the library's induction theorems, whose parameter
is an operator. `NumberInduction` and `BoundedInduction` state induction for sets
instead, and `IterationExists` and `SetRecursionExists` that recursion over numbers
and over the subsets of a finite set defines a function; with them recursive functions
are unfolded. A `FoldLeft` becomes one by its definition, for each operator that is folded
(`EndEventsStep`, `PrintedStep`, `ShownStep` and others). `Joined` is written out in `BurstAnalysis` because TLC's `@@` cannot be
expanded in a proof.

Only model-checked: liveness (`Terminates`, `ListIsSent`, `EveryRoundEnds`), which is
out of the prover's reach.

## Not modelled

Geometry in the plane and floating point (the epsilon graph, the line, the clumps and
the last step within Eps stand for it); output files and plots; command lines and XML;
`#if 0` code; and third-party code: libANN, gmeans, kalign2 and pcfparser, which lie in
the repository, MRNet and CGAL, which do not. The sources in the repository that are not
the project's own, those of kalign2 alone some twenty files of alignment tables and
dynamic programs, make up most of its lines, so that the part of all lines that these
modules translate stays small however much of the program they cover.

Of the program itself these parts are left out:

- sampling and the classification of the bursts that were not sampled
  (`TraceData::Sampling`, `DBSCAN::Classify`), normalisation, the SQLite store and the
  MPI exchange of the facade;
- readers and writers of other traces: bursts by events, Dimemas, CSV, semantic values;
- OPTICS, GMEANS, CAPEK, `ParametersApproximation` and the tools, which are
  floating-point algorithms, wrappers or options;
- back-ends without bursts, the grid of `Support` and the printing of `ClustersInfo`.

## Plan

Done: `DBSCAN`, `HullMerge`, `TDBSCAN`, which composes what they do in a round, both
refinements, and the way of a trace into bursts and back, with their proofs.
In this order:

1. Sampling, between reader and analysis in `ClusteredTrace`, and the classification.
2. Bursts by events (`PRVEventsDataExtractor`, `ClusteredEventsPRVGenerator`).
3. A back-end without bursts in `TDBSCAN`.
