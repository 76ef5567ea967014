------------------------------ MODULE TDBSCAN ------------------------------
(***************************************************************************)
(* The TreeDBSCAN protocol: a front-end (TDBSCANRoot::Run), the back-ends  *)
(* at the leaves of an MRNet tree (TDBSCANWorker::Run) and the filters the *)
(* packets cross on their way up, in every communication process and in    *)
(* the front-end itself.                                                   *)
(*                                                                         *)
(* Network.  A stream keeps the order of the packets of one sender; the    *)
(* TDBSCAN stream (SFILTER_DONTWAIT) gives its filter one packet at a time *)
(* in the order they arrive, the other two (SFILTER_WAITFORALL) one packet *)
(* of every child at once.  Packets down the tree are not filtered.        *)
(*                                                                         *)
(* Data.  Bursts come in clumps, once they are normalised.  Bursts of one  *)
(* clump are near each other, two hulls of one clump can be merged, and a  *)
(* hull is near no other clump; which bursts of its clump that it was not  *)
(* made from lie inside or near enough is left open.  A hull is the set of *)
(* bursts it was made from, its density and time the number of these.  A   *)
(* range of dimensions is the set of back-ends whose bursts it spans, each *)
(* with the round in which it told them.                                   *)
(***************************************************************************)
EXTENDS Integers, FiniteSets, SequencesExt, Bags

CONSTANTS
  Worker,          \* the back-ends
  Comm,            \* the communication processes
  Root,            \* the front-end
  Parent,          \* the tree, as a function from Worker \cup Comm
  Burst,
  Home,            \* Home[b]: the back-end that extracts b
  Layouts,         \* the ways the bursts may lie: functions from Burst to clumps
  Arrives,         \* Arrives[b]: the round whose extraction finds b
  MinPoints,       \* TDBSCANCore::MinPoints of the front-end
  Rounds,          \* bound: how often Run is called
  Failures,        \* the operations of a back-end that may fail
  SkipUnexpected   \* whether a receive drops a packet of another tag, or stops

Node   == Worker \cup Comm \cup {Root}
Filter == Comm \cup {Root}

\* MRNet starts a tree: its leaves are the back-ends, and from every process the
\* parents lead to the front-end.
ASSUME TreeAssumption ==
  /\ IsFiniteSet(Node)
  /\ Worker \cap Filter = {} /\ Root \notin Comm
  /\ Parent \in [Worker \cup Comm -> Filter]
  /\ \A p \in Filter : \E c \in Worker \cup Comm : Parent[c] = p
  /\ \A X \in SUBSET Node :
       Root \in X /\ (\A c \in Worker \cup Comm : Parent[c] \in X => c \in X) => X = Node

ASSUME TDBSCANAssumption ==
  /\ IsFiniteSet(Burst)
  /\ Home \in [Burst -> Worker] /\ Arrives \in [Burst -> 1 .. Rounds]
  /\ \A l \in Layouts : DOMAIN l = Burst
  /\ MinPoints \in Nat /\ Rounds \in Nat
  /\ Failures \subseteq {"extract", "cluster", "classify", "scripts", "process"}
  /\ SkipUnexpected \in BOOLEAN

Children(p) == {c \in Worker \cup Comm : Parent[c] = p}

\* The streams the front-end registers.
Stream == {"TDBSCAN", "XchangeDimensions", "Support"}

VARIABLES
  clump,        \* clump[b]: where b lies, one of Layouts for good
  up,           \* up[s][c]: packets of stream s from c to the filter of its parent;
                \* up[s][Root]: packets that have left the last filter
  down,         \* down[s][w]: packets of stream s on their way to back-end w
  filter,       \* the globals of filterTDBSCAN in each process
  pc,           \* where each back-end is in Run
  data,         \* data[w]: the bursts of TraceData, which is never emptied
  dims,         \* dims[b]: the ranges burst b was normalised with, {} before
  globalModel,  \* GlobalModel of each back-end
  class,        \* class[w]: ClassificationPartition, << >> before
  support,      \* GlobalSupport of each back-end
  rpc,          \* where the front-end is in Run
  round,        \* number of calls to Run
  rootModel,    \* GlobalModel of the front-end
  info,         \* ClustersStats of the front-end
  nodes,        \* NetworkStats of the front-end: the nodes that reported
  arrived,      \* history: hulls that reached the front-end in this round
  left          \* "Remaining noise points" of this round

workerVars == <<pc, data, dims, globalModel, class, support>>
rootVars   == <<rpc, round, rootModel, info, nodes, arrived, left>>
vars       == <<clump, up, down, filter, workerVars, rootVars>>

Packet(t, b) == [tag |-> t, body |-> b]
Mark(t)      == Packet(t, "")

-----------------------------------------------------------------------------
(* Clusters, hulls and classes.                                             *)

\* The hulls of the clumps of S with min bursts or more: DBSCAN and its models.
Hulls(S, min) ==
  {H \in {{b \in S : clump[b] = k} : k \in Range(clump)} : Cardinality(H) >= min}

NoiseOf(S, min) == S \ UNION Hulls(S, min)

\* Recv_Configuration sets it in the back-ends, whatever the front-end sends.
LocalMinPoints == 3

\* The filters divide MinPoints among the siblings, 3 at least.
WeightedMinPoints(p) ==
  LET siblings == IF p = Root THEN {p} ELSE Children(Parent[p])
      weighted == MinPoints \div Cardinality(siblings)
  IN  IF weighted < 3 THEN 3 ELSE weighted

Touch(G, H) == \E g \in G, h \in H : clump[g] = clump[h]

\* The hulls of a packet merged, one by one, with those held: in the end all that
\* touch one of them are in one hull with it.
Merged(held, hulls) ==
  LET With(H) == UNION {G \in held \cup hulls : Touch(G, H)}
  IN  {With(H) : H \in hulls} \cup {G \in held : \A H \in hulls : ~Touch(G, H)}

\* The first hull with burst b inside, or the nearest that is near and dense enough
\* there; 0 is noise.  The hulls made from b hold it.
Answers(b, model) ==
  LET near == {k \in DOMAIN model : Touch({b}, model[k])}
      own  == {k \in near : b \in model[k]}
  IN  IF own = {} THEN near \cup {0} ELSE {k \in near : \A j \in own : k <= j}

\* Faulty variant of Classify: hulls without a burst of w are left out before they
\* are numbered.
ClassifyOwn(w, model) ==
  LET own == SelectSeq(model, LAMBDA H : Touch(data[w], H))
  IN  {l \in [data[w] -> 0 .. Len(own)] : \A b \in data[w] : l[b] \in Answers(b, own)}

\* The ways to classify the bursts of w.
Classify(w, model) ==
  {l \in [data[w] -> 0 .. Len(model)] : \A b \in data[w] : l[b] \in Answers(b, model)}

\* Individuals per cluster id.
Individuals(w) == [k \in Range(class[w]) |-> Cardinality({b \in data[w] : class[w][b] = k})]

-----------------------------------------------------------------------------
(* Sending and receiving.                                                   *)

Arrived(s, p, t) == up[s][p] # << >> /\ Head(up[s][p]).tag = t
Received(s, w, t) == down[s][w] # << >> /\ Head(down[s][w]).tag = t

\* Packets of w go up on stream s; those it takes are removed from stream r.
TakeAndSend(r, w, s, packets) ==
  /\ down' = [down EXCEPT ![r][w] = Tail(@)]
  /\ up' = [up EXCEPT ![s][w] = @ \o packets]

Take(r, w) == down' = [down EXCEPT ![r][w] = Tail(@)] /\ UNCHANGED up

Broadcast(s, packets) ==
  down' = [down EXCEPT ![s] = [w \in Worker |-> @[w] \o packets]]

Exit(w) == pc' = [pc EXCEPT ![w] = "exited"]
Goto(w, l) == pc' = [pc EXCEPT ![w] = l]

-----------------------------------------------------------------------------
(* The filters.                                                             *)

\* Faulty variant of Fresh: the filter waits for one child too many.
FreshWithSelf(p) ==
  LET many == Cardinality(Children(p)) + 1
  IN  [needsReset |-> FALSE, waitForNoise |-> many, waitForHulls |-> many,
       waitForStats |-> many, waitForClustersInfo |-> many,
       noise |-> {}, merged |-> {}, compared |-> FALSE, nodes |-> {}, info |-> EmptyBag,
       alive |-> TRUE]

\* Init of the filter.
Fresh(p) ==
  [needsReset |-> FALSE,
   waitForNoise |-> Cardinality(Children(p)), waitForHulls |-> Cardinality(Children(p)),
   waitForStats |-> Cardinality(Children(p)),
   waitForClustersInfo |-> Cardinality(Children(p)),
   noise |-> {}, merged |-> {}, compared |-> FALSE, nodes |-> {}, info |-> EmptyBag,
   alive |-> TRUE]

Current(p) == IF filter[p].needsReset THEN Fresh(p) ELSE filter[p]

\* The filter of c's parent takes the packet c sent, becomes f and passes on out.
FilterStep(c, f, out) ==
  /\ filter[Parent[c]].alive
  /\ filter' = [filter EXCEPT ![Parent[c]] = f]
  /\ up' = [up EXCEPT !["TDBSCAN"][c] = Tail(@), !["TDBSCAN"][Parent[c]] = @ \o out]
  /\ UNCHANGED <<down, workerVars, rootVars>>

FilterNoise(c) ==
  /\ Arrived("TDBSCAN", c, "NOISE")
  /\ LET f == Current(Parent[c])
     IN  FilterStep(c, [f EXCEPT !.noise = @ \cup Head(up["TDBSCAN"][c]).body], << >>)

\* Faulty variant of FilterAllNoiseSent: every child's mark has it clustered.
FilterAllNoiseSentEach(c) ==
  /\ Arrived("TDBSCAN", c, "ALL_NOISE_SENT")
  /\ LET p == Parent[c]
         f == [Current(p) EXCEPT !.waitForNoise = @ - 1]
         min == WeightedMinPoints(p)
     IN  FilterStep(c, [f EXCEPT !.merged = @ \cup Hulls(f.noise, min)],
                    <<Packet("NOISE", NoiseOf(f.noise, min)), Mark("ALL_NOISE_SENT")>>)

\* The last child's mark has the noise clustered: what remains goes up, the new
\* hulls stay.
FilterAllNoiseSent(c) ==
  /\ Arrived("TDBSCAN", c, "ALL_NOISE_SENT")
  /\ LET p == Parent[c]
         f == [Current(p) EXCEPT !.waitForNoise = @ - 1]
         min == WeightedMinPoints(p)
     IN  IF f.waitForNoise <= 0
           THEN FilterStep(c, [f EXCEPT !.merged = @ \cup Hulls(f.noise, min)],
                           <<Packet("NOISE", NoiseOf(f.noise, min)), Mark("ALL_NOISE_SENT")>>)
           ELSE FilterStep(c, f, << >>)

FilterAllHulls(c) ==
  /\ Arrived("TDBSCAN", c, "ALL_HULLS")
  /\ LET f == Current(Parent[c])
         hulls == Head(up["TDBSCAN"][c]).body
     IN  FilterStep(c, [f EXCEPT !.merged = Merged(@, hulls),
                                 !.compared = @ \/ Cardinality(hulls) > 1
                                                \/ (hulls # {} /\ f.merged # {})],
                    << >>)

\* Faulty variant of FilterAllHullsSent: the filter is reset once it has sent them.
FilterAllHullsSentResets(c) ==
  /\ Arrived("TDBSCAN", c, "ALL_HULLS_SENT")
  /\ LET f == [Current(Parent[c]) EXCEPT !.waitForHulls = @ - 1]
     IN  IF f.waitForHulls <= 0
           THEN FilterStep(c, [f EXCEPT !.needsReset = TRUE],
                           <<Packet("ALL_HULLS", f.merged), Mark("ALL_HULLS_SENT")>>)
           ELSE FilterStep(c, f, << >>)

\* The last child's mark has the merged hulls sent up.
FilterAllHullsSent(c) ==
  /\ Arrived("TDBSCAN", c, "ALL_HULLS_SENT")
  /\ LET f == [Current(Parent[c]) EXCEPT !.waitForHulls = @ - 1]
     IN  FilterStep(c, f, IF f.waitForHulls <= 0
                            THEN <<Packet("ALL_HULLS", f.merged), Mark("ALL_HULLS_SENT")>>
                            ELSE << >>)

\* Individuals are added per cluster id; the sum goes up after the last child.
FilterClustersInfo(c) ==
  /\ Arrived("TDBSCAN", c, "CLUSTERS_INFO")
  /\ LET f == [Current(Parent[c]) EXCEPT !.waitForClustersInfo = @ - 1,
                                         !.info = @ (+) Head(up["TDBSCAN"][c]).body]
     IN  FilterStep(c, f, IF f.waitForClustersInfo <= 0
                            THEN <<Packet("CLUSTERS_INFO", f.info)>> ELSE << >>)

\* Faulty variants of FilterStatistics: f is the filter when the packet is taken.
StatisticsWith(c, f, last, needsReset) ==
  /\ Arrived("TDBSCAN", c, "STATISTICS")
  /\ IF ~last
       THEN FilterStep(c, f, << >>)
       ELSE /\ f.compared
            /\ FilterStep(c, [f EXCEPT !.needsReset = needsReset,
                                       !.nodes = @ \cup {Parent[c]}],
                          <<Packet("STATISTICS", f.nodes \cup {Parent[c]})>>)

\* The filter is not reset after its last packet.
FilterStatisticsNoReset(c) ==
  LET f == [Current(Parent[c]) EXCEPT !.waitForStats = @ - 1,
                                      !.nodes = @ \cup Head(up["TDBSCAN"][c]).body]
  IN  StatisticsWith(c, f, f.waitForStats <= 0, FALSE)

\* The first child's statistics are sent up.
FilterStatisticsFirst(c) ==
  LET f == [Current(Parent[c]) EXCEPT !.waitForStats = @ - 1,
                                      !.nodes = @ \cup Head(up["TDBSCAN"][c]).body]
  IN  StatisticsWith(c, f, TRUE, TRUE)

\* The last child's statistics are sent up with the filter's own, and the next
\* packet resets the filter.
FilterStatistics(c) ==
  /\ Arrived("TDBSCAN", c, "STATISTICS")
  /\ LET p == Parent[c]
         f == [Current(p) EXCEPT !.waitForStats = @ - 1,
                                 !.nodes = @ \cup Head(up["TDBSCAN"][c]).body]
     IN  IF f.waitForStats > 0
           THEN FilterStep(c, f, << >>)
           ELSE /\ f.compared
                /\ FilterStep(c, [f EXCEPT !.needsReset = TRUE, !.nodes = @ \cup {p}],
                              <<Packet("STATISTICS", f.nodes \cup {p})>>)

\* Statistics::to_str divides by the number of comparisons of hulls: a filter
\* that made none dies.
FilterDies(c) ==
  /\ Arrived("TDBSCAN", c, "STATISTICS")
  /\ LET p == Parent[c]
         f == Current(p)
     IN  /\ f.waitForStats <= 1
         /\ ~f.compared
         /\ FilterStep(c, [f EXCEPT !.alive = FALSE], << >>)

\* One packet of every child at once becomes one: ranges are joined, hits added.
Combine(s, p, packet) ==
  /\ filter[p].alive
  /\ \A c \in Children(p) : up[s][c] # << >>
  /\ up' = [up EXCEPT ![s] = [c \in Node |-> IF c \in Children(p) THEN Tail(@[c])
                                              ELSE IF c = p THEN Append(@[c], packet)
                                              ELSE @[c]]]
  /\ UNCHANGED <<down, filter, workerVars, rootVars>>

Bodies(s, p) == [c \in Children(p) |-> Head(up[s][c]).body]

FilterDimensions(p) ==
  Combine("XchangeDimensions", p,
          Packet("XCHANGE_DIMENSIONS", UNION Range(Bodies("XchangeDimensions", p))))

\* Faulty variant of FilterSupport: hits of one child replace those of another.
FilterSupportReplaces(p) ==
  Combine("Support", p,
          Packet("SUPPORT", FoldFunction(LAMBDA a, b : a @@ b, EmptyBag, Bodies("Support", p))))

FilterSupport(p) ==
  Combine("Support", p,
          Packet("SUPPORT", FoldFunction((+), EmptyBag, Bodies("Support", p))))

-----------------------------------------------------------------------------
(* The back-ends.                                                           *)

\* Run up to the wait for the global dimensions.  Nothing but the clustering
\* library and the dimensions is reset: TraceData and GlobalModel are not.
StartRound(w) ==
  /\ pc[w] = "config"
  /\ Received("TDBSCAN", w, "CLUSTERING_CONFIG")
  /\ class' = [class EXCEPT ![w] = << >>]
  /\ \/ /\ data' = [data EXCEPT ![w] = @ \cup {b \in Burst : Home[b] = w /\ Arrives[b] = round}]
        /\ TakeAndSend("TDBSCAN", w, "XchangeDimensions",
                       <<Packet("XCHANGE_DIMENSIONS", {<<w, round>>})>>)
        /\ Goto(w, "dims")
     \/ /\ "extract" \in Failures
        /\ Take("TDBSCAN", w)
        /\ Exit(w)
        /\ UNCHANGED data
  /\ UNCHANGED <<filter, dims, globalModel, support, rootVars>>

\* A receive that names a tag meets a packet with another.
WorkerDrops(w) ==
  /\ SkipUnexpected
  /\ pc[w] = "config"
  /\ down["TDBSCAN"][w] # << >>
  /\ ~Received("TDBSCAN", w, "CLUSTERING_CONFIG")
  /\ Take("TDBSCAN", w)
  /\ UNCHANGED <<filter, workerVars, rootVars>>

\* The bursts of w that have not been normalised are, with these ranges.
Normalised(w, ranges) ==
  [b \in Burst |-> IF b \in data[w] /\ dims[b] = {} THEN ranges ELSE dims[b]]

\* The global dimensions, and the local analysis with them.
ClusterLocally(w) ==
  /\ pc[w] = "dims"
  /\ Received("XchangeDimensions", w, "XCHANGE_DIMENSIONS")
  /\ dims' = Normalised(w, Head(down["XchangeDimensions"][w]).body)
  /\ Take("XchangeDimensions", w)
  /\ \/ Goto(w, "barrier")
     \/ "cluster" \in Failures /\ Exit(w)
  /\ UNCHANGED <<filter, data, globalModel, class, support, rootVars>>

\* Noise and hulls of the local analysis go up.
SendLocalModel(w) ==
  /\ pc[w] = "model"
  /\ up' = [up EXCEPT !["TDBSCAN"][w] = @ \o
              <<Packet("NOISE", NoiseOf(data[w], LocalMinPoints)), Mark("ALL_NOISE_SENT"),
                Packet("ALL_HULLS", Hulls(data[w], LocalMinPoints)), Mark("ALL_HULLS_SENT")>>]
  /\ Goto(w, "hulls")
  /\ UNCHANGED <<down, filter, data, dims, globalModel, class, support, rootVars>>

ReceiveGlobalModel(w) ==
  /\ pc[w] = "hulls"
  /\ Received("TDBSCAN", w, "ALL_HULLS")
  /\ globalModel' = [globalModel EXCEPT ![w] = @ \o Head(down["TDBSCAN"][w]).body]
  /\ Take("TDBSCAN", w)
  /\ UNCHANGED <<filter, pc, data, dims, class, support, rootVars>>

\* The global model is complete: classify and tell which cells are in use.
ClassifyData(w) ==
  /\ pc[w] = "hulls"
  /\ Received("TDBSCAN", w, "ALL_HULLS_SENT")
  /\ \/ /\ \E l \in Classify(w, globalModel[w]) : class' = [class EXCEPT ![w] = l]
        /\ TakeAndSend("TDBSCAN", w, "Support",
                       <<Packet("SUPPORT", SetToBag({clump[b] : b \in data[w]}))>>)
        /\ Goto(w, "support")
     \/ /\ "classify" \in Failures
        /\ Take("TDBSCAN", w)
        /\ Exit(w)
        /\ UNCHANGED class
  /\ UNCHANGED <<filter, data, dims, globalModel, support, rootVars>>

\* The tail of Run.  That GenerateScripts fails, and sends nothing, is ignored.
ReportResults(w) ==
  /\ pc[w] = "support"
  /\ Received("Support", w, "SUPPORT")
  /\ support' = [support EXCEPT ![w] = Head(down["Support"][w]).body]
  /\ \E scripts \in {<<Packet("CLUSTERS_INFO", Individuals(w))>>}
                    \cup (IF "scripts" \in Failures THEN {<< >>} ELSE {}) :
       \/ /\ TakeAndSend("Support", w, "TDBSCAN", Append(scripts, Packet("STATISTICS", {w})))
          /\ Goto(w, "config")
       \/ /\ "process" \in Failures
          /\ TakeAndSend("Support", w, "TDBSCAN", scripts)
          /\ Exit(w)
  /\ UNCHANGED <<filter, data, dims, globalModel, class, rootVars>>

-----------------------------------------------------------------------------
(* The front-end.                                                           *)

RootReceives(s, t) == filter[Root].alive /\ Arrived(s, Root, t)

RootTakes(s) == up' = [up EXCEPT ![s][Root] = Tail(@)]

RootGoto(l) == rpc' = l

SendConfiguration ==
  /\ filter[Root].alive
  /\ rpc = "start"
  /\ round < Rounds
  /\ round' = round + 1
  /\ info' = EmptyBag /\ nodes' = {} /\ arrived' = {} /\ left' = {}
  /\ Broadcast("TDBSCAN", <<Mark("CLUSTERING_CONFIG")>>)
  /\ RootGoto("dims")
  /\ UNCHANGED <<up, filter, workerVars, rootModel>>

ReturnDimensions ==
  /\ rpc = "dims"
  /\ RootReceives("XchangeDimensions", "XCHANGE_DIMENSIONS")
  /\ RootTakes("XchangeDimensions")
  /\ Broadcast("XchangeDimensions", <<Head(up["XchangeDimensions"][Root])>>)
  /\ RootGoto("barrier")
  /\ UNCHANGED <<filter, workerVars, round, rootModel, info, nodes, arrived, left>>

\* The barrier opens when everybody is in it.
Barrier ==
  /\ rpc = "barrier" /\ \A w \in Worker : pc[w] = "barrier"
  /\ filter[Root].alive
  /\ RootGoto("hulls")
  /\ pc' = [w \in Worker |-> "model"]
  /\ UNCHANGED <<up, down, filter, data, dims, globalModel, class, support, round,
                 rootModel, info, nodes, arrived, left>>

\* Orders of the positions P of a list of hulls by falling time; std::sort breaks ties
\* freely.
ByTime(hulls, P) ==
  {order \in [1 .. Cardinality(P) -> P] :
     /\ IsInjective(order)
     /\ \A j, k \in DOMAIN order :
          j < k => Cardinality(hulls[order[j]]) >= Cardinality(hulls[order[k]])}

\* Faulty variant of Dense: MinPoints bursts are not enough.
DenseAbove(model) == {k \in DOMAIN model : Cardinality(model[k]) > MinPoints}

\* The positions of the hulls that are as dense as the front-end asks.
Dense(model) == {k \in DOMAIN model : Cardinality(model[k]) >= MinPoints}

\* The hulls join GlobalModel; the dense ones of all of it are broadcast.
BroadcastGlobalModel ==
  /\ rpc = "hulls"
  /\ RootReceives("TDBSCAN", "ALL_HULLS")
  /\ RootTakes("TDBSCAN")
  /\ arrived' = Head(up["TDBSCAN"][Root]).body
  /\ rootModel' = rootModel \o SetToSeq(arrived')
  /\ \E order \in ByTime(rootModel', Dense(rootModel')) :
       Broadcast("TDBSCAN",
                 <<Packet("ALL_HULLS", [k \in DOMAIN order |-> rootModel'[order[k]]]),
                   Mark("ALL_HULLS_SENT")>>)
  /\ UNCHANGED <<filter, workerVars, rpc, round, info, nodes, left>>

CountRemainingNoise ==
  /\ rpc = "hulls"
  /\ RootReceives("TDBSCAN", "NOISE")
  /\ RootTakes("TDBSCAN")
  /\ left' = Head(up["TDBSCAN"][Root]).body
  /\ UNCHANGED <<down, filter, workerVars, rpc, round, rootModel, info, nodes, arrived>>

\* Any other tag is passed over, except the one that ends the loop.
PassOver ==
  /\ rpc = "hulls"
  /\ RootReceives("TDBSCAN", "ALL_NOISE_SENT")
  /\ RootTakes("TDBSCAN")
  /\ UNCHANGED <<down, filter, workerVars, rootVars>>

EndOfHulls ==
  /\ rpc = "hulls"
  /\ RootReceives("TDBSCAN", "ALL_HULLS_SENT")
  /\ RootTakes("TDBSCAN")
  /\ Broadcast("TDBSCAN", <<Mark("ALL_HULLS_SENT")>>)
  /\ RootGoto("support")
  /\ UNCHANGED <<filter, workerVars, round, rootModel, info, nodes, arrived, left>>

ReturnSupport ==
  /\ rpc = "support"
  /\ RootReceives("Support", "SUPPORT")
  /\ RootTakes("Support")
  /\ Broadcast("Support", <<Head(up["Support"][Root])>>)
  /\ RootGoto("info")
  /\ UNCHANGED <<filter, workerVars, round, rootModel, info, nodes, arrived, left>>

ReceiveInfo ==
  /\ rpc = "info"
  /\ RootReceives("TDBSCAN", "CLUSTERS_INFO")
  /\ RootTakes("TDBSCAN")
  /\ info' = Head(up["TDBSCAN"][Root]).body
  /\ RootGoto("stats")
  /\ UNCHANGED <<down, filter, workerVars, round, rootModel, nodes, arrived, left>>

ReceiveStatistics ==
  /\ rpc = "stats"
  /\ RootReceives("TDBSCAN", "STATISTICS")
  /\ RootTakes("TDBSCAN")
  /\ nodes' = Head(up["TDBSCAN"][Root]).body
  /\ RootGoto("start")
  /\ UNCHANGED <<down, filter, workerVars, round, rootModel, info, arrived, left>>

RootDrops ==
  /\ SkipUnexpected
  /\ rpc \in {"info", "stats"}
  /\ up["TDBSCAN"][Root] # << >>
  /\ ~Arrived("TDBSCAN", Root, IF rpc = "info" THEN "CLUSTERS_INFO" ELSE "STATISTICS")
  /\ filter[Root].alive
  /\ RootTakes("TDBSCAN")
  /\ UNCHANGED <<down, filter, workerVars, rootVars>>

-----------------------------------------------------------------------------
Init ==
  /\ clump \in Layouts
  /\ up = [s \in Stream |-> [c \in Node |-> << >>]]
  /\ down = [s \in Stream |-> [w \in Worker |-> << >>]]
  /\ filter = [p \in Filter |->
                 [Fresh(p) EXCEPT !.needsReset = TRUE, !.waitForNoise = 0,
                    !.waitForHulls = 0, !.waitForStats = 0, !.waitForClustersInfo = 0]]
  /\ pc = [w \in Worker |-> "config"]
  /\ data = [w \in Worker |-> {}]
  /\ dims = [b \in Burst |-> {}]
  /\ globalModel = [w \in Worker |-> << >>]
  /\ class = [w \in Worker |-> << >>]
  /\ support = [w \in Worker |-> EmptyBag]
  /\ rpc = "start"
  /\ round = 0
  /\ rootModel = << >>
  /\ info = EmptyBag
  /\ nodes = {}
  /\ arrived = {}
  /\ left = {}

FilterTakes(c) ==
  \/ FilterNoise(c)
  \/ FilterAllNoiseSent(c)
  \/ FilterAllHulls(c)
  \/ FilterAllHullsSent(c)
  \/ FilterClustersInfo(c)
  \/ FilterStatistics(c)
  \/ FilterDies(c)

WorkerStep(w) ==
  \/ StartRound(w)
  \/ WorkerDrops(w)
  \/ ClusterLocally(w)
  \/ SendLocalModel(w)
  \/ ReceiveGlobalModel(w)
  \/ ClassifyData(w)
  \/ ReportResults(w)

RootStep ==
  \/ SendConfiguration
  \/ ReturnDimensions
  \/ BroadcastGlobalModel
  \/ CountRemainingNoise
  \/ PassOver
  \/ EndOfHulls
  \/ ReturnSupport
  \/ ReceiveInfo
  \/ ReceiveStatistics
  \/ RootDrops

\* The front-end has ended a round and not begun another.
Between == rpc = "start" /\ round > 0

\* Run has returned everywhere for the last time, or never will.
Finished ==
  /\ \/ Between /\ round = Rounds /\ \A w \in Worker : pc[w] = "config"
     \/ \E p \in Filter : ~filter[p].alive
  /\ UNCHANGED vars

Next ==
  /\ \/ \E c \in Worker \cup Comm : FilterTakes(c)
     \/ \E p \in Filter : FilterDimensions(p) \/ FilterSupport(p)
     \/ \E w \in Worker : WorkerStep(w)
     \/ Barrier
     \/ RootStep
     \/ Finished
  /\ UNCHANGED clump

Spec == Init /\ [][Next]_vars

\* Processes run on and the network delivers.
FairSpec == Spec /\ WF_vars(Next)

-----------------------------------------------------------------------------
\* The state of every process has the types its declarations give it.
TypeOK ==
  /\ clump \in Layouts
  /\ \A s \in Stream : DOMAIN up[s] = Node /\ DOMAIN down[s] = Worker
  /\ \A p \in Filter :
       /\ filter[p].needsReset \in BOOLEAN
       /\ filter[p].waitForNoise \in 0 .. Cardinality(Children(p))
       /\ filter[p].waitForHulls \in 0 .. Cardinality(Children(p))
       /\ filter[p].waitForStats \in 0 .. Cardinality(Children(p))
       /\ filter[p].waitForClustersInfo \in 0 .. Cardinality(Children(p))
       /\ filter[p].noise \subseteq Burst
       /\ filter[p].merged \subseteq SUBSET Burst
       /\ filter[p].nodes \subseteq Node
       /\ IsABag(filter[p].info)
       /\ filter[p].compared \in BOOLEAN /\ filter[p].alive \in BOOLEAN
  /\ pc \in [Worker -> {"config", "dims", "barrier", "model", "hulls", "support", "exited"}]
  /\ data \in [Worker -> SUBSET Burst]
  /\ dims \in [Burst -> SUBSET (Worker \X (1 .. Rounds))]
  /\ globalModel \in [Worker -> Seq(SUBSET Burst)]
  /\ \A w \in Worker : class[w] = << >> \/ class[w] \in [data[w] -> Nat]
  /\ \A w \in Worker : IsABag(support[w])
  /\ rpc \in {"start", "dims", "barrier", "hulls", "support", "info", "stats"}
  /\ round \in 0 .. Rounds
  /\ rootModel \in Seq(SUBSET Burst)
  /\ IsABag(info)
  /\ nodes \subseteq Node
  /\ arrived \subseteq SUBSET Burst /\ left \subseteq Burst

\* When the front-end has all hulls, every burst of every back-end is in exactly
\* one of them or among the remaining noise: no packet was lost, counted twice or
\* merged after its filter had sent what it held.
EveryBurstAccounted ==
  rpc \in {"support", "info", "stats"} =>
    \A b \in UNION Range(data) :
      Cardinality({H \in arrived : b \in H}) = IF b \in left THEN 0 ELSE 1

\* Nobody clusters before the ranges of all back-ends are known: the bursts found in
\* one round are measured alike in all of them, and those found earlier as they were.
NormalisedAlike ==
  \A w \in Worker :
    pc[w] \in {"barrier", "model", "hulls", "support"} =>
      \A b \in data[w] : dims[b] = Worker \X {Arrives[b]}

\* The hulls of all rounds that are as dense as the front-end asks.
DenseHulls == {rootModel[k] : k \in Dense(rootModel)}

\* A cluster id means the same in every back-end: bursts of one id are of one clump,
\* and the bursts of a dense hull have an id, the same unless another dense hull lies
\* in its clump.  The bursts of one round are measured in the same ranges.
ClassifiedAlike ==
  /\ NormalisedAlike
  /\ \A v, w \in Worker : \A a \in DOMAIN class[v], b \in DOMAIN class[w] :
       /\ class[v][a] = class[w][b] /\ class[v][a] # 0 => clump[a] = clump[b]
       /\ \A H \in DenseHulls :
            a \in H /\ b \in H =>
              /\ class[v][a] # 0
              /\ class[v][a] = class[w][b] \/ \E G \in DenseHulls \ {H} : Touch(G, H)

\* The report of a round counts every burst of every back-end once, under the id
\* its back-end gave it.
InfoComplete ==
  rpc = "stats" \/ Between =>
    info = FoldFunction((+), EmptyBag, [w \in Worker |-> Individuals(w)])

\* The statistics of a round come from every process of the tree.
StatisticsComplete == Between => nodes = Worker \cup Filter

\* What the front-end reports of a round is about all bursts and all processes.
ReportsComplete == InfoComplete /\ StatisticsComplete

\* The support of a cell that back-ends work with is the number of back-ends with
\* bursts there.
SupportExact ==
  Between =>
    \A w \in Worker :
      support[w] = [k \in {clump[b] : b \in UNION Range(data)} |->
                      Cardinality({v \in Worker : \E b \in data[v] : clump[b] = k})]

\* A filter is reset only when it has passed on all it received: no child is left
\* to send anything of the round.
ResetLosesNothing ==
  [][\A p \in Filter :
       filter[p].needsReset /\ ~filter'[p].needsReset =>
         /\ filter[p].waitForNoise = 0 /\ filter[p].waitForHulls = 0
         /\ filter[p].waitForStats = 0 /\ filter[p].waitForClustersInfo = 0]_vars

\* All rounds end, in the front-end and in the back-ends, unless a filter dies.
EveryRoundEnds ==
  <>(\/ Between /\ round = Rounds /\ \A w \in Worker : pc[w] = "config"
     \/ \E p \in Filter : ~filter[p].alive)

\* The front-end has not got all hulls of the round.
Gathering == rpc \in {"dims", "barrier", "hulls"}

\* The bursts have the ids of the round, or of the last one.
Named == rpc \in {"stats", "start"}

Phase ==
  CASE rpc = "start" -> "idle"
    [] Gathering     -> "gathering"
    [] rpc = "stats" -> "named"
    [] OTHER         -> "clustered"

FinalHulls == IF Gathering THEN {} ELSE arrived
FinalNoise == IF Gathering THEN {} ELSE left

\* The dense ones of the first n hulls of a model.
Known(model, n) == {model[k] : k \in {j \in Dense(model) : j <= n}}

\* The hulls of a round that is not over do not count yet.
KnownClusters ==
  Known(rootModel,
        IF Gathering THEN Len(rootModel) - Cardinality(arrived) ELSE Len(rootModel))

GivenIds == IF Named THEN [b \in UNION Range(data) |-> class[Home[b]][b]] ELSE << >>

Abstract == INSTANCE GlobalClustering WITH
  Processes <- Node,
  bursts    <- UNION Range(data),
  phase     <- Phase,
  hulls     <- FinalHulls,
  noise     <- FinalNoise,
  known     <- KnownClusters,
  ids       <- GivenIds,
  report    <- info,
  reporters <- nodes

\* The protocol implements the global clustering: front-end, filters and back-ends
\* together share out, name and count all bursts as if they were in one process, and no
\* back-end extracts, classifies or renames a burst when the front-end is past it.
ImplementsGlobalClustering == Abstract!Spec

\* "Delete any previous clustering": a back-end that starts an analysis holds no
\* hull of an earlier one.
PreviousDeleted == \A w \in Worker : pc[w] = "dims" => globalModel[w] = << >>

\* "Receive the statistics from all nodes": no filter dies of its statistics.
FiltersSurvive == \A p \in Filter : filter[p].alive
=============================================================================
