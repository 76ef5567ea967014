--------------------------- MODULE TDBSCAN_proofs ---------------------------
(***************************************************************************)
(* What holds of the TreeDBSCAN protocol in any tree, for any bursts,      *)
(* layouts and number of rounds, and whatever fails in a back-end.         *)
(*                                                                         *)
(* What every state of a round has to agree with is an account of what     *)
(* each process has sent and its parent has taken: the inductive invariant *)
(* says that there is one, and the steps of the filters, of the back-ends  *)
(* and of the front-end lead from one account to another. A back-end whose *)
(* scripts fail sends no CLUSTERS_INFO and leaves the filters above it,    *)
(* and the front-end, waiting for it while they take the STATISTICS: the   *)
(* invariant then keeps an account of these two packets alone.             *)
(***************************************************************************)
EXTENDS TDBSCAN, DataLemmas

(***************************************************************************)
(* The tree.  Above(n) are n and what its parents lead to, Under(p) the    *)
(* processes that lead to p.                                               *)
(***************************************************************************)
Above(n) ==
  {m \in Node : \A X \in SUBSET Node :
     n \in X /\ (\A c \in X \ {Root} : Parent[c] \in X) => m \in X}

Under(p) == {n \in Node : p \in Above(n)}

\* The tree as the assumption gives it: parents are filters, filters have children.
LEMMA NodeFacts ==
  /\ Worker \subseteq Node /\ Filter \subseteq Node /\ Root \in Filter
  /\ Node = Worker \cup Filter /\ Worker \cap Filter = {}
  /\ Node \ {Root} = Worker \cup Comm
  /\ \A c \in Node \ {Root} : Parent[c] \in Filter
  /\ \A p : Children(p) \subseteq Node \ {Root}
  /\ \A p \in Filter : Children(p) # {}
  /\ \A p : \A c \in Children(p) : Parent[c] = p
  /\ \A c \in Node \ {Root} : c \in Children(Parent[c])
BY TreeAssumption DEF Node, Filter, Children

\* Every process is above itself.
LEMMA AboveSelf == \A n \in Node : n \in Above(n)
BY DEF Above

\* What is above a process is a set its parents do not leave.
LEMMA AboveClosed ==
  ASSUME NEW n \in Node, NEW c \in Above(n), c # Root
  PROVE  Parent[c] \in Above(n)
<1>1. c \in Node \ {Root} /\ Parent[c] \in Node
  BY NodeFacts DEF Above
<1> QED
  BY <1>1 DEF Above

\* And it is the least such set.
LEMMA AboveMinimal ==
  ASSUME NEW n \in Node, NEW X \in SUBSET Node, n \in X,
         \A c \in X \ {Root} : Parent[c] \in X
  PROVE  Above(n) \subseteq X
BY DEF Above

\* What is above a process is itself and what is above its parent.
LEMMA AboveParent ==
  /\ Above(Root) = {Root}
  /\ \A n \in Node \ {Root} : Above(n) = {n} \cup Above(Parent[n])
<1>1. Above(Root) = {Root}
  <2>1. Root \in Node /\ {Root} \in SUBSET Node
    BY NodeFacts
  <2>2. Above(Root) \subseteq {Root}
    <3>1. Root \in {Root} /\ \A c \in {Root} \ {Root} : Parent[c] \in {Root}
      OBVIOUS
    <3> QED
      BY <2>1, <3>1, AboveMinimal
  <2>3. Root \in Above(Root)
    BY <2>1, AboveSelf
  <2> QED
    BY <2>2, <2>3
<1>2. ASSUME NEW n \in Node \ {Root}
      PROVE  Above(n) = {n} \cup Above(Parent[n])
  <2>1. Parent[n] \in Node
    BY NodeFacts
  <2>2. Above(n) \subseteq {n} \cup Above(Parent[n])
    <3> DEFINE X == {n} \cup Above(Parent[n])
    <3>1. X \in SUBSET Node /\ n \in X
      BY DEF Above
    <3>2. \A c \in X \ {Root} : Parent[c] \in X
      BY <2>1, AboveClosed, AboveSelf
    <3> HIDE DEF X
    <3>3. Above(n) \subseteq X
      BY <3>1, <3>2, AboveMinimal
    <3> QED
      BY <3>3 DEF X
  <2>3. {n} \cup Above(Parent[n]) \subseteq Above(n)
    <3>1. n \in Above(n) /\ Parent[n] \in Above(n)
      BY AboveSelf, AboveClosed
    <3>2. Above(n) \in SUBSET Node /\ \A c \in Above(n) \ {Root} : Parent[c] \in Above(n)
      BY AboveClosed DEF Above
    <3>3. Above(Parent[n]) \subseteq Above(n)
      BY <2>1, <3>1, <3>2, AboveMinimal
    <3> QED
      BY <3>1, <3>3
  <2> QED
    BY <2>2, <2>3
<1> QED
  BY <1>1, <1>2

\* What holds of the front-end, and of a process when of its parent, holds of all.
LEMMA TopDown ==
  ASSUME NEW X, Root \in X, \A c \in Node \ {Root} : Parent[c] \in X => c \in X
  PROVE  Node \subseteq X
<1> DEFINE Y == X \cap Node
<1>1. Y \in SUBSET Node /\ Root \in Y
  BY NodeFacts
<1>2. \A c \in Worker \cup Comm : Parent[c] \in Y => c \in Y
  BY NodeFacts
<1> HIDE DEF Y
<1>3. Y = Node
  BY <1>1, <1>2, TreeAssumption
<1> QED
  BY <1>3 DEF Y

\* No parent leads back to its child.
LEMMA Acyclic ==
  ASSUME NEW n \in Node, NEW d \in Node \ {Root}, Parent[d] = n
  PROVE  d \notin Above(n)
<1> DEFINE X == {m \in Node : \A e \in Node \ {Root} : Parent[e] = m => e \notin Above(m)}
<1>1. Root \in X
  BY NodeFacts, AboveParent
<1>2. ASSUME NEW c \in Node \ {Root}, Parent[c] \in X
      PROVE  c \in X
  <2> SUFFICES ASSUME NEW e \in Node \ {Root}, Parent[e] = c, e \in Above(c)
               PROVE  FALSE
    OBVIOUS
  <2>1. Parent[c] \in Node /\ c \notin Above(Parent[c])
    BY <1>2
  <2>2. e # c
    BY <2>1, AboveSelf
  <2>3. e \in Above(Parent[c])
    BY <2>2, AboveParent
  <2>4. c \in Above(Parent[c])
    BY <2>1, <2>3, AboveClosed
  <2> QED
    BY <2>1, <2>4
<1> HIDE DEF X
<1>3. n \in X
  BY <1>1, <1>2, TopDown
<1> QED
  BY <1>3 DEF X

\* Below a process are itself and what is below its children, each below one of them.
LEMMA UnderFilter ==
  ASSUME NEW p \in Filter
  PROVE  Under(p) = {p} \cup UNION {Under(c) : c \in Children(p)}
<1>1. p \in Node
  BY NodeFacts
<1>2. ASSUME NEW n \in Under(p), n # p
      PROVE  \E c \in Children(p) : n \in Under(c)
  <2> DEFINE X == {n} \cup {m \in Above(n) : \E c \in Above(n) \ {Root} : Parent[c] = m}
  <2>1. n \in Node /\ p \in Above(n) /\ n \in Above(n)
    BY AboveSelf DEF Under
  <2>2. X \in SUBSET Node /\ n \in X
    BY <2>1 DEF Above
  <2>3. \A c \in X \ {Root} : Parent[c] \in X
    BY <2>1, AboveClosed
  <2> HIDE DEF X
  <2>4. p \in X
    BY <2>1, <2>2, <2>3, AboveMinimal
  <2>5. PICK c \in Above(n) \ {Root} : Parent[c] = p
    BY <1>2, <2>4 DEF X
  <2>6. c \in Node /\ c \in Children(p)
    BY <2>5, NodeFacts DEF Above
  <2> QED
    BY <2>1, <2>6 DEF Under
<1>3. ASSUME NEW c \in Children(p), NEW n \in Under(c)
      PROVE  n \in Under(p)
  <2>1. c # Root /\ Parent[c] = p /\ n \in Node /\ c \in Above(n)
    BY <1>3, NodeFacts DEF Under
  <2> QED
    BY <2>1, AboveClosed DEF Under
<1>4. p \in Under(p)
  BY <1>1, AboveSelf DEF Under
<1> QED
  BY <1>2, <1>3, <1>4

\* Below a back-end there is only itself.
LEMMA UnderWorker ==
  ASSUME NEW w \in Worker
  PROVE  Under(w) = {w}
<1>1. ASSUME NEW n \in Node, w \in Above(n)
      PROVE  n = w
  <2>1. {n} \cup Filter \in SUBSET Node /\ n \in {n} \cup Filter
    BY NodeFacts
  <2>2. \A c \in ({n} \cup Filter) \ {Root} : Parent[c] \in {n} \cup Filter
    BY NodeFacts
  <2>3. Above(n) \subseteq {n} \cup Filter
    BY <2>1, <2>2, AboveMinimal
  <2> QED
    BY <1>1, <2>3, NodeFacts
<1> QED
  BY <1>1, AboveSelf, NodeFacts DEF Under

\* Every process is below the front-end.
LEMMA UnderRoot == Under(Root) = Node
<1> DEFINE X == {n \in Node : Root \in Above(n)}
<1>1. Root \in X
  BY NodeFacts, AboveSelf
<1>2. \A c \in Node \ {Root} : Parent[c] \in X => c \in X
  BY AboveParent
<1> HIDE DEF X
<1>3. Node \subseteq X
  BY <1>1, <1>2, TopDown
<1> QED
  BY <1>3 DEF X, Under

\* No process is below two children of a filter.
LEMMA UnderDisjoint ==
  ASSUME NEW p, NEW c \in Children(p), NEW d \in Children(p), c # d
  PROVE  Under(c) \cap Under(d) = {}
<1> DEFINE X == {n \in Node : \A a, b \in Above(n) \ {Root} : Parent[a] = Parent[b] => a = b}
<1>1. Root \in X
  BY NodeFacts, AboveParent
<1>2. ASSUME NEW n \in Node \ {Root}, Parent[n] \in X
      PROVE  n \in X
  <2>1. Above(n) = {n} \cup Above(Parent[n]) /\ Parent[n] \in Node
    BY AboveParent, NodeFacts
  <2>2. ASSUME NEW b \in Above(Parent[n]) \ {Root}, Parent[n] = Parent[b]
        PROVE  FALSE
    <3>1. b \in Node \ {Root}
      BY DEF Above
    <3> QED
      BY <2>1, <2>2, <3>1, Acyclic
  <2> QED
    BY <1>2, <2>1, <2>2
<1> HIDE DEF X
<1>3. Node \subseteq X
  BY <1>1, <1>2, TopDown
<1>4. c # Root /\ d # Root /\ Parent[c] = Parent[d]
  BY NodeFacts
<1>5. ASSUME NEW n \in Under(c), n \in Under(d)
      PROVE  FALSE
  <2>1. n \in X /\ c \in Above(n) /\ d \in Above(n)
    BY <1>3, <1>5 DEF Under
  <2> QED
    BY <1>4, <2>1 DEF X
<1> QED
  BY <1>5
-----------------------------------------------------------------------------
(***************************************************************************)
(* The inductive invariant.                                                *)
(*                                                                         *)
(* In a round every process sends the same packets on a stream, its script,*)
(* whatever it hears first; so the state of the network and of the filters *)
(* is told by how much of its script each process has sent and its parent  *)
(* has taken, and by the contents of the packets, those taken included.    *)
(* No variable keeps them: the invariant says that there is such an        *)
(* account h of the round that the state agrees with.                      *)
(***************************************************************************)
Length(s) == IF s = "TDBSCAN" THEN 6 ELSE 1

\* The back-ends below c, their bursts.
Workers(c) == Worker \cap Under(c)
Bursts(c) == UNION {data[w] : w \in Workers(c)}

\* The ranges that back-ends W tell in round r.
Told(W, r) == W \X {r}

Script(h, s, c) ==
  CASE s = "TDBSCAN" -> <<Packet("NOISE", h.noise[c]), Mark("ALL_NOISE_SENT"),
                          Packet("ALL_HULLS", h.hulls[c]), Mark("ALL_HULLS_SENT"),
                          Packet("CLUSTERS_INFO", h.info[c]), Packet("STATISTICS", Under(c))>>
    [] s = "XchangeDimensions" -> <<Packet("XCHANGE_DIMENSIONS", Told(Workers(c), h.round))>>
    [] s = "Support" -> <<Packet("SUPPORT", h.sup[c])>>

\* Down the tree; the packet 0 is what the round before left behind.
DownScript(h, s) ==
  CASE s = "TDBSCAN" -> [i \in 0 .. 4 |-> IF i = 1 THEN Mark("CLUSTERING_CONFIG")
                                           ELSE IF i = 2 THEN Packet("ALL_HULLS", h.news)
                                           ELSE Mark("ALL_HULLS_SENT")]
    [] s = "XchangeDimensions" -> <<Packet("XCHANGE_DIMENSIONS", Told(Worker, h.round))>>
    [] s = "Support" -> <<Packet("SUPPORT", h.sup[Root])>>

Queues(h) ==
  /\ DOMAIN up = Stream /\ DOMAIN down = Stream
  /\ \A s \in Stream :
       /\ DOMAIN up[s] = Node /\ DOMAIN down[s] = Worker
       /\ \A c \in Node : up[s][c] = Segment(Script(h, s, c), h.took[s][c], h.sent[s][c])
       /\ \A w \in Worker :
            down[s][w] = Segment(DownScript(h, s), h.dtook[s][w], h.dsent[s])

\* sent and took say how much of its script a process has sent upwards and its parent
\* has taken, dsent and dtook the same downwards; old is the model a back-end has when
\* it begins the round, news what the round adds.
Accounts ==
  [sent  : [Stream -> [Node -> 0 .. 6]], took : [Stream -> [Node -> 0 .. 6]],
   dsent : [Stream -> 0 .. 4], dtook : [Stream -> [Worker -> -1 .. 4]],
   noise : [Node -> SUBSET Burst], hulls : [Node -> SUBSET SUBSET Burst],
   info  : [Node -> Counts(Nat)], sup : [Node -> Counts(Range(clump))],
   old   : Seq(SUBSET Burst), news : Seq(SUBSET Burst), round : Nat]

Possible(h) ==
  /\ h \in Accounts
  /\ \A s \in Stream : \A c \in Node : h.took[s][c] <= h.sent[s][c] /\ h.sent[s][c] <= Length(s)
  /\ \A s \in Stream : \A w \in Worker :
       h.dtook[s][w] <= h.dsent[s] /\ (s # "TDBSCAN" => h.dtook[s][w] >= 0)
  /\ h.dsent["TDBSCAN"] < 3 => h.news = << >>

\* A filter sends a packet when it has it of all its children, and not before.
Forwards(h, p) ==
  /\ h.sent["TDBSCAN"][p] \in {0, 2, 4, 5, 6}
  /\ \A s \in Stream : \A c \in Children(p) : h.sent[s][p] <= h.took[s][c]
  /\ \A k \in {2, 4, 5} :
       (\A c \in Children(p) : h.took["TDBSCAN"][c] >= k) => h.sent["TDBSCAN"][p] >= k

\* The id each burst has from its back-end, and the cells in which each has bursts.
IdOf == [b \in Burst |-> IF class[Home[b]][b] \in Nat THEN class[Home[b]][b] ELSE 0]
Cells(c) == {x \in Workers(c) \X Range(clump) : \E b \in data[x[1]] : clump[b] = x[2]}
CellOf == [x \in Worker \X Range(clump) |-> x[2]]

OneClump(H) == \A a, b \in H : clump[a] = clump[b]
Apart(HH) == \A G, H \in HH : G # H => G \cap H = {}

\* What c has sent is about the bursts below c, each once.
Contents(h, c) ==
  /\ h.sent["TDBSCAN"][c] >= 2 => h.noise[c] \subseteq Bursts(c)
  /\ h.sent["TDBSCAN"][c] >= 4 =>
       /\ h.noise[c] \cup UNION h.hulls[c] = Bursts(c)
       /\ h.noise[c] \cap UNION h.hulls[c] = {}
       /\ Apart(h.hulls[c]) /\ \A H \in h.hulls[c] : OneClump(H)
  /\ h.sent["TDBSCAN"][c] >= 5 => h.info[c] = Tally(Bursts(c), IdOf)
  /\ h.sent["Support"][c] = 1 => h.sup[c] = Tally(Cells(c), CellOf)

\* The children of p of which the filter has taken n packets, and what was in them.
Taken(h, p, n) == {c \in Children(p) : h.took["TDBSCAN"][c] >= n}
Missing(h, p, n) == Cardinality({c \in Children(p) : h.took["TDBSCAN"][c] < n})

NoiseIn(h, p)  == UNION {h.noise[c] : c \in Taken(h, p, 1)}
HullsIn(h, p)  == UNION {UNION h.hulls[c] : c \in Taken(h, p, 3)}
Informed(h, p) == UNION {Bursts(c) : c \in Taken(h, p, 5)}
Reported(h, p) == UNION {Under(c) : c \in Taken(h, p, 6)}

FilterState(p) ==
  LET some == 0 .. Cardinality(Children(p))
  IN  [needsReset : BOOLEAN, waitForNoise : some, waitForHulls : some, waitForStats : some,
       waitForClustersInfo : some, noise : SUBSET Burst, merged : SUBSET SUBSET Burst,
       compared : BOOLEAN, nodes : SUBSET Node, info : Counts(Nat), alive : BOOLEAN]

\* What f, the filter in p, holds of the packets it has taken.
Holds(h, p, f) ==
  /\ f.waitForNoise = Missing(h, p, 2) /\ f.waitForHulls = Missing(h, p, 4)
  /\ f.waitForClustersInfo = Missing(h, p, 5) /\ f.waitForStats = Missing(h, p, 6)
  /\ f.noise = NoiseIn(h, p)
  /\ IF h.sent["TDBSCAN"][p] >= 2
       THEN /\ h.noise[p] \subseteq f.noise
            /\ UNION f.merged = HullsIn(h, p) \cup (f.noise \ h.noise[p])
       ELSE UNION f.merged = HullsIn(h, p)
  /\ Apart(f.merged) /\ \A H \in f.merged : OneClump(H)
  /\ f.info = Tally(Informed(h, p), IdOf)
  /\ f.nodes = Reported(h, p)

Rests(f) ==
  /\ f.waitForNoise = 0 /\ f.waitForHulls = 0
  /\ f.waitForStats = 0 /\ f.waitForClustersInfo = 0

FilterOK(h, p, f) ==
  /\ f \in FilterState(p)
  /\ f.needsReset => /\ Rests(f)
                     /\ \/ \A c \in Children(p) : h.took["TDBSCAN"][c] = 0
                        \/ \A c \in Children(p) : h.took["TDBSCAN"][c] = 6
  /\ f.alive /\ ~f.needsReset => /\ Holds(h, p, f)
                                 /\ \E c \in Children(p) : h.took["TDBSCAN"][c] < 6

\* How far a back-end is in each stream, sending and receiving, at each place of Run.
Progress(h, w) ==
  <<h.sent["TDBSCAN"][w], h.sent["XchangeDimensions"][w], h.sent["Support"][w],
    h.dtook["TDBSCAN"][w], h.dtook["XchangeDimensions"][w], h.dtook["Support"][w]>>

Places(l) ==
  CASE l = "config" -> {<<0, 0, 0, -1, 0, 0>>, <<0, 0, 0, 0, 0, 0>>,
                        <<6, 1, 1, 3, 1, 1>>, <<6, 1, 1, 4, 1, 1>>}
    [] l = "dims" -> {<<0, 1, 0, 1, 0, 0>>}
    [] l \in {"barrier", "model"} -> {<<0, 1, 0, 1, 1, 0>>}
    [] l = "hulls" -> {<<4, 1, 0, 1, 1, 0>>, <<4, 1, 0, 2, 1, 0>>}
    [] l = "support" -> {<<4, 1, 1, 3, 1, 0>>}
    [] l = "exited" -> {<<0, 0, 0, 1, 0, 0>>, <<0, 1, 0, 1, 1, 0>>, <<4, 1, 0, 3, 1, 0>>,
                        <<5, 1, 1, 3, 1, 1>>}

Model(h) == h.old \o h.news

\* The bursts of w are from this round, when w has begun it, or from an earlier one; they
\* are measured in the ranges of the round that found them, once w has these.
Measured(h, w) ==
  /\ \A b \in data[w] : /\ Arrives[b] <= h.round
                        /\ h.dtook["TDBSCAN"][w] <= 0 => Arrives[b] < h.round
  /\ \A b \in Burst : Home[b] = w =>
       dims[b] = IF b \notin data[w] \/ (pc[w] = "dims" /\ Arrives[b] = h.round) THEN {}
                 ELSE Told(Worker, Arrives[b])

WorkerOK(h, w) ==
  /\ pc[w] \in {"config", "dims", "barrier", "model", "hulls", "support", "exited"}
  /\ Progress(h, w) \in Places(pc[w])
  /\ \A b \in data[w] : Home[b] = w
  /\ Measured(h, w)
  /\ globalModel[w] = IF h.dtook["TDBSCAN"][w] >= 2 THEN Model(h) ELSE h.old
  /\ IF h.sent["Support"][w] = 1 THEN class[w] \in Classify(w, Model(h))
     ELSE \/ class[w] = << >>
          \/ h.dtook["TDBSCAN"][w] <= 0 /\ class[w] \in Classify(w, Model(h))
  /\ h.dtook["Support"][w] = 1 => support[w] = h.sup[Root]

RootProgress(h) ==
  <<h.took["TDBSCAN"][Root], h.took["XchangeDimensions"][Root], h.took["Support"][Root],
    h.dsent["TDBSCAN"], h.dsent["XchangeDimensions"], h.dsent["Support"]>>

RootPlaces(l) ==
  CASE l = "start" -> {<<6, 1, 1, 4, 1, 1>>}
    [] l = "dims" -> {<<0, 0, 0, 1, 0, 0>>}
    [] l = "barrier" -> {<<0, 1, 0, 1, 1, 0>>}
    [] l = "hulls" -> {<<0, 1, 0, 1, 1, 0>>, <<1, 1, 0, 1, 1, 0>>, <<2, 1, 0, 1, 1, 0>>,
                       <<3, 1, 0, 3, 1, 0>>}
    [] l = "support" -> {<<4, 1, 0, 4, 1, 0>>}
    [] l = "info" -> {<<4, 1, 1, 4, 1, 1>>}
    [] l = "stats" -> {<<5, 1, 1, 4, 1, 1>>}

\* The dense hulls of the front-end's model are those it has broadcast, in this round or
\* before; its last hulls are the ones of this round (Modelled).
LastHulls(n) == {rootModel[k] : k \in Len(rootModel) - n + 1 .. Len(rootModel)}

Modelled(h) ==
  /\ \A k \in DOMAIN rootModel : OneClump(rootModel[k])
  /\ Range(h.old) \subseteq DenseHulls
  /\ IF h.took["TDBSCAN"][Root] >= 3
       THEN /\ Range(h.news) = DenseHulls
            /\ Cardinality(arrived) <= Len(rootModel)
            /\ arrived = LastHulls(Cardinality(arrived))
       ELSE arrived = {} /\ Range(h.old) = DenseHulls

RootOK(h) ==
  /\ Modelled(h)
  /\ h.round = round
  /\ rpc \in {"start", "dims", "barrier", "hulls", "support", "info", "stats"}
  /\ RootProgress(h) \in RootPlaces(rpc)
  /\ IF rpc \in {"dims", "barrier"}
       THEN \A w \in Worker : h.sent["TDBSCAN"][w] = 0 /\ pc[w] # "model"
       ELSE \A w \in Worker : h.dtook["TDBSCAN"][w] >= 1
  /\ h.took["TDBSCAN"][Root] >= 1 => left = h.noise[Root]
  /\ h.took["TDBSCAN"][Root] >= 3 => arrived = h.hulls[Root]
  /\ h.took["TDBSCAN"][Root] >= 5 => info = h.info[Root]
  /\ h.took["TDBSCAN"][Root] = 6 /\ round > 0 => nodes = Node

Shapes ==
  /\ clump \in Layouts
  /\ DOMAIN filter = Filter
  /\ DOMAIN pc = Worker /\ DOMAIN globalModel = Worker /\ DOMAIN class = Worker
  /\ data \in [Worker -> SUBSET Burst]
  /\ dims \in [Burst -> SUBSET (Worker \X (1 .. Rounds))]
  /\ support \in [Worker -> Counts(Range(clump))]
  /\ round \in 0 .. Rounds
  /\ rootModel \in Seq(SUBSET Burst)
  /\ info \in Counts(Nat) /\ nodes \subseteq Node
  /\ arrived \subseteq SUBSET Burst /\ left \subseteq Burst

Agrees(h) ==
  /\ Shapes
  /\ Possible(h)
  /\ Queues(h)
  /\ \A p \in Filter : Forwards(h, p) /\ FilterOK(h, p, filter[p])
  /\ \A c \in Node : Contents(h, c)
  /\ \A w \in Worker : WorkerOK(h, w)
  /\ RootOK(h)

IInv == \E h : Agrees(h)

\* A step that leaves the models alone.
LEMMA ModelKept ==
  ASSUME NEW h, NEW g, RootOK(h), g.old = h.old, g.news = h.news,
         g.took["TDBSCAN"][Root] >= 3 <=> h.took["TDBSCAN"][Root] >= 3,
         UNCHANGED <<clump, rootModel, arrived>>
  PROVE  Modelled(g)'
<1>1. Modelled(h)
  BY DEF RootOK
<1>2. /\ \A H : OneClump(H)' <=> OneClump(H)
      /\ DenseHulls' = DenseHulls /\ \A n : LastHulls(n)' = LastHulls(n)
  BY DEF OneClump, DenseHulls, LastHulls, Dense
<1> QED
  BY <1>1, <1>2 DEF Modelled

-----------------------------------------------------------------------------
(***************************************************************************)
(* The network.                                                            *)
(***************************************************************************)
\* The streams, and the fields of an account.
LEMMA StreamFacts ==
  /\ "TDBSCAN" \in Stream /\ "XchangeDimensions" \in Stream /\ "Support" \in Stream
  /\ \A s \in Stream : s \in {"TDBSCAN", "XchangeDimensions", "Support"}
BY DEF Stream

\* The counts of an account are numbers, and nothing is taken before it was sent.
LEMMA AccountFacts ==
  ASSUME NEW h, Possible(h)
  PROVE  /\ \A s \in Stream, c \in Node :
              /\ h.sent[s][c] \in 0 .. 6 /\ h.took[s][c] \in 0 .. 6
              /\ h.took[s][c] <= h.sent[s][c]
         /\ \A c \in Node : /\ h.sent["XchangeDimensions"][c] <= 1
                            /\ h.sent["Support"][c] <= 1
         /\ \A s \in Stream, w \in Worker :
              /\ h.dsent[s] \in 0 .. 4 /\ h.dtook[s][w] \in -1 .. 4
              /\ h.dtook[s][w] <= h.dsent[s]
<1>1. \A s \in Stream : /\ h.sent[s] \in [Node -> 0 .. 6] /\ h.took[s] \in [Node -> 0 .. 6]
                        /\ h.dsent[s] \in 0 .. 4 /\ h.dtook[s] \in [Worker -> -1 .. 4]
  BY DEF Possible, Accounts
<1> QED
  BY <1>1, StreamFacts DEF Possible, Length

\* The two parts of a packet.
LEMMA PacketIs ==
  /\ \A t, b : Packet(t, b).tag = t /\ Packet(t, b).body = b
  /\ \A t : Mark(t).tag = t
BY DEF Packet, Mark

\* The packets of the scripts.
LEMMA ScriptIs ==
  ASSUME NEW h, NEW c
  PROVE  /\ Script(h, "TDBSCAN", c)[1] = Packet("NOISE", h.noise[c])
         /\ Script(h, "TDBSCAN", c)[2] = Mark("ALL_NOISE_SENT")
         /\ Script(h, "TDBSCAN", c)[3] = Packet("ALL_HULLS", h.hulls[c])
         /\ Script(h, "TDBSCAN", c)[4] = Mark("ALL_HULLS_SENT")
         /\ Script(h, "TDBSCAN", c)[5] = Packet("CLUSTERS_INFO", h.info[c])
         /\ Script(h, "TDBSCAN", c)[6] = Packet("STATISTICS", Under(c))
         /\ Script(h, "XchangeDimensions", c)[1]
              = Packet("XCHANGE_DIMENSIONS", Told(Workers(c), h.round))
         /\ Script(h, "Support", c)[1] = Packet("SUPPORT", h.sup[c])
BY DEF Script

\* The packets the front-end broadcasts.
LEMMA DownScriptIs ==
  ASSUME NEW h
  PROVE  /\ \A i \in {0, 3, 4} : DownScript(h, "TDBSCAN")[i] = Mark("ALL_HULLS_SENT")
         /\ DownScript(h, "TDBSCAN")[1] = Mark("CLUSTERING_CONFIG")
         /\ DownScript(h, "TDBSCAN")[2] = Packet("ALL_HULLS", h.news)
         /\ DownScript(h, "XchangeDimensions")[1]
              = Packet("XCHANGE_DIMENSIONS", Told(Worker, h.round))
         /\ DownScript(h, "Support")[1] = Packet("SUPPORT", h.sup[Root])
BY DEF DownScript

\* What a queue holds: the packets of the script that were sent and not taken.
LEMMA UpQueue ==
  ASSUME NEW h, Possible(h), Queues(h), NEW s \in Stream, NEW c \in Node
  PROVE  /\ up[s][c] = << >> <=> h.took[s][c] = h.sent[s][c]
         /\ h.took[s][c] < h.sent[s][c] =>
              /\ Head(up[s][c]) = Script(h, s, c)[h.took[s][c] + 1]
              /\ Tail(up[s][c]) = Segment(Script(h, s, c), h.took[s][c] + 1, h.sent[s][c])
<1> DEFINE a == h.took[s][c]
           b == h.sent[s][c]
           S == Script(h, s, c)
<1>1. a \in Int /\ b \in Int /\ a <= b
  BY AccountFacts
<1>2. up[s][c] = Segment(S, a, b)
  BY DEF Queues
<1> HIDE DEF a, b, S
<1>3. a = b => up[s][c] = << >>
  BY <1>1, <1>2, SegmentEmpty
<1>4. a < b => /\ up[s][c] # << >>
               /\ Head(up[s][c]) = S[a + 1] /\ Tail(up[s][c]) = Segment(S, a + 1, b)
  BY <1>1, <1>2, SegmentHead
<1>5. /\ up[s][c] = << >> <=> a = b
      /\ a < b => Head(up[s][c]) = S[a + 1] /\ Tail(up[s][c]) = Segment(S, a + 1, b)
  BY <1>1, <1>3, <1>4
<1> QED
  BY <1>5 DEF a, b, S

\* The same of the packets on their way down.
LEMMA DownQueue ==
  ASSUME NEW h, Possible(h), Queues(h), NEW s \in Stream, NEW w \in Worker
  PROVE  /\ down[s][w] = << >> <=> h.dtook[s][w] = h.dsent[s]
         /\ h.dtook[s][w] < h.dsent[s] =>
              /\ Head(down[s][w]) = DownScript(h, s)[h.dtook[s][w] + 1]
              /\ Tail(down[s][w]) = Segment(DownScript(h, s), h.dtook[s][w] + 1, h.dsent[s])
<1> DEFINE a == h.dtook[s][w]
           b == h.dsent[s]
           S == DownScript(h, s)
<1>1. a \in Int /\ b \in Int /\ a <= b
  BY AccountFacts
<1>2. down[s][w] = Segment(S, a, b)
  BY DEF Queues
<1> HIDE DEF a, b, S
<1>3. a = b => down[s][w] = << >>
  BY <1>1, <1>2, SegmentEmpty
<1>4. a < b => /\ down[s][w] # << >>
               /\ Head(down[s][w]) = S[a + 1] /\ Tail(down[s][w]) = Segment(S, a + 1, b)
  BY <1>1, <1>2, SegmentHead
<1>5. /\ down[s][w] = << >> <=> a = b
      /\ a < b => Head(down[s][w]) = S[a + 1] /\ Tail(down[s][w]) = Segment(S, a + 1, b)
  BY <1>1, <1>3, <1>4
<1> QED
  BY <1>5 DEF a, b, S

\* The tag of the packet at the head of a queue tells how much has been taken.
LEMMA UpTag ==
  ASSUME NEW h, Possible(h), Queues(h), NEW c \in Node, NEW t, Arrived("TDBSCAN", c, t)
  PROVE  LET n == h.took["TDBSCAN"][c]
             packet == Head(up["TDBSCAN"][c])
         IN  /\ n \in 0 .. 5 /\ n < h.sent["TDBSCAN"][c]
             /\ t = "NOISE" => n = 0 /\ packet.body = h.noise[c]
             /\ t = "ALL_NOISE_SENT" => n = 1
             /\ t = "ALL_HULLS" => n = 2 /\ packet.body = h.hulls[c]
             /\ t = "ALL_HULLS_SENT" => n = 3
             /\ t = "CLUSTERS_INFO" => n = 4 /\ packet.body = h.info[c]
             /\ t = "STATISTICS" => n = 5 /\ packet.body = Under(c)
<1> DEFINE n == h.took["TDBSCAN"][c]
           m == h.sent["TDBSCAN"][c]
           packet == Head(up["TDBSCAN"][c])
<1>1. n \in 0 .. 6 /\ m \in 0 .. 6 /\ n <= m
  BY AccountFacts, StreamFacts
<1>2. n # m /\ packet.tag = t
  BY UpQueue, StreamFacts DEF Arrived
<1>3. n < m /\ n \in 0 .. 5
  BY <1>1, <1>2
<1>4. packet = Script(h, "TDBSCAN", c)[n + 1]
  BY <1>3, UpQueue, StreamFacts
<1> HIDE DEF n, m, packet
<1>5. n = 0 \/ n = 1 \/ n = 2 \/ n = 3 \/ n = 4 \/ n = 5
  BY <1>3
<1>6. /\ n = 0 => packet = Packet("NOISE", h.noise[c])
      /\ n = 1 => packet = Mark("ALL_NOISE_SENT")
      /\ n = 2 => packet = Packet("ALL_HULLS", h.hulls[c])
      /\ n = 3 => packet = Mark("ALL_HULLS_SENT")
      /\ n = 4 => packet = Packet("CLUSTERS_INFO", h.info[c])
      /\ n = 5 => packet = Packet("STATISTICS", Under(c))
  BY <1>4, ScriptIs
<1>7. /\ t = "NOISE" => n = 0 /\ packet.body = h.noise[c]
      /\ t = "ALL_NOISE_SENT" => n = 1
      /\ t = "ALL_HULLS" => n = 2 /\ packet.body = h.hulls[c]
      /\ t = "ALL_HULLS_SENT" => n = 3
      /\ t = "CLUSTERS_INFO" => n = 4 /\ packet.body = h.info[c]
      /\ t = "STATISTICS" => n = 5 /\ packet.body = Under(c)
  BY <1>2, <1>5, <1>6, PacketIs
<1> QED
  BY <1>3, <1>7 DEF n, m, packet

\* The tag of the packet a back-end finds tells how much it has received.
LEMMA DownTag ==
  ASSUME NEW h, Possible(h), Queues(h), NEW w \in Worker, NEW t, Received("TDBSCAN", w, t)
  PROVE  LET n == h.dtook["TDBSCAN"][w]
             packet == Head(down["TDBSCAN"][w])
         IN  /\ n \in -1 .. 3 /\ n < h.dsent["TDBSCAN"]
             /\ t = "CLUSTERING_CONFIG" => n = 0
             /\ t = "ALL_HULLS" => n = 1 /\ packet.body = h.news
             /\ t = "ALL_HULLS_SENT" => n \in {-1, 2, 3}
<1> DEFINE n == h.dtook["TDBSCAN"][w]
           m == h.dsent["TDBSCAN"]
           packet == Head(down["TDBSCAN"][w])
<1>1. n \in -1 .. 4 /\ m \in 0 .. 4 /\ n <= m
  BY AccountFacts, StreamFacts
<1>2. n # m /\ packet.tag = t
  BY DownQueue, StreamFacts DEF Received
<1>3. n < m /\ n \in -1 .. 3
  BY <1>1, <1>2
<1>4. packet = DownScript(h, "TDBSCAN")[n + 1]
  BY <1>3, DownQueue, StreamFacts
<1> HIDE DEF n, m, packet
<1>5. n = -1 \/ n = 0 \/ n = 1 \/ n = 2 \/ n = 3
  BY <1>3
<1>6. /\ n = -1 => packet = Mark("ALL_HULLS_SENT")
      /\ n = 0 => packet = Mark("CLUSTERING_CONFIG")
      /\ n = 1 => packet = Packet("ALL_HULLS", h.news)
      /\ n = 2 => packet = Mark("ALL_HULLS_SENT")
      /\ n = 3 => packet = Mark("ALL_HULLS_SENT")
  <2>1. -1 + 1 = 0 /\ 0 + 1 = 1 /\ 1 + 1 = 2 /\ 2 + 1 = 3 /\ 3 + 1 = 4
    OBVIOUS
  <2> QED
    BY <1>4, <2>1, DownScriptIs
<1>7. /\ t = "CLUSTERING_CONFIG" => n = 0
      /\ t = "ALL_HULLS" => n = 1 /\ packet.body = h.news
      /\ t = "ALL_HULLS_SENT" => n \in {-1, 2, 3}
  BY <1>2, <1>5, <1>6, PacketIs
<1> QED
  BY <1>3, <1>7 DEF n, m, packet

\* What a queue becomes when a packet is taken or some more are sent.
LEMMA QueueChange ==
  ASSUME NEW S, NEW a \in Int, NEW b \in Int, a <= b
  PROVE  /\ a < b => Tail(Segment(S, a, b)) = Segment(S, a + 1, b)
         /\ \A n \in Nat : Segment(S, a, b) \o Segment(S, b, b + n) = Segment(S, a, b + n)
<1>1. a < b => Tail(Segment(S, a, b)) = Segment(S, a + 1, b)
  BY SegmentHead
<1>2. ASSUME NEW n \in Nat
      PROVE  Segment(S, a, b) \o Segment(S, b, b + n) = Segment(S, a, b + n)
  <2>1. b + n \in Int /\ b <= b + n
    OBVIOUS
  <2> QED
    BY <2>1, SegmentConcat
<1> QED
  BY <1>1, <1>2

\* The packets of c on stream s, up to the b-th, are the same in both accounts.
Kept(h, g, s, c, b) ==
  /\ s = "TDBSCAN" => /\ b >= 1 => g.noise[c] = h.noise[c]
                      /\ b >= 3 => g.hulls[c] = h.hulls[c]
                      /\ b >= 5 => g.info[c] = h.info[c]
  /\ s = "XchangeDimensions" /\ b >= 1 => g.round = h.round
  /\ s = "Support" /\ b >= 1 => g.sup[c] = h.sup[c]

\* The contents of what has been sent decide the queues.
LEMMA SameScript ==
  ASSUME NEW h, NEW g, NEW s \in Stream, NEW c, NEW a \in Int, NEW b \in Int, a >= 0,
         b <= Length(s), Kept(h, g, s, c, b)
  PROVE  Segment(Script(g, s, c), a, b) = Segment(Script(h, s, c), a, b)
<1>1. ASSUME NEW i \in (a + 1) .. b
      PROVE  Script(g, s, c)[i] = Script(h, s, c)[i]
  <2>1. CASE s = "TDBSCAN"
    <3>1. i \in 1 .. 6 /\ i <= b
      BY <2>1 DEF Length
    <3>2. i = 1 \/ i = 2 \/ i = 3 \/ i = 4 \/ i = 5 \/ i = 6
      BY <3>1
    <3> QED
      BY <2>1, <3>1, <3>2, ScriptIs DEF Kept
  <2>2. CASE s # "TDBSCAN"
    <3>1. i = 1 /\ b >= 1
      BY <2>2 DEF Length
    <3> QED
      BY <2>2, <3>1, ScriptIs, StreamFacts DEF Kept
  <2> QED
    BY <2>1, <2>2
<1> QED
  BY <1>1, SegmentEqual

\* An account that keeps what had been sent tells what the queue holds as well.
LEMMA UpChange ==
  ASSUME NEW h, NEW g, Possible(h), Queues(h), NEW s \in Stream, NEW c \in Node,
         Kept(h, g, s, c, h.sent[s][c])
  PROVE  up[s][c] = Segment(Script(g, s, c), h.took[s][c], h.sent[s][c])
<1>1. /\ h.took[s][c] \in Int /\ h.sent[s][c] \in Int /\ h.took[s][c] >= 0
      /\ h.sent[s][c] <= Length(s)
  BY AccountFacts DEF Possible
<1>2. up[s][c] = Segment(Script(h, s, c), h.took[s][c], h.sent[s][c])
  BY DEF Queues
<1>3. Segment(Script(g, s, c), h.took[s][c], h.sent[s][c])
        = Segment(Script(h, s, c), h.took[s][c], h.sent[s][c])
  BY <1>1, SameScript
<1> QED
  BY <1>2, <1>3

KeptDown(h, g, s, b) ==
  /\ s = "TDBSCAN" /\ b >= 2 => g.news = h.news
  /\ s = "XchangeDimensions" /\ b >= 1 => g.round = h.round
  /\ s = "Support" /\ b >= 1 => g.sup[Root] = h.sup[Root]

\* The same of the packets on their way down.
LEMMA DownChange ==
  ASSUME NEW h, NEW g, Possible(h), Queues(h), NEW s \in Stream, NEW w \in Worker,
         KeptDown(h, g, s, h.dsent[s])
  PROVE  down[s][w] = Segment(DownScript(g, s), h.dtook[s][w], h.dsent[s])
<1> DEFINE S == DownScript(g, s)
           a == h.dtook[s][w]
           b == h.dsent[s]
<1>1. a \in -1 .. 4 /\ b \in 0 .. 4 /\ a <= b
  BY AccountFacts DEF Possible
<1>2. down[s][w] = Segment(DownScript(h, s), a, b)
  BY DEF Queues
<1>3. Segment(S, a, b) = Segment(DownScript(h, s), a, b)
  <2>1. ASSUME NEW i \in (a + 1) .. b
        PROVE  S[i] = DownScript(h, s)[i]
    <3>1. i \in 0 .. b /\ b >= i /\ i <= 4 /\ (s # "TDBSCAN" => i >= 1)
      BY <1>1 DEF Possible
    <3>2. CASE s = "TDBSCAN"
      <4>1. i = 2 => g.news = h.news
        BY <1>1, <3>1, <3>2 DEF KeptDown
      <4> QED
        BY <3>1, <3>2, <4>1 DEF DownScript
    <3>3. CASE s = "XchangeDimensions"
      BY <1>1, <3>1, <3>3 DEF DownScript, KeptDown
    <3>4. CASE s = "Support"
      <4>1. g.sup[Root] = h.sup[Root]
        BY <1>1, <3>1, <3>4 DEF KeptDown
      <4> QED
        BY <3>4, <4>1 DEF DownScript
    <3> QED
      BY <3>2, <3>3, <3>4, StreamFacts
  <2> QED
    BY <1>1, <2>1, SegmentEqual
<1> QED
  BY <1>2, <1>3

-----------------------------------------------------------------------------
(***************************************************************************)
(* Back-ends, bursts and cells below a process.                            *)
(***************************************************************************)
\* There are finitely many processes, bursts and children.
LEMMA FiniteFacts ==
  /\ IsFiniteSet(Worker) /\ IsFiniteSet(Node) /\ IsFiniteSet(Burst)
  /\ \A c : IsFiniteSet(Workers(c))
  /\ \A p : IsFiniteSet(Children(p)) /\ Cardinality(Children(p)) \in Nat
<1>1. IsFiniteSet(Worker) /\ IsFiniteSet(Node) /\ IsFiniteSet(Burst)
  BY NodeFacts, TreeAssumption, TDBSCANAssumption, FS_Subset
<1>2. \A c : IsFiniteSet(Workers(c))
  BY <1>1, FS_Subset DEF Workers
<1>3. \A p : IsFiniteSet(Children(p)) /\ Cardinality(Children(p)) \in Nat
  BY <1>1, NodeFacts, FS_Subset, FS_CardinalityType
<1> QED
  BY <1>1, <1>2, <1>3

\* The back-ends below a filter are those below its children, each below one of them.
LEMMA WorkersOf ==
  /\ \A w \in Worker : Workers(w) = {w}
  /\ \A p \in Filter : Workers(p) = UNION {Workers(c) : c \in Children(p)}
  /\ \A p \in Filter : \A c, d \in Children(p) : c # d => Workers(c) \cap Workers(d) = {}
  /\ Workers(Root) = Worker
  /\ \A c : Workers(c) \subseteq Worker
<1>1. \A w \in Worker : Workers(w) = {w}
  BY UnderWorker DEF Workers
<1>2. ASSUME NEW p \in Filter
      PROVE  Workers(p) = UNION {Workers(c) : c \in Children(p)}
  <2>1. p \notin Worker /\ Under(p) = {p} \cup UNION {Under(c) : c \in Children(p)}
    BY NodeFacts, UnderFilter
  <2> QED
    BY <2>1 DEF Workers
<1>3. \A p \in Filter : \A c, d \in Children(p) : c # d => Workers(c) \cap Workers(d) = {}
  BY UnderDisjoint DEF Workers
<1>4. Workers(Root) = Worker
  BY UnderRoot, NodeFacts DEF Workers
<1> QED
  BY <1>1, <1>2, <1>3, <1>4 DEF Workers

\* Every back-end extracts its own bursts.
Extracted ==
  /\ data \in [Worker -> SUBSET Burst]
  /\ \A w \in Worker : \A b \in data[w] : Home[b] = w

\* So their bursts, and the cells they are in, add up from the children to the parent.
LEMMA BurstsOf ==
  ASSUME Extracted
  PROVE  /\ \A w \in Worker : Bursts(w) = data[w]
         /\ \A p \in Filter : Bursts(p) = UNION {Bursts(c) : c \in Children(p)}
         /\ \A p \in Filter : \A c, d \in Children(p) : c # d => Bursts(c) \cap Bursts(d) = {}
         /\ Bursts(Root) = UNION Range(data)
         /\ \A c : Bursts(c) \subseteq Burst /\ IsFiniteSet(Bursts(c))
<1>1. \A w \in Worker : Bursts(w) = data[w]
  BY WorkersOf DEF Bursts
<1>2. ASSUME NEW p \in Filter
      PROVE  Bursts(p) = UNION {Bursts(c) : c \in Children(p)}
  <2>1. Workers(p) = UNION {Workers(c) : c \in Children(p)}
    BY WorkersOf
  <2> QED
    BY <2>1 DEF Bursts
<1>3. ASSUME NEW p \in Filter, NEW c \in Children(p), NEW d \in Children(p), c # d,
             NEW b \in Bursts(c), b \in Bursts(d)
      PROVE  FALSE
  <2>1. PICK v \in Workers(c) : b \in data[v]
    BY DEF Bursts
  <2>2. PICK w \in Workers(d) : b \in data[w]
    BY <1>3 DEF Bursts
  <2>3. v = w
    BY <2>1, <2>2, WorkersOf DEF Extracted
  <2> QED
    BY <1>3, <2>1, <2>2, <2>3, WorkersOf
<1>4. Bursts(Root) = UNION Range(data)
  BY WorkersOf DEF Bursts, Range, Extracted
<1>5. \A c : Bursts(c) \subseteq Burst
  BY WorkersOf DEF Bursts, Extracted
<1>6. \A c : IsFiniteSet(Bursts(c))
  BY <1>5, FiniteFacts, FS_Subset
<1> QED
  BY <1>1, <1>2, <1>3, <1>4, <1>5, <1>6

\* Cells add up from the children to the parent as bursts do.
LEMMA CellsOf ==
  ASSUME clump \in Layouts
  PROVE  /\ \A p \in Filter : Cells(p) = UNION {Cells(c) : c \in Children(p)}
         /\ \A p \in Filter : \A c, d \in Children(p) : c # d => Cells(c) \cap Cells(d) = {}
         /\ \A c : IsFiniteSet(Cells(c)) /\ \A x \in Cells(c) : CellOf[x] \in Range(clump)
         /\ \A b \in Burst : clump[b] \in Range(clump)
<1>1. DOMAIN clump = Burst /\ \A b \in Burst : clump[b] \in Range(clump)
  BY TDBSCANAssumption DEF Range
<1>2. ASSUME NEW p \in Filter
      PROVE  Cells(p) = UNION {Cells(c) : c \in Children(p)}
  <2>1. Workers(p) = UNION {Workers(c) : c \in Children(p)}
    BY WorkersOf
  <2>2. ASSUME NEW x \in Cells(p)
        PROVE  \E c \in Children(p) : x \in Cells(c)
    <3>1. /\ x \in Workers(p) \X Range(clump) /\ x[1] \in Workers(p)
          /\ \E b \in data[x[1]] : clump[b] = x[2]
      BY DEF Cells
    <3>2. PICK c \in Children(p) : x[1] \in Workers(c)
      BY <2>1, <3>1
    <3>3. x \in Workers(c) \X Range(clump)
      BY <3>1, <3>2
    <3> QED
      BY <3>1, <3>3 DEF Cells
  <2>3. ASSUME NEW c \in Children(p), NEW x \in Cells(c)
        PROVE  x \in Cells(p)
    <3>1. /\ x \in Workers(c) \X Range(clump)
          /\ \E b \in data[x[1]] : clump[b] = x[2]
      BY <2>3 DEF Cells
    <3>2. x \in Workers(p) \X Range(clump)
      BY <2>1, <3>1
    <3> QED
      BY <3>1, <3>2 DEF Cells
  <2> QED
    BY <2>2, <2>3
<1>3. ASSUME NEW p \in Filter, NEW c \in Children(p), NEW d \in Children(p), c # d
      PROVE  Cells(c) \cap Cells(d) = {}
  BY <1>3, WorkersOf DEF Cells
<1>4. \A c : IsFiniteSet(Cells(c))
  <2>1. \A r \in Range(clump) : \E b \in Burst : clump[b] = r
    BY <1>1 DEF Range
  <2>2. IsFiniteSet(Range(clump))
    BY <2>1, FiniteFacts, FiniteImage
  <2>3. \A c : IsFiniteSet(Workers(c) \X Range(clump))
    BY <2>2, FiniteFacts, FS_Product
  <2>4. \A c : Cells(c) \subseteq Workers(c) \X Range(clump)
    BY DEF Cells
  <2> QED
    BY <2>3, <2>4, FS_Subset
<1>5. \A c : \A x \in Cells(c) : CellOf[x] \in Range(clump)
  <2> SUFFICES ASSUME NEW c, NEW x \in Cells(c)
               PROVE  CellOf[x] \in Range(clump)
    OBVIOUS
  <2>1. x \in Workers(c) \X Range(clump) /\ Workers(c) \subseteq Worker
    BY WorkersOf DEF Cells
  <2>2. x \in Worker \X Range(clump) /\ x[2] \in Range(clump)
    BY <2>1
  <2> QED
    BY <2>2 DEF CellOf
<1> QED
  BY <1>1, <1>2, <1>3, <1>4, <1>5

\* A process has not sent what one below it has not.
LEMMA SentBelow ==
  ASSUME NEW h, Possible(h), \A p \in Filter : Forwards(h, p),
         NEW s \in Stream, NEW c \in Node, NEW n \in Under(c)
  PROVE  h.sent[s][c] <= h.sent[s][n]
<1> DEFINE X == {m \in Node : \A a \in Above(m) : h.sent[s][a] <= h.sent[s][m]}
<1>1. \A m \in Node : h.sent[s][m] \in 0 .. 6 /\ h.took[s][m] \in 0 .. 6
                      /\ h.took[s][m] <= h.sent[s][m]
  BY AccountFacts
<1>2. Root \in X
  BY <1>1, NodeFacts, AboveParent
<1>3. ASSUME NEW m \in Node \ {Root}, Parent[m] \in X
      PROVE  m \in X
  <2>1. Parent[m] \in Filter /\ m \in Children(Parent[m]) /\ Parent[m] \in Node
    BY NodeFacts
  <2>2. h.sent[s][Parent[m]] <= h.took[s][m]
    BY <2>1 DEF Forwards
  <2>3. h.sent[s][Parent[m]] <= h.sent[s][m]
    BY <1>1, <2>1, <2>2
  <2>4. Above(m) = {m} \cup Above(Parent[m]) /\ Above(Parent[m]) \subseteq Node
    BY AboveParent DEF Above
  <2>5. \A a \in Above(Parent[m]) : h.sent[s][a] <= h.sent[s][Parent[m]]
    BY <1>3
  <2>6. \A a \in Above(Parent[m]) : h.sent[s][a] <= h.sent[s][m]
    BY <1>1, <2>1, <2>3, <2>4, <2>5
  <2> QED
    BY <1>1, <2>4, <2>6
<1> HIDE DEF X
<1>4. n \in X
  BY <1>2, <1>3, TopDown DEF Under
<1> QED
  BY <1>4 DEF X, Under

\* What the front-end's filter has sent, every process has.
LEMMA SentByAll ==
  ASSUME NEW h, Possible(h), \A p \in Filter : Forwards(h, p),
         NEW s \in Stream, NEW c \in Node
  PROVE  h.sent[s][Root] <= h.sent[s][c]
BY SentBelow, UnderRoot, NodeFacts

-----------------------------------------------------------------------------
(***************************************************************************)
(* A filter takes a packet of the TDBSCAN stream.                          *)
(***************************************************************************)
\* What is said of an account stays true while the back-ends' data stay the same.
LEMMA SameData ==
  ASSUME UNCHANGED <<clump, data, class>>
  PROVE  /\ IdOf' = IdOf /\ CellOf' = CellOf /\ Accounts' = Accounts
         /\ \A c : Bursts(c)' = Bursts(c) /\ Cells(c)' = Cells(c)
         /\ \A h : Possible(h)' <=> Possible(h)
         /\ \A h, c : Contents(h, c)' <=> Contents(h, c)
         /\ \A h, p, f : FilterOK(h, p, f)' <=> FilterOK(h, p, f)
<1>1. IdOf' = IdOf /\ CellOf' = CellOf /\ Accounts' = Accounts
  BY DEF IdOf, CellOf, Accounts
<1>2. \A c : Bursts(c)' = Bursts(c) /\ Cells(c)' = Cells(c)
  BY DEF Bursts, Cells
<1>3. \A h : Possible(h)' <=> Possible(h)
  BY <1>1 DEF Possible
<1>4. \A H : OneClump(H)' <=> OneClump(H)
  BY DEF OneClump
<1>5. \A h, c : Contents(h, c)' <=> Contents(h, c)
  BY <1>1, <1>2, <1>4 DEF Contents
<1>6. ASSUME NEW h, NEW p, NEW f
      PROVE  Holds(h, p, f)' <=> Holds(h, p, f)
  <2>1. Informed(h, p)' = Informed(h, p)
    BY <1>2 DEF Informed, Taken
  <2> QED
    BY <1>1, <1>4, <2>1 DEF Holds
<1>7. \A h, p, f : FilterOK(h, p, f)' <=> FilterOK(h, p, f)
  BY <1>6 DEF FilterOK
<1> QED
  BY <1>1, <1>2, <1>3, <1>5, <1>7

\* g is the account when the filter of c's parent has taken one packet of c and sent n,
\* with N, H and I the contents of its own packets.
Delivers(h, g, c, n, N, H, I) ==
  /\ g \in Accounts
  /\ \A s \in Stream, m \in Node :
       /\ g.took[s][m] = IF s = "TDBSCAN" /\ m = c THEN h.took[s][m] + 1 ELSE h.took[s][m]
       /\ g.sent[s][m] = IF s = "TDBSCAN" /\ m = Parent[c] THEN h.sent[s][m] + n
                         ELSE h.sent[s][m]
  /\ \A m \in Node :
       /\ g.noise[m] = IF m = Parent[c] THEN N ELSE h.noise[m]
       /\ g.hulls[m] = IF m = Parent[c] THEN H ELSE h.hulls[m]
       /\ g.info[m] = IF m = Parent[c] THEN I ELSE h.info[m]
  /\ g.dsent = h.dsent /\ g.dtook = h.dtook /\ g.sup = h.sup
  /\ g.round = h.round /\ g.old = h.old /\ g.news = h.news

\* There is such an account.
LEMMA DeliversExists ==
  ASSUME NEW h \in Accounts, NEW c \in Node \ {Root}, NEW n \in Nat,
         NEW N \in SUBSET Burst, NEW H \in SUBSET SUBSET Burst, NEW I \in Counts(Nat),
         h.took["TDBSCAN"][c] < 6, h.sent["TDBSCAN"][Parent[c]] + n <= 6
  PROVE  \E g : Delivers(h, g, c, n, N, H, I)
<1>1. Parent[c] \in Node /\ c \in Node
  BY NodeFacts
<1>2. /\ h.took["TDBSCAN"] \in [Node -> 0 .. 6] /\ h.took["TDBSCAN"][c] \in 0 .. 6
      /\ h.sent["TDBSCAN"] \in [Node -> 0 .. 6] /\ h.sent["TDBSCAN"][Parent[c]] \in 0 .. 6
  BY <1>1, StreamFacts DEF Accounts
<1>3. h.took["TDBSCAN"][c] + 1 \in 0 .. 6 /\ h.sent["TDBSCAN"][Parent[c]] + n \in 0 .. 6
  BY <1>2
<1> DEFINE took == [h.took EXCEPT !["TDBSCAN"][c] = @ + 1]
           sent == [h.sent EXCEPT !["TDBSCAN"][Parent[c]] = @ + n]
           noise == [h.noise EXCEPT ![Parent[c]] = N]
           hulls == [h.hulls EXCEPT ![Parent[c]] = H]
           infos == [h.info EXCEPT ![Parent[c]] = I]
           g == [h EXCEPT !.took = took, !.sent = sent, !.noise = noise, !.hulls = hulls,
                          !.info = infos]
<1>4. /\ took \in [Stream -> [Node -> 0 .. 6]]
      /\ \A s \in Stream, m \in Node :
           took[s][m] = IF s = "TDBSCAN" /\ m = c THEN h.took[s][m] + 1 ELSE h.took[s][m]
  BY <1>1, <1>3, StreamFacts DEF Accounts
<1>5. /\ sent \in [Stream -> [Node -> 0 .. 6]]
      /\ \A s \in Stream, m \in Node :
           sent[s][m] = IF s = "TDBSCAN" /\ m = Parent[c] THEN h.sent[s][m] + n
                        ELSE h.sent[s][m]
  BY <1>1, <1>3, StreamFacts DEF Accounts
<1>6. /\ noise \in [Node -> SUBSET Burst] /\ hulls \in [Node -> SUBSET SUBSET Burst]
      /\ infos \in [Node -> Counts(Nat)]
      /\ \A m \in Node :
           /\ noise[m] = IF m = Parent[c] THEN N ELSE h.noise[m]
           /\ hulls[m] = IF m = Parent[c] THEN H ELSE h.hulls[m]
           /\ infos[m] = IF m = Parent[c] THEN I ELSE h.info[m]
  BY <1>1 DEF Accounts
<1> HIDE DEF took, sent, noise, hulls, infos
<1>7. /\ g \in Accounts
      /\ g.took = took /\ g.sent = sent /\ g.noise = noise /\ g.hulls = hulls
      /\ g.info = infos
      /\ g.dsent = h.dsent /\ g.dtook = h.dtook /\ g.sup = h.sup
      /\ g.round = h.round /\ g.old = h.old /\ g.news = h.news
  BY <1>4, <1>5, <1>6 DEF Accounts
<1> HIDE DEF g
<1>8. Delivers(h, g, c, n, N, H, I)
  BY <1>4, <1>5, <1>6, <1>7 DEF Delivers
<1> QED
  BY <1>8

\* All that has to be shown of a filter's step is about the filter itself.
LEMMA FilterFrame ==
  ASSUME NEW h, NEW g, NEW c \in Node \ {Root}, NEW f, NEW out, NEW n \in Nat,
         NEW N \in SUBSET Burst, NEW H \in SUBSET SUBSET Burst, NEW I \in Counts(Nat),
         Agrees(h), UNCHANGED clump, FilterStep(c, f, out),
         h.took["TDBSCAN"][c] < h.sent["TDBSCAN"][c],
         Delivers(h, g, c, n, N, H, I),
         h.sent["TDBSCAN"][Parent[c]] + n <= 6,
         h.sent["TDBSCAN"][Parent[c]] >= 1 => N = h.noise[Parent[c]],
         h.sent["TDBSCAN"][Parent[c]] >= 3 => H = h.hulls[Parent[c]],
         h.sent["TDBSCAN"][Parent[c]] >= 5 => I = h.info[Parent[c]],
         out = Segment(Script(g, "TDBSCAN", Parent[c]), h.sent["TDBSCAN"][Parent[c]],
                       h.sent["TDBSCAN"][Parent[c]] + n),
         Forwards(g, Parent[c]), FilterOK(g, Parent[c], f), Contents(g, Parent[c])
  PROVE  Agrees(g)'
<1> DEFINE p == Parent[c]
<1>1. /\ p \in Filter /\ p \in Node /\ c \in Node /\ p \notin Worker /\ c \in Children(p)
      /\ c # Root
  BY NodeFacts
<1>2. Possible(h) /\ h \in Accounts
  BY DEF Agrees, Possible
<1>3. /\ \A s \in Stream, m \in Node :
           /\ h.sent[s][m] \in 0 .. 6 /\ h.took[s][m] \in 0 .. 6
           /\ h.took[s][m] <= h.sent[s][m] /\ h.sent[s][m] <= Length(s)
      /\ Length("TDBSCAN") = 6 /\ \A s : Length(s) \in Nat
  BY <1>2, AccountFacts DEF Possible, Length
<1>5. /\ g \in Accounts
      /\ \A s \in Stream, m \in Node :
           /\ g.took[s][m] = IF s = "TDBSCAN" /\ m = c THEN h.took[s][m] + 1
                             ELSE h.took[s][m]
           /\ g.sent[s][m] = IF s = "TDBSCAN" /\ m = p THEN h.sent[s][m] + n
                             ELSE h.sent[s][m]
      /\ \A m \in Node :
           /\ g.noise[m] = IF m = p THEN N ELSE h.noise[m]
           /\ g.hulls[m] = IF m = p THEN H ELSE h.hulls[m]
           /\ g.info[m] = IF m = p THEN I ELSE h.info[m]
      /\ g.dsent = h.dsent /\ g.dtook = h.dtook /\ g.sup = h.sup
      /\ g.round = h.round /\ g.old = h.old /\ g.news = h.news
  BY DEF Delivers
<1>4. up' = [up EXCEPT !["TDBSCAN"][c] = Tail(@), !["TDBSCAN"][p] = @ \o out]
  BY DEF FilterStep
<1>6. filter' = [filter EXCEPT ![p] = f]
  BY DEF FilterStep
<1>7. UNCHANGED <<clump, down, data, class, pc, dims, globalModel, support, rootVars>>
  BY DEF FilterStep, workerVars
<1>8. c # p
  <2>1. c \in Above(c)
    BY <1>1, AboveSelf
  <2> QED
    BY <1>1, <2>1, Acyclic
<1>9. \A s \in Stream, m \in Node : m # p \/ s # "TDBSCAN" => g.sent[s][m] = h.sent[s][m]
  BY <1>5
<1>10. g.sent["TDBSCAN"][p] = h.sent["TDBSCAN"][p] + n
  BY <1>1, <1>5, StreamFacts
<1> HIDE DEF p
<1>11. Shapes'
  <2>1. Shapes
    BY DEF Agrees
  <2> QED
    BY <1>6, <1>7, <2>1 DEF Shapes, rootVars
<1>12. Possible(g)
  <2>1. /\ g \in Accounts
        /\ \A s \in Stream : \A m \in Node :
             g.took[s][m] <= g.sent[s][m] /\ g.sent[s][m] <= Length(s)
    <3> SUFFICES ASSUME NEW s \in Stream, NEW m \in Node
                 PROVE  g.took[s][m] <= g.sent[s][m] /\ g.sent[s][m] <= Length(s)
      BY <1>5
    <3>1. CASE s = "TDBSCAN"
      <4>1. /\ h.took[s][m] \in 0 .. 6 /\ h.sent[s][m] \in 0 .. 6
            /\ h.took[s][m] <= h.sent[s][m] /\ h.sent[s][m] <= 6
            /\ m = c => h.took[s][m] < h.sent[s][m]
            /\ m = p => h.sent[s][m] + n <= 6
        BY <1>3, <3>1 DEF p
      <4>2. g.took[s][m] = IF m = c THEN h.took[s][m] + 1 ELSE h.took[s][m]
        BY <1>5, <3>1
      <4>3. g.sent[s][m] = IF m = p THEN h.sent[s][m] + n ELSE h.sent[s][m]
        BY <1>5, <3>1
      <4> QED
        BY <1>3, <1>8, <3>1, <4>1, <4>2, <4>3
    <3>2. CASE s # "TDBSCAN"
      BY <1>3, <1>5, <3>2
    <3> QED
      BY <3>1, <3>2
  <2> QED
    BY <1>2, <1>5, <2>1 DEF Possible
<1>13. Queues(g)'
  <2>1. Queues(h)
    BY DEF Agrees
  <2>3. /\ DOMAIN up' = Stream /\ \A s \in Stream : DOMAIN up'[s] = Node
        /\ \A s \in Stream, m \in Node :
             up'[s][m] = IF s = "TDBSCAN" /\ m = c THEN Tail(up[s][m])
                         ELSE IF s = "TDBSCAN" /\ m = p THEN up[s][m] \o out
                         ELSE up[s][m]
    BY <1>1, <1>4, <1>8, <2>1, StreamFacts DEF Queues
  <2>4. ASSUME NEW s \in Stream, NEW m \in Node
        PROVE  Kept(h, g, s, m, h.sent[s][m])
    BY <1>3, <1>5 DEF p, Kept
  <2>5. ASSUME NEW s \in Stream, NEW m \in Node
        PROVE  up'[s][m] = Segment(Script(g, s, m), g.took[s][m], g.sent[s][m])
    <3> DEFINE S == Script(g, s, m)
               a == h.took[s][m]
               b == h.sent[s][m]
    <3>1. Kept(h, g, s, m, h.sent[s][m])
      BY <2>4
    <3>2. /\ up[s][m] = Segment(S, a, b)
          /\ a < b => Tail(up[s][m]) = Segment(S, a + 1, b)
          /\ up[s][m] \o Segment(S, b, b + n) = Segment(S, a, b + n)
      <4>1. up[s][m] = Segment(S, a, b)
        BY <1>2, <2>1, <3>1, UpChange
      <4>2. a \in Int /\ b \in Int /\ a <= b
        BY <1>3
      <4> HIDE DEF S, a, b
      <4>3. a < b => Tail(Segment(S, a, b)) = Segment(S, a + 1, b)
        BY <4>2, QueueChange
      <4>4. Segment(S, a, b) \o Segment(S, b, b + n) = Segment(S, a, b + n)
        BY <4>2, QueueChange
      <4> QED
        BY <4>1, <4>3, <4>4, Zenon
    <3>3. CASE s = "TDBSCAN" /\ m = c
      <4>1. g.took[s][m] = h.took[s][m] + 1 /\ g.sent[s][m] = h.sent[s][m]
        BY <1>5, <1>8, <3>3
      <4> QED
        BY <2>3, <3>3, <3>2, <4>1
    <3>4. CASE s = "TDBSCAN" /\ m = p
      <4>1. g.took[s][m] = h.took[s][m] /\ g.sent[s][m] = h.sent[s][m] + n
        BY <1>5, <1>8, <3>4
      <4>2. up'[s][m] = up[s][m] \o Segment(Script(g, s, m), h.sent[s][m], h.sent[s][m] + n)
        BY <1>8, <2>3, <3>4 DEF p
      <4> QED
        BY <3>2, <4>1, <4>2
    <3>5. CASE ~(s = "TDBSCAN" /\ m = c) /\ ~(s = "TDBSCAN" /\ m = p)
      <4>1. g.took[s][m] = h.took[s][m] /\ g.sent[s][m] = h.sent[s][m]
        BY <1>5, <3>5
      <4> QED
        BY <2>3, <3>5, <3>2, <4>1
    <3> QED
      BY <3>3, <3>4, <3>5
  <2>6. \A s \in Stream : DownScript(g, s) = DownScript(h, s)
    BY <1>5 DEF DownScript
  <2>7. /\ DOMAIN down' = Stream
        /\ \A s \in Stream :
             /\ DOMAIN down'[s] = Worker
             /\ \A w \in Worker :
                  down'[s][w] = Segment(DownScript(g, s), g.dtook[s][w], g.dsent[s])
    <3>1. down' = down /\ g.dtook = h.dtook /\ g.dsent = h.dsent
      BY <1>5, <1>7
    <3> QED
      BY <2>1, <2>6, <3>1 DEF Queues
  <2> QED
    BY <2>3, <2>5, <2>7 DEF Queues
<1>14. ASSUME NEW q \in Filter
       PROVE  Forwards(g, q) /\ FilterOK(g, q, filter'[q])
  <2>1. DOMAIN filter = Filter /\ Forwards(h, q) /\ FilterOK(h, q, filter[q]) /\ q \in Node
    BY NodeFacts DEF Agrees, Shapes
  <2>2. CASE q = p
    <3>1. filter'[q] = f
      BY <1>1, <1>6, <2>1, <2>2
    <3> QED
      BY <2>2, <3>1 DEF p
  <2>3. CASE q # p
    <3>1. filter'[q] = filter[q]
      BY <1>6, <2>1, <2>3
    <3>2. \A d \in Children(q) : d \in Node /\ d # c
      BY <1>1, <2>3, NodeFacts DEF p
    <3>3. /\ \A s \in Stream, d \in Children(q) : g.took[s][d] = h.took[s][d]
          /\ \A s \in Stream : g.sent[s][q] = h.sent[s][q]
          /\ g.noise[q] = h.noise[q]
      BY <1>5, <2>1, <2>3, <3>2
    <3>4. Forwards(g, q)
      <4>1. \A d \in Children(q) : g.took["TDBSCAN"][d] = h.took["TDBSCAN"][d]
        BY <3>3, StreamFacts
      <4>2. g.sent["TDBSCAN"][q] = h.sent["TDBSCAN"][q]
        BY <3>3, StreamFacts
      <4> QED
        BY <2>1, <3>3, <4>1, <4>2 DEF Forwards
    <3>5. \A k : Taken(g, q, k) = Taken(h, q, k) /\ Missing(g, q, k) = Missing(h, q, k)
      BY <3>3, StreamFacts DEF Taken, Missing
    <3>6. NoiseIn(g, q) = NoiseIn(h, q) /\ HullsIn(g, q) = HullsIn(h, q)
      <4>1. \A d \in Children(q) :
              /\ h.took["TDBSCAN"][d] >= 1 => g.noise[d] = h.noise[d]
              /\ h.took["TDBSCAN"][d] >= 3 => g.hulls[d] = h.hulls[d]
        BY <1>3, <1>5, <3>2, StreamFacts DEF p
      <4>2. \A k : Taken(h, q, k) \subseteq Children(q)
        BY DEF Taken
      <4>3. /\ \A d \in Taken(h, q, 1) : g.noise[d] = h.noise[d]
            /\ \A d \in Taken(h, q, 3) : g.hulls[d] = h.hulls[d]
        BY <4>1 DEF Taken
      <4> QED
        BY <3>5, <4>3 DEF NoiseIn, HullsIn
    <3>7. \A ff : Holds(h, q, ff) => Holds(g, q, ff)
      <4>1. Informed(g, q) = Informed(h, q) /\ Reported(g, q) = Reported(h, q)
        BY <3>5 DEF Informed, Reported
      <4> QED
        BY <3>3, <3>5, <3>6, <4>1, StreamFacts DEF Holds
    <3>8. FilterOK(g, q, filter[q])
      BY <2>1, <3>3, <3>7, StreamFacts DEF FilterOK
    <3> QED
      BY <3>1, <3>4, <3>8
  <2> QED
    BY <2>2, <2>3
<1>15. \A m \in Node : Contents(g, m)
  <2>1. \A m \in Node : Contents(h, m)
    BY DEF Agrees
  <2>2. ASSUME NEW m \in Node, m # p
        PROVE  Contents(g, m)
    <3>1. /\ g.sent["TDBSCAN"][m] = h.sent["TDBSCAN"][m]
          /\ g.sent["Support"][m] = h.sent["Support"][m]
          /\ g.noise[m] = h.noise[m] /\ g.hulls[m] = h.hulls[m]
          /\ g.info[m] = h.info[m] /\ g.sup[m] = h.sup[m]
      BY <1>5, <2>2, StreamFacts
    <3> QED
      BY <2>1, <3>1 DEF Contents
  <2> QED
    BY <2>2 DEF p
<1>16. \A w \in Worker : WorkerOK(g, w)'
  <2> SUFFICES ASSUME NEW w \in Worker
               PROVE  WorkerOK(g, w)'
    OBVIOUS
  <2>1. WorkerOK(h, w) /\ w \in Node /\ w # p
    BY <1>1, NodeFacts DEF Agrees
  <2>2. Progress(g, w) = Progress(h, w) /\ g.sent["Support"][w] = h.sent["Support"][w]
    BY <1>5, <2>1, StreamFacts DEF Progress
  <2>3. Model(g) = Model(h)
    BY <1>5 DEF Model
  <2>4. \A m : Classify(w, m)' = Classify(w, m)
    BY <1>7 DEF Classify, Answers, Touch
  <2> QED
    <3>1. /\ UNCHANGED <<pc, data, dims, globalModel, class, support>>
          /\ g.dtook = h.dtook /\ g.sup = h.sup /\ g.round = h.round /\ g.old = h.old
      BY <1>5, <1>7
    <3> QED
      BY <2>1, <2>2, <2>3, <2>4, <3>1 DEF WorkerOK, Measured
<1>17. RootOK(g)'
  <2>1. RootOK(h) /\ Root \in Node
    BY NodeFacts DEF Agrees
  <2>2. RootProgress(g) = RootProgress(h) /\ g.took["TDBSCAN"][Root] = h.took["TDBSCAN"][Root]
    BY <1>1, <1>5, <2>1, StreamFacts DEF RootProgress
  <2>3. \A w \in Worker : g.sent["TDBSCAN"][w] = h.sent["TDBSCAN"][w]
                          /\ g.dtook["TDBSCAN"][w] = h.dtook["TDBSCAN"][w]
    BY <1>1, <1>5, NodeFacts, StreamFacts
  <2>4. h.took["TDBSCAN"][Root] <= h.sent["TDBSCAN"][Root]
    BY <1>3, <2>1, StreamFacts
  <2>5. /\ h.took["TDBSCAN"][Root] >= 1 => g.noise[Root] = h.noise[Root]
        /\ h.took["TDBSCAN"][Root] >= 3 => g.hulls[Root] = h.hulls[Root]
        /\ h.took["TDBSCAN"][Root] >= 5 => g.info[Root] = h.info[Root]
    BY <1>3, <1>5, <2>1, <2>4, StreamFacts DEF p
  <2>6. Modelled(g)'
    BY <1>5, <1>7, <2>1, <2>2, ModelKept DEF rootVars
  <2>7. g.round = h.round
    BY <1>5
  <2> QED
    BY <1>7, <2>1, <2>2, <2>3, <2>5, <2>6, <2>7 DEF RootOK, rootVars
<1> QED
  BY <1>7, <1>11, <1>12, <1>13, <1>14, <1>15, <1>16, <1>17, SameData DEF Agrees

\* Whatever a process sends, it sends in pieces of two, two, one and one packets.
LEMMA SentSteps ==
  ASSUME NEW h, Agrees(h), NEW d \in Node
  PROVE  h.sent["TDBSCAN"][d] \in {0, 2, 4, 5, 6}
<1>1. CASE d \in Filter
  BY <1>1 DEF Agrees, Forwards
<1>2. CASE d \in Worker
  <2>1. pc[d] \in {"config", "dims", "barrier", "model", "hulls", "support", "exited"}
        /\ Progress(h, d) \in Places(pc[d])
    BY <1>2 DEF Agrees, WorkerOK
  <2>2. \A l \in {"config", "dims", "barrier", "model", "hulls", "support", "exited"} :
          \A x \in Places(l) : x[1] \in {0, 4, 5, 6}
    BY DEF Places
  <2>3. Progress(h, d)[1] \in {0, 4, 5, 6}
    BY <2>1, <2>2
  <2>4. Progress(h, d)[1] = h.sent["TDBSCAN"][d]
    BY DEF Progress
  <2> QED
    BY <2>3, <2>4
<1> QED
  BY <1>1, <1>2, NodeFacts

\* The fields of a filter.
LEMMA FilterFields ==
  ASSUME NEW p, NEW f \in FilterState(p)
  PROVE  /\ f.waitForNoise \in 0 .. Cardinality(Children(p))
         /\ f.waitForHulls \in 0 .. Cardinality(Children(p))
         /\ f.waitForStats \in 0 .. Cardinality(Children(p))
         /\ f.waitForClustersInfo \in 0 .. Cardinality(Children(p))
         /\ f.noise \in SUBSET Burst /\ f.merged \in SUBSET SUBSET Burst
         /\ f.nodes \in SUBSET Node /\ f.info \in Counts(Nat)
         /\ f.needsReset \in BOOLEAN /\ f.compared \in BOOLEAN /\ f.alive \in BOOLEAN
BY DEF FilterState

\* There are always between no and all children that have not come so far.
LEMMA MissingType ==
  ASSUME NEW h, NEW p, NEW k
  PROVE  /\ Missing(h, p, k) \in 0 .. Cardinality(Children(p))
         /\ Missing(h, p, k) = 0 <=> \A d \in Children(p) : ~(h.took["TDBSCAN"][d] < k)
<1> DEFINE M == {d \in Children(p) : h.took["TDBSCAN"][d] < k}
<1>1. M \subseteq Children(p)
  OBVIOUS
<1>2. IsFiniteSet(M) /\ Cardinality(M) \in Nat /\ Cardinality(M) <= Cardinality(Children(p))
      /\ Cardinality(Children(p)) \in Nat
  BY <1>1, FiniteFacts, FS_Subset, FS_CardinalityType
<1>3. Cardinality(M) = 0 <=> M = {}
  BY <1>2, FS_EmptySet
<1> QED
  BY <1>2, <1>3 DEF Missing

\* The empty bag counts nothing.
LEMMA EmptyCounts ==
  /\ EmptyBag \in Counts(Nat) /\ \A key : Tally({}, key) = EmptyBag
<1>1. EmptyBag \in [{} -> Nat \ {0}]
  BY DEF EmptyBag, SetToBag
<1>2. \A key : Tally({}, key) = EmptyBag
  BY DEF Tally, EmptyBag, SetToBag
<1> QED
  BY <1>1, <1>2 DEF Counts

\* A filter that takes a packet holds what it has been sent in this round, and nothing
\* of the one before.
LEMMA FilterStart ==
  ASSUME NEW h, Agrees(h), NEW c \in Node \ {Root}, filter[Parent[c]].alive,
         h.took["TDBSCAN"][c] < h.sent["TDBSCAN"][c]
  PROVE  LET f == Current(Parent[c])
         IN  /\ f \in FilterState(Parent[c]) /\ f.alive /\ ~f.needsReset
             /\ Holds(h, Parent[c], f)
<1> DEFINE p == Parent[c]
<1>1. /\ p \in Filter /\ p \in Node /\ c \in Children(p) /\ c \in Node
      /\ \A d \in Children(p) : d \in Node
  BY NodeFacts
<1>2. FilterOK(h, p, filter[p]) /\ Forwards(h, p) /\ Possible(h)
  BY <1>1 DEF Agrees
<1>3. \A d \in Node : h.sent["TDBSCAN"][d] \in 0 .. 6 /\ h.took["TDBSCAN"][d] \in 0 .. 6
  BY <1>2, AccountFacts, StreamFacts
<1>4. h.took["TDBSCAN"][c] < 6
  BY <1>1, <1>3
<1>5. CASE ~filter[p].needsReset
  BY <1>2, <1>5 DEF Current, FilterOK
<1>6. CASE filter[p].needsReset
  <2> DEFINE f == Fresh(p)
  <2>1. \A d \in Children(p) : h.took["TDBSCAN"][d] = 0
    BY <1>1, <1>2, <1>4, <1>6 DEF FilterOK
  <2>2. h.sent["TDBSCAN"][p] = 0
    BY <1>1, <1>2, <1>3, <2>1, StreamFacts DEF Forwards
  <2>3. f \in FilterState(p) /\ f.alive /\ ~f.needsReset
    BY EmptyCounts, FiniteFacts DEF Fresh, FilterState
  <2>4. \A k \in 1 .. 6 : Missing(h, p, k) = Cardinality(Children(p)) /\ Taken(h, p, k) = {}
    <3> SUFFICES ASSUME NEW k \in 1 .. 6
                 PROVE  Missing(h, p, k) = Cardinality(Children(p)) /\ Taken(h, p, k) = {}
      OBVIOUS
    <3>1. {d \in Children(p) : h.took["TDBSCAN"][d] < k} = Children(p)
      BY <2>1
    <3> QED
      BY <2>1, <3>1 DEF Missing, Taken
  <2>5. /\ NoiseIn(h, p) = {} /\ HullsIn(h, p) = {} /\ Informed(h, p) = {}
        /\ Reported(h, p) = {}
    BY <2>4 DEF NoiseIn, HullsIn, Informed, Reported
  <2>6. /\ f.waitForNoise = Missing(h, p, 2) /\ f.waitForHulls = Missing(h, p, 4)
        /\ f.waitForClustersInfo = Missing(h, p, 5) /\ f.waitForStats = Missing(h, p, 6)
        /\ f.noise = {} /\ f.merged = {} /\ f.info = EmptyBag /\ f.nodes = {}
    BY <2>4 DEF Fresh
  <2>7. Holds(h, p, f)
    BY <2>2, <2>5, <2>6, EmptyCounts DEF Holds, Apart
  <2> QED
    BY <1>6, <2>3, <2>7 DEF Current
<1> QED
  BY <1>5, <1>6

\* What the filter in p has of its children when it has taken the packet t + 1 of c.
OneMore(h, g, p, c, t) ==
  /\ \A k \in 1 .. 6 :
       /\ Missing(g, p, k) = IF k = t + 1 THEN Missing(h, p, k) - 1 ELSE Missing(h, p, k)
       /\ k = t + 1 => Missing(h, p, k) >= 1
  /\ NoiseIn(g, p) = IF t = 0 THEN NoiseIn(h, p) \cup h.noise[c] ELSE NoiseIn(h, p)
  /\ HullsIn(g, p) = IF t = 2 THEN HullsIn(h, p) \cup UNION h.hulls[c] ELSE HullsIn(h, p)
  /\ Informed(g, p) = IF t = 4 THEN Informed(h, p) \cup Bursts(c) ELSE Informed(h, p)
  /\ Reported(g, p) = IF t = 5 THEN Reported(h, p) \cup Under(c) ELSE Reported(h, p)

\* It has that when it has taken one more.
LEMMA TakesOne ==
  ASSUME NEW h, NEW g, NEW c \in Node \ {Root}, NEW n, NEW N, NEW H, NEW I,
         Agrees(h), Delivers(h, g, c, n, N, H, I)
  PROVE  OneMore(h, g, Parent[c], c, h.took["TDBSCAN"][c])
<1> DEFINE p == Parent[c]
           t == h.took["TDBSCAN"][c]
<1>1. /\ p \in Filter /\ p \in Node /\ c \in Node /\ c \in Children(p)
      /\ \A d \in Children(p) : d \in Node
  BY NodeFacts
<1>2. \A d \in Node : h.took["TDBSCAN"][d] \in 0 .. 6
  BY AccountFacts, StreamFacts DEF Agrees
<1>3. p \notin Children(p)
  <2>1. p \in Above(p)
    BY <1>1, AboveSelf
  <2> QED
    BY <1>1, <2>1, Acyclic, NodeFacts
<1>4. /\ \A d \in Children(p) :
           /\ g.took["TDBSCAN"][d] = IF d = c THEN t + 1 ELSE h.took["TDBSCAN"][d]
           /\ g.noise[d] = h.noise[d] /\ g.hulls[d] = h.hulls[d]
  BY <1>1, <1>3, StreamFacts DEF Delivers
<1>5. t \in 0 .. 6
  BY <1>1, <1>2
<1> HIDE DEF p, t
<1>6. \A k \in 1 .. 6 : Taken(g, p, k) = IF k = t + 1 THEN Taken(h, p, k) \cup {c}
                                          ELSE Taken(h, p, k)
  BY <1>1, <1>2, <1>4, <1>5 DEF Taken, t
<1>7. ASSUME NEW k \in 1 .. 6
      PROVE  /\ Missing(g, p, k) = IF k = t + 1 THEN Missing(h, p, k) - 1
                                   ELSE Missing(h, p, k)
             /\ k = t + 1 => Missing(h, p, k) >= 1
  <2> DEFINE M == {d \in Children(p) : h.took["TDBSCAN"][d] < k}
             G == {d \in Children(p) : g.took["TDBSCAN"][d] < k}
  <2>1. G = IF k = t + 1 THEN M \ {c} ELSE M
    BY <1>1, <1>2, <1>4, <1>5 DEF t
  <2>2. k = t + 1 => c \in M
    BY <1>1, <1>5 DEF t
  <2>3. M \subseteq Children(p)
    OBVIOUS
  <2> HIDE DEF M, G
  <2>4. IsFiniteSet(M) /\ Cardinality(M) \in Nat
    BY <2>3, FiniteFacts, FS_Subset, FS_CardinalityType
  <2>5. k = t + 1 => Cardinality(M \ {c}) = Cardinality(M) - 1
    BY <2>2, <2>4, FS_RemoveElement
  <2>6. k = t + 1 => Cardinality(M) # 0
    BY <2>2, <2>4, FS_EmptySet
  <2>7. Missing(h, p, k) = Cardinality(M) /\ Missing(g, p, k) = Cardinality(G)
    BY DEF Missing, M, G
  <2> QED
    BY <2>1, <2>4, <2>5, <2>6, <2>7
<1>8. \A k : Taken(g, p, k) \subseteq Children(p) /\ Taken(h, p, k) \subseteq Children(p)
  BY DEF Taken
<1>9. NoiseIn(g, p) = IF t = 0 THEN NoiseIn(h, p) \cup h.noise[c] ELSE NoiseIn(h, p)
  <2>1. Taken(g, p, 1) = IF t = 0 THEN Taken(h, p, 1) \cup {c} ELSE Taken(h, p, 1)
    BY <1>5, <1>6
  <2> QED
    BY <1>4, <1>8, <2>1 DEF NoiseIn
<1>10. HullsIn(g, p) = IF t = 2 THEN HullsIn(h, p) \cup UNION h.hulls[c] ELSE HullsIn(h, p)
  <2>1. Taken(g, p, 3) = IF t = 2 THEN Taken(h, p, 3) \cup {c} ELSE Taken(h, p, 3)
    BY <1>5, <1>6
  <2> QED
    BY <1>4, <1>8, <2>1 DEF HullsIn
<1>11. Informed(g, p) = IF t = 4 THEN Informed(h, p) \cup Bursts(c) ELSE Informed(h, p)
  <2>1. Taken(g, p, 5) = IF t = 4 THEN Taken(h, p, 5) \cup {c} ELSE Taken(h, p, 5)
    BY <1>5, <1>6
  <2> QED
    BY <2>1 DEF Informed
<1>12. Reported(g, p) = IF t = 5 THEN Reported(h, p) \cup Under(c) ELSE Reported(h, p)
  <2>1. Taken(g, p, 6) = IF t = 5 THEN Taken(h, p, 6) \cup {c} ELSE Taken(h, p, 6)
    BY <1>5, <1>6
  <2> QED
    BY <2>1 DEF Reported
<1> QED
  BY <1>7, <1>9, <1>10, <1>11, <1>12 DEF p, t, OneMore

\* The contents of an account have their types.
LEMMA ContentsType ==
  ASSUME NEW h, Possible(h), NEW m \in Node
  PROVE  /\ h.noise[m] \in SUBSET Burst /\ h.hulls[m] \in SUBSET SUBSET Burst
         /\ h.info[m] \in Counts(Nat) /\ h.sup[m] \in Counts(Range(clump))
BY DEF Possible, Accounts

\* A filter that sends nothing agrees with the account in which only one more packet
\* of c has been taken.
LEMMA QuietStep ==
  ASSUME NEW h, NEW g, NEW c \in Node \ {Root}, NEW f,
         Agrees(h), UNCHANGED clump, FilterStep(c, f, << >>),
         h.took["TDBSCAN"][c] < h.sent["TDBSCAN"][c],
         Delivers(h, g, c, 0, h.noise[Parent[c]], h.hulls[Parent[c]], h.info[Parent[c]]),
         f \in FilterState(Parent[c]), ~f.needsReset,
         f.alive => Holds(g, Parent[c], f),
         f.alive => h.took["TDBSCAN"][c] < 5 \/ Missing(h, Parent[c], 6) > 1,
         \A k \in {2, 4, 5} : k = h.took["TDBSCAN"][c] + 1 => Missing(h, Parent[c], k) > 1
  PROVE  Agrees(g)'
<1> DEFINE p == Parent[c]
           t == h.took["TDBSCAN"][c]
           b == h.sent["TDBSCAN"][p]
<1>1. /\ p \in Filter /\ p \in Node /\ c \in Node /\ c \in Children(p)
      /\ \A d \in Children(p) : d \in Node
  BY NodeFacts
<1>2. Possible(h) /\ Forwards(h, p) /\ Contents(h, p)
  BY <1>1 DEF Agrees
<1>3. \A s \in Stream, d \in Node : h.sent[s][d] \in 0 .. 6 /\ h.took[s][d] \in 0 .. 6
  BY <1>2, AccountFacts, StreamFacts
<1>4. /\ \A s \in Stream, m \in Node :
           /\ g.took[s][m] = IF s = "TDBSCAN" /\ m = c THEN h.took[s][m] + 1
                             ELSE h.took[s][m]
           /\ g.sent[s][m] = h.sent[s][m]
      /\ \A m \in Node :
           g.noise[m] = h.noise[m] /\ g.hulls[m] = h.hulls[m] /\ g.info[m] = h.info[m]
      /\ g.sup = h.sup
  <2>1. \A s \in Stream, m \in Node : h.sent[s][m] + 0 = h.sent[s][m]
    BY <1>3
  <2>2. \A s \in Stream, m \in Node :
          /\ g.took[s][m] = IF s = "TDBSCAN" /\ m = c THEN h.took[s][m] + 1 ELSE h.took[s][m]
          /\ g.sent[s][m] = IF s = "TDBSCAN" /\ m = p THEN h.sent[s][m] + 0 ELSE h.sent[s][m]
    BY DEF Delivers
  <2>3. \A s \in Stream, m \in Node : g.sent[s][m] = h.sent[s][m]
    BY <2>1, <2>2
  <2>4. /\ \A m \in Node :
             /\ g.noise[m] = IF m = p THEN h.noise[p] ELSE h.noise[m]
             /\ g.hulls[m] = IF m = p THEN h.hulls[p] ELSE h.hulls[m]
             /\ g.info[m] = IF m = p THEN h.info[p] ELSE h.info[m]
        /\ g.sup = h.sup
    BY DEF Delivers
  <2> QED
    BY <2>2, <2>3, <2>4
<1>5. \A k \in 1 .. 6 : Missing(g, p, k) = IF k = t + 1 THEN Missing(h, p, k) - 1
                                           ELSE Missing(h, p, k)
  <2>1. OneMore(h, g, p, c, t)
    BY TakesOne
  <2> QED
    BY <2>1 DEF OneMore
<1>6. /\ \A k : Missing(h, p, k) \in Int /\ Missing(g, p, k) \in Int
      /\ \A k : Missing(h, p, k) = 0 <=> \A d \in Children(p) : ~(h.took["TDBSCAN"][d] < k)
      /\ \A k : Missing(g, p, k) = 0 <=> \A d \in Children(p) : ~(g.took["TDBSCAN"][d] < k)
  BY MissingType
<1>7. \A s \in Stream, d \in Node : g.took[s][d] \in 0 .. 7
  BY <1>3, <1>4
<1>8. Forwards(g, p)
  <2>1. g.sent["TDBSCAN"][p] \in {0, 2, 4, 5, 6}
        /\ \A s \in Stream : \A d \in Children(p) : g.sent[s][p] <= g.took[s][d]
    <3>1. /\ h.sent["TDBSCAN"][p] \in {0, 2, 4, 5, 6}
          /\ \A s \in Stream : \A d \in Children(p) : h.sent[s][p] <= h.took[s][d]
      BY <1>2 DEF Forwards
    <3>2. \A s \in Stream : \A d \in Children(p) : h.took[s][d] <= g.took[s][d]
      BY <1>1, <1>3, <1>4
    <3> QED
      BY <1>1, <1>3, <1>4, <1>7, <3>1, <3>2, StreamFacts, SMTT(20)
  <2>2. ASSUME NEW k \in {2, 4, 5}, \A d \in Children(p) : g.took["TDBSCAN"][d] >= k
        PROVE  g.sent["TDBSCAN"][p] >= k
    <3>0. \A d \in Children(p) : ~(g.took["TDBSCAN"][d] < k)
      BY <1>1, <1>7, <2>2, StreamFacts
    <3>1. Missing(g, p, k) = 0
      BY <1>6, <3>0, Zenon
    <3>2. k # t + 1
      <4> SUFFICES ASSUME k = t + 1
                   PROVE  FALSE
        OBVIOUS
      <4>1. Missing(h, p, k) > 1
        OBVIOUS
      <4>2. Missing(g, p, k) = Missing(h, p, k) - 1
        BY <1>5
      <4> QED
        BY <1>6, <3>1, <4>1, <4>2
    <3>3. Missing(h, p, k) = 0
      BY <1>5, <3>1, <3>2
    <3>4. \A d \in Children(p) : h.took["TDBSCAN"][d] >= k
      BY <1>1, <1>3, <1>6, <3>3, StreamFacts
    <3> QED
      BY <1>1, <1>2, <1>4, <3>4, StreamFacts DEF Forwards
  <2> QED
    BY <2>1, <2>2 DEF Forwards
<1>9. Contents(g, p)
  BY <1>1, <1>2, <1>4, StreamFacts DEF Contents
<1>10. FilterOK(g, p, f)
  <2>1. ASSUME f.alive
        PROVE  \E d \in Children(p) : g.took["TDBSCAN"][d] < 6
    <3>1. CASE t < 5
      BY <1>1, <1>3, <1>4, <3>1, StreamFacts
    <3>2. CASE t = 5
      <4>1. Missing(h, p, 6) > 1
        BY <2>1, <3>2
      <4>2. Missing(g, p, 6) # 0
        BY <1>5, <1>6, <4>1, SMTT(20)
      <4> QED
        BY <1>6, <4>2
    <3> QED
      BY <1>1, <1>3, <3>1, <3>2, StreamFacts
  <2> QED
    BY <2>1 DEF FilterOK
<1>11. << >> = Segment(Script(g, "TDBSCAN", p), b, b + 0) /\ b + 0 <= 6
  <2>1. b \in 0 .. 6
    BY <1>1, <1>3, StreamFacts
  <2>2. b + 0 = b /\ b \in Int
    BY <2>1
  <2> QED
    BY <2>1, <2>2, SegmentEmpty
<1>12. /\ h.noise[p] \in SUBSET Burst /\ h.hulls[p] \in SUBSET SUBSET Burst
       /\ h.info[p] \in Counts(Nat)
  BY <1>1, <1>2, ContentsType
<1> QED
  BY <1>8, <1>9, <1>10, <1>11, <1>12, FilterFrame DEF p, b

\* Such an account exists.
LEMMA QuietAccount ==
  ASSUME NEW h, Agrees(h), NEW c \in Node \ {Root},
         h.took["TDBSCAN"][c] < h.sent["TDBSCAN"][c]
  PROVE  \E g : Delivers(h, g, c, 0, h.noise[Parent[c]], h.hulls[Parent[c]], h.info[Parent[c]])
<1>1. Parent[c] \in Node /\ c \in Node /\ Possible(h) /\ h \in Accounts
  BY NodeFacts DEF Agrees, Possible
<1>2. /\ h.noise[Parent[c]] \in SUBSET Burst /\ h.hulls[Parent[c]] \in SUBSET SUBSET Burst
      /\ h.info[Parent[c]] \in Counts(Nat)
  BY <1>1, ContentsType
<1>3. /\ h.sent["TDBSCAN"][Parent[c]] \in 0 .. 6 /\ h.sent["TDBSCAN"][c] \in 0 .. 6
      /\ h.took["TDBSCAN"][c] \in 0 .. 6
  BY <1>1, AccountFacts, StreamFacts
<1>4. h.took["TDBSCAN"][c] < 6 /\ h.sent["TDBSCAN"][Parent[c]] + 0 <= 6
  BY <1>3
<1> QED
  BY <1>1, <1>2, <1>4, DeliversExists

\* A filter keeps the noise of a child (FilterNoise).
LEMMA NoiseStep ==
  ASSUME NEW h, Agrees(h), UNCHANGED clump, NEW c \in Node \ {Root}, FilterNoise(c)
  PROVE  IInv'
<1> DEFINE p == Parent[c]
           f0 == Current(p)
           f == [f0 EXCEPT !.noise = @ \cup h.noise[c]]
<1>1. /\ p \in Node /\ c \in Node /\ Possible(h) /\ Queues(h)
  BY NodeFacts DEF Agrees
<1>2. /\ h.took["TDBSCAN"][c] = 0 /\ h.took["TDBSCAN"][c] < h.sent["TDBSCAN"][c]
      /\ Head(up["TDBSCAN"][c]).body = h.noise[c]
  BY <1>1, UpTag DEF FilterNoise
<1>3. FilterStep(c, f, << >>) /\ filter[Parent[c]].alive
  BY <1>2 DEF FilterNoise, FilterStep
<1>4. f0 \in FilterState(p) /\ f0.alive /\ ~f0.needsReset /\ Holds(h, p, f0)
  BY <1>2, <1>3, FilterStart
<1>5. PICK g : Delivers(h, g, c, 0, h.noise[p], h.hulls[p], h.info[p])
  BY <1>2, QuietAccount
<1>6. /\ \A k \in 1 .. 6 : Missing(g, p, k) = IF k = 1 THEN Missing(h, p, k) - 1
                                              ELSE Missing(h, p, k)
      /\ NoiseIn(g, p) = NoiseIn(h, p) \cup h.noise[c] /\ HullsIn(g, p) = HullsIn(h, p)
      /\ Informed(g, p) = Informed(h, p) /\ Reported(g, p) = Reported(h, p)
  <2>1. OneMore(h, g, p, c, 0)
    BY <1>2, <1>5, TakesOne
  <2> QED
    BY <2>1 DEF OneMore
<1>7. h.sent["TDBSCAN"][p] = 0 /\ g.sent["TDBSCAN"][p] = 0
  <2>1. h.sent["TDBSCAN"][p] = 0
    <3>1. Forwards(h, p) /\ c \in Children(p)
      BY NodeFacts DEF Agrees
    <3>2. h.sent["TDBSCAN"][p] <= 0 /\ h.sent["TDBSCAN"][p] \in 0 .. 6
      BY <1>1, <1>2, <3>1, StreamFacts, AccountFacts DEF Forwards
    <3> QED
      BY <3>2
  <2> QED
    BY <1>1, <1>5, <2>1, StreamFacts DEF Delivers
<1>8. h.noise[c] \in SUBSET Burst
  BY <1>1, ContentsType
<1> HIDE DEF f0, p
<1>9. /\ f \in FilterState(p) /\ ~f.needsReset
      /\ f.noise = f0.noise \cup h.noise[c] /\ f.merged = f0.merged /\ f.info = f0.info
      /\ f.nodes = f0.nodes /\ f.waitForNoise = f0.waitForNoise
      /\ f.waitForHulls = f0.waitForHulls /\ f.waitForStats = f0.waitForStats
      /\ f.waitForClustersInfo = f0.waitForClustersInfo
  BY <1>4, <1>8 DEF FilterState
<1> HIDE DEF f
<1>11. Holds(g, p, f)
  BY <1>4, <1>6, <1>7, <1>9 DEF Holds
<1>12. Agrees(g)'
  <2>1. /\ f.alive => h.took["TDBSCAN"][c] < 5 \/ Missing(h, p, 6) > 1
        /\ \A k \in {2, 4, 5} : k = h.took["TDBSCAN"][c] + 1 => Missing(h, p, k) > 1
    BY <1>2
  <2> QED
    BY <1>2, <1>3, <1>5, <1>9, <1>11, <2>1, QuietStep DEF p
<1> QED
  BY <1>12 DEF IInv

\* The hulls found in a set S of bursts, and the noise that remains, are S.
LEMMA HullsIs ==
  ASSUME NEW S, NEW min
  PROVE  /\ Hulls(S, min) \in SUBSET SUBSET S /\ NoiseOf(S, min) \in SUBSET S
         /\ UNION Hulls(S, min) = S \ NoiseOf(S, min)
         /\ Apart(Hulls(S, min)) /\ \A H \in Hulls(S, min) : OneClump(H)
<1>1. \A H \in Hulls(S, min) : \E k \in Range(clump) : H = {b \in S : clump[b] = k}
  BY DEF Hulls
<1>2. Hulls(S, min) \in SUBSET SUBSET S
  BY <1>1
<1>3. Apart(Hulls(S, min)) /\ \A H \in Hulls(S, min) : OneClump(H)
  <2>1. \A H \in Hulls(S, min) : OneClump(H)
    BY <1>1 DEF OneClump
  <2>2. ASSUME NEW G \in Hulls(S, min), NEW H \in Hulls(S, min), G # H
        PROVE  G \cap H = {}
    <3>1. PICK j \in Range(clump) : G = {b \in S : clump[b] = j}
      BY <1>1
    <3>2. PICK k \in Range(clump) : H = {b \in S : clump[b] = k}
      BY <1>1
    <3> QED
      BY <2>2, <3>1, <3>2
  <2> QED
    BY <2>1, <2>2 DEF Apart
<1> QED
  BY <1>2, <1>3 DEF NoiseOf

\* Hulls that are merged contain what they were made from, and nothing twice.
LEMMA MergedIs ==
  ASSUME NEW held, NEW hulls, Apart(held),
         \A H \in held : OneClump(H), \A H \in hulls : OneClump(H)
  PROVE  /\ UNION Merged(held, hulls) = (UNION held) \cup UNION hulls
         /\ Apart(Merged(held, hulls)) /\ \A H \in Merged(held, hulls) : OneClump(H)
<1> DEFINE With(H) == UNION {G \in held \cup hulls : Touch(G, H)}
<1>1. \A M \in Merged(held, hulls) :
        \/ \E H \in hulls : M = With(H)
        \/ M \in held /\ \A H \in hulls : ~Touch(M, H)
  BY DEF Merged
<1>2. /\ \A H \in hulls : With(H) \in Merged(held, hulls)
      /\ \A G \in held : (\A H \in hulls : ~Touch(G, H)) => G \in Merged(held, hulls)
  BY DEF Merged
<1>3. \A H \in hulls : \A a \in With(H) :
        /\ \E G \in held \cup hulls : a \in G /\ Touch(G, H)
        /\ \A b \in H : clump[a] = clump[b]
        /\ H # {}
  <2> SUFFICES ASSUME NEW H \in hulls, NEW a \in With(H)
               PROVE  /\ \E G \in held \cup hulls : a \in G /\ Touch(G, H)
                      /\ \A b \in H : clump[a] = clump[b]
                      /\ H # {}
    OBVIOUS
  <2>1. PICK G \in held \cup hulls : a \in G /\ Touch(G, H)
    OBVIOUS
  <2>2. OneClump(G) /\ OneClump(H)
    BY <2>1
  <2>3. PICK x \in G, y \in H : clump[x] = clump[y]
    BY <2>1 DEF Touch
  <2> QED
    BY <2>1, <2>2, <2>3 DEF OneClump
<1>4. ASSUME NEW H \in hulls, NEW G \in held \cup hulls, NEW a \in G, NEW b \in H,
             clump[a] = clump[b]
      PROVE  G \subseteq With(H)
  <2>1. Touch(G, H)
    BY <1>4 DEF Touch
  <2> QED
    BY <2>1
<1> HIDE DEF With
<1>5. UNION Merged(held, hulls) = (UNION held) \cup UNION hulls
  <2>1. ASSUME NEW G \in held \cup hulls, NEW a \in G
        PROVE  a \in UNION Merged(held, hulls)
    <3>1. CASE \E H \in hulls : Touch(G, H)
      <4>1. PICK H \in hulls : Touch(G, H)
        BY <3>1
      <4>2. PICK x \in G, y \in H : clump[x] = clump[y]
        BY <4>1 DEF Touch
      <4>3. a \in With(H)
        BY <1>4, <4>2
      <4> QED
        BY <1>2, <4>3
    <3>2. CASE \A H \in hulls : ~Touch(G, H)
      <4>1. G \notin hulls
        <5>1. Touch(G, G)
          BY DEF Touch
        <5> QED
          BY <3>2, <5>1
      <4> QED
        BY <1>2, <3>2, <4>1
    <3> QED
      BY <3>1, <3>2
  <2>2. ASSUME NEW M \in Merged(held, hulls), NEW a \in M
        PROVE  a \in (UNION held) \cup UNION hulls
    BY <1>1, <1>3
  <2> QED
    BY <2>1, <2>2
<1>6. \A M \in Merged(held, hulls) : OneClump(M)
  <2> SUFFICES ASSUME NEW M \in Merged(held, hulls), NEW a \in M, NEW b \in M
               PROVE  clump[a] = clump[b]
    BY DEF OneClump
  <2>1. CASE M \in held
    BY <2>1 DEF OneClump
  <2>2. ASSUME NEW H \in hulls, M = With(H)
        PROVE  clump[a] = clump[b]
    <3>1. PICK y : y \in H
      BY <1>3, <2>2
    <3> QED
      BY <1>3, <2>2, <3>1
  <2> QED
    BY <1>1, <2>1, <2>2
<1>7. ASSUME NEW M \in Merged(held, hulls), NEW L \in Merged(held, hulls), NEW a \in M,
             a \in L, NEW H \in hulls, M = With(H)
      PROVE  L \subseteq M
  <2>1. PICK y : y \in H
    BY <1>3, <1>7
  <2>2. clump[a] = clump[y]
    BY <1>3, <1>7, <2>1
  <2>3. CASE L \in held
    <3>1. L \subseteq With(H)
      BY <1>4, <1>7, <2>1, <2>2, <2>3
    <3> QED
      BY <1>7, <3>1
  <2>4. ASSUME NEW K \in hulls, L = With(K)
        PROVE  L \subseteq M
    <3> SUFFICES ASSUME NEW x \in With(K)
                 PROVE  x \in With(H)
      BY <1>7, <2>4
    <3>1. PICK G \in held \cup hulls : x \in G /\ Touch(G, K)
      BY <1>3
    <3>2. OneClump(L) /\ x \in L
      BY <1>6, <2>4
    <3>3. clump[x] = clump[y]
      BY <1>7, <2>2, <3>2 DEF OneClump
    <3> QED
      BY <1>4, <2>1, <3>1, <3>3
  <2> QED
    BY <1>1, <2>3, <2>4
<1>8. Apart(Merged(held, hulls))
  <2> SUFFICES ASSUME NEW M \in Merged(held, hulls), NEW L \in Merged(held, hulls),
                      NEW a \in M, a \in L
               PROVE  M = L
    BY DEF Apart
  <2>1. CASE M \in held /\ L \in held
    BY <2>1 DEF Apart
  <2>2. ASSUME NEW H \in hulls, M = With(H), NEW K \in hulls, L = With(K)
        PROVE  M = L
    BY <1>7, <2>2
  <2>3. ASSUME NEW P \in Merged(held, hulls), NEW Q \in Merged(held, hulls), a \in P, a \in Q,
               NEW H \in hulls, P = With(H), Q \in held, \A K \in hulls : ~Touch(Q, K)
        PROVE  FALSE
    <3>1. PICK y : y \in H
      BY <1>3, <2>3
    <3>2. clump[a] = clump[y]
      BY <1>3, <2>3, <3>1
    <3> QED
      BY <2>3, <3>1, <3>2 DEF Touch
  <2> QED
    BY <1>1, <2>1, <2>2, <2>3
<1> QED
  BY <1>5, <1>6, <1>8

\* The noise and the hulls a filter has been sent are bursts below it, none in both.
LEMMA Inside ==
  ASSUME NEW h, Agrees(h), NEW p \in Filter
  PROVE  /\ NoiseIn(h, p) \subseteq Bursts(p) /\ HullsIn(h, p) \subseteq Bursts(p)
         /\ NoiseIn(h, p) \cap HullsIn(h, p) = {}
         /\ (\A d \in Children(p) : h.took["TDBSCAN"][d] >= 3) =>
              NoiseIn(h, p) \cup HullsIn(h, p) = Bursts(p)
<1>1. Extracted
  BY DEF Agrees, Shapes, WorkerOK, Extracted
<1>2. \A d \in Children(p) : d \in Node /\ Contents(h, d)
  BY NodeFacts DEF Agrees
<1>3. ASSUME NEW d \in Children(p)
      PROVE  /\ h.took["TDBSCAN"][d] >= 1 => h.sent["TDBSCAN"][d] >= 2
             /\ h.took["TDBSCAN"][d] >= 3 => h.sent["TDBSCAN"][d] >= 4
  <2>1. /\ h.took["TDBSCAN"][d] \in 0 .. 6
        /\ h.took["TDBSCAN"][d] <= h.sent["TDBSCAN"][d]
    BY <1>2, AccountFacts, StreamFacts DEF Agrees
  <2>2. h.sent["TDBSCAN"][d] \in {0, 2, 4, 5, 6}
    BY <1>2, SentSteps
  <2> QED
    BY <2>1, <2>2
<1>4. /\ \A d \in Taken(h, p, 1) : d \in Children(p) /\ h.noise[d] \subseteq Bursts(d)
      /\ \A d \in Taken(h, p, 3) : /\ d \in Children(p)
                                   /\ h.noise[d] \cup UNION h.hulls[d] = Bursts(d)
                                   /\ h.noise[d] \cap UNION h.hulls[d] = {}
  BY <1>2, <1>3 DEF Taken, Contents
<1>5. \A d \in Children(p) : Bursts(d) \subseteq Bursts(p)
  BY <1>1, BurstsOf
<1>6. \A d, e \in Children(p) : d # e => Bursts(d) \cap Bursts(e) = {}
  BY <1>1, BurstsOf
<1>7. NoiseIn(h, p) \subseteq Bursts(p) /\ HullsIn(h, p) \subseteq Bursts(p)
  BY <1>4, <1>5 DEF NoiseIn, HullsIn
<1>8. ASSUME NEW b \in NoiseIn(h, p), b \in HullsIn(h, p)
      PROVE  FALSE
  <2>1. PICK d \in Taken(h, p, 1) : b \in h.noise[d]
    BY DEF NoiseIn
  <2>2. PICK e \in Taken(h, p, 3) : b \in UNION h.hulls[e]
    BY <1>8 DEF HullsIn
  <2>3. b \in Bursts(d) /\ b \in Bursts(e) /\ d \in Children(p) /\ e \in Children(p)
    BY <1>4, <2>1, <2>2
  <2>4. d = e
    BY <1>6, <2>3
  <2> QED
    BY <1>4, <2>1, <2>2, <2>4
<1>9. ASSUME \A d \in Children(p) : h.took["TDBSCAN"][d] >= 3, NEW b \in Bursts(p)
      PROVE  b \in NoiseIn(h, p) \cup HullsIn(h, p)
  <2>1. PICK d \in Children(p) : b \in Bursts(d)
    BY <1>1, BurstsOf
  <2>2. h.took["TDBSCAN"][d] \in 0 .. 6 /\ h.took["TDBSCAN"][d] >= 3
    BY <1>2, <1>9, AccountFacts, StreamFacts DEF Agrees
  <2>3. d \in Taken(h, p, 1) /\ d \in Taken(h, p, 3)
    BY <2>2 DEF Taken
  <2> QED
    BY <1>4, <2>1, <2>3 DEF NoiseIn, HullsIn
<1> QED
  BY <1>7, <1>8, <1>9

\* With the last child's noise a filter clusters: what it can is hulls from now on, the
\* rest is passed on (FilterAllNoiseSent).
LEMMA NoiseSentStep ==
  ASSUME NEW h, Agrees(h), UNCHANGED clump, NEW c \in Node \ {Root}, FilterAllNoiseSent(c)
  PROVE  IInv'
<1> DEFINE p == Parent[c]
           f0 == Current(p)
           f == [f0 EXCEPT !.waitForNoise = @ - 1]
           min == WeightedMinPoints(p)
           N == NoiseOf(f.noise, min)
           f2 == [f EXCEPT !.merged = @ \cup Hulls(f.noise, min)]
<1>1. /\ p \in Node /\ c \in Node /\ Possible(h) /\ Queues(h) /\ h \in Accounts
      /\ p \in Filter /\ c \in Children(p) /\ \A d \in Children(p) : d \in Node
  BY NodeFacts DEF Agrees, Possible
<1>2. h.took["TDBSCAN"][c] = 1 /\ h.took["TDBSCAN"][c] < h.sent["TDBSCAN"][c]
  BY <1>1, UpTag DEF FilterAllNoiseSent
<1>3. /\ filter[Parent[c]].alive
      /\ IF f.waitForNoise <= 0
           THEN FilterStep(c, f2, <<Packet("NOISE", N), Mark("ALL_NOISE_SENT")>>)
           ELSE FilterStep(c, f, << >>)
  BY DEF FilterAllNoiseSent, FilterStep
<1>4. f0 \in FilterState(p) /\ f0.alive /\ ~f0.needsReset /\ Holds(h, p, f0)
  BY <1>2, <1>3, FilterStart
<1>5. h.sent["TDBSCAN"][p] = 0
  <2>1. h.sent["TDBSCAN"][p] <= 1 /\ h.sent["TDBSCAN"][p] \in {0, 2, 4, 5, 6}
    BY <1>1, <1>2, StreamFacts DEF Agrees, Forwards
  <2> QED
    BY <2>1
<1>6. \A d \in Node : h.sent["TDBSCAN"][d] \in 0 .. 6 /\ h.took["TDBSCAN"][d] \in 0 .. 6
  BY <1>1, AccountFacts, StreamFacts
<1>7. \A k : Missing(h, p, k) \in 0 .. Cardinality(Children(p))
  BY MissingType
<1> HIDE DEF f0, p, min
<1>8. f0.waitForNoise = Missing(h, p, 2)
  BY <1>4 DEF Holds
<1>9. f.noise = f0.noise /\ f0.noise = NoiseIn(h, p) /\ f0.merged \in SUBSET SUBSET Burst
      /\ f0.noise \in SUBSET Burst
  BY <1>4 DEF FilterState, Holds
<1>10. CASE f.waitForNoise > 0
  <2>1. FilterStep(c, f, << >>)
    <3>1. f.waitForNoise = f0.waitForNoise - 1
      BY <1>4 DEF FilterState
    <3>2. ~(f.waitForNoise <= 0)
      BY <1>7, <1>8, <1>10, <3>1
    <3> QED
      BY <1>3, <3>2
  <2>2. PICK g : Delivers(h, g, c, 0, h.noise[p], h.hulls[p], h.info[p])
    BY <1>2, QuietAccount DEF p
  <2>3. OneMore(h, g, p, c, 1)
    BY <1>2, <2>2, TakesOne DEF p
  <2>4. g.sent["TDBSCAN"][p] = 0
    BY <1>1, <1>5, <2>2, StreamFacts DEF Delivers, p
  <2>5. Missing(h, p, 2) > 1 /\ f.waitForNoise = Missing(h, p, 2) - 1
    <3>1. f.waitForNoise = f0.waitForNoise - 1
      BY <1>4 DEF FilterState
    <3> QED
      BY <1>7, <1>8, <1>10, <3>1
  <2>6. f.waitForNoise \in 0 .. Cardinality(Children(p))
    BY <1>7, <2>5, FiniteFacts
  <2>7. f \in FilterState(p) /\ ~f.needsReset /\ f.alive
    BY <1>4, <2>6 DEF FilterState
  <2>8. /\ f.merged = f0.merged /\ f.info = f0.info /\ f.nodes = f0.nodes
        /\ f.waitForHulls = f0.waitForHulls /\ f.waitForStats = f0.waitForStats
        /\ f.waitForClustersInfo = f0.waitForClustersInfo
    BY <1>4 DEF FilterState
  <2> HIDE DEF f
  <2>9. Holds(g, p, f)
    BY <1>4, <1>5, <1>9, <2>3, <2>4, <2>5, <2>8 DEF Holds, OneMore
  <2>10. Agrees(g)'
    <3>1. /\ f.alive => h.took["TDBSCAN"][c] < 5 \/ Missing(h, p, 6) > 1
          /\ \A k \in {2, 4, 5} : k = h.took["TDBSCAN"][c] + 1 => Missing(h, p, k) > 1
      BY <1>2, <2>5
    <3> QED
      BY <1>2, <2>1, <2>2, <2>7, <2>9, <3>1, QuietStep DEF p
  <2> QED
    BY <2>10 DEF IInv
<1>11. CASE f.waitForNoise <= 0
  <2> DEFINE out == <<Packet("NOISE", N), Mark("ALL_NOISE_SENT")>>
             H == h.hulls[p]
             I == h.info[p]
  <2>1. FilterStep(c, f2, out)
    BY <1>3, <1>11
  <2>2. /\ Hulls(f0.noise, min) \in SUBSET SUBSET f0.noise /\ N \in SUBSET f0.noise
        /\ UNION Hulls(f0.noise, min) = f0.noise \ N
        /\ Apart(Hulls(f0.noise, min)) /\ \A X \in Hulls(f0.noise, min) : OneClump(X)
    BY <1>9, HullsIs
  <2>3. N \in SUBSET Burst /\ H \in SUBSET SUBSET Burst /\ I \in Counts(Nat)
    BY <1>1, <1>9, <2>2, ContentsType
  <2> HIDE DEF N
  <2>4. PICK g : Delivers(h, g, c, 2, N, H, I)
    <3>1. h.took["TDBSCAN"][c] < 6 /\ h.sent["TDBSCAN"][Parent[c]] + 2 <= 6
      BY <1>2, <1>5 DEF p
    <3> HIDE DEF H, I
    <3> QED
      BY <1>1, <2>3, <3>1, DeliversExists
  <2>5. OneMore(h, g, p, c, 1)
    BY <1>2, <2>4, TakesOne DEF p
  <2>6. /\ g.sent["TDBSCAN"][p] = 2 /\ g.noise[p] = N /\ g.hulls[p] = H
        /\ g.sent["Support"][p] = h.sent["Support"][p]
        /\ g.sup = h.sup
        /\ \A s \in Stream, m \in Node : g.took[s][m] = IF s = "TDBSCAN" /\ m = c THEN 2
                                                        ELSE h.took[s][m]
        /\ \A s \in Stream : g.sent[s][p] = IF s = "TDBSCAN" THEN 2 ELSE h.sent[s][p]
    BY <1>1, <1>2, <1>5, <2>4, StreamFacts DEF Delivers, p
  <2>7. Missing(h, p, 2) = 1 /\ Missing(g, p, 2) = 0 /\ f.waitForNoise = 0
    <3>1. Missing(h, p, 2) >= 1 /\ Missing(g, p, 2) = Missing(h, p, 2) - 1
      BY <2>5 DEF OneMore
    <3>2. f.waitForNoise = f0.waitForNoise - 1
      BY <1>4 DEF FilterState
    <3> QED
      BY <1>7, <1>8, <1>11, <3>1, <3>2
  <2>8. \A d \in Children(p) : g.took["TDBSCAN"][d] >= 2
    <3>1. \A d \in Children(p) : ~(g.took["TDBSCAN"][d] < 2)
      BY <2>7, MissingType
    <3> QED
      BY <1>1, <1>6, <2>6, <3>1, StreamFacts
  <2>9. Forwards(g, p)
    <3>1. \A s \in Stream : \A d \in Children(p) : h.sent[s][p] <= h.took[s][d]
      BY <1>1 DEF Agrees, Forwards
    <3>2. \A s \in Stream : \A d \in Children(p) : g.sent[s][p] <= g.took[s][d]
      BY <1>1, <2>6, <2>8, <3>1
    <3>3. g.took["TDBSCAN"][c] = 2
      BY <1>1, <2>6, StreamFacts
    <3>4. \A k \in {2, 4, 5} :
            (\A d \in Children(p) : g.took["TDBSCAN"][d] >= k) => g.sent["TDBSCAN"][p] >= k
      BY <1>1, <2>6, <3>3
    <3> QED
      BY <2>6, <3>2, <3>4 DEF Forwards
  <2>10. NoiseIn(h, p) \subseteq Bursts(p) /\ NoiseIn(h, p) \cap HullsIn(h, p) = {}
    BY <1>1, Inside
  <2>11. Contents(g, p)
    <3>1. Contents(h, p)
      BY <1>1 DEF Agrees
    <3> QED
      BY <1>9, <2>2, <2>6, <2>10, <3>1 DEF Contents
  <2>12. f2.merged = f0.merged \cup Hulls(f0.noise, min) /\ f2.noise = f0.noise
         /\ f2.info = f0.info /\ f2.nodes = f0.nodes /\ f2.waitForNoise = 0
         /\ f2.waitForHulls = f0.waitForHulls /\ f2.waitForStats = f0.waitForStats
         /\ f2.waitForClustersInfo = f0.waitForClustersInfo
         /\ ~f2.needsReset
    BY <1>4, <2>7 DEF FilterState
  <2>13. f2 \in FilterState(p)
    <3>1. f0.merged \cup Hulls(f.noise, min) \in SUBSET SUBSET Burst
      BY <1>9, <2>2
    <3>2. 0 \in 0 .. Cardinality(Children(p))
      BY FiniteFacts
    <3>3. f \in FilterState(p) /\ f.merged = f0.merged
      BY <1>4, <2>7, <3>2 DEF FilterState
    <3> HIDE DEF f
    <3> QED
      BY <3>1, <3>3 DEF FilterState
  <2> HIDE DEF f, f2
  <2>14. Holds(g, p, f2)
    <3>1. /\ UNION f0.merged = HullsIn(h, p) /\ Apart(f0.merged)
          /\ \A X \in f0.merged : OneClump(X)
      BY <1>4, <1>5 DEF Holds
    <3>2. UNION f2.merged = HullsIn(h, p) \cup (f0.noise \ N)
      BY <2>2, <2>12, <3>1
    <3>3. Apart(f2.merged)
      <4>1. \A X \in f0.merged, Y \in Hulls(f0.noise, min) : X \cap Y = {}
        BY <1>9, <2>2, <2>10, <3>1
      <4> QED
        BY <2>2, <2>12, <3>1, <4>1 DEF Apart
    <3>4. \A X \in f2.merged : OneClump(X)
      BY <2>2, <2>12, <3>1
    <3>5. /\ f2.waitForHulls = Missing(g, p, 4) /\ f2.waitForNoise = Missing(g, p, 2)
          /\ f2.waitForClustersInfo = Missing(g, p, 5) /\ f2.waitForStats = Missing(g, p, 6)
          /\ f2.noise = NoiseIn(g, p) /\ HullsIn(g, p) = HullsIn(h, p)
          /\ f2.info = Tally(Informed(g, p), IdOf) /\ f2.nodes = Reported(g, p)
      BY <1>4, <2>5, <2>7, <2>12 DEF Holds, OneMore
    <3>6. g.noise[p] \subseteq f2.noise
      BY <2>2, <2>6, <2>12
    <3> QED
      BY <2>6, <2>12, <3>2, <3>3, <3>4, <3>5, <3>6 DEF Holds
  <2>15. FilterOK(g, p, f2)
    <3>1. g.took["TDBSCAN"][c] < 6
      BY <1>1, <2>6, StreamFacts
    <3> QED
      BY <1>1, <2>12, <2>13, <2>14, <3>1 DEF FilterOK
  <2>16. out = Segment(Script(g, "TDBSCAN", p), 0, 0 + 2)
    <3>1. Script(g, "TDBSCAN", p)[1] = Packet("NOISE", N)
          /\ Script(g, "TDBSCAN", p)[2] = Mark("ALL_NOISE_SENT")
      BY <2>6, ScriptIs
    <3> DEFINE S == Script(g, "TDBSCAN", p)
    <3> HIDE DEF S
    <3>2. Segment(S, 0, 2) = <<S[1], S[2]>>
      BY DEF Segment
    <3> QED
      BY <3>1, <3>2 DEF S
  <2>17. Agrees(g)'
    <3>1. h.sent["TDBSCAN"][Parent[c]] = 0 /\ 0 + 2 <= 6
      BY <1>5 DEF p
    <3> HIDE DEF H, I, out
    <3>2. /\ h.sent["TDBSCAN"][Parent[c]] + 2 <= 6
          /\ h.sent["TDBSCAN"][Parent[c]] >= 1 => N = h.noise[Parent[c]]
          /\ h.sent["TDBSCAN"][Parent[c]] >= 3 => H = h.hulls[Parent[c]]
          /\ h.sent["TDBSCAN"][Parent[c]] >= 5 => I = h.info[Parent[c]]
          /\ out = Segment(Script(g, "TDBSCAN", Parent[c]), h.sent["TDBSCAN"][Parent[c]],
                           h.sent["TDBSCAN"][Parent[c]] + 2)
          /\ 2 \in Nat
      BY <2>16, <3>1 DEF p
    <3> QED
      BY <1>2, <2>1, <2>3, <2>4, <2>9, <2>11, <2>15, <3>2, FilterFrame DEF p
  <2> QED
    BY <2>17 DEF IInv
<1> QED
  <2>1. f.waitForNoise = f0.waitForNoise - 1
    BY <1>4 DEF FilterState
  <2>2. f.waitForNoise > 0 \/ f.waitForNoise <= 0
    BY <1>7, <1>8, <2>1
  <2> QED
    BY <1>10, <1>11, <2>2

\* A filter merges the hulls of a child into its own; no burst gets into two of them
\* (FilterAllHulls).
LEMMA HullsStep ==
  ASSUME NEW h, Agrees(h), UNCHANGED clump, NEW c \in Node \ {Root}, FilterAllHulls(c)
  PROVE  IInv'
<1> DEFINE p == Parent[c]
           f0 == Current(p)
           hulls == h.hulls[c]
           f == [f0 EXCEPT !.merged = Merged(@, hulls),
                           !.compared = @ \/ Cardinality(hulls) > 1
                                          \/ (hulls # {} /\ f0.merged # {})]
<1>1. /\ p \in Node /\ c \in Node /\ Possible(h) /\ Queues(h)
      /\ p \in Filter /\ c \in Children(p) /\ \A d \in Children(p) : d \in Node
  BY NodeFacts DEF Agrees, Possible
<1>2. /\ h.took["TDBSCAN"][c] = 2 /\ h.took["TDBSCAN"][c] < h.sent["TDBSCAN"][c]
      /\ Head(up["TDBSCAN"][c]).body = h.hulls[c]
  BY <1>1, UpTag DEF FilterAllHulls
<1>3. FilterStep(c, f, << >>) /\ filter[Parent[c]].alive
  BY <1>2 DEF FilterAllHulls, FilterStep
<1>4. f0 \in FilterState(p) /\ f0.alive /\ ~f0.needsReset /\ Holds(h, p, f0)
  BY <1>2, <1>3, FilterStart
<1>5. PICK g : Delivers(h, g, c, 0, h.noise[p], h.hulls[p], h.info[p])
  BY <1>2, QuietAccount
<1>6. OneMore(h, g, p, c, 2)
  BY <1>2, <1>5, TakesOne
<1>7. /\ \A s \in Stream, m \in Node : g.sent[s][m] = h.sent[s][m]
      /\ \A m \in Node : g.noise[m] = h.noise[m]
  <2>1. \A s \in Stream, m \in Node : h.sent[s][m] \in 0 .. 6
    BY <1>1, AccountFacts
  <2> QED
    BY <1>5, <2>1 DEF Delivers
<1>8. \A H \in hulls : OneClump(H)
  <2>1. h.sent["TDBSCAN"][c] \in {0, 2, 4, 5, 6}
    BY <1>1, SentSteps
  <2>2. h.sent["TDBSCAN"][c] >= 4
    BY <1>2, <2>1
  <2> QED
    BY <1>1, <2>2 DEF Agrees, Contents
<1>9. hulls \in SUBSET SUBSET Burst
  BY <1>1, ContentsType
<1> HIDE DEF f0, p, hulls
<1>10. f0.merged \in SUBSET SUBSET Burst /\ Apart(f0.merged) /\ \A H \in f0.merged : OneClump(H)
       /\ f0.compared \in BOOLEAN
  BY <1>4 DEF FilterState, Holds
<1>11. /\ UNION Merged(f0.merged, hulls) = (UNION f0.merged) \cup UNION hulls
       /\ Apart(Merged(f0.merged, hulls)) /\ \A H \in Merged(f0.merged, hulls) : OneClump(H)
  BY <1>8, <1>10, MergedIs
<1>12. Merged(f0.merged, hulls) \in SUBSET SUBSET Burst
  BY <1>9, <1>10, <1>11
<1>13. /\ f \in FilterState(p) /\ ~f.needsReset
       /\ f.noise = f0.noise /\ f.merged = Merged(f0.merged, hulls) /\ f.info = f0.info
       /\ f.nodes = f0.nodes /\ f.waitForNoise = f0.waitForNoise
       /\ f.waitForHulls = f0.waitForHulls /\ f.waitForStats = f0.waitForStats
       /\ f.waitForClustersInfo = f0.waitForClustersInfo
  <2> DEFINE M == Merged(f0.merged, hulls)
             C == f0.compared \/ Cardinality(hulls) > 1 \/ (hulls # {} /\ f0.merged # {})
  <2>1. M \in SUBSET SUBSET Burst /\ C \in BOOLEAN
    BY <1>12
  <2>2. f = [f0 EXCEPT !.merged = M, !.compared = C]
    BY DEF f
  <2> HIDE DEF M, C, f
  <2>3. /\ f \in FilterState(p) /\ ~f.needsReset
        /\ f.noise = f0.noise /\ f.merged = M /\ f.info = f0.info
        /\ f.nodes = f0.nodes /\ f.waitForNoise = f0.waitForNoise
        /\ f.waitForHulls = f0.waitForHulls /\ f.waitForStats = f0.waitForStats
        /\ f.waitForClustersInfo = f0.waitForClustersInfo
    BY <1>4, <2>1, <2>2 DEF FilterState
  <2> QED
    BY <2>3 DEF M
<1> HIDE DEF f
<1>14. Holds(g, p, f)
  <2>1. /\ f.waitForHulls = Missing(g, p, 4) /\ f.waitForNoise = Missing(g, p, 2)
        /\ f.waitForClustersInfo = Missing(g, p, 5) /\ f.waitForStats = Missing(g, p, 6)
        /\ f.noise = NoiseIn(g, p) /\ HullsIn(g, p) = HullsIn(h, p) \cup UNION hulls
        /\ f.info = Tally(Informed(g, p), IdOf) /\ f.nodes = Reported(g, p)
    BY <1>4, <1>6, <1>13 DEF Holds, OneMore, hulls
  <2>2. g.sent["TDBSCAN"][p] = h.sent["TDBSCAN"][p] /\ g.noise[p] = h.noise[p]
    BY <1>1, <1>7, StreamFacts
  <2>3. IF g.sent["TDBSCAN"][p] >= 2
          THEN /\ g.noise[p] \subseteq f.noise
               /\ UNION f.merged = HullsIn(g, p) \cup (f.noise \ g.noise[p])
          ELSE UNION f.merged = HullsIn(g, p)
    <3>1. IF h.sent["TDBSCAN"][p] >= 2
          THEN /\ h.noise[p] \subseteq f0.noise
               /\ UNION f0.merged = HullsIn(h, p) \cup (f0.noise \ h.noise[p])
          ELSE UNION f0.merged = HullsIn(h, p)
      BY <1>4 DEF Holds
    <3>2. UNION f.merged = (UNION f0.merged) \cup UNION hulls /\ f.noise = f0.noise
      BY <1>11, <1>13
    <3> QED
      BY <2>1, <2>2, <3>1, <3>2
  <2>4. Apart(f.merged) /\ \A H \in f.merged : OneClump(H)
    BY <1>11, <1>13
  <2> QED
    BY <2>1, <2>3, <2>4 DEF Holds
<1>15. Agrees(g)'
  <2>1. /\ f.alive => h.took["TDBSCAN"][c] < 5 \/ Missing(h, p, 6) > 1
        /\ \A k \in {2, 4, 5} : k = h.took["TDBSCAN"][c] + 1 => Missing(h, p, k) > 1
    BY <1>2
  <2> QED
    BY <1>2, <1>3, <1>5, <1>13, <1>14, <2>1, QuietStep DEF p
<1> QED
  BY <1>15 DEF IInv

\* With the last child's hulls a filter passes on all of its own, and they make up with
\* its noise all bursts below it (FilterAllHullsSent).
LEMMA HullsSentStep ==
  ASSUME NEW h, Agrees(h), UNCHANGED clump, NEW c \in Node \ {Root}, FilterAllHullsSent(c)
  PROVE  IInv'
<1> DEFINE p == Parent[c]
           f0 == Current(p)
           f == [f0 EXCEPT !.waitForHulls = @ - 1]
<1>1. /\ p \in Node /\ c \in Node /\ Possible(h) /\ Queues(h) /\ h \in Accounts
      /\ p \in Filter /\ c \in Children(p) /\ \A d \in Children(p) : d \in Node
  BY NodeFacts DEF Agrees, Possible
<1>2. h.took["TDBSCAN"][c] = 3 /\ h.took["TDBSCAN"][c] < h.sent["TDBSCAN"][c]
  BY <1>1, UpTag DEF FilterAllHullsSent
<1>3. /\ filter[Parent[c]].alive
      /\ FilterStep(c, f, IF f.waitForHulls <= 0
                            THEN <<Packet("ALL_HULLS", f.merged), Mark("ALL_HULLS_SENT")>>
                            ELSE << >>)
  BY DEF FilterAllHullsSent, FilterStep
<1>4. f0 \in FilterState(p) /\ f0.alive /\ ~f0.needsReset /\ Holds(h, p, f0)
  BY <1>2, <1>3, FilterStart
<1>6. \A d \in Node : h.sent["TDBSCAN"][d] \in 0 .. 6 /\ h.took["TDBSCAN"][d] \in 0 .. 6
  BY <1>1, AccountFacts, StreamFacts
<1>7. \A k : Missing(h, p, k) \in 0 .. Cardinality(Children(p))
  BY MissingType
<1> HIDE DEF f0, p
<1>8. f.waitForHulls = Missing(h, p, 4) - 1
  BY <1>4 DEF Holds, FilterState
<1>9. /\ f.merged = f0.merged /\ f.info = f0.info /\ f.nodes = f0.nodes
      /\ f.noise = f0.noise /\ f.waitForNoise = f0.waitForNoise
      /\ f.waitForStats = f0.waitForStats /\ f.waitForClustersInfo = f0.waitForClustersInfo
      /\ f0.merged \in SUBSET SUBSET Burst
      /\ ~f.needsReset /\ f.alive
  BY <1>4 DEF FilterState
<1>10. Missing(h, p, 4) >= 1 => f \in FilterState(p)
  <2> SUFFICES ASSUME Missing(h, p, 4) >= 1
               PROVE  f \in FilterState(p)
    OBVIOUS
  <2>1. f.waitForHulls \in 0 .. Cardinality(Children(p))
    BY <1>7, <1>8, FiniteFacts
  <2> QED
    BY <1>4, <2>1 DEF FilterState
<1> HIDE DEF f
<1>11. CASE f.waitForHulls > 0
  <2>1. FilterStep(c, f, << >>) /\ Missing(h, p, 4) > 1
    BY <1>3, <1>7, <1>8, <1>11
  <2>2. PICK g : Delivers(h, g, c, 0, h.noise[p], h.hulls[p], h.info[p])
    BY <1>2, QuietAccount DEF p
  <2>3. OneMore(h, g, p, c, 3)
    BY <1>2, <2>2, TakesOne DEF p
  <2>4. g.sent["TDBSCAN"][p] = h.sent["TDBSCAN"][p] /\ g.noise[p] = h.noise[p]
    BY <1>1, <1>6, <2>2, StreamFacts DEF Delivers, p
  <2>5. Holds(g, p, f)
    BY <1>4, <1>8, <1>9, <2>3, <2>4 DEF Holds, OneMore
  <2>6. Agrees(g)'
    <3>1. /\ f.alive => h.took["TDBSCAN"][c] < 5 \/ Missing(h, p, 6) > 1
          /\ \A k \in {2, 4, 5} : k = h.took["TDBSCAN"][c] + 1 => Missing(h, p, k) > 1
          /\ f \in FilterState(p)
      BY <1>2, <1>7, <1>10, <2>1
    <3> QED
      BY <1>2, <1>9, <2>1, <2>2, <2>5, <3>1, QuietStep DEF p
  <2> QED
    BY <2>6 DEF IInv
<1>12. CASE f.waitForHulls <= 0
  <2> DEFINE out == <<Packet("ALL_HULLS", f.merged), Mark("ALL_HULLS_SENT")>>
             N == h.noise[p]
             H == f.merged
             I == h.info[p]
  <2>1. FilterStep(c, f, out)
    BY <1>3, <1>12
  <2>2. N \in SUBSET Burst /\ H \in SUBSET SUBSET Burst /\ I \in Counts(Nat)
    BY <1>1, <1>9, ContentsType
  <2>3. h.sent["TDBSCAN"][p] \in {0, 2}
    <3>1. h.sent["TDBSCAN"][p] <= 3 /\ h.sent["TDBSCAN"][p] \in {0, 2, 4, 5, 6}
      BY <1>1, <1>2, StreamFacts DEF Agrees, Forwards
    <3> QED
      BY <3>1
  <2>4. PICK g : Delivers(h, g, c, 2, N, H, I)
    <3>1. h.took["TDBSCAN"][c] < 6 /\ h.sent["TDBSCAN"][Parent[c]] + 2 <= 6
      BY <1>2, <2>3 DEF p
    <3> HIDE DEF H, I, N
    <3> QED
      BY <1>1, <2>2, <3>1, DeliversExists
  <2>5. OneMore(h, g, p, c, 3)
    BY <1>2, <2>4, TakesOne DEF p
  <2>6. /\ g.noise[p] = N /\ g.hulls[p] = H /\ g.sup = h.sup
        /\ \A s \in Stream, m \in Node : g.took[s][m] = IF s = "TDBSCAN" /\ m = c THEN 4
                                                        ELSE h.took[s][m]
        /\ \A s \in Stream : g.sent[s][p] = IF s = "TDBSCAN" THEN h.sent[s][p] + 2
                                            ELSE h.sent[s][p]
    BY <1>1, <1>2, <2>4, StreamFacts DEF Delivers, p
  <2>7. Missing(h, p, 4) = 1 /\ Missing(g, p, 4) = 0 /\ f.waitForHulls = 0
    <3>1. Missing(h, p, 4) >= 1 /\ Missing(g, p, 4) = Missing(h, p, 4) - 1
      BY <2>5 DEF OneMore
    <3> QED
      BY <1>7, <1>8, <1>12, <3>1
  <2>8. \A d \in Children(p) : g.took["TDBSCAN"][d] >= 4
    <3>1. \A d \in Children(p) : ~(g.took["TDBSCAN"][d] < 4)
      BY <2>7, MissingType
    <3> QED
      BY <1>1, <1>6, <2>6, <3>1, StreamFacts
  <2>9. h.sent["TDBSCAN"][p] = 2 /\ g.sent["TDBSCAN"][p] = 4
    <3>1. \A d \in Children(p) : h.took["TDBSCAN"][d] >= 2
      BY <1>1, <1>2, <1>6, <2>6, <2>8, StreamFacts
    <3>2. h.sent["TDBSCAN"][p] >= 2
      BY <1>1, <3>1 DEF Agrees, Forwards
    <3> QED
      BY <2>3, <2>6, <3>2, StreamFacts
  <2>10. Forwards(g, p)
    <3>1. \A s \in Stream : \A d \in Children(p) : h.sent[s][p] <= h.took[s][d]
      BY <1>1 DEF Agrees, Forwards
    <3>2. \A s \in Stream : \A d \in Children(p) : g.sent[s][p] <= g.took[s][d]
      BY <1>1, <2>6, <2>8, <2>9, <3>1
    <3>3. g.took["TDBSCAN"][c] = 4
      BY <1>1, <2>6, StreamFacts
    <3>4. \A k \in {2, 4, 5} :
            (\A d \in Children(p) : g.took["TDBSCAN"][d] >= k) => g.sent["TDBSCAN"][p] >= k
      BY <1>1, <2>9, <3>3
    <3> QED
      BY <2>9, <3>2, <3>4 DEF Forwards
  <2>11. Holds(g, p, f)
    <3>1. /\ f.waitForHulls = Missing(g, p, 4) /\ f.waitForNoise = Missing(g, p, 2)
          /\ f.waitForClustersInfo = Missing(g, p, 5) /\ f.waitForStats = Missing(g, p, 6)
          /\ f.noise = NoiseIn(g, p) /\ HullsIn(g, p) = HullsIn(h, p)
          /\ f.info = Tally(Informed(g, p), IdOf) /\ f.nodes = Reported(g, p)
      BY <1>4, <1>9, <2>5, <2>7 DEF Holds, OneMore
    <3>2. /\ h.noise[p] \subseteq f.noise
          /\ UNION f.merged = HullsIn(h, p) \cup (f.noise \ h.noise[p])
          /\ Apart(f.merged) /\ \A X \in f.merged : OneClump(X)
      BY <1>4, <1>9, <2>9 DEF Holds
    <3> QED
      BY <2>6, <2>9, <3>1, <3>2 DEF Holds
  <2>12. Contents(g, p)
    <3>1. Contents(h, p) /\ g.sent["Support"][p] = h.sent["Support"][p]
      BY <1>1, <2>6, StreamFacts DEF Agrees
    <3>2. NoiseIn(h, p) \cap HullsIn(h, p) = {}
      BY <1>1, Inside
    <3>3. NoiseIn(h, p) \cup HullsIn(h, p) = Bursts(p)
      <4>1. \A d \in Children(p) : h.took["TDBSCAN"][d] >= 3
        BY <1>1, <1>2, <1>6, <2>6, <2>8, StreamFacts
      <4> QED
        BY <1>1, <4>1, Inside
    <3>4. /\ f.noise = NoiseIn(h, p) /\ h.noise[p] \subseteq f.noise
          /\ UNION f.merged = HullsIn(h, p) \cup (f.noise \ h.noise[p])
          /\ Apart(f.merged) /\ \A X \in f.merged : OneClump(X)
      BY <1>4, <1>9, <2>9 DEF Holds
    <3>5. h.noise[p] \subseteq Bursts(p)
      BY <3>1, <2>9 DEF Contents
    <3>6. h.noise[p] \cup UNION f.merged = Bursts(p) /\ h.noise[p] \cap UNION f.merged = {}
      BY <3>2, <3>3, <3>4
    <3> QED
      BY <2>6, <2>9, <3>1, <3>4, <3>5, <3>6 DEF Contents
  <2>13. FilterOK(g, p, f)
    <3>1. g.took["TDBSCAN"][c] < 6
      BY <1>1, <2>6, StreamFacts
    <3> QED
      BY <1>1, <1>9, <1>10, <2>7, <2>11, <3>1 DEF FilterOK
  <2>14. out = Segment(Script(g, "TDBSCAN", p), 2, 2 + 2)
    <3>1. Script(g, "TDBSCAN", p)[3] = Packet("ALL_HULLS", f.merged)
          /\ Script(g, "TDBSCAN", p)[4] = Mark("ALL_HULLS_SENT")
      BY <2>6, ScriptIs
    <3> DEFINE S == Script(g, "TDBSCAN", p)
    <3> HIDE DEF S
    <3>2. Segment(S, 2, 4) = <<S[3], S[4]>>
      BY DEF Segment
    <3> QED
      BY <3>1, <3>2 DEF S
  <2>15. Agrees(g)'
    <3>1. h.sent["TDBSCAN"][Parent[c]] = 2 /\ 2 + 2 <= 6
      BY <2>9 DEF p
    <3>2. /\ h.sent["TDBSCAN"][Parent[c]] + 2 <= 6
          /\ h.sent["TDBSCAN"][Parent[c]] >= 1 => N = h.noise[Parent[c]]
          /\ h.sent["TDBSCAN"][Parent[c]] >= 3 => H = h.hulls[Parent[c]]
          /\ h.sent["TDBSCAN"][Parent[c]] >= 5 => I = h.info[Parent[c]]
          /\ out = Segment(Script(g, "TDBSCAN", Parent[c]), h.sent["TDBSCAN"][Parent[c]],
                           h.sent["TDBSCAN"][Parent[c]] + 2)
          /\ 2 \in Nat
      BY <2>14, <3>1 DEF p
    <3> HIDE DEF N, H, I, out
    <3> QED
      BY <1>2, <2>1, <2>2, <2>4, <2>10, <2>12, <2>13, <3>2, FilterFrame DEF p
  <2> QED
    BY <2>15 DEF IInv
<1> QED
  BY <1>7, <1>8, <1>11, <1>12

\* The ids of bursts are numbers.
LEMMA IdsAreNumbers ==
  ASSUME NEW X \in SUBSET Burst
  PROVE  \A b \in X : IdOf[b] \in Nat
BY DEF IdOf

\* A filter adds up how many individuals its children report (FilterClustersInfo).
LEMMA InfoStep ==
  ASSUME NEW h, Agrees(h), UNCHANGED clump, NEW c \in Node \ {Root}, FilterClustersInfo(c)
  PROVE  IInv'
<1> DEFINE p == Parent[c]
           f0 == Current(p)
           sum == f0.info (+) h.info[c]
           f == [f0 EXCEPT !.waitForClustersInfo = @ - 1, !.info = @ (+) h.info[c]]
<1>1. /\ p \in Node /\ c \in Node /\ Possible(h) /\ Queues(h) /\ h \in Accounts
      /\ p \in Filter /\ c \in Children(p) /\ \A d \in Children(p) : d \in Node
  BY NodeFacts DEF Agrees, Possible
<1>2. /\ h.took["TDBSCAN"][c] = 4 /\ h.took["TDBSCAN"][c] < h.sent["TDBSCAN"][c]
      /\ Head(up["TDBSCAN"][c]).body = h.info[c]
  BY <1>1, UpTag DEF FilterClustersInfo
<1>3. /\ filter[Parent[c]].alive
      /\ FilterStep(c, f, IF f.waitForClustersInfo <= 0
                            THEN <<Packet("CLUSTERS_INFO", f.info)>> ELSE << >>)
  <2>1. FilterStep(c, f, IF f.waitForClustersInfo <= 0
                           THEN <<Packet("CLUSTERS_INFO", f.info)>> ELSE << >>)
    BY <1>2 DEF FilterClustersInfo
  <2> QED
    BY <2>1 DEF FilterStep
<1>4. f0 \in FilterState(p) /\ f0.alive /\ ~f0.needsReset /\ Holds(h, p, f0)
  BY <1>2, <1>3, FilterStart
<1>5. Extracted
  BY DEF Agrees, Shapes, WorkerOK, Extracted
<1>6. \A d \in Node : h.sent["TDBSCAN"][d] \in 0 .. 6 /\ h.took["TDBSCAN"][d] \in 0 .. 6
  BY <1>1, AccountFacts, StreamFacts
<1>7. \A k : Missing(h, p, k) \in 0 .. Cardinality(Children(p))
  BY MissingType
<1> HIDE DEF f0, p
<1>8. sum = Tally(Informed(h, p) \cup Bursts(c), IdOf) /\ sum \in Counts(Nat)
  <2>1. h.info[c] = Tally(Bursts(c), IdOf)
    <3>1. h.sent["TDBSCAN"][c] >= 5
      BY <1>1, <1>2, <1>6
    <3> QED
      BY <1>1, <3>1 DEF Agrees, Contents
  <2>2. f0.info = Tally(Informed(h, p), IdOf)
    BY <1>4 DEF Holds
  <2>3. c \notin Taken(h, p, 5) /\ Taken(h, p, 5) \subseteq Children(p)
    BY <1>2 DEF Taken
  <2>4. Informed(h, p) \cap Bursts(c) = {}
    <3>1. \A d \in Taken(h, p, 5) : Bursts(d) \cap Bursts(c) = {}
      BY <1>1, <1>5, <2>3, BurstsOf
    <3> QED
      BY <3>1 DEF Informed
  <2>5. Informed(h, p) \in SUBSET Burst /\ Bursts(c) \in SUBSET Burst
    BY <1>5, BurstsOf DEF Informed
  <2>6. IsFiniteSet(Informed(h, p)) /\ IsFiniteSet(Bursts(c))
    BY <2>5, FiniteFacts, FS_Subset
  <2> DEFINE A == Informed(h, p)
             B == Bursts(c)
  <2>7. sum = Tally(A, IdOf) (+) Tally(B, IdOf)
    BY <2>1, <2>2
  <2> HIDE DEF A, B, sum
  <2>8. Tally(A \cup B, IdOf) = Tally(A, IdOf) (+) Tally(B, IdOf)
    BY <2>4, <2>6, TallyUnion DEF A, B
  <2>9. A \cup B \in SUBSET Burst /\ IsFiniteSet(A \cup B)
    BY <2>5, FiniteFacts, FS_Subset DEF A, B
  <2>10. Tally(A \cup B, IdOf) \in Counts(Nat)
    <3>1. \A b \in A \cup B : IdOf[b] \in Nat
      BY <2>9, IdsAreNumbers
    <3> QED
      BY <2>9, <3>1, TallyType
  <2> QED
    BY <2>7, <2>8, <2>10 DEF A, B
<1>9. f.waitForClustersInfo = Missing(h, p, 5) - 1
  BY <1>4 DEF Holds, FilterState
<1>10. f = [f0 EXCEPT !.waitForClustersInfo = @ - 1, !.info = sum]
  BY <1>4 DEF FilterState
<1> HIDE DEF f, sum
<1>11. /\ f.merged = f0.merged /\ f.info = sum /\ f.nodes = f0.nodes
       /\ f.noise = f0.noise /\ f.waitForNoise = f0.waitForNoise
       /\ f.waitForStats = f0.waitForStats /\ f.waitForHulls = f0.waitForHulls
       /\ ~f.needsReset /\ f.alive
  BY <1>4, <1>10 DEF FilterState
<1>12. Missing(h, p, 5) >= 1 => f \in FilterState(p)
  <2> SUFFICES ASSUME Missing(h, p, 5) >= 1
               PROVE  f \in FilterState(p)
    OBVIOUS
  <2>1. f.waitForClustersInfo \in 0 .. Cardinality(Children(p))
    BY <1>7, <1>9, FiniteFacts
  <2> QED
    BY <1>4, <1>8, <1>10, <2>1 DEF FilterState
<1>13. CASE f.waitForClustersInfo > 0
  <2>1. FilterStep(c, f, << >>) /\ Missing(h, p, 5) > 1
    BY <1>3, <1>7, <1>9, <1>13
  <2>2. PICK g : Delivers(h, g, c, 0, h.noise[p], h.hulls[p], h.info[p])
    BY <1>2, QuietAccount DEF p
  <2>3. OneMore(h, g, p, c, 4)
    BY <1>2, <2>2, TakesOne DEF p
  <2>4. g.sent["TDBSCAN"][p] = h.sent["TDBSCAN"][p] /\ g.noise[p] = h.noise[p]
    BY <1>1, <1>6, <2>2, StreamFacts DEF Delivers, p
  <2>5. Holds(g, p, f)
    BY <1>4, <1>8, <1>9, <1>11, <2>3, <2>4 DEF Holds, OneMore
  <2>6. Agrees(g)'
    <3>1. /\ f.alive => h.took["TDBSCAN"][c] < 5 \/ Missing(h, p, 6) > 1
          /\ \A k \in {2, 4, 5} : k = h.took["TDBSCAN"][c] + 1 => Missing(h, p, k) > 1
          /\ f \in FilterState(p)
      BY <1>2, <1>7, <1>12, <2>1
    <3> QED
      BY <1>2, <1>11, <2>1, <2>2, <2>5, <3>1, QuietStep DEF p
  <2> QED
    BY <2>6 DEF IInv
<1>14. CASE f.waitForClustersInfo <= 0
  <2> DEFINE out == <<Packet("CLUSTERS_INFO", f.info)>>
             N == h.noise[p]
             H == h.hulls[p]
             I == f.info
  <2>1. FilterStep(c, f, out)
    BY <1>3, <1>14
  <2>2. N \in SUBSET Burst /\ H \in SUBSET SUBSET Burst /\ I \in Counts(Nat)
    BY <1>1, <1>8, <1>11, ContentsType
  <2>3. h.sent["TDBSCAN"][p] \in {0, 2, 4}
    <3>1. h.sent["TDBSCAN"][p] <= 4 /\ h.sent["TDBSCAN"][p] \in {0, 2, 4, 5, 6}
      BY <1>1, <1>2, StreamFacts DEF Agrees, Forwards
    <3> QED
      BY <3>1
  <2>4. PICK g : Delivers(h, g, c, 1, N, H, I)
    <3>1. h.took["TDBSCAN"][c] < 6 /\ h.sent["TDBSCAN"][Parent[c]] + 1 <= 6
      BY <1>2, <2>3 DEF p
    <3> HIDE DEF H, I, N
    <3> QED
      BY <1>1, <2>2, <3>1, DeliversExists
  <2>5. OneMore(h, g, p, c, 4)
    BY <1>2, <2>4, TakesOne DEF p
  <2>6. /\ g.noise[p] = N /\ g.hulls[p] = H /\ g.info[p] = I /\ g.sup = h.sup
        /\ \A s \in Stream, m \in Node : g.took[s][m] = IF s = "TDBSCAN" /\ m = c THEN 5
                                                        ELSE h.took[s][m]
        /\ \A s \in Stream : g.sent[s][p] = IF s = "TDBSCAN" THEN h.sent[s][p] + 1
                                            ELSE h.sent[s][p]
    BY <1>1, <1>2, <2>4, StreamFacts DEF Delivers, p
  <2>7. Missing(h, p, 5) = 1 /\ Missing(g, p, 5) = 0 /\ f.waitForClustersInfo = 0
    <3>1. Missing(h, p, 5) >= 1 /\ Missing(g, p, 5) = Missing(h, p, 5) - 1
      BY <2>5 DEF OneMore
    <3> QED
      BY <1>7, <1>9, <1>14, <3>1
  <2>8. \A d \in Children(p) : g.took["TDBSCAN"][d] >= 5
    <3>1. \A d \in Children(p) : ~(g.took["TDBSCAN"][d] < 5)
      BY <2>7, MissingType
    <3> QED
      BY <1>1, <1>6, <2>6, <3>1, StreamFacts
  <2>9. h.sent["TDBSCAN"][p] = 4 /\ g.sent["TDBSCAN"][p] = 5
    <3>1. \A d \in Children(p) : h.took["TDBSCAN"][d] >= 4
      BY <1>1, <1>2, <1>6, <2>6, <2>8, StreamFacts
    <3>2. h.sent["TDBSCAN"][p] >= 4
      BY <1>1, <3>1 DEF Agrees, Forwards
    <3> QED
      BY <2>3, <2>6, <3>2, StreamFacts
  <2>10. Forwards(g, p)
    <3>1. \A s \in Stream : \A d \in Children(p) : h.sent[s][p] <= h.took[s][d]
      BY <1>1 DEF Agrees, Forwards
    <3>2. \A s \in Stream : \A d \in Children(p) : g.sent[s][p] <= g.took[s][d]
      BY <1>1, <2>6, <2>8, <2>9, <3>1
    <3> QED
      BY <2>9, <3>2 DEF Forwards
  <2>11. Holds(g, p, f)
    <3>1. /\ f.waitForHulls = Missing(g, p, 4) /\ f.waitForNoise = Missing(g, p, 2)
          /\ f.waitForClustersInfo = Missing(g, p, 5) /\ f.waitForStats = Missing(g, p, 6)
          /\ f.noise = NoiseIn(g, p) /\ HullsIn(g, p) = HullsIn(h, p)
          /\ f.info = Tally(Informed(g, p), IdOf) /\ f.nodes = Reported(g, p)
      BY <1>4, <1>8, <1>11, <2>5, <2>7 DEF Holds, OneMore
    <3>2. /\ h.noise[p] \subseteq f.noise
          /\ UNION f.merged = HullsIn(h, p) \cup (f.noise \ h.noise[p])
          /\ Apart(f.merged) /\ \A X \in f.merged : OneClump(X)
      BY <1>4, <1>11, <2>9 DEF Holds
    <3> QED
      BY <2>6, <2>9, <3>1, <3>2 DEF Holds
  <2>12. Contents(g, p)
    <3>1. Contents(h, p) /\ g.sent["Support"][p] = h.sent["Support"][p]
      BY <1>1, <2>6, StreamFacts DEF Agrees
    <3>2. Informed(g, p) = Bursts(p)
      <4>1. Taken(g, p, 5) = Children(p)
        BY <2>8 DEF Taken
      <4> QED
        BY <1>1, <1>5, <4>1, BurstsOf DEF Informed
    <3>3. g.info[p] = Tally(Bursts(p), IdOf)
      BY <2>6, <2>11, <3>2 DEF Holds
    <3> QED
      BY <2>6, <2>9, <3>1, <3>3 DEF Contents
  <2>13. FilterOK(g, p, f)
    <3>1. g.took["TDBSCAN"][c] < 6
      BY <1>1, <2>6, StreamFacts
    <3> QED
      BY <1>1, <1>11, <1>12, <2>7, <2>11, <3>1 DEF FilterOK
  <2>14. out = Segment(Script(g, "TDBSCAN", p), 4, 4 + 1)
    <3>1. Script(g, "TDBSCAN", p)[5] = Packet("CLUSTERS_INFO", f.info)
      BY <2>6, ScriptIs
    <3> DEFINE S == Script(g, "TDBSCAN", p)
    <3> HIDE DEF S
    <3>2. Segment(S, 4, 5) = <<S[5]>>
      BY DEF Segment
    <3> QED
      BY <3>1, <3>2 DEF S
  <2>15. Agrees(g)'
    <3>1. h.sent["TDBSCAN"][Parent[c]] = 4 /\ 4 + 1 <= 6
      BY <2>9 DEF p
    <3>2. /\ h.sent["TDBSCAN"][Parent[c]] + 1 <= 6
          /\ h.sent["TDBSCAN"][Parent[c]] >= 1 => N = h.noise[Parent[c]]
          /\ h.sent["TDBSCAN"][Parent[c]] >= 3 => H = h.hulls[Parent[c]]
          /\ h.sent["TDBSCAN"][Parent[c]] >= 5 => I = h.info[Parent[c]]
          /\ out = Segment(Script(g, "TDBSCAN", Parent[c]), h.sent["TDBSCAN"][Parent[c]],
                           h.sent["TDBSCAN"][Parent[c]] + 1)
          /\ 1 \in Nat
      BY <2>14, <3>1 DEF p
    <3> HIDE DEF N, H, I, out
    <3> QED
      BY <1>2, <2>1, <2>2, <2>4, <2>10, <2>12, <2>13, <3>2, FilterFrame DEF p
  <2> QED
    BY <2>15 DEF IInv
<1> QED
  BY <1>7, <1>9, <1>13, <1>14

\* A filter that dies takes part in nothing any more (FilterDies).
LEMMA DiesStep ==
  ASSUME NEW h, Agrees(h), UNCHANGED clump, NEW c \in Node \ {Root}, FilterDies(c)
  PROVE  IInv'
<1> DEFINE p == Parent[c]
           f0 == Current(p)
           f == [f0 EXCEPT !.alive = FALSE]
<1>1. /\ p \in Node /\ c \in Node /\ Possible(h) /\ Queues(h)
  BY NodeFacts DEF Agrees, Possible
<1>2. h.took["TDBSCAN"][c] = 5 /\ h.took["TDBSCAN"][c] < h.sent["TDBSCAN"][c]
  BY <1>1, UpTag DEF FilterDies
<1>3. filter[Parent[c]].alive /\ FilterStep(c, f, << >>)
  BY DEF FilterDies, FilterStep
<1>4. f0 \in FilterState(p) /\ f0.alive /\ ~f0.needsReset
  BY <1>2, <1>3, FilterStart
<1>5. PICK g : Delivers(h, g, c, 0, h.noise[p], h.hulls[p], h.info[p])
  BY <1>2, QuietAccount
<1> HIDE DEF f0, p
<1>6. f \in FilterState(p) /\ ~f.alive /\ ~f.needsReset
  BY <1>4 DEF FilterState
<1> HIDE DEF f
<1>7. Agrees(g)'
  <2>1. \A k \in {2, 4, 5} : k = h.took["TDBSCAN"][c] + 1 => Missing(h, p, k) > 1
    BY <1>2
  <2> QED
    BY <1>2, <1>3, <1>5, <1>6, <2>1, QuietStep DEF p
<1> QED
  BY <1>7 DEF IInv

\* With the last child's statistics a filter has passed on everything of the round and
\* waits to be reset (FilterStatistics).
LEMMA StatisticsStep ==
  ASSUME NEW h, Agrees(h), UNCHANGED clump, NEW c \in Node \ {Root}, FilterStatistics(c)
  PROVE  IInv'
<1> DEFINE p == Parent[c]
           f0 == Current(p)
           f == [f0 EXCEPT !.waitForStats = @ - 1, !.nodes = @ \cup Under(c)]
           f2 == [f EXCEPT !.needsReset = TRUE, !.nodes = @ \cup {p}]
<1>1. /\ p \in Node /\ c \in Node /\ Possible(h) /\ Queues(h) /\ h \in Accounts
      /\ p \in Filter /\ c \in Children(p) /\ \A d \in Children(p) : d \in Node
  BY NodeFacts DEF Agrees, Possible
<1>2. /\ h.took["TDBSCAN"][c] = 5 /\ h.took["TDBSCAN"][c] < h.sent["TDBSCAN"][c]
      /\ Head(up["TDBSCAN"][c]).body = Under(c)
  BY <1>1, UpTag DEF FilterStatistics
<1>3. /\ filter[Parent[c]].alive
      /\ IF f.waitForStats > 0 THEN FilterStep(c, f, << >>)
         ELSE FilterStep(c, f2, <<Packet("STATISTICS", f.nodes \cup {p})>>)
  BY <1>2 DEF FilterStatistics, FilterStep
<1>4. f0 \in FilterState(p) /\ f0.alive /\ ~f0.needsReset /\ Holds(h, p, f0)
  BY <1>2, <1>3, FilterStart
<1>6. \A d \in Node : h.sent["TDBSCAN"][d] \in 0 .. 6 /\ h.took["TDBSCAN"][d] \in 0 .. 6
  BY <1>1, AccountFacts, StreamFacts
<1>7. \A k : Missing(h, p, k) \in 0 .. Cardinality(Children(p))
  BY MissingType
<1> HIDE DEF f0, p
<1>8. f.waitForStats = Missing(h, p, 6) - 1 /\ f.nodes = Reported(h, p) \cup Under(c)
  BY <1>4 DEF Holds, FilterState
<1>9. /\ f.merged = f0.merged /\ f.info = f0.info
      /\ f.noise = f0.noise /\ f.waitForNoise = f0.waitForNoise
      /\ f.waitForHulls = f0.waitForHulls /\ f.waitForClustersInfo = f0.waitForClustersInfo
      /\ ~f.needsReset /\ f.alive
  BY <1>4 DEF FilterState
<1>10. Missing(h, p, 6) >= 1 => f \in FilterState(p)
  <2> SUFFICES ASSUME Missing(h, p, 6) >= 1
               PROVE  f \in FilterState(p)
    OBVIOUS
  <2>1. f.waitForStats \in 0 .. Cardinality(Children(p)) /\ Under(c) \in SUBSET Node
    BY <1>7, <1>8, FiniteFacts DEF Under
  <2> QED
    BY <1>4, <2>1 DEF FilterState
<1> HIDE DEF f
<1>11. CASE f.waitForStats > 0
  <2>1. FilterStep(c, f, << >>) /\ Missing(h, p, 6) > 1
    BY <1>3, <1>7, <1>8, <1>11
  <2>2. PICK g : Delivers(h, g, c, 0, h.noise[p], h.hulls[p], h.info[p])
    BY <1>2, QuietAccount DEF p
  <2>3. OneMore(h, g, p, c, 5)
    BY <1>2, <2>2, TakesOne DEF p
  <2>4. g.sent["TDBSCAN"][p] = h.sent["TDBSCAN"][p] /\ g.noise[p] = h.noise[p]
    BY <1>1, <1>6, <2>2, StreamFacts DEF Delivers, p
  <2>5. Holds(g, p, f)
    BY <1>4, <1>8, <1>9, <2>3, <2>4 DEF Holds, OneMore
  <2>6. Agrees(g)'
    <3>1. /\ f.alive => h.took["TDBSCAN"][c] < 5 \/ Missing(h, p, 6) > 1
          /\ \A k \in {2, 4, 5} : k = h.took["TDBSCAN"][c] + 1 => Missing(h, p, k) > 1
          /\ f \in FilterState(p)
      BY <1>2, <1>7, <1>10, <2>1
    <3> QED
      BY <1>2, <1>9, <2>1, <2>2, <2>5, <3>1, QuietStep DEF p
  <2> QED
    BY <2>6 DEF IInv
<1>12. CASE f.waitForStats <= 0
  <2> DEFINE out == <<Packet("STATISTICS", f.nodes \cup {p})>>
             N == h.noise[p]
             H == h.hulls[p]
             I == h.info[p]
  <2>1. FilterStep(c, f2, out)
    <3>1. ~(f.waitForStats > 0)
      BY <1>7, <1>8, <1>12
    <3> QED
      BY <1>3, <3>1
  <2>2. N \in SUBSET Burst /\ H \in SUBSET SUBSET Burst /\ I \in Counts(Nat)
    BY <1>1, ContentsType
  <2>3. h.sent["TDBSCAN"][p] <= 5
    BY <1>1, <1>2, StreamFacts DEF Agrees, Forwards
  <2>4. PICK g : Delivers(h, g, c, 1, N, H, I)
    <3>1. h.took["TDBSCAN"][c] < 6 /\ h.sent["TDBSCAN"][Parent[c]] + 1 <= 6
      BY <1>1, <1>2, <1>6, <2>3 DEF p
    <3> HIDE DEF H, I, N
    <3> QED
      BY <1>1, <2>2, <3>1, DeliversExists
  <2>5. OneMore(h, g, p, c, 5)
    BY <1>2, <2>4, TakesOne DEF p
  <2>6. /\ g.noise[p] = N /\ g.hulls[p] = H /\ g.info[p] = I /\ g.sup = h.sup
        /\ \A s \in Stream, m \in Node : g.took[s][m] = IF s = "TDBSCAN" /\ m = c THEN 6
                                                        ELSE h.took[s][m]
        /\ \A s \in Stream : g.sent[s][p] = IF s = "TDBSCAN" THEN h.sent[s][p] + 1
                                            ELSE h.sent[s][p]
    BY <1>1, <1>2, <2>4, StreamFacts DEF Delivers, p
  <2>7. Missing(h, p, 6) = 1 /\ Missing(g, p, 6) = 0 /\ f.waitForStats = 0
    <3>1. Missing(h, p, 6) >= 1 /\ Missing(g, p, 6) = Missing(h, p, 6) - 1
      BY <2>5 DEF OneMore
    <3> QED
      BY <1>7, <1>8, <1>12, <3>1
  <2>8. \A d \in Children(p) : g.took["TDBSCAN"][d] = 6
    <3>1. \A d \in Children(p) : ~(g.took["TDBSCAN"][d] < 6)
      BY <2>7, MissingType
    <3> QED
      BY <1>1, <1>6, <2>6, <3>1, StreamFacts
  <2>9. h.sent["TDBSCAN"][p] = 5 /\ g.sent["TDBSCAN"][p] = 6
    <3>1. \A d \in Children(p) : h.took["TDBSCAN"][d] >= 5
      BY <1>1, <1>2, <1>6, <2>6, <2>8, StreamFacts
    <3>2. h.sent["TDBSCAN"][p] >= 5
      BY <1>1, <3>1 DEF Agrees, Forwards
    <3> QED
      BY <1>1, <1>6, <2>3, <2>6, <3>2, StreamFacts
  <2>10. Forwards(g, p)
    <3>1. \A s \in Stream : \A d \in Children(p) : h.sent[s][p] <= h.took[s][d]
      BY <1>1 DEF Agrees, Forwards
    <3>2. \A s \in Stream : \A d \in Children(p) : g.sent[s][p] <= g.took[s][d]
      BY <1>1, <2>6, <2>8, <2>9, <3>1
    <3> QED
      BY <2>9, <3>2 DEF Forwards
  <2>11. Contents(g, p)
    <3>1. Contents(h, p) /\ g.sent["Support"][p] = h.sent["Support"][p]
      BY <1>1, <2>6, StreamFacts DEF Agrees
    <3> QED
      BY <2>6, <2>9, <3>1 DEF Contents
  <2>12. FilterOK(g, p, f2)
    <3>1. /\ f.waitForNoise = 0 /\ f.waitForHulls = 0 /\ f.waitForStats = 0
          /\ f.waitForClustersInfo = 0
      <4>1. \A k \in {2, 4, 5} : Missing(h, p, k) = 0
        <5>1. \A d \in Children(p) : h.took["TDBSCAN"][d] >= 5
          BY <1>1, <1>2, <1>6, <2>6, <2>8, StreamFacts
        <5>2. \A k \in {2, 4, 5} : \A d \in Children(p) : ~(h.took["TDBSCAN"][d] < k)
          BY <1>1, <1>6, <5>1
        <5> QED
          BY <5>2, MissingType
      <4> QED
        BY <1>4, <1>9, <2>7, <4>1 DEF Holds
    <3>2. f \in FilterState(p)
      BY <1>10, <2>7
    <3>3. f2 \in FilterState(p) /\ f2.needsReset
          /\ f2.waitForNoise = f.waitForNoise /\ f2.waitForHulls = f.waitForHulls
          /\ f2.waitForStats = f.waitForStats
          /\ f2.waitForClustersInfo = f.waitForClustersInfo
      BY <1>1, <3>2 DEF FilterState
    <3> HIDE DEF f2
    <3> QED
      BY <2>8, <3>1, <3>3 DEF FilterOK, Rests
  <2>13. out = Segment(Script(g, "TDBSCAN", p), 5, 5 + 1)
    <3>1. f.nodes \cup {p} = Under(p)
      <4>1. Reported(g, p) = Reported(h, p) \cup Under(c)
        BY <2>5 DEF OneMore
      <4>2. Taken(g, p, 6) = Children(p)
        BY <2>8 DEF Taken
      <4>3. Reported(g, p) = UNION {Under(d) : d \in Children(p)}
        BY <4>2 DEF Reported
      <4> QED
        BY <1>1, <1>8, <4>1, <4>3, UnderFilter
    <3>2. Script(g, "TDBSCAN", p)[6] = Packet("STATISTICS", Under(p))
      BY ScriptIs
    <3> DEFINE S == Script(g, "TDBSCAN", p)
    <3> HIDE DEF S
    <3>3. Segment(S, 5, 6) = <<S[6]>>
      BY DEF Segment
    <3> QED
      BY <3>1, <3>2, <3>3 DEF S
  <2>14. Agrees(g)'
    <3>1. h.sent["TDBSCAN"][Parent[c]] = 5 /\ 5 + 1 <= 6
      BY <2>9 DEF p
    <3>2. /\ h.sent["TDBSCAN"][Parent[c]] + 1 <= 6
          /\ h.sent["TDBSCAN"][Parent[c]] >= 1 => N = h.noise[Parent[c]]
          /\ h.sent["TDBSCAN"][Parent[c]] >= 3 => H = h.hulls[Parent[c]]
          /\ h.sent["TDBSCAN"][Parent[c]] >= 5 => I = h.info[Parent[c]]
          /\ out = Segment(Script(g, "TDBSCAN", Parent[c]), h.sent["TDBSCAN"][Parent[c]],
                           h.sent["TDBSCAN"][Parent[c]] + 1)
          /\ 1 \in Nat
      BY <2>13, <3>1 DEF p
    <3> HIDE DEF N, H, I, out, f2
    <3> QED
      BY <1>2, <2>1, <2>2, <2>4, <2>10, <2>11, <2>12, <3>2, FilterFrame DEF p
  <2> QED
    BY <2>14 DEF IInv
<1> QED
  BY <1>7, <1>8, <1>11, <1>12

-----------------------------------------------------------------------------
(***************************************************************************)
(* A filter makes one packet of those of its children.                     *)
(***************************************************************************)
\* g is the account when the filter in p has taken a packet of every child on stream s
\* and sent one, B its contents on the Support stream.
Joins(h, g, s, p, B) ==
  /\ g \in Accounts
  /\ \A r \in Stream, m \in Node :
       /\ g.took[r][m] = IF r = s /\ m \in Children(p) THEN 1 ELSE h.took[r][m]
       /\ g.sent[r][m] = IF r = s /\ m = p THEN 1 ELSE h.sent[r][m]
  /\ \A m \in Node : g.sup[m] = IF s = "Support" /\ m = p THEN B ELSE h.sup[m]
  /\ g.noise = h.noise /\ g.hulls = h.hulls /\ g.info = h.info
  /\ g.dsent = h.dsent /\ g.dtook = h.dtook
  /\ g.round = h.round /\ g.old = h.old /\ g.news = h.news

\* There is such an account.
LEMMA JoinsExists ==
  ASSUME NEW h \in Accounts, NEW s \in Stream, NEW p \in Filter, NEW B \in Counts(Range(clump))
  PROVE  \E g : Joins(h, g, s, p, B)
<1>1. p \in Node /\ Children(p) \subseteq Node
  BY NodeFacts
<1> DEFINE took == [r \in Stream |-> [m \in Node |-> IF r = s /\ m \in Children(p) THEN 1
                                                     ELSE h.took[r][m]]]
           sent == [r \in Stream |-> [m \in Node |-> IF r = s /\ m = p THEN 1
                                                     ELSE h.sent[r][m]]]
           sup == [m \in Node |-> IF s = "Support" /\ m = p THEN B ELSE h.sup[m]]
           g == [h EXCEPT !.took = took, !.sent = sent, !.sup = sup]
<1>2. \A r \in Stream, m \in Node : h.took[r][m] \in 0 .. 6 /\ h.sent[r][m] \in 0 .. 6
  <2>1. \A r \in Stream : h.took[r] \in [Node -> 0 .. 6] /\ h.sent[r] \in [Node -> 0 .. 6]
    BY DEF Accounts
  <2> QED
    BY <2>1
<1>3. took \in [Stream -> [Node -> 0 .. 6]] /\ sent \in [Stream -> [Node -> 0 .. 6]]
  BY <1>2
<1>4. sup \in [Node -> Counts(Range(clump))]
  BY DEF Accounts
<1>5. \A r \in Stream, m \in Node :
        /\ took[r][m] = IF r = s /\ m \in Children(p) THEN 1 ELSE h.took[r][m]
        /\ sent[r][m] = IF r = s /\ m = p THEN 1 ELSE h.sent[r][m]
  OBVIOUS
<1>6. \A m \in Node : sup[m] = IF s = "Support" /\ m = p THEN B ELSE h.sup[m]
  OBVIOUS
<1> HIDE DEF took, sent, sup
<1>7. /\ g \in Accounts
      /\ g.took = took /\ g.sent = sent /\ g.sup = sup
      /\ g.noise = h.noise /\ g.hulls = h.hulls /\ g.info = h.info
      /\ g.dsent = h.dsent /\ g.dtook = h.dtook
      /\ g.round = h.round /\ g.old = h.old /\ g.news = h.news
  BY <1>3, <1>4 DEF Accounts
<1> HIDE DEF g
<1>8. Joins(h, g, s, p, B)
  BY <1>5, <1>6, <1>7 DEF Joins
<1> QED
  BY <1>8

\* What the front-end has returned to the back-ends, it has taken.
LEMMA RootSteps ==
  ASSUME NEW h, Agrees(h)
  PROVE  /\ h.dsent["XchangeDimensions"] = h.took["XchangeDimensions"][Root]
         /\ h.dsent["Support"] = h.took["Support"][Root]
         /\ h.dsent["TDBSCAN"] >= 1
<1>1. rpc \in {"start", "dims", "barrier", "hulls", "support", "info", "stats"}
      /\ RootProgress(h) \in RootPlaces(rpc)
  BY DEF Agrees, RootOK
<1>2. \A l \in {"start", "dims", "barrier", "hulls", "support", "info", "stats"} :
        \A x \in RootPlaces(l) : x[5] = x[2] /\ x[6] = x[3] /\ x[4] >= 1
  BY DEF RootPlaces
<1>3. LET x == RootProgress(h) IN x[5] = x[2] /\ x[6] = x[3] /\ x[4] >= 1
  BY <1>1, <1>2
<1> QED
  BY <1>3 DEF RootProgress

\* All that has to be shown of such a step is what the packet contains.
LEMMA CombineFrame ==
  ASSUME NEW h, NEW g, NEW s \in Stream, s # "TDBSCAN", NEW p \in Filter, NEW packet, NEW B,
         Agrees(h), UNCHANGED clump, Combine(s, p, packet), Joins(h, g, s, p, B),
         packet = Script(g, s, p)[1],
         s = "Support" => B = Tally(Cells(p), CellOf)
  PROVE  Agrees(g)'
<1>1. /\ p \in Node /\ p \notin Worker /\ Children(p) # {}
      /\ \A d \in Children(p) : d \in Node \ {Root}
  BY NodeFacts
<1>2. Possible(h) /\ Queues(h)
  BY DEF Agrees
<1>3. /\ \A r \in Stream, m \in Node :
           /\ h.sent[r][m] \in 0 .. 6 /\ h.took[r][m] \in 0 .. 6
           /\ h.took[r][m] <= h.sent[r][m] /\ h.sent[r][m] <= Length(r)
      /\ Length(s) = 1 /\ \A r : Length(r) \in Nat
  BY <1>2, AccountFacts DEF Possible, Length
<1>4. /\ g \in Accounts
      /\ \A r \in Stream, m \in Node :
           /\ g.took[r][m] = IF r = s /\ m \in Children(p) THEN 1 ELSE h.took[r][m]
           /\ g.sent[r][m] = IF r = s /\ m = p THEN 1 ELSE h.sent[r][m]
      /\ \A m \in Node : g.sup[m] = IF s = "Support" /\ m = p THEN B ELSE h.sup[m]
      /\ g.noise = h.noise /\ g.hulls = h.hulls /\ g.info = h.info
      /\ g.dsent = h.dsent /\ g.dtook = h.dtook
      /\ g.round = h.round /\ g.old = h.old /\ g.news = h.news
  BY DEF Joins
<1>5. /\ \A d \in Children(p) : up[s][d] # << >>
      /\ up' = [up EXCEPT ![s] = [m \in Node |-> IF m \in Children(p) THEN Tail(@[m])
                                                 ELSE IF m = p THEN Append(@[m], packet)
                                                 ELSE @[m]]]
      /\ UNCHANGED <<clump, down, filter, workerVars, rootVars>>
  BY DEF Combine
<1>6. UNCHANGED <<clump, data, class>>
  BY <1>5 DEF workerVars
<1>7. \A d \in Children(p) : h.took[s][d] = 0 /\ h.sent[s][d] = 1
  <2> SUFFICES ASSUME NEW d \in Children(p)
               PROVE  h.took[s][d] = 0 /\ h.sent[s][d] = 1
    OBVIOUS
  <2>1. h.took[s][d] # h.sent[s][d]
    BY <1>1, <1>2, <1>5, UpQueue
  <2> QED
    BY <1>1, <1>3, <2>1
<1>8. h.sent[s][p] = 0 /\ h.took[s][p] = 0
  <2>1. \A d \in Children(p) : h.sent[s][p] <= 0
    BY <1>7 DEF Agrees, Forwards
  <2> QED
    BY <1>1, <1>3, <2>1
<1>9. p \notin Children(p)
  <2>1. p \in Above(p)
    BY <1>1, AboveSelf
  <2> QED
    BY <1>1, <2>1, Acyclic, NodeFacts
<1>10. s = "Support" /\ p = Root => h.dsent["Support"] = 0
  BY <1>8, RootSteps
<1>11. Shapes'
  BY <1>5 DEF Agrees, Shapes, workerVars, rootVars
<1>12. Possible(g)
  <2>1. ASSUME NEW r \in Stream, NEW m \in Node
        PROVE  g.took[r][m] <= g.sent[r][m] /\ g.sent[r][m] <= Length(r)
    <3>1. CASE r = s /\ m \in Children(p)
      BY <1>3, <1>4, <1>7, <1>9, <3>1
    <3>2. CASE r = s /\ m = p
      BY <1>3, <1>4, <1>8, <1>9, <3>2
    <3>3. CASE ~(r = s /\ m \in Children(p)) /\ ~(r = s /\ m = p)
      BY <1>3, <1>4, <3>3
    <3> QED
      BY <3>1, <3>2, <3>3
  <2> QED
    BY <1>2, <1>4, <2>1 DEF Possible
<1>13. Queues(g)'
  <2>1. /\ DOMAIN up' = Stream /\ \A r \in Stream : DOMAIN up'[r] = Node
        /\ \A r \in Stream, m \in Node :
             up'[r][m] = IF r = s /\ m \in Children(p) THEN Tail(up[r][m])
                         ELSE IF r = s /\ m = p THEN Append(up[r][m], packet)
                         ELSE up[r][m]
    BY <1>2, <1>5 DEF Queues
  <2>2. ASSUME NEW r \in Stream, NEW m \in Node
        PROVE  up'[r][m] = Segment(Script(g, r, m), g.took[r][m], g.sent[r][m])
    <3>1. Kept(h, g, r, m, h.sent[r][m])
      BY <1>3, <1>4, <1>8 DEF Kept
    <3> DEFINE S == Script(g, r, m)
               a == h.took[r][m]
               b == h.sent[r][m]
    <3>2. up[r][m] = Segment(S, a, b)
      BY <1>2, <3>1, UpChange
    <3>3. CASE r = s /\ m \in Children(p)
      <4>1. g.took[r][m] = 1 /\ g.sent[r][m] = 1 /\ a = 0 /\ b = 1
        BY <1>4, <1>7, <1>9, <3>3
      <4> HIDE DEF S, a, b
      <4>2. Tail(up[r][m]) = Segment(S, 1, 1)
        <5>1. up[r][m] = Segment(S, 0, 1) /\ 0 \in Int /\ 1 \in Int /\ 0 < 1 /\ 0 + 1 = 1
          BY <3>2, <4>1
        <5>2. Tail(Segment(S, 0, 1)) = Segment(S, 0 + 1, 1)
          BY <5>1, SegmentHead
        <5> QED
          BY <5>1, <5>2
      <4> QED
        BY <2>1, <3>3, <4>1, <4>2 DEF S
    <3>4. CASE r = s /\ m = p
      <4>1. g.took[r][m] = 0 /\ g.sent[r][m] = 1 /\ a = 0 /\ b = 0
        BY <1>4, <1>8, <1>9, <3>4
      <4>2. packet = S[1]
        BY <3>4
      <4> HIDE DEF S, a, b
      <4>3. up[r][m] = << >>
        BY <3>2, <4>1, SegmentEmpty
      <4>4. Append(up[r][m], packet) = <<S[1]>>
        BY <4>2, <4>3
      <4>5. Segment(S, 0, 1) = <<S[1]>>
        BY DEF Segment
      <4> QED
        BY <1>9, <2>1, <3>4, <4>1, <4>4, <4>5 DEF S
    <3>5. CASE ~(r = s /\ m \in Children(p)) /\ ~(r = s /\ m = p)
      <4>1. g.took[r][m] = a /\ g.sent[r][m] = b
        BY <1>4, <3>5
      <4> QED
        BY <2>1, <3>2, <3>5, <4>1
    <3> QED
      BY <3>3, <3>4, <3>5
  <2>3. /\ DOMAIN down' = Stream
        /\ \A r \in Stream :
             /\ DOMAIN down'[r] = Worker
             /\ \A w \in Worker :
                  down'[r][w] = Segment(DownScript(g, r), g.dtook[r][w], g.dsent[r])
    <3>1. \A r \in Stream : KeptDown(h, g, r, h.dsent[r])
      BY <1>4, <1>10, NodeFacts DEF KeptDown
    <3>2. \A r \in Stream, w \in Worker :
            down[r][w] = Segment(DownScript(g, r), h.dtook[r][w], h.dsent[r])
      BY <1>2, <3>1, DownChange
    <3> QED
      BY <1>2, <1>4, <1>5, <3>2 DEF Queues
  <2> QED
    BY <2>1, <2>2, <2>3 DEF Queues
<1>14. \A q \in Filter : Forwards(g, q) /\ FilterOK(g, q, filter[q])
  <2> SUFFICES ASSUME NEW q \in Filter
               PROVE  Forwards(g, q) /\ FilterOK(g, q, filter[q])
    OBVIOUS
  <2>1. /\ Forwards(h, q) /\ FilterOK(h, q, filter[q]) /\ q \in Node
        /\ \A d \in Children(q) : d \in Node
    BY NodeFacts DEF Agrees
  <2>2. /\ \A d \in Children(q) : g.took["TDBSCAN"][d] = h.took["TDBSCAN"][d]
        /\ g.sent["TDBSCAN"][q] = h.sent["TDBSCAN"][q]
    BY <1>4, <2>1, StreamFacts
  <2>3. Forwards(g, q)
    <3>1. \A r \in Stream : \A d \in Children(q) : g.sent[r][q] <= g.took[r][d]
      <4> SUFFICES ASSUME NEW r \in Stream, NEW d \in Children(q)
                   PROVE  g.sent[r][q] <= g.took[r][d]
        OBVIOUS
      <4>1. h.sent[r][q] <= h.took[r][d] /\ d \in Node
        BY <2>1 DEF Forwards
      <4>2. CASE r = s /\ q = p
        BY <1>4, <2>1, <4>1, <4>2
      <4>3. CASE ~(r = s /\ q = p)
        <5>1. g.sent[r][q] = h.sent[r][q]
          BY <1>4, <2>1, <4>3
        <5>2. g.took[r][d] = h.took[r][d] \/ (r = s /\ d \in Children(p) /\ g.took[r][d] = 1)
          BY <1>4, <4>1
        <5>3. r = s /\ d \in Children(p) => h.took[r][d] = 0
          BY <1>7
        <5> QED
          BY <1>3, <2>1, <4>1, <5>1, <5>2, <5>3
      <4> QED
        BY <4>2, <4>3
    <3> QED
      BY <2>1, <2>2, <3>1 DEF Forwards
  <2>4. \A k : Taken(g, q, k) = Taken(h, q, k) /\ Missing(g, q, k) = Missing(h, q, k)
    BY <2>2 DEF Taken, Missing
  <2>5. \A ff : Holds(h, q, ff) => Holds(g, q, ff)
    <3>1. /\ NoiseIn(g, q) = NoiseIn(h, q) /\ HullsIn(g, q) = HullsIn(h, q)
          /\ Informed(g, q) = Informed(h, q) /\ Reported(g, q) = Reported(h, q)
      BY <1>4, <2>4 DEF NoiseIn, HullsIn, Informed, Reported
    <3> QED
      BY <1>4, <2>2, <2>4, <3>1 DEF Holds
  <2>6. FilterOK(g, q, filter[q])
    BY <2>1, <2>2, <2>5 DEF FilterOK
  <2> QED
    BY <2>3, <2>6
<1>15. ASSUME NEW m \in Node
       PROVE  Contents(g, m)
  <2>1. Contents(h, m)
    BY DEF Agrees
  <2>2. g.sent["TDBSCAN"][m] = h.sent["TDBSCAN"][m]
    BY <1>4, StreamFacts
  <2>3. g.sent["Support"][m] = 1 => g.sup[m] = Tally(Cells(m), CellOf)
    <3>1. CASE s = "Support" /\ m = p
      BY <1>4, <3>1
    <3>2. CASE ~(s = "Support" /\ m = p)
      BY <1>4, <2>1, <3>2, StreamFacts DEF Contents
    <3> QED
      BY <3>1, <3>2
  <2> QED
    BY <1>4, <2>1, <2>2, <2>3 DEF Contents
<1>16. \A w \in Worker : WorkerOK(g, w)'
  <2> SUFFICES ASSUME NEW w \in Worker
               PROVE  WorkerOK(g, w)'
    OBVIOUS
  <2>1. WorkerOK(h, w) /\ w \in Node /\ w # p
    BY <1>1, NodeFacts DEF Agrees
  <2>2. Progress(g, w) = Progress(h, w) /\ g.sent["Support"][w] = h.sent["Support"][w]
    BY <1>4, <2>1, StreamFacts DEF Progress
  <2>3. Model(g) = Model(h)
    BY <1>4 DEF Model
  <2>4. \A m : Classify(w, m)' = Classify(w, m)
    BY <1>5 DEF Classify, Answers, Touch, workerVars
  <2>5. h.dtook["Support"][w] = 1 => g.sup[Root] = h.sup[Root]
    <3>1. h.dtook["Support"][w] <= h.dsent["Support"]
      BY <1>2, AccountFacts, StreamFacts
    <3> QED
      BY <1>4, <1>10, <3>1, NodeFacts
  <2> QED
    BY <1>4, <1>5, <2>1, <2>2, <2>3, <2>4, <2>5 DEF WorkerOK, Measured, workerVars
<1>17. RootOK(g)'
  <2>1. RootOK(h) /\ Root \in Node
    BY NodeFacts DEF Agrees
  <2>2. RootProgress(g) = RootProgress(h) /\ g.took["TDBSCAN"][Root] = h.took["TDBSCAN"][Root]
    BY <1>1, <1>4, <2>1, StreamFacts DEF RootProgress
  <2>3. \A w \in Worker : g.sent["TDBSCAN"][w] = h.sent["TDBSCAN"][w]
                          /\ g.dtook["TDBSCAN"][w] = h.dtook["TDBSCAN"][w]
    BY <1>1, <1>4, NodeFacts, StreamFacts
  <2>4. Modelled(g)'
    BY <1>4, <1>5, <2>1, <2>2, ModelKept DEF rootVars
  <2> QED
    BY <1>4, <1>5, <2>1, <2>2, <2>3, <2>4 DEF RootOK, workerVars, rootVars
<1>18. \A q \in Filter : Forwards(g, q) /\ FilterOK(g, q, filter'[q])
  BY <1>5, <1>14
<1> QED
  BY <1>6, <1>11, <1>12, <1>13, <1>15, <1>16, <1>17, <1>18, SameData DEF Agrees

\* The ranges of the children are joined, once all have come (FilterDimensions).
LEMMA DimensionsStep ==
  ASSUME NEW h, Agrees(h), UNCHANGED clump, NEW p \in Filter, FilterDimensions(p)
  PROVE  IInv'
<1> DEFINE s == "XchangeDimensions"
           body == UNION Range(Bodies(s, p))
<1>1. Possible(h) /\ Queues(h) /\ h \in Accounts /\ p \in Node
      /\ \A d \in Children(p) : d \in Node
  BY NodeFacts DEF Agrees, Possible
<1>2. Combine(s, p, Packet("XCHANGE_DIMENSIONS", body))
  BY DEF FilterDimensions
<1>3. \A d \in Children(p) : Head(up[s][d]).body = Told(Workers(d), h.round)
  <2> SUFFICES ASSUME NEW d \in Children(p)
               PROVE  Head(up[s][d]).body = Told(Workers(d), h.round)
    OBVIOUS
  <2>1. up[s][d] # << >>
    BY <1>2 DEF Combine
  <2>2. h.took[s][d] \in 0 .. 6 /\ h.took[s][d] <= h.sent[s][d] /\ h.sent[s][d] \in 0 .. 6
        /\ h.sent[s][d] <= 1
    BY <1>1, AccountFacts, StreamFacts
  <2>3. h.took[s][d] < h.sent[s][d] /\ h.took[s][d] + 1 = 1
    BY <1>1, <2>1, <2>2, UpQueue, StreamFacts
  <2>4. Head(up[s][d]) = Script(h, s, d)[1]
    <3>1. Head(up[s][d]) = Script(h, s, d)[h.took[s][d] + 1]
      BY <1>1, <2>3, UpQueue, StreamFacts
    <3> QED
      BY <2>3, <3>1
  <2> QED
    BY <2>4, ScriptIs, PacketIs
<1>4. body = Told(Workers(p), h.round)
  <2>1. body = UNION {Told(Workers(d), h.round) : d \in Children(p)}
    <3>1. Bodies(s, p) = [d \in Children(p) |-> Told(Workers(d), h.round)]
      BY <1>3 DEF Bodies
    <3> QED
      BY <3>1 DEF Range
  <2>2. Workers(p) = UNION {Workers(d) : d \in Children(p)}
    BY WorkersOf
  <2> QED
    BY <2>1, <2>2 DEF Told
<1>5. PICK g : Joins(h, g, s, p, h.sup[p])
  <2>1. h.sup[p] \in Counts(Range(clump)) /\ s \in Stream
    BY <1>1, ContentsType, StreamFacts
  <2> QED
    BY <1>1, <2>1, JoinsExists
<1>6. Packet("XCHANGE_DIMENSIONS", body) = Script(g, s, p)[1]
  <2>1. g.round = h.round
    BY <1>5 DEF Joins
  <2>2. Script(g, s, p)[1] = Packet("XCHANGE_DIMENSIONS", Told(Workers(p), g.round))
    BY ScriptIs
  <2> QED
    BY <1>4, <2>1, <2>2
<1>7. Agrees(g)'
  <2>1. s \in Stream /\ s # "TDBSCAN" /\ s # "Support"
    BY StreamFacts
  <2> HIDE DEF s, body
  <2> QED
    BY <1>2, <1>5, <1>6, <2>1, CombineFrame
<1> QED
  BY <1>7 DEF IInv

\* The support of the children is added up, once all has come (FilterSupport).
LEMMA SupportStep ==
  ASSUME NEW h, Agrees(h), UNCHANGED clump, NEW p \in Filter, FilterSupport(p)
  PROVE  IInv'
<1> DEFINE s == "Support"
           body == FoldFunction((+), EmptyBag, Bodies(s, p))
<1>1. Possible(h) /\ Queues(h) /\ h \in Accounts /\ p \in Node /\ clump \in Layouts
      /\ \A d \in Children(p) : d \in Node
  BY NodeFacts DEF Agrees, Possible, Shapes
<1>2. Combine(s, p, Packet("SUPPORT", body))
  BY DEF FilterSupport
<1>3. \A d \in Children(p) : Head(up[s][d]).body = Tally(Cells(d), CellOf)
  <2> SUFFICES ASSUME NEW d \in Children(p)
               PROVE  Head(up[s][d]).body = Tally(Cells(d), CellOf)
    OBVIOUS
  <2>1. up[s][d] # << >>
    BY <1>2 DEF Combine
  <2>2. h.took[s][d] \in 0 .. 6 /\ h.took[s][d] <= h.sent[s][d] /\ h.sent[s][d] \in 0 .. 6
        /\ h.sent[s][d] <= 1
    BY <1>1, AccountFacts, StreamFacts
  <2>3. h.took[s][d] < h.sent[s][d] /\ h.took[s][d] + 1 = 1
    BY <1>1, <2>1, <2>2, UpQueue, StreamFacts
  <2>4. Head(up[s][d]) = Script(h, s, d)[1]
    <3>1. Head(up[s][d]) = Script(h, s, d)[h.took[s][d] + 1]
      BY <1>1, <2>3, UpQueue, StreamFacts
    <3> QED
      BY <2>3, <3>1
  <2>5. h.sent[s][d] = 1
    BY <2>2, <2>3
  <2>6. h.sup[d] = Tally(Cells(d), CellOf)
    BY <1>1, <2>5 DEF Agrees, Contents
  <2> QED
    BY <2>4, <2>6, ScriptIs, PacketIs
<1>4. body = Tally(Cells(p), CellOf) /\ body \in Counts(Range(clump))
  <2> DEFINE X == [d \in Children(p) |-> Cells(d)]
  <2>1. Bodies(s, p) = [d \in Children(p) |-> Tally(X[d], CellOf)]
    BY <1>3 DEF Bodies
  <2>2. /\ IsFiniteSet(Children(p)) /\ \A d \in Children(p) : IsFiniteSet(X[d])
        /\ \A d, e \in Children(p) : d # e => X[d] \cap X[e] = {}
        /\ UNION {X[d] : d \in Children(p)} = Cells(p)
    BY <1>1, FiniteFacts, CellsOf
  <2> HIDE DEF X
  <2>3. FoldFunction((+), EmptyBag, [d \in Children(p) |-> Tally(X[d], CellOf)])
          = Tally(UNION {X[d] : d \in Children(p)}, CellOf)
    BY <2>2, FoldTally
  <2>4. body = Tally(Cells(p), CellOf)
    BY <2>1, <2>2, <2>3
  <2> HIDE DEF body
  <2>5. Tally(Cells(p), CellOf) \in Counts(Range(clump))
    BY <1>1, CellsOf, TallyType
  <2> QED
    BY <2>4, <2>5
<1> HIDE DEF body
<1>5. PICK g : Joins(h, g, s, p, body)
  <2>1. s \in Stream
    BY StreamFacts
  <2> QED
    BY <1>1, <1>4, <2>1, JoinsExists
<1>6. Packet("SUPPORT", body) = Script(g, s, p)[1]
  <2>1. g.sup[p] = body
    BY <1>1, <1>5 DEF Joins
  <2> QED
    BY <2>1, ScriptIs
<1>7. Agrees(g)'
  <2>1. s \in Stream /\ s # "TDBSCAN"
    BY StreamFacts
  <2> HIDE DEF s
  <2> QED
    BY <1>2, <1>4, <1>5, <1>6, <2>1, CombineFrame
<1> QED
  BY <1>7 DEF IInv

-----------------------------------------------------------------------------
(***************************************************************************)
(* A back-end acts.                                                        *)
(***************************************************************************)
\* Tallies by keys that are the same are the same.
LEMMA TallySame ==
  ASSUME NEW X, NEW key1, NEW key2, \A x \in X : key1[x] = key2[x]
  PROVE  Tally(X, key1) = Tally(X, key2)
<1>1. {key1[x] : x \in X} = {key2[x] : x \in X}
  OBVIOUS
<1>2. \A k : {x \in X : key1[x] = k} = {x \in X : key2[x] = k}
  OBVIOUS
<1> QED
  BY <1>1, <1>2 DEF Tally

\* g is the account when w has sent n packets on stream us, N, H, I and B the contents
\* of its own packets, and taken k from stream ds.
Acts(h, g, w, us, n, ds, k, N, H, I, B) ==
  /\ g \in Accounts
  /\ \A s \in Stream, m \in Node :
       g.sent[s][m] = IF s = us /\ m = w THEN h.sent[s][m] + n ELSE h.sent[s][m]
  /\ \A s \in Stream, v \in Worker :
       g.dtook[s][v] = IF s = ds /\ v = w THEN h.dtook[s][v] + k ELSE h.dtook[s][v]
  /\ \A m \in Node :
       /\ g.noise[m] = IF m = w THEN N ELSE h.noise[m]
       /\ g.hulls[m] = IF m = w THEN H ELSE h.hulls[m]
       /\ g.info[m] = IF m = w THEN I ELSE h.info[m]
       /\ g.sup[m] = IF m = w THEN B ELSE h.sup[m]
  /\ g.took = h.took /\ g.dsent = h.dsent
  /\ g.round = h.round /\ g.old = h.old /\ g.news = h.news

\* There is such an account.
LEMMA ActsExists ==
  ASSUME NEW h, Possible(h), NEW w \in Worker, NEW us \in Stream, NEW ds \in Stream,
         NEW n \in Nat, NEW k \in {0, 1}, NEW N \in SUBSET Burst, NEW H \in SUBSET SUBSET Burst,
         NEW I \in Counts(Nat), NEW B \in Counts(Range(clump)),
         h.sent[us][w] + n <= 6, h.dtook[ds][w] + k <= 4
  PROVE  \E g : Acts(h, g, w, us, n, ds, k, N, H, I, B)
<1>1. w \in Node /\ h \in Accounts
  BY NodeFacts DEF Possible
<1>2. /\ \A s \in Stream, m \in Node : h.sent[s][m] \in 0 .. 6
      /\ \A s \in Stream, v \in Worker : h.dtook[s][v] \in -1 .. 4
  BY AccountFacts
<1>3. h.sent[us][w] + n \in 0 .. 6 /\ h.dtook[ds][w] + k \in -1 .. 4
  BY <1>1, <1>2
<1> DEFINE sent == [s \in Stream |-> [m \in Node |-> IF s = us /\ m = w THEN h.sent[s][m] + n
                                                     ELSE h.sent[s][m]]]
           dtook == [s \in Stream |-> [v \in Worker |-> IF s = ds /\ v = w
                                                        THEN h.dtook[s][v] + k
                                                        ELSE h.dtook[s][v]]]
           noise == [m \in Node |-> IF m = w THEN N ELSE h.noise[m]]
           hulls == [m \in Node |-> IF m = w THEN H ELSE h.hulls[m]]
           infos == [m \in Node |-> IF m = w THEN I ELSE h.info[m]]
           sup == [m \in Node |-> IF m = w THEN B ELSE h.sup[m]]
           g == [h EXCEPT !.sent = sent, !.dtook = dtook, !.noise = noise, !.hulls = hulls,
                          !.info = infos, !.sup = sup]
<1>4. /\ sent \in [Stream -> [Node -> 0 .. 6]]
      /\ \A s \in Stream, m \in Node :
           sent[s][m] = IF s = us /\ m = w THEN h.sent[s][m] + n ELSE h.sent[s][m]
  BY <1>2, <1>3
<1>5. /\ dtook \in [Stream -> [Worker -> -1 .. 4]]
      /\ \A s \in Stream, v \in Worker :
           dtook[s][v] = IF s = ds /\ v = w THEN h.dtook[s][v] + k ELSE h.dtook[s][v]
  BY <1>2, <1>3
<1>6. /\ noise \in [Node -> SUBSET Burst] /\ hulls \in [Node -> SUBSET SUBSET Burst]
      /\ infos \in [Node -> Counts(Nat)] /\ sup \in [Node -> Counts(Range(clump))]
  BY ContentsType
<1>7. \A m \in Node :
        /\ noise[m] = IF m = w THEN N ELSE h.noise[m]
        /\ hulls[m] = IF m = w THEN H ELSE h.hulls[m]
        /\ infos[m] = IF m = w THEN I ELSE h.info[m]
        /\ sup[m] = IF m = w THEN B ELSE h.sup[m]
  OBVIOUS
<1> HIDE DEF sent, dtook, noise, hulls, infos, sup
<1>8. /\ g \in Accounts
      /\ g.sent = sent /\ g.dtook = dtook /\ g.noise = noise /\ g.hulls = hulls
      /\ g.info = infos /\ g.sup = sup
      /\ g.took = h.took /\ g.dsent = h.dsent
      /\ g.round = h.round /\ g.old = h.old /\ g.news = h.news
  BY <1>1, <1>4, <1>5, <1>6 DEF Accounts
<1> HIDE DEF g
<1>9. Acts(h, g, w, us, n, ds, k, N, H, I, B)
  BY <1>4, <1>5, <1>7, <1>8 DEF Acts
<1> QED
  BY <1>9

\* What w does to the network when it acts.
Sends(h, g, w, us, n) ==
  \/ n = 0 /\ UNCHANGED up
  \/ up' = [up EXCEPT ![us][w] = @ \o Segment(Script(g, us, w), h.sent[us][w], h.sent[us][w] + n)]

Receives(h, w, ds, k) ==
  \/ k = 0 /\ UNCHANGED down
  \/ /\ k = 1 /\ h.dtook[ds][w] < h.dsent[ds]
     /\ down' = [down EXCEPT ![ds][w] = Tail(@)]

\* The queues agree with the account then.
LEMMA WorkerQueues ==
  ASSUME NEW h, NEW g, NEW w \in Worker, NEW us \in Stream, NEW n \in Nat,
         NEW ds \in Stream, NEW k \in {0, 1}, NEW N, NEW H, NEW I, NEW B,
         Possible(h), Queues(h), Acts(h, g, w, us, n, ds, k, N, H, I, B),
         Sends(h, g, w, us, n), Receives(h, w, ds, k),
         \A s \in Stream : Kept(h, g, s, w, h.sent[s][w])
  PROVE  Queues(g)'
<1>1. w \in Node /\ Root \in Node /\ w # Root
  BY NodeFacts
<1>2. /\ \A s \in Stream, m \in Node :
           /\ h.sent[s][m] \in 0 .. 6 /\ h.took[s][m] \in 0 .. 6
           /\ h.took[s][m] <= h.sent[s][m]
      /\ \A s \in Stream, v \in Worker :
           h.dtook[s][v] \in -1 .. 4 /\ h.dsent[s] \in 0 .. 4 /\ h.dtook[s][v] <= h.dsent[s]
  BY AccountFacts
<1>3. ASSUME NEW s \in Stream, NEW m \in Node
      PROVE  up'[s][m] = Segment(Script(g, s, m), g.took[s][m], g.sent[s][m])
  <2>1. Kept(h, g, s, m, h.sent[s][m])
    <3>1. CASE m = w
      BY <3>1
    <3>2. CASE m # w
      BY <3>2 DEF Acts, Kept
    <3> QED
      BY <3>1, <3>2
  <2> DEFINE S == Script(g, s, m)
             a == h.took[s][m]
             b == h.sent[s][m]
  <2>2. up[s][m] = Segment(S, a, b)
    BY <2>1, UpChange
  <2>3. a \in Int /\ b \in Int /\ a <= b /\ g.took[s][m] = a
    BY <1>2 DEF Acts
  <2>4. CASE s = us /\ m = w
    <3>1. g.sent[s][m] = b + n
      BY <2>4 DEF Acts
    <3>2. up'[s][m] = up[s][m] \o Segment(S, b, b + n)
      <4>1. CASE n = 0 /\ UNCHANGED up
        <5>1. b + n = b /\ Segment(S, b, b) = << >>
          BY <2>3, <4>1, SegmentEmpty
        <5> HIDE DEF S, a, b
        <5>2. Segment(S, a, b) \o << >> = Segment(S, a, b)
          <6>1. Segment(S, a, b) \o Segment(S, b, b) = Segment(S, a, b)
            BY <2>3, SegmentConcat
          <6> QED
            BY <4>1, <5>1, <6>1
        <5> QED
          BY <2>2, <4>1, <5>1, <5>2
      <4>2. CASE up' = [up EXCEPT ![us][w] =
                          @ \o Segment(Script(g, us, w), h.sent[us][w], h.sent[us][w] + n)]
        BY <1>1, <2>4, <4>2 DEF Queues
      <4> QED
        BY <4>1, <4>2 DEF Sends
    <3> HIDE DEF S, a, b
    <3>3. Segment(S, a, b) \o Segment(S, b, b + n) = Segment(S, a, b + n)
      BY <2>3, QueueChange
    <3> QED
      BY <2>2, <2>3, <3>1, <3>2, <3>3 DEF S
  <2>5. CASE ~(s = us /\ m = w)
    <3>1. g.sent[s][m] = b
      BY <2>5 DEF Acts
    <3>4. up'[s][m] = up[s][m]
      <4>1. DOMAIN up = Stream /\ \A r \in Stream : DOMAIN up[r] = Node
        BY DEF Queues
      <4>2. CASE UNCHANGED up
        BY <4>2
      <4>3. ASSUME NEW q, up' = [up EXCEPT ![us][w] = @ \o q]
            PROVE  up'[s][m] = up[s][m]
        BY <1>1, <2>5, <4>1, <4>3
      <4> QED
        BY <4>2, <4>3 DEF Sends
    <3> QED
      BY <2>2, <2>3, <3>1, <3>4
  <2> QED
    BY <2>4, <2>5
<1>4. ASSUME NEW s \in Stream, NEW v \in Worker
      PROVE  down'[s][v] = Segment(DownScript(g, s), g.dtook[s][v], g.dsent[s])
  <2>1. KeptDown(h, g, s, h.dsent[s])
    BY <1>1 DEF KeptDown, Acts
  <2> DEFINE S == DownScript(g, s)
             a == h.dtook[s][v]
             b == h.dsent[s]
  <2>2. down[s][v] = Segment(S, a, b)
    BY <2>1, DownChange
  <2>3. a \in Int /\ b \in Int /\ a <= b /\ g.dsent[s] = b
    BY <1>2 DEF Acts
  <2>4. CASE s = ds /\ v = w /\ k = 1
    <3>1. g.dtook[s][v] = a + 1
      BY <2>4 DEF Acts
    <3>2. down'[s][v] = Tail(down[s][v]) /\ a < b
      <4>1. DOMAIN down = Stream /\ DOMAIN down[s] = Worker
        BY DEF Queues
      <4>2. k # 0
        BY <2>4
      <4>3. h.dtook[ds][w] < h.dsent[ds] /\ down' = [down EXCEPT ![ds][w] = Tail(@)]
        BY <4>2 DEF Receives
      <4> QED
        BY <2>4, <4>1, <4>3
    <3> HIDE DEF S, a, b
    <3>3. Tail(Segment(S, a, b)) = Segment(S, a + 1, b)
      BY <2>3, <3>2, QueueChange
    <3> QED
      BY <2>2, <2>3, <3>1, <3>2, <3>3 DEF S
  <2>5. CASE ~(s = ds /\ v = w /\ k = 1)
    <3>1. g.dtook[s][v] = a
      <4>1. s = ds /\ v = w => k = 0 /\ a + k = a
        BY <2>3, <2>5
      <4> QED
        BY <4>1 DEF Acts
    <3>2. down'[s][v] = down[s][v]
      BY <2>5 DEF Receives, Queues
    <3> QED
      BY <2>2, <2>3, <3>1, <3>2
  <2> QED
    BY <2>4, <2>5
<1>5. /\ DOMAIN up' = Stream /\ DOMAIN down' = Stream
      /\ \A s \in Stream : DOMAIN up'[s] = Node /\ DOMAIN down'[s] = Worker
  BY DEF Sends, Receives, Queues
<1> QED
  BY <1>3, <1>4, <1>5 DEF Queues

\* Only the bursts and the ids of w change, and they before w sends what is about them.
ChangesOwn(h, w) ==
  /\ \A v \in Worker \ {w} : data'[v] = data[v] /\ class'[v] = class[v]
  /\ \/ data'[w] = data[w]
     \/ h.sent["TDBSCAN"][w] = 0 /\ h.sent["Support"][w] = 0
  /\ class'[w] = class[w] \/ h.sent["TDBSCAN"][w] < 5

\* So what anybody has sent stays true.
LEMMA WorkerData ==
  ASSUME NEW h, Agrees(h), NEW w \in Worker, UNCHANGED clump, ChangesOwn(h, w), NEW m \in Node
  PROVE  /\ h.sent["TDBSCAN"][m] >= 1 => Bursts(m)' = Bursts(m)
         /\ h.sent["TDBSCAN"][m] >= 5 => \A b \in Bursts(m) : IdOf'[b] = IdOf[b]
         /\ h.sent["Support"][m] = 1 => Cells(m)' = Cells(m)
<1>1. Extracted /\ Possible(h) /\ \A p \in Filter : Forwards(h, p)
  BY DEF Agrees, Shapes, WorkerOK, Extracted
<1>2. \A v \in Workers(m), s \in Stream : h.sent[s][m] <= h.sent[s][v]
  <2>1. \A v \in Workers(m) : v \in Under(m)
    BY DEF Workers
  <2> QED
    BY <1>1, <2>1, SentBelow
<1>3. \A s \in Stream, x \in Node : h.sent[s][x] \in 0 .. 6
  BY <1>1, AccountFacts
<1>4. Workers(m) \subseteq Worker /\ Worker \subseteq Node
  BY WorkersOf, NodeFacts
<1>5. h.sent["TDBSCAN"][m] >= 1 => \A v \in Workers(m) : data'[v] = data[v]
  BY <1>2, <1>3, <1>4, StreamFacts DEF ChangesOwn
<1>6. h.sent["TDBSCAN"][m] >= 5 => \A v \in Workers(m) : class'[v] = class[v]
  BY <1>2, <1>3, <1>4, StreamFacts DEF ChangesOwn
<1>7. h.sent["Support"][m] = 1 => \A v \in Workers(m) : data'[v] = data[v]
  BY <1>2, <1>3, <1>4, StreamFacts DEF ChangesOwn
<1>8. h.sent["TDBSCAN"][m] >= 1 => Bursts(m)' = Bursts(m)
  BY <1>5 DEF Bursts
<1>9. ASSUME h.sent["TDBSCAN"][m] >= 5, NEW b \in Bursts(m)
      PROVE  IdOf'[b] = IdOf[b]
  <2>1. PICK v \in Workers(m) : b \in data[v]
    BY DEF Bursts
  <2>2. Home[b] = v /\ b \in Burst
    BY <1>1, <1>4, <2>1 DEF Extracted
  <2>3. class'[v] = class[v]
    BY <1>6, <1>9
  <2> QED
    BY <2>2, <2>3 DEF IdOf
<1>10. ASSUME h.sent["Support"][m] = 1
       PROVE  Cells(m)' = Cells(m)
  <2>1. Cells(m)' = {x \in Workers(m) \X Range(clump) : \E b \in data'[x[1]] : clump[b] = x[2]}
    BY DEF Cells
  <2>2. \A x \in Workers(m) \X Range(clump) : data'[x[1]] = data[x[1]]
    BY <1>7, <1>10
  <2> QED
    BY <2>1, <2>2 DEF Cells
<1> QED
  BY <1>8, <1>9, <1>10

\* The bursts of w stay as they were measured.
SameRanges(w) == \A b \in Burst : Home[b] = w => dims'[b] = dims[b]

\* So all of w's bursts are measured as the account says, if w does not extract any.
LEMMA MeasuredKept ==
  ASSUME NEW h, NEW g, NEW w, Measured(h, w), g.round = h.round, SameRanges(w),
         g.dtook["TDBSCAN"][w] <= 0 => h.dtook["TDBSCAN"][w] <= 0,
         data'[w] = data[w], pc'[w] = "dims" <=> pc[w] = "dims"
  PROVE  Measured(g, w)'
BY DEF Measured, SameRanges

\* All that has to be shown of a back-end's step is about the back-end itself.
LEMMA WorkerFrame ==
  ASSUME NEW h, NEW g, NEW w \in Worker, NEW us \in Stream, NEW n \in Nat,
         NEW ds \in Stream, NEW k \in {0, 1}, NEW N, NEW H, NEW I, NEW B,
         Agrees(h), Acts(h, g, w, us, n, ds, k, N, H, I, B),
         Sends(h, g, w, us, n), Receives(h, w, ds, k),
         \A s \in Stream : Kept(h, g, s, w, h.sent[s][w]),
         UNCHANGED <<clump, filter, rootVars>>, Shapes', ChangesOwn(h, w),
         \A v \in Worker \ {w} : /\ pc'[v] = pc[v] /\ SameRanges(v)
                                 /\ globalModel'[v] = globalModel[v]
                                 /\ support'[v] = support[v],
         h.sent[us][w] + n <= Length(us),
         WorkerOK(g, w)', Contents(g, w)',
         IF rpc \in {"dims", "barrier"} THEN g.sent["TDBSCAN"][w] = 0 /\ pc'[w] # "model"
         ELSE g.dtook["TDBSCAN"][w] >= 1
  PROVE  Agrees(g)'
<1>1. w \in Node /\ Root \in Node /\ w # Root /\ w \notin Filter /\ Filter \subseteq Node
      /\ Worker \subseteq Node
  BY NodeFacts
<1>2. Possible(h) /\ Queues(h) /\ h \in Accounts
  BY DEF Agrees, Possible
<1>3. /\ \A s \in Stream, m \in Node :
           /\ h.sent[s][m] \in 0 .. 6 /\ h.took[s][m] \in 0 .. 6
           /\ h.took[s][m] <= h.sent[s][m] /\ h.sent[s][m] <= Length(s)
      /\ \A s \in Stream, v \in Worker :
           h.dtook[s][v] \in -1 .. 4 /\ h.dsent[s] \in 0 .. 4 /\ h.dtook[s][v] <= h.dsent[s]
      /\ \A s : Length(s) \in Nat
  BY <1>2, AccountFacts DEF Possible, Length
<1>4. /\ g \in Accounts
      /\ \A s \in Stream, m \in Node :
           g.sent[s][m] = IF s = us /\ m = w THEN h.sent[s][m] + n ELSE h.sent[s][m]
      /\ \A s \in Stream, v \in Worker :
           g.dtook[s][v] = IF s = ds /\ v = w THEN h.dtook[s][v] + k ELSE h.dtook[s][v]
      /\ \A m \in Node \ {w} :
           /\ g.noise[m] = h.noise[m] /\ g.hulls[m] = h.hulls[m]
           /\ g.info[m] = h.info[m] /\ g.sup[m] = h.sup[m]
      /\ g.took = h.took /\ g.dsent = h.dsent
      /\ g.round = h.round /\ g.old = h.old /\ g.news = h.news
  BY DEF Acts
<1>5. Accounts' = Accounts
  BY DEF Accounts
<1>6. Possible(g)'
  <2>1. \A s \in Stream : \A m \in Node :
          g.took[s][m] <= g.sent[s][m] /\ g.sent[s][m] <= Length(s)
    <3> SUFFICES ASSUME NEW s \in Stream, NEW m \in Node
                 PROVE  g.took[s][m] <= g.sent[s][m] /\ g.sent[s][m] <= Length(s)
      OBVIOUS
    <3>1. CASE s = us /\ m = w
      BY <1>1, <1>3, <1>4, <3>1
    <3>2. CASE ~(s = us /\ m = w)
      BY <1>3, <1>4, <3>2
    <3> QED
      BY <3>1, <3>2
  <2>2. \A s \in Stream : \A v \in Worker :
          g.dtook[s][v] <= g.dsent[s] /\ (s # "TDBSCAN" => g.dtook[s][v] >= 0)
    <3> SUFFICES ASSUME NEW s \in Stream, NEW v \in Worker
                 PROVE  g.dtook[s][v] <= g.dsent[s] /\ (s # "TDBSCAN" => g.dtook[s][v] >= 0)
      OBVIOUS
    <3>1. CASE s = ds /\ v = w
      <4>1. h.dtook[ds][w] + k <= h.dsent[ds]
        BY <1>3 DEF Receives
      <4> QED
        BY <1>2, <1>3, <1>4, <3>1, <4>1, SMTT(20) DEF Possible
    <3>2. CASE ~(s = ds /\ v = w)
      BY <1>2, <1>4, <3>2 DEF Possible
    <3> QED
      BY <3>1, <3>2
  <2>3. g.dsent["TDBSCAN"] < 3 => g.news = << >>
    BY <1>2, <1>4 DEF Possible
  <2> QED
    BY <1>4, <1>5, <2>1, <2>2, <2>3 DEF Possible
<1>7. Queues(g)'
  BY <1>2, WorkerQueues
<1>8. \A m \in Node :
        /\ h.sent["TDBSCAN"][m] >= 1 => Bursts(m)' = Bursts(m)
        /\ h.sent["TDBSCAN"][m] >= 5 => \A b \in Bursts(m) : IdOf'[b] = IdOf[b]
        /\ h.sent["Support"][m] = 1 => Cells(m)' = Cells(m)
  BY WorkerData
<1>9. \A X : OneClump(X)' <=> OneClump(X)
  BY DEF OneClump
<1>10. \A m \in Node : Contents(g, m)'
  <2> SUFFICES ASSUME NEW m \in Node, m # w
               PROVE  Contents(g, m)'
    OBVIOUS
  <2>1. Contents(h, m)
    BY DEF Agrees
  <2>2. /\ g.sent["TDBSCAN"][m] = h.sent["TDBSCAN"][m]
        /\ g.sent["Support"][m] = h.sent["Support"][m]
        /\ g.noise[m] = h.noise[m] /\ g.hulls[m] = h.hulls[m]
        /\ g.info[m] = h.info[m] /\ g.sup[m] = h.sup[m]
    BY <1>4, StreamFacts
  <2>3. CellOf' = CellOf
    BY DEF CellOf
  <2>4. h.sent["TDBSCAN"][m] >= 5 =>
          Tally(Bursts(m)', IdOf') = Tally(Bursts(m), IdOf)
    <3> SUFFICES ASSUME h.sent["TDBSCAN"][m] >= 5
                 PROVE  Tally(Bursts(m)', IdOf') = Tally(Bursts(m), IdOf)
      OBVIOUS
    <3>1. Bursts(m)' = Bursts(m) /\ \A b \in Bursts(m) : IdOf'[b] = IdOf[b]
      BY <1>3, <1>8, StreamFacts
    <3> QED
      BY <3>1, TallySame
  <2>5. h.sent["TDBSCAN"][m] \in 0 .. 6
    BY <1>3, StreamFacts
  <2>6. g.sent["TDBSCAN"][m] >= 2 => g.noise[m] \subseteq Bursts(m)'
    BY <1>8, <2>1, <2>2, <2>5 DEF Contents
  <2>7. g.sent["TDBSCAN"][m] >= 4 =>
          /\ g.noise[m] \cup UNION g.hulls[m] = Bursts(m)'
          /\ g.noise[m] \cap UNION g.hulls[m] = {}
          /\ Apart(g.hulls[m]) /\ \A X \in g.hulls[m] : OneClump(X)'
    BY <1>8, <1>9, <2>1, <2>2, <2>5 DEF Contents
  <2>8. g.sent["TDBSCAN"][m] >= 5 => g.info[m] = Tally(Bursts(m)', IdOf')
    BY <2>1, <2>2, <2>4 DEF Contents
  <2>9. g.sent["Support"][m] = 1 => g.sup[m] = Tally(Cells(m)', CellOf')
    BY <1>8, <2>1, <2>2, <2>3 DEF Contents
  <2> QED
    BY <2>6, <2>7, <2>8, <2>9 DEF Contents
<1>11. ASSUME NEW p \in Filter
       PROVE  Forwards(g, p)' /\ FilterOK(g, p, filter[p])'
  <2>1. /\ Forwards(h, p) /\ FilterOK(h, p, filter[p]) /\ p \in Node /\ p # w
        /\ \A c \in Children(p) : c \in Node
    BY <1>1, NodeFacts DEF Agrees
  <2>2. \A s \in Stream : g.sent[s][p] = h.sent[s][p]
    BY <1>4, <2>1
  <2>3. Forwards(g, p)
    BY <1>4, <2>1, <2>2, StreamFacts DEF Forwards
  <2>4. \A k1 : Taken(g, p, k1) = Taken(h, p, k1) /\ Missing(g, p, k1) = Missing(h, p, k1)
    BY <1>4 DEF Taken, Missing
  <2>5. NoiseIn(g, p) = NoiseIn(h, p) /\ HullsIn(g, p) = HullsIn(h, p)
    <3>1. /\ \A c \in Taken(h, p, 1) : g.noise[c] = h.noise[c]
          /\ \A c \in Taken(h, p, 3) : g.hulls[c] = h.hulls[c]
      <4>1. \A c \in Children(p) :
              /\ h.took["TDBSCAN"][c] >= 1 => g.noise[c] = h.noise[c]
              /\ h.took["TDBSCAN"][c] >= 3 => g.hulls[c] = h.hulls[c]
        <5> SUFFICES ASSUME NEW c \in Children(p)
                     PROVE  /\ h.took["TDBSCAN"][c] >= 1 => g.noise[c] = h.noise[c]
                            /\ h.took["TDBSCAN"][c] >= 3 => g.hulls[c] = h.hulls[c]
          OBVIOUS
        <5>1. CASE c = w
          <6>1. Kept(h, g, "TDBSCAN", w, h.sent["TDBSCAN"][w])
            BY StreamFacts
          <6>2. h.took["TDBSCAN"][w] <= h.sent["TDBSCAN"][w] /\ h.took["TDBSCAN"][w] \in 0 .. 6
                /\ h.sent["TDBSCAN"][w] \in 0 .. 6
            BY <1>1, <1>3, StreamFacts
          <6> QED
            BY <5>1, <6>1, <6>2 DEF Kept
        <5>2. CASE c # w
          BY <1>4, <2>1, <5>2
        <5> QED
          BY <5>1, <5>2
      <4> QED
        BY <4>1 DEF Taken
    <3> QED
      BY <2>4, <3>1 DEF NoiseIn, HullsIn
  <2>6. \A c \in Taken(h, p, 5) :
          Bursts(c)' = Bursts(c) /\ \A b \in Bursts(c) : IdOf'[b] = IdOf[b]
    <3> SUFFICES ASSUME NEW c \in Taken(h, p, 5)
                 PROVE  Bursts(c)' = Bursts(c) /\ \A b \in Bursts(c) : IdOf'[b] = IdOf[b]
      OBVIOUS
    <3>1. c \in Node /\ h.took["TDBSCAN"][c] >= 5
      BY <2>1 DEF Taken
    <3>2. h.sent["TDBSCAN"][c] >= 5 /\ h.sent["TDBSCAN"][c] >= 1
      BY <1>3, <3>1, StreamFacts
    <3> QED
      BY <1>8, <3>1, <3>2
  <2>7. Informed(g, p)' = Informed(h, p) /\ \A b \in Informed(h, p) : IdOf'[b] = IdOf[b]
    <3>1. Informed(g, p)' = UNION {Bursts(c)' : c \in Taken(g, p, 5)}
      BY DEF Informed, Taken
    <3> QED
      BY <2>4, <2>6, <3>1 DEF Informed
  <2>8. Tally(Informed(g, p)', IdOf') = Tally(Informed(h, p), IdOf)
    BY <2>7, TallySame
  <2>9. \A ff : Holds(h, p, ff) => Holds(g, p, ff)'
    <3> SUFFICES ASSUME NEW ff, Holds(h, p, ff)
                 PROVE  Holds(g, p, ff)'
      OBVIOUS
    <3>1. Reported(g, p) = Reported(h, p)
      BY <2>4 DEF Reported
    <3>2. g.noise[p] = h.noise[p] /\ g.sent["TDBSCAN"][p] = h.sent["TDBSCAN"][p]
      BY <1>4, <2>1, <2>2, StreamFacts
    <3>3. /\ ff.waitForNoise = Missing(g, p, 2) /\ ff.waitForHulls = Missing(g, p, 4)
          /\ ff.waitForClustersInfo = Missing(g, p, 5) /\ ff.waitForStats = Missing(g, p, 6)
          /\ ff.noise = NoiseIn(g, p)
          /\ IF g.sent["TDBSCAN"][p] >= 2
               THEN /\ g.noise[p] \subseteq ff.noise
                    /\ UNION ff.merged = HullsIn(g, p) \cup (ff.noise \ g.noise[p])
               ELSE UNION ff.merged = HullsIn(g, p)
          /\ Apart(ff.merged) /\ \A X \in ff.merged : OneClump(X)'
          /\ ff.info = Tally(Informed(g, p)', IdOf')
          /\ ff.nodes = Reported(g, p)
      BY <1>9, <2>4, <2>5, <2>8, <3>1, <3>2 DEF Holds
    <3> QED
      BY <3>3 DEF Holds
  <2>10. FilterOK(g, p, filter[p])'
    <3>1. filter[p]' = filter[p]
      OBVIOUS
    <3>2. /\ filter[p] \in FilterState(p)
          /\ filter[p].needsReset => /\ Rests(filter[p])
                     /\ \/ \A c \in Children(p) : g.took["TDBSCAN"][c] = 0
                        \/ \A c \in Children(p) : g.took["TDBSCAN"][c] = 6
          /\ filter[p].alive /\ ~filter[p].needsReset =>
                     /\ Holds(g, p, filter[p])'
                     /\ \E c \in Children(p) : g.took["TDBSCAN"][c] < 6
      <4>1. Holds(h, p, filter[p]) => Holds(g, p, filter[p])'
        <5> DEFINE ff == filter[p]
        <5>0. ff' = ff
          OBVIOUS
        <5>1. Holds(h, p, ff) => Holds(g, p, ff)'
          <6> SUFFICES ASSUME Holds(h, p, ff)
                       PROVE  Holds(g, p, ff)'
            OBVIOUS
          <6>1. PICK f1 : f1 = ff
            OBVIOUS
          <6>2. Holds(g, p, f1)'
            BY <2>9, <6>1
          <6> QED
            BY <5>0, <6>1, <6>2
        <5> QED
          BY <5>1
      <4> QED
        BY <1>4, <2>1, <4>1 DEF FilterOK
    <3> QED
      BY <3>1, <3>2 DEF FilterOK
  <2> QED
    BY <2>3, <2>10
<1>12. \A v \in Worker : WorkerOK(g, v)'
  <2> SUFFICES ASSUME NEW v \in Worker, v # w
               PROVE  WorkerOK(g, v)'
    OBVIOUS
  <2>1. WorkerOK(h, v) /\ v \in Node
    BY <1>1 DEF Agrees
  <2>2. Progress(g, v) = Progress(h, v) /\ g.sent["Support"][v] = h.sent["Support"][v]
        /\ g.dtook["TDBSCAN"][v] = h.dtook["TDBSCAN"][v]
        /\ g.dtook["Support"][v] = h.dtook["Support"][v]
    BY <1>4, <2>1, StreamFacts DEF Progress
  <2>3. Model(g) = Model(h) /\ g.round = h.round /\ g.old = h.old /\ g.sup[Root] = h.sup[Root]
    BY <1>1, <1>4 DEF Model
  <2>4. data'[v] = data[v] /\ class'[v] = class[v]
    BY DEF ChangesOwn
  <2>5. \A m : Classify(v, m)' = Classify(v, m)
    BY <2>4 DEF Classify, Answers, Touch
  <2> QED
    BY <2>1, <2>2, <2>3, <2>4, <2>5 DEF WorkerOK, Measured, SameRanges
<1>13. RootOK(g)'
  <2>1. RootOK(h)
    BY DEF Agrees
  <2>2. RootProgress(g) = RootProgress(h)
    BY <1>1, <1>4, StreamFacts DEF RootProgress
  <2>3. IF rpc \in {"dims", "barrier"}
          THEN \A v \in Worker : g.sent["TDBSCAN"][v] = 0 /\ pc'[v] # "model"
          ELSE \A v \in Worker : g.dtook["TDBSCAN"][v] >= 1
    <3>1. \A v \in Worker \ {w} : /\ g.sent["TDBSCAN"][v] = h.sent["TDBSCAN"][v]
                                  /\ g.dtook["TDBSCAN"][v] = h.dtook["TDBSCAN"][v]
      BY <1>1, <1>4, StreamFacts
    <3> QED
      BY <2>1, <3>1 DEF RootOK
  <2>4. /\ g.noise[Root] = h.noise[Root] /\ g.hulls[Root] = h.hulls[Root]
        /\ g.info[Root] = h.info[Root] /\ g.took = h.took
    BY <1>1, <1>4
  <2>5. Modelled(g)'
    BY <1>4, <2>1, <2>4, ModelKept DEF rootVars
  <2>6. g.round = h.round
    BY <1>1, <1>4
  <2> QED
    BY <2>1, <2>2, <2>3, <2>4, <2>5, <2>6 DEF RootOK, rootVars
<1> QED
  BY <1>6, <1>7, <1>10, <1>11, <1>12, <1>13 DEF Agrees

-----------------------------------------------------------------------------
(***************************************************************************)
(* The steps of a back-end.                                                *)
(***************************************************************************)
\* Where a back-end is in Run tells what it has sent and received.
LEMMA PlaceIs ==
  ASSUME NEW h, NEW w, WorkerOK(h, w)
  PROVE  /\ pc[w] = "config" => Progress(h, w) \in Places("config")
         /\ pc[w] = "dims" => Progress(h, w) = <<0, 1, 0, 1, 0, 0>>
         /\ pc[w] \in {"barrier", "model"} => Progress(h, w) = <<0, 1, 0, 1, 1, 0>>
         /\ pc[w] = "hulls" => Progress(h, w) \in {<<4, 1, 0, 1, 1, 0>>, <<4, 1, 0, 2, 1, 0>>}
         /\ pc[w] = "support" => Progress(h, w) = <<4, 1, 1, 3, 1, 0>>
BY DEF WorkerOK, Places

\* What the steps of a back-end w start from.
LEMMA WorkerStart ==
  ASSUME NEW h, Agrees(h), NEW w \in Worker
  PROVE  /\ w \in Node /\ Possible(h) /\ Queues(h) /\ Shapes /\ WorkerOK(h, w) /\ Contents(h, w)
         /\ h.noise[w] \in SUBSET Burst /\ h.hulls[w] \in SUBSET SUBSET Burst
         /\ h.info[w] \in Counts(Nat) /\ h.sup[w] \in Counts(Range(clump))
         /\ Workers(w) = {w} /\ Bursts(w) = data[w] /\ Under(w) = {w}
<1>1. w \in Node /\ Possible(h)
  BY NodeFacts DEF Agrees
<1>2. Extracted
  BY DEF Agrees, Shapes, WorkerOK, Extracted
<1> QED
  BY <1>1, <1>2, ContentsType, WorkersOf, BurstsOf, UnderWorker DEF Agrees

\* A packet of another round or another kind is no CLUSTERING_CONFIG: a back-end that
\* starts a round has sent nothing of it yet, and the front-end has not ended it.
LEMMA StartRoundStep ==
  ASSUME NEW h, Agrees(h), UNCHANGED clump, NEW w \in Worker, StartRound(w)
  PROVE  IInv'
<1> DEFINE T == "TDBSCAN"
           X == "XchangeDimensions"
           S == "Support"
<1>1. /\ w \in Node /\ Possible(h) /\ Queues(h) /\ Shapes /\ WorkerOK(h, w)
      /\ h.noise[w] \in SUBSET Burst /\ h.hulls[w] \in SUBSET SUBSET Burst
      /\ h.info[w] \in Counts(Nat) /\ h.sup[w] \in Counts(Range(clump))
      /\ Workers(w) = {w} /\ T \in Stream /\ X \in Stream /\ S \in Stream
  BY WorkerStart, StreamFacts
<1>2. h.dtook[T][w] = 0 /\ 0 < h.dsent[T]
  BY <1>1, DownTag DEF StartRound
<1>3. h.sent[T][w] = 0 /\ h.sent[X][w] = 0 /\ h.sent[S][w] = 0
      /\ h.dtook[X][w] = 0 /\ h.dtook[S][w] = 0
  BY <1>1, <1>2, PlaceIs DEF StartRound, Places, Progress
<1>4. rpc \in {"dims", "barrier"}
  <2>1. RootOK(h)
    BY DEF Agrees
  <2> QED
    BY <1>2, <2>1 DEF RootOK
<1> DEFINE new == {b \in Burst : Home[b] = w /\ Arrives[b] = round}
<1>5. PICK n \in {0, 1} :
        /\ IF n = 1
             THEN up' = [up EXCEPT ![X][w] = @ \o <<Packet("XCHANGE_DIMENSIONS", {<<w, round>>})>>]
             ELSE UNCHANGED up
        /\ pc' = [pc EXCEPT ![w] = IF n = 1 THEN "dims" ELSE "exited"]
        /\ data' = [data EXCEPT ![w] = IF n = 1 THEN @ \cup new ELSE @]
        /\ down' = [down EXCEPT ![T][w] = Tail(@)]
  BY <1>1 DEF StartRound, TakeAndSend, Take, Goto, Exit, Shapes
<1>6. /\ class' = [class EXCEPT ![w] = << >>] /\ h.round = round
      /\ UNCHANGED <<filter, dims, globalModel, support, rootVars, clump>>
  BY DEF StartRound, Agrees, RootOK
<1>7. PICK g : Acts(h, g, w, X, n, T, 1, h.noise[w], h.hulls[w], h.info[w], h.sup[w])
  <2>1. /\ h.sent[X][w] + n <= 6 /\ h.dtook[T][w] + 1 <= 4
        /\ n \in Nat /\ 1 \in {0, 1}
    BY <1>2, <1>3
  <2> HIDE DEF T, X, S
  <2> QED
    BY <1>1, <2>1, ActsExists
<1>8. /\ g.sent[T][w] = 0 /\ g.sent[X][w] = n /\ g.sent[S][w] = 0
      /\ g.dtook[T][w] = 1 /\ g.dtook[X][w] = 0 /\ g.dtook[S][w] = 0
      /\ g.round = h.round /\ g.old = h.old
  BY <1>1, <1>2, <1>3, <1>7 DEF Acts
<1>9. Sends(h, g, w, X, n)
  <2>1. Script(g, X, w)[1] = Packet("XCHANGE_DIMENSIONS", {<<w, round>>})
    <3>1. Script(g, X, w)[1] = Packet("XCHANGE_DIMENSIONS", Told(Workers(w), g.round))
      BY ScriptIs
    <3>2. Told(Workers(w), g.round) = {<<w, round>>}
      BY <1>1, <1>6, <1>8 DEF Told
    <3> QED
      BY <3>1, <3>2
  <2> DEFINE script == Script(g, X, w)
  <2> HIDE DEF script
  <2>2. Segment(script, 0, 0 + 1) = <<script[1]>>
    BY DEF Segment
  <2> QED
    BY <1>3, <1>5, <2>1, <2>2 DEF Sends, script
<1>10. Receives(h, w, T, 1)
  BY <1>2, <1>5 DEF Receives
<1>11. \A s \in Stream : Kept(h, g, s, w, h.sent[s][w])
  BY <1>1, <1>7 DEF Acts, Kept
<1>12. /\ \A v \in Worker \ {w} : /\ data'[v] = data[v] /\ class'[v] = class[v]
                                  /\ pc'[v] = pc[v] /\ SameRanges(v)
       /\ globalModel' = globalModel /\ support' = support
       /\ class'[w] = << >> /\ pc'[w] = IF n = 1 THEN "dims" ELSE "exited"
  BY <1>1, <1>5, <1>6 DEF Shapes, SameRanges
<1>13. ChangesOwn(h, w)
  BY <1>3, <1>12 DEF ChangesOwn
<1>14. data' \in [Worker -> SUBSET Burst] /\ \A b \in data'[w] : Home[b] = w
  BY <1>1, <1>5 DEF Shapes, WorkerOK
<1>15. Shapes'
  BY <1>1, <1>5, <1>6, <1>14 DEF Shapes, rootVars
<1>16. WorkerOK(g, w)'
  <2>1. Progress(g, w) = <<0, n, 0, 1, 0, 0>>
    BY <1>8 DEF Progress
  <2>2. Progress(g, w) \in Places(IF n = 1 THEN "dims" ELSE "exited")
    BY <1>5, <2>1 DEF Places
  <2>3. globalModel[w] = h.old
    BY <1>1, <1>2 DEF WorkerOK
  <2>4. Measured(g, w)'
    <3>1. Measured(h, w) /\ h.dtook[T][w] <= 0 /\ round \in Nat
      BY <1>1, <1>2 DEF WorkerOK, Shapes
    <3>2. /\ \A b \in data[w] : b \in Burst /\ Arrives[b] < round
          /\ \A b \in Burst : Home[b] = w =>
               dims'[b] = IF b \notin data[w] THEN {} ELSE Told(Worker, Arrives[b])
      BY <1>1, <1>6, <3>1 DEF Measured, Shapes, StartRound
    <3>3. /\ data'[w] = IF n = 1 THEN data[w] \cup new ELSE data[w]
          /\ pc'[w] = IF n = 1 THEN "dims" ELSE "exited"
      BY <1>1, <1>5 DEF Shapes
    <3>4. /\ \A b \in data'[w] : Arrives[b] <= round
          /\ ~(g.dtook[T][w] <= 0) /\ g.round = round
      BY <1>6, <1>8, <3>1, <3>2, <3>3, TDBSCANAssumption
    <3>5. ASSUME NEW b \in Burst, Home[b] = w
          PROVE  dims'[b] = IF b \notin data'[w] \/ (pc'[w] = "dims" /\ Arrives[b] = round)
                            THEN {} ELSE Told(Worker, Arrives[b])
      BY <3>1, <3>2, <3>3, <3>5
    <3> QED
      BY <3>4, <3>5 DEF Measured
  <2> QED
    BY <1>8, <1>12, <1>14, <2>2, <2>3, <2>4 DEF WorkerOK
<1>17. Contents(g, w)'
  BY <1>8 DEF Contents
<1>18. Agrees(g)'
  <2>1. /\ \A v \in Worker \ {w} : /\ pc'[v] = pc[v] /\ SameRanges(v)
                                   /\ globalModel'[v] = globalModel[v]
                                   /\ support'[v] = support[v]
        /\ h.sent[X][w] + n <= Length(X) /\ n \in Nat /\ 1 \in {0, 1}
        /\ IF rpc \in {"dims", "barrier"} THEN g.sent["TDBSCAN"][w] = 0 /\ pc'[w] # "model"
           ELSE g.dtook["TDBSCAN"][w] >= 1
        /\ UNCHANGED <<clump, filter, rootVars>>
    BY <1>3, <1>4, <1>6, <1>8, <1>12 DEF Length
  <2> HIDE DEF T, X, S
  <2> QED
    BY <1>1, <1>7, <1>9, <1>10, <1>11, <1>13, <1>15, <1>16, <1>17, <2>1, WorkerFrame
<1> QED
  BY <1>18 DEF IInv

\* What a back-end has sent stays true while its bursts and their ids stay the same.
LEMMA SameContents ==
  ASSUME NEW h, NEW g, NEW w \in Worker, NEW us \in Stream, NEW ds \in Stream, NEW k,
         Possible(h), Contents(h, w),
         Acts(h, g, w, us, 0, ds, k, h.noise[w], h.hulls[w], h.info[w], h.sup[w]),
         UNCHANGED <<clump, data, class>>
  PROVE  Contents(g, w)' /\ \A s \in Stream : Kept(h, g, s, w, h.sent[s][w])
<1>1. w \in Node /\ \A s \in Stream : h.sent[s][w] \in 0 .. 6
  BY NodeFacts, AccountFacts
<1>2. /\ \A s \in Stream : g.sent[s][w] = h.sent[s][w]
      /\ g.noise[w] = h.noise[w] /\ g.hulls[w] = h.hulls[w]
      /\ g.info[w] = h.info[w] /\ g.sup[w] = h.sup[w]
  BY <1>1 DEF Acts
<1>3. Contents(g, w)
  BY <1>2, StreamFacts DEF Contents
<1>4. Contents(g, w)'
  BY <1>3, SameData
<1>5. g.round = h.round
  BY DEF Acts
<1> QED
  BY <1>2, <1>4, <1>5 DEF Kept

\* What a back-end drops while it waits for a round is the second end of the hulls of
\* the round before.
LEMMA WorkerDropsStep ==
  ASSUME NEW h, Agrees(h), UNCHANGED clump, NEW w \in Worker, WorkerDrops(w)
  PROVE  IInv'
<1> DEFINE T == "TDBSCAN"
           X == "XchangeDimensions"
           S == "Support"
           n == h.dtook[T][w]
<1>1. /\ w \in Node /\ Possible(h) /\ Queues(h) /\ Shapes /\ WorkerOK(h, w) /\ Contents(h, w)
      /\ h.noise[w] \in SUBSET Burst /\ h.hulls[w] \in SUBSET SUBSET Burst
      /\ h.info[w] \in Counts(Nat) /\ h.sup[w] \in Counts(Range(clump))
      /\ T \in Stream /\ X \in Stream /\ S \in Stream
  BY WorkerStart, StreamFacts
<1>2. /\ pc[w] = "config" /\ down[T][w] # << >> /\ ~Received(T, w, "CLUSTERING_CONFIG")
      /\ down' = [down EXCEPT ![T][w] = Tail(@)]
      /\ UNCHANGED <<clump, up, filter, workerVars, rootVars>>
  BY DEF WorkerDrops, Take
<1>3. /\ n \in -1 .. 4 /\ h.dsent[T] \in 0 .. 4 /\ n <= h.dsent[T]
      /\ \A s \in Stream : h.sent[s][w] \in 0 .. 6
  BY <1>1, AccountFacts
<1>4. n < h.dsent[T]
  <2>1. n # h.dsent[T]
    BY <1>1, <1>2, DownQueue
  <2> QED
    BY <1>3, <2>1
<1>5. n # 0
  <2>1. ASSUME n = 0
        PROVE  FALSE
    <3>1. Head(down[T][w]) = DownScript(h, T)[n + 1]
      BY <1>1, <1>4, DownQueue
    <3>2. Head(down[T][w]) = Mark("CLUSTERING_CONFIG")
      <4>1. n + 1 = 1
        BY <2>1
      <4> QED
        BY <3>1, <4>1, DownScriptIs
    <3> QED
      BY <1>2, <3>2, PacketIs DEF Received
  <2> QED
    BY <2>1
<1>6. Progress(h, w) = <<0, 0, 0, -1, 0, 0>> \/ Progress(h, w) = <<6, 1, 1, 3, 1, 1>>
  <2>1. Progress(h, w) \in Places("config") /\ Progress(h, w)[4] = n
    BY <1>1, <1>2, PlaceIs DEF Progress
  <2> HIDE DEF n
  <2>2. Progress(h, w) \in {<<0, 0, 0, -1, 0, 0>>, <<0, 0, 0, 0, 0, 0>>,
                            <<6, 1, 1, 3, 1, 1>>, <<6, 1, 1, 4, 1, 1>>}
    BY <2>1 DEF Places
  <2>3. n # 4 /\ n # 0
    BY <1>3, <1>4, <1>5
  <2> QED
    BY <2>1, <2>2, <2>3
<1>7. \/ /\ h.sent[T][w] = 0 /\ h.sent[X][w] = 0 /\ h.sent[S][w] = 0
         /\ n = -1 /\ h.dtook[X][w] = 0 /\ h.dtook[S][w] = 0
      \/ /\ h.sent[T][w] = 6 /\ h.sent[X][w] = 1 /\ h.sent[S][w] = 1
         /\ n = 3 /\ h.dtook[X][w] = 1 /\ h.dtook[S][w] = 1
  BY <1>6 DEF Progress
<1>8. PICK g : Acts(h, g, w, X, 0, T, 1, h.noise[w], h.hulls[w], h.info[w], h.sup[w])
  <2>1. /\ h.sent[X][w] + 0 <= 6 /\ h.dtook[T][w] + 1 <= 4
        /\ 0 \in Nat /\ 1 \in {0, 1}
    BY <1>7
  <2> HIDE DEF T, X, S
  <2> QED
    BY <1>1, <2>1, ActsExists
<1>9. /\ g.sent[T][w] = h.sent[T][w] /\ g.sent[X][w] = h.sent[X][w]
      /\ g.sent[S][w] = h.sent[S][w]
      /\ g.dtook[T][w] = n + 1 /\ g.dtook[X][w] = h.dtook[X][w]
      /\ g.dtook[S][w] = h.dtook[S][w] /\ g.round = h.round /\ g.old = h.old /\ g.news = h.news
  BY <1>1, <1>7, <1>8 DEF Acts
<1>10. Contents(g, w)' /\ \A s \in Stream : Kept(h, g, s, w, h.sent[s][w])
  <2>1. UNCHANGED <<clump, data, class>>
    BY <1>2 DEF workerVars
  <2> HIDE DEF T, X, S
  <2> QED
    BY <1>1, <1>8, <2>1, SameContents
<1>11. WorkerOK(g, w)'
  <2>1. Progress(g, w) \in {<<0, 0, 0, 0, 0, 0>>, <<6, 1, 1, 4, 1, 1>>}
    BY <1>7, <1>9 DEF Progress
  <2>2. Progress(g, w) \in Places("config")
    BY <2>1 DEF Places
  <2>3. Model(g) = Model(h) /\ (g.dtook[T][w] >= 2 <=> n >= 2)
    BY <1>7, <1>9 DEF Model
  <2>4. g.sup[Root] = h.sup[Root]
    BY <1>8, NodeFacts DEF Acts
  <2>5. Classify(w, Model(h))' = Classify(w, Model(h))
    BY <1>2 DEF Classify, Answers, Touch, workerVars
  <2>6. Measured(g, w)'
    BY <1>1, <1>2, <1>7, <1>9, MeasuredKept DEF WorkerOK, SameRanges, workerVars
  <2> QED
    BY <1>1, <1>2, <1>7, <1>9, <2>2, <2>3, <2>4, <2>5, <2>6 DEF WorkerOK, workerVars
<1>12. Agrees(g)'
  <2>1. /\ \A v \in Worker \ {w} : /\ pc'[v] = pc[v] /\ SameRanges(v)
                                   /\ globalModel'[v] = globalModel[v]
                                   /\ support'[v] = support[v]
        /\ UNCHANGED <<clump, filter, rootVars>>
    BY <1>2 DEF workerVars, SameRanges
  <2>6. ChangesOwn(h, w)
    BY <1>2 DEF workerVars, ChangesOwn
  <2>4. h.sent[X][w] + 0 <= Length(X) /\ 0 \in Nat /\ 1 \in {0, 1}
    BY <1>7 DEF Length
  <2>5. Sends(h, g, w, X, 0) /\ Receives(h, w, T, 1)
    BY <1>2, <1>4 DEF Sends, Receives
  <2>2. IF rpc \in {"dims", "barrier"} THEN g.sent["TDBSCAN"][w] = 0 /\ pc'[w] # "model"
        ELSE g.dtook["TDBSCAN"][w] >= 1
    <3>1. RootOK(h)
      BY DEF Agrees
    <3> QED
      BY <1>2, <1>3, <1>9, <3>1 DEF RootOK, workerVars
  <2>3. Shapes'
    BY <1>1, <1>2 DEF workerVars, Shapes, rootVars
  <2> HIDE DEF T, X, S
  <2> QED
    BY <1>1, <1>8, <1>10, <1>11, <2>1, <2>2, <2>3, <2>4, <2>5, <2>6, WorkerFrame
<1> QED
  BY <1>12 DEF IInv

\* The ranges a back-end clusters with are those of all back-ends.
LEMMA ClusterLocallyStep ==
  ASSUME NEW h, Agrees(h), UNCHANGED clump, NEW w \in Worker, ClusterLocally(w)
  PROVE  IInv'
<1> DEFINE T == "TDBSCAN"
           X == "XchangeDimensions"
           S == "Support"
<1>1. /\ w \in Node /\ Possible(h) /\ Queues(h) /\ Shapes /\ WorkerOK(h, w) /\ Contents(h, w)
      /\ h.noise[w] \in SUBSET Burst /\ h.hulls[w] \in SUBSET SUBSET Burst
      /\ h.info[w] \in Counts(Nat) /\ h.sup[w] \in Counts(Range(clump))
      /\ T \in Stream /\ X \in Stream /\ S \in Stream
  BY WorkerStart, StreamFacts
<1>2. /\ pc[w] = "dims" /\ down[X][w] # << >>
      /\ dims' = Normalised(w, Head(down[X][w]).body)
      /\ down' = [down EXCEPT ![X][w] = Tail(@)]
      /\ UNCHANGED <<clump, up, filter, data, globalModel, class, support, rootVars>>
  BY DEF ClusterLocally, Take, Received
<1>3. PICK l \in {"barrier", "exited"} : pc' = [pc EXCEPT ![w] = l]
  BY DEF ClusterLocally, Goto, Exit
<1>4. /\ h.sent[T][w] = 0 /\ h.sent[X][w] = 1 /\ h.sent[S][w] = 0
      /\ h.dtook[T][w] = 1 /\ h.dtook[X][w] = 0 /\ h.dtook[S][w] = 0
  <2>1. Progress(h, w) = <<0, 1, 0, 1, 0, 0>>
    BY <1>1, <1>2, PlaceIs
  <2> QED
    BY <2>1 DEF Progress
<1>5. 0 < h.dsent[X] /\ Head(down[X][w]).body = Told(Worker, h.round)
  <2>1. h.dsent[X] \in 0 .. 4 /\ 0 # h.dsent[X]
    BY <1>1, <1>2, <1>4, DownQueue, AccountFacts
  <2>2. Head(down[X][w]) = DownScript(h, X)[h.dtook[X][w] + 1] /\ h.dtook[X][w] + 1 = 1
    BY <1>1, <1>4, <2>1, DownQueue
  <2>3. Head(down[X][w]) = Packet("XCHANGE_DIMENSIONS", Told(Worker, h.round))
    BY <2>2, DownScriptIs
  <2> QED
    BY <2>1, <2>3, PacketIs
<1>6. PICK g : Acts(h, g, w, X, 0, X, 1, h.noise[w], h.hulls[w], h.info[w], h.sup[w])
  <2>1. /\ h.sent[X][w] + 0 <= 6 /\ h.dtook[X][w] + 1 <= 4
        /\ 0 \in Nat /\ 1 \in {0, 1}
    BY <1>4
  <2> HIDE DEF T, X, S
  <2> QED
    BY <1>1, <2>1, ActsExists
<1>7. /\ g.sent[T][w] = 0 /\ g.sent[X][w] = 1 /\ g.sent[S][w] = 0
      /\ g.dtook[T][w] = 1 /\ g.dtook[X][w] = 1 /\ g.dtook[S][w] = 0
      /\ g.round = h.round /\ g.old = h.old /\ g.news = h.news
  BY <1>1, <1>4, <1>6 DEF Acts
<1>8. Contents(g, w)' /\ \A s \in Stream : Kept(h, g, s, w, h.sent[s][w])
  <2>1. UNCHANGED <<clump, data, class>>
    BY <1>2
  <2> HIDE DEF T, X, S
  <2> QED
    BY <1>1, <1>6, <2>1, SameContents
<1>9. /\ pc'[w] = l /\ dims' \in [Burst -> SUBSET (Worker \X (1 .. Rounds))]
      /\ \A v \in Worker \ {w} : pc'[v] = pc[v] /\ SameRanges(v)
      /\ Measured(g, w)'
  <2>1. /\ Measured(h, w) /\ h.round = round /\ round \in 0 .. Rounds /\ Worker # {}
        /\ data[w] \subseteq Burst /\ \A b \in data[w] : Home[b] = w
    BY <1>1 DEF WorkerOK, Agrees, RootOK, Shapes
  <2>2. \A b \in Burst :
          dims'[b] = IF b \in data[w] /\ dims[b] = {} THEN Told(Worker, round) ELSE dims[b]
    BY <1>2, <1>5, <2>1 DEF Normalised
  <2>3. pc'[w] = l /\ \A v \in Worker \ {w} : pc'[v] = pc[v] /\ SameRanges(v)
    BY <1>1, <1>3, <2>1, <2>2 DEF Shapes, SameRanges
  <2>4. /\ \A b \in data[w] : Arrives[b] <= round /\ dims'[b] = Told(Worker, Arrives[b])
        /\ \A b \in Burst \ data[w] : Home[b] = w => dims'[b] = {}
    <3>1. \A b \in data[w] : /\ Arrives[b] <= round
                             /\ dims[b] = IF Arrives[b] = round THEN {}
                                          ELSE Told(Worker, Arrives[b])
      <4>1. pc[w] = "dims"
        BY <1>2
      <4> QED
        BY <2>1, <4>1 DEF Measured
    <3>2. \A b \in data[w] : Told(Worker, Arrives[b]) # {}
      <4>1. \A b : <<w, Arrives[b]>> \in Told(Worker, Arrives[b])
        BY DEF Told
      <4> QED
        BY <4>1
    <3>3. \A b \in Burst \ data[w] : Home[b] = w => dims[b] = {}
      BY <2>1 DEF Measured
    <3> QED
      BY <2>1, <2>2, <3>1, <3>2, <3>3
  <2>5. dims' \in [Burst -> SUBSET (Worker \X (1 .. Rounds))]
    <3>1. dims \in [Burst -> SUBSET (Worker \X (1 .. Rounds))]
      BY <1>1 DEF Shapes
    <3>2. \A b \in data[w] : Arrives[b] \in 1 .. Rounds
      BY <2>1, TDBSCANAssumption
    <3>3. \A b \in Burst : dims'[b] \in SUBSET (Worker \X (1 .. Rounds))
      <4> SUFFICES ASSUME NEW b \in Burst
                   PROVE  dims'[b] \in SUBSET (Worker \X (1 .. Rounds))
        OBVIOUS
      <4>1. CASE b \in data[w]
        BY <2>4, <3>2, <4>1 DEF Told
      <4>2. CASE b \notin data[w]
        BY <2>2, <3>1, <4>2
      <4> QED
        BY <4>1, <4>2
    <3> DEFINE d == dims'
    <3>4. d = [b \in Burst |-> d[b]]
      BY <1>2 DEF Normalised
    <3> HIDE DEF d
    <3>5. d \in [Burst -> SUBSET (Worker \X (1 .. Rounds))]
      BY <3>3, <3>4 DEF d
    <3> QED
      BY <3>5 DEF d
  <2>6. Measured(g, w)'
    <3>1. /\ g.round = round /\ data'[w] = data[w] /\ pc'[w] # "dims"
          /\ ~(g.dtook["TDBSCAN"][w] <= 0)
      BY <1>2, <1>7, <2>1, <2>3
    <3>2. \A b \in Burst : Home[b] = w =>
            dims'[b] = IF b \notin data[w] THEN {} ELSE Told(Worker, Arrives[b])
      BY <2>1, <2>4
    <3> QED
      BY <2>4, <3>1, <3>2 DEF Measured
  <2> QED
    BY <2>3, <2>5, <2>6
<1>10. WorkerOK(g, w)'
  <2>1. Progress(g, w) = <<0, 1, 0, 1, 1, 0>>
    BY <1>7 DEF Progress
  <2>2. Progress(g, w) \in Places(l) /\ l \in {"barrier", "exited"}
    BY <2>1 DEF Places
  <2>3. globalModel[w] = h.old /\ class[w] = << >>
    BY <1>1, <1>4 DEF WorkerOK
  <2>4. \A b \in data[w] : Home[b] = w
    BY <1>1 DEF WorkerOK
  <2> QED
    BY <1>2, <1>7, <1>9, <2>2, <2>3, <2>4 DEF WorkerOK
<1>11. Agrees(g)'
  <2>1. /\ \A v \in Worker \ {w} : /\ pc'[v] = pc[v] /\ SameRanges(v)
                                   /\ globalModel'[v] = globalModel[v]
                                   /\ support'[v] = support[v]
        /\ h.sent[X][w] + 0 <= Length(X) /\ 0 \in Nat /\ 1 \in {0, 1}
        /\ UNCHANGED <<clump, filter, rootVars>> /\ ChangesOwn(h, w)
        /\ Sends(h, g, w, X, 0) /\ Receives(h, w, X, 1)
    BY <1>1, <1>2, <1>4, <1>5, <1>9 DEF Length, ChangesOwn, Sends, Receives
  <2>2. IF rpc \in {"dims", "barrier"} THEN g.sent["TDBSCAN"][w] = 0 /\ pc'[w] # "model"
        ELSE g.dtook["TDBSCAN"][w] >= 1
    BY <1>7, <1>9
  <2>3. Shapes'
    BY <1>1, <1>2, <1>3, <1>9 DEF Shapes, rootVars
  <2> HIDE DEF T, X, S
  <2> QED
    BY <1>1, <1>6, <1>8, <1>10, <2>1, <2>2, <2>3, WorkerFrame
<1> QED
  BY <1>11 DEF IInv

\* A back-end sends its noise and hulls: together its bursts, each once.
LEMMA SendLocalModelStep ==
  ASSUME NEW h, Agrees(h), UNCHANGED clump, NEW w \in Worker, SendLocalModel(w)
  PROVE  IInv'
<1> DEFINE T == "TDBSCAN"
           X == "XchangeDimensions"
           S == "Support"
           N == NoiseOf(data[w], LocalMinPoints)
           H == Hulls(data[w], LocalMinPoints)
<1>1. /\ w \in Node /\ Possible(h) /\ Queues(h) /\ Shapes /\ WorkerOK(h, w)
      /\ h.info[w] \in Counts(Nat) /\ h.sup[w] \in Counts(Range(clump))
      /\ Bursts(w) = data[w] /\ T \in Stream /\ X \in Stream /\ S \in Stream
  BY WorkerStart, StreamFacts
<1>2. /\ pc[w] = "model"
      /\ up' = [up EXCEPT ![T][w] = @ \o <<Packet("NOISE", N), Mark("ALL_NOISE_SENT"),
                                           Packet("ALL_HULLS", H), Mark("ALL_HULLS_SENT")>>]
      /\ pc' = [pc EXCEPT ![w] = "hulls"]
      /\ UNCHANGED <<clump, down, filter, data, dims, globalModel, class, support, rootVars>>
  BY DEF SendLocalModel, Goto
<1>3. /\ h.sent[T][w] = 0 /\ h.sent[X][w] = 1 /\ h.sent[S][w] = 0
      /\ h.dtook[T][w] = 1 /\ h.dtook[X][w] = 1 /\ h.dtook[S][w] = 0
  BY <1>1, <1>2, PlaceIs DEF Progress
<1>4. /\ N \in SUBSET Burst /\ H \in SUBSET SUBSET Burst /\ N \subseteq data[w]
      /\ N \cup UNION H = data[w] /\ N \cap UNION H = {}
      /\ Apart(H) /\ \A M \in H : OneClump(M)
  <2>1. data[w] \in SUBSET Burst
    BY <1>1 DEF Shapes
  <2>2. /\ H \in SUBSET SUBSET data[w] /\ N \in SUBSET data[w]
        /\ UNION H = data[w] \ N
        /\ Apart(H) /\ \A M \in H : OneClump(M)
    BY HullsIs
  <2> HIDE DEF N, H
  <2> QED
    BY <2>1, <2>2
<1> HIDE DEF N, H
<1>5. PICK g : Acts(h, g, w, T, 4, X, 0, N, H, h.info[w], h.sup[w])
  <2>1. /\ h.sent[T][w] + 4 <= 6 /\ h.dtook[X][w] + 0 <= 4
        /\ 4 \in Nat /\ 0 \in {0, 1}
    BY <1>3
  <2> HIDE DEF T, X, S
  <2> QED
    BY <1>1, <1>4, <2>1, ActsExists
<1>6. /\ g.sent[T][w] = 4 /\ g.sent[X][w] = 1 /\ g.sent[S][w] = 0
      /\ g.dtook[T][w] = 1 /\ g.dtook[X][w] = 1 /\ g.dtook[S][w] = 0
      /\ g.noise[w] = N /\ g.hulls[w] = H
      /\ g.info[w] = h.info[w] /\ g.sup[w] = h.sup[w]
      /\ g.round = h.round /\ g.old = h.old /\ g.news = h.news
  BY <1>1, <1>3, <1>5 DEF Acts
<1>7. \A s \in Stream : Kept(h, g, s, w, h.sent[s][w])
  BY <1>1, <1>3, <1>6 DEF Kept
<1>8. Contents(g, w)'
  <2>1. Contents(g, w)
    BY <1>1, <1>4, <1>6 DEF Contents
  <2>2. UNCHANGED <<clump, data, class>>
    BY <1>2
  <2> QED
    BY <2>1, <2>2, SameData
<1>9. Sends(h, g, w, T, 4)
  <2>1. /\ Script(g, T, w)[1] = Packet("NOISE", N)
        /\ Script(g, T, w)[2] = Mark("ALL_NOISE_SENT")
        /\ Script(g, T, w)[3] = Packet("ALL_HULLS", H)
        /\ Script(g, T, w)[4] = Mark("ALL_HULLS_SENT")
    BY <1>6, ScriptIs
  <2> DEFINE script == Script(g, T, w)
  <2> HIDE DEF script
  <2>2. Segment(script, 0, 0 + 4) = <<script[1], script[2], script[3], script[4]>>
    BY DEF Segment
  <2> QED
    BY <1>2, <1>3, <2>1, <2>2 DEF Sends, script
<1>10. /\ pc'[w] = "hulls" /\ \A v \in Worker \ {w} : pc'[v] = pc[v]
  BY <1>1, <1>2 DEF Shapes
<1>11. WorkerOK(g, w)'
  <2>1. Progress(g, w) = <<4, 1, 0, 1, 1, 0>>
    BY <1>6 DEF Progress
  <2>2. Progress(g, w) \in Places("hulls")
    BY <2>1 DEF Places
  <2>3. globalModel[w] = h.old /\ class[w] = << >>
    BY <1>1, <1>2, <1>3 DEF WorkerOK
  <2>4. \A b \in data[w] : Home[b] = w
    BY <1>1 DEF WorkerOK
  <2>5. Measured(g, w)'
    BY <1>1, <1>2, <1>3, <1>6, <1>10, MeasuredKept DEF WorkerOK, SameRanges
  <2> QED
    BY <1>2, <1>6, <1>10, <2>2, <2>3, <2>4, <2>5 DEF WorkerOK
<1>12. Agrees(g)'
  <2>1. /\ \A v \in Worker \ {w} : /\ pc'[v] = pc[v] /\ SameRanges(v)
                                   /\ globalModel'[v] = globalModel[v]
                                   /\ support'[v] = support[v]
        /\ UNCHANGED <<clump, filter, rootVars>>
    BY <1>2, <1>10 DEF SameRanges
  <2>6. ChangesOwn(h, w)
    BY <1>2, <1>3, <1>10 DEF ChangesOwn
  <2>2. h.sent[T][w] + 4 <= Length(T) /\ 4 \in Nat /\ 0 \in {0, 1}
    BY <1>3 DEF Length
  <2>3. Receives(h, w, X, 0)
    BY <1>2 DEF Receives
  <2>4. Shapes'
    BY <1>1, <1>2 DEF Shapes, rootVars
  <2>5. IF rpc \in {"dims", "barrier"} THEN g.sent["TDBSCAN"][w] = 0 /\ pc'[w] # "model"
        ELSE g.dtook["TDBSCAN"][w] >= 1
    <3>1. RootOK(h)
      BY DEF Agrees
    <3> QED
      BY <1>2, <1>6, <3>1 DEF RootOK
  <2> HIDE DEF T, X, S
  <2> QED
    BY <1>1, <1>5, <1>7, <1>8, <1>9, <1>11, <2>1, <2>2, <2>3, <2>4, <2>5, <2>6, WorkerFrame
<1> QED
  BY <1>12 DEF IInv

\* The model of a back-end grows by what the front-end broadcasts in this round.
LEMMA ReceiveGlobalModelStep ==
  ASSUME NEW h, Agrees(h), UNCHANGED clump, NEW w \in Worker, ReceiveGlobalModel(w)
  PROVE  IInv'
<1> DEFINE T == "TDBSCAN"
           X == "XchangeDimensions"
           S == "Support"
<1>1. /\ w \in Node /\ Possible(h) /\ Queues(h) /\ Shapes /\ WorkerOK(h, w) /\ Contents(h, w)
      /\ h.noise[w] \in SUBSET Burst /\ h.hulls[w] \in SUBSET SUBSET Burst
      /\ h.info[w] \in Counts(Nat) /\ h.sup[w] \in Counts(Range(clump))
      /\ T \in Stream /\ X \in Stream /\ S \in Stream
  BY WorkerStart, StreamFacts
<1>2. /\ pc[w] = "hulls" /\ Received(T, w, "ALL_HULLS")
      /\ globalModel' = [globalModel EXCEPT ![w] = @ \o Head(down[T][w]).body]
      /\ down' = [down EXCEPT ![T][w] = Tail(@)]
      /\ UNCHANGED <<clump, up, filter, pc, data, dims, class, support, rootVars>>
  BY DEF ReceiveGlobalModel, Take
<1>3. h.dtook[T][w] = 1 /\ 1 < h.dsent[T] /\ Head(down[T][w]).body = h.news
  BY <1>1, <1>2, DownTag
<1>4. /\ h.sent[T][w] = 4 /\ h.sent[X][w] = 1 /\ h.sent[S][w] = 0
      /\ h.dtook[X][w] = 1 /\ h.dtook[S][w] = 0
  BY <1>1, <1>2, PlaceIs DEF Progress
<1>5. PICK g : Acts(h, g, w, X, 0, T, 1, h.noise[w], h.hulls[w], h.info[w], h.sup[w])
  <2>1. /\ h.sent[X][w] + 0 <= 6 /\ h.dtook[T][w] + 1 <= 4
        /\ 0 \in Nat /\ 1 \in {0, 1}
    BY <1>3, <1>4
  <2> HIDE DEF T, X, S
  <2> QED
    BY <1>1, <2>1, ActsExists
<1>6. /\ g.sent[T][w] = 4 /\ g.sent[X][w] = 1 /\ g.sent[S][w] = 0
      /\ g.dtook[T][w] = 2 /\ g.dtook[X][w] = 1 /\ g.dtook[S][w] = 0
      /\ g.round = h.round /\ g.old = h.old /\ g.news = h.news
  BY <1>1, <1>3, <1>4, <1>5 DEF Acts
<1>7. Contents(g, w)' /\ \A s \in Stream : Kept(h, g, s, w, h.sent[s][w])
  <2>1. UNCHANGED <<clump, data, class>>
    BY <1>2
  <2> HIDE DEF T, X, S
  <2> QED
    BY <1>1, <1>5, <2>1, SameContents
<1>8. /\ globalModel'[w] = Model(g)
      /\ \A v \in Worker \ {w} : globalModel'[v] = globalModel[v]
  <2>1. globalModel[w] = h.old
    BY <1>1, <1>3 DEF WorkerOK
  <2> QED
    BY <1>1, <1>2, <1>3, <1>6, <2>1 DEF Shapes, Model
<1>9. WorkerOK(g, w)'
  <2>1. Progress(g, w) = <<4, 1, 0, 2, 1, 0>>
    BY <1>6 DEF Progress
  <2>2. Progress(g, w) \in Places("hulls")
    BY <2>1 DEF Places
  <2>3. class[w] = << >>
    BY <1>1, <1>2, <1>3, <1>4 DEF WorkerOK
  <2>4. \A b \in data[w] : Home[b] = w
    BY <1>1 DEF WorkerOK
  <2>5. Measured(g, w)'
    BY <1>1, <1>2, <1>6, MeasuredKept DEF WorkerOK, SameRanges
  <2> QED
    BY <1>2, <1>6, <1>8, <2>2, <2>3, <2>4, <2>5 DEF WorkerOK
<1>10. Agrees(g)'
  <2>1. /\ \A v \in Worker \ {w} : /\ pc'[v] = pc[v] /\ SameRanges(v)
                                   /\ globalModel'[v] = globalModel[v]
                                   /\ support'[v] = support[v]
        /\ UNCHANGED <<clump, filter, rootVars>>
    BY <1>2, <1>8 DEF SameRanges
  <2>6. ChangesOwn(h, w)
    BY <1>2, <1>4, <1>8 DEF ChangesOwn
  <2>2. h.sent[X][w] + 0 <= Length(X) /\ 0 \in Nat /\ 1 \in {0, 1}
    BY <1>4 DEF Length
  <2>3. Sends(h, g, w, X, 0) /\ Receives(h, w, T, 1)
    BY <1>2, <1>3 DEF Sends, Receives
  <2>4. Shapes'
    BY <1>1, <1>2 DEF Shapes, rootVars
  <2>5. IF rpc \in {"dims", "barrier"} THEN g.sent["TDBSCAN"][w] = 0 /\ pc'[w] # "model"
        ELSE g.dtook["TDBSCAN"][w] >= 1
    <3>1. RootOK(h)
      BY DEF Agrees
    <3> QED
      BY <1>4, <1>6, <3>1 DEF RootOK
  <2> HIDE DEF T, X, S
  <2> QED
    BY <1>1, <1>5, <1>7, <1>9, <2>1, <2>2, <2>3, <2>4, <2>5, <2>6, WorkerFrame
<1> QED
  BY <1>10 DEF IInv

\* The ids a back-end gives are numbers: 0, or that of a hull of the burst's clump, which
\* is none after the first hull made from the burst.
LEMMA ClassifyIs ==
  ASSUME NEW w \in Worker, NEW m \in Seq(SUBSET Burst), NEW l \in Classify(w, m)
  PROVE  /\ l \in [data[w] -> Nat]
         /\ \A b \in data[w] :
              /\ l[b] # 0 => l[b] \in DOMAIN m /\ \E x \in m[l[b]] : clump[x] = clump[b]
              /\ \A k \in DOMAIN m : b \in m[k] => l[b] \in DOMAIN m /\ l[b] <= k
<1>1. /\ l \in [data[w] -> 0 .. Len(m)] /\ Len(m) \in Nat /\ DOMAIN m = 1 .. Len(m)
      /\ \A b \in data[w] : l[b] \in Answers(b, m)
  BY DEF Classify
<1>2. ASSUME NEW b \in data[w]
      PROVE  /\ l[b] # 0 => l[b] \in DOMAIN m /\ \E x \in m[l[b]] : clump[x] = clump[b]
             /\ \A k \in DOMAIN m : b \in m[k] => l[b] \in DOMAIN m /\ l[b] <= k
  <2> DEFINE near == {k \in DOMAIN m : Touch({b}, m[k])}
             own == {k \in near : b \in m[k]}
  <2>1. l[b] \in IF own = {} THEN near \cup {0} ELSE {k \in near : \A j \in own : k <= j}
    BY <1>1 DEF Answers
  <2>2. \A k \in near : k \in DOMAIN m /\ \E x \in m[k] : clump[x] = clump[b]
    BY DEF Touch
  <2>3. \A k \in DOMAIN m : b \in m[k] => k \in own
    BY DEF Touch
  <2> HIDE DEF near, own
  <2>4. \A k \in own : l[b] \in near /\ l[b] <= k
    BY <2>1
  <2> QED
    BY <2>1, <2>2, <2>3, <2>4
<1> QED
  BY <1>1, <1>2

\* The cells a back-end names are those it has bursts in, each once.
LEMMA OwnCells ==
  ASSUME NEW w \in Worker, clump \in Layouts, data \in [Worker -> SUBSET Burst]
  PROVE  SetToBag({clump[b] : b \in data[w]}) = Tally(Cells(w), CellOf)
<1> DEFINE K == {clump[b] : b \in data[w]}
           of(k) == {x \in Cells(w) : CellOf[x] = k}
<1>1. data[w] \subseteq Burst /\ \A b \in Burst : clump[b] \in Range(clump)
  BY CellsOf
<1>2. Cells(w) = {x \in {w} \X Range(clump) : \E b \in data[x[1]] : clump[b] = x[2]}
  BY WorkersOf DEF Cells
<1>3. \A x \in Cells(w) : /\ x = <<w, x[2]>> /\ x[2] \in K /\ CellOf[x] = x[2]
  <2> SUFFICES ASSUME NEW x \in Cells(w)
               PROVE  x = <<w, x[2]>> /\ x[2] \in K /\ CellOf[x] = x[2]
    OBVIOUS
  <2>1. x \in {w} \X Range(clump) /\ \E b \in data[x[1]] : clump[b] = x[2]
    BY <1>2
  <2>2. x[1] = w /\ x = <<w, x[2]>> /\ x \in Worker \X Range(clump)
    BY <2>1
  <2> QED
    BY <2>1, <2>2 DEF CellOf
<1>4. \A k \in K : <<w, k>> \in Cells(w)
  <2> SUFFICES ASSUME NEW b \in data[w]
               PROVE  <<w, clump[b]>> \in Cells(w)
    OBVIOUS
  <2> DEFINE x == <<w, clump[b]>>
  <2>1. x \in {w} \X Range(clump) /\ x[1] = w /\ x[2] = clump[b]
    BY <1>1
  <2> QED
    BY <1>2, <2>1
<1>5. ASSUME NEW k \in K
      PROVE  Cardinality(of(k)) = 1
  <2>1. of(k) = {<<w, k>>}
    <3>1. <<w, k>> \in Cells(w) /\ CellOf[<<w, k>>] = k
      BY <1>3, <1>4
    <3>2. \A x \in of(k) : x = <<w, k>>
      BY <1>3
    <3> QED
      BY <3>1, <3>2
  <2> QED
    BY <2>1, FS_Singleton
<1>6. {CellOf[x] : x \in Cells(w)} = K
  <2>1. \A x \in Cells(w) : CellOf[x] \in K
    BY <1>3
  <2>2. \A k \in K : CellOf[<<w, k>>] = k /\ <<w, k>> \in Cells(w)
    BY <1>3, <1>4
  <2> HIDE DEF K
  <2> QED
    BY <2>1, <2>2
<1>7. Tally(Cells(w), CellOf) = [k \in K |-> Cardinality(of(k))]
  BY <1>6 DEF Tally
<1>8. SetToBag(K) = [k \in K |-> 1]
  BY DEF SetToBag
<1> HIDE DEF K, of
<1>9. Tally(Cells(w), CellOf) = [k \in K |-> 1]
  BY <1>5, <1>7
<1> QED
  BY <1>8, <1>9 DEF K

\* A back-end classifies with the model of all rounds, and names the cells it is in.
LEMMA ClassifyDataStep ==
  ASSUME NEW h, Agrees(h), UNCHANGED clump, NEW w \in Worker, ClassifyData(w)
  PROVE  IInv'
<1> DEFINE T == "TDBSCAN"
           X == "XchangeDimensions"
           S == "Support"
           B == Tally(Cells(w), CellOf)
<1>1. /\ w \in Node /\ Possible(h) /\ Queues(h) /\ Shapes /\ WorkerOK(h, w) /\ Contents(h, w)
      /\ h.noise[w] \in SUBSET Burst /\ h.hulls[w] \in SUBSET SUBSET Burst
      /\ h.info[w] \in Counts(Nat)
      /\ Bursts(w) = data[w] /\ T \in Stream /\ X \in Stream /\ S \in Stream
  BY WorkerStart, StreamFacts
<1>2. B \in Counts(Range(clump)) /\ SetToBag({clump[b] : b \in data[w]}) = B
  <2>1. clump \in Layouts /\ data \in [Worker -> SUBSET Burst]
    BY <1>1 DEF Shapes
  <2> QED
    BY <2>1, CellsOf, TallyType, OwnCells
<1>3. PICK n \in {0, 1} :
        /\ IF n = 1
             THEN /\ up' = [up EXCEPT ![S][w] = @ \o <<Packet("SUPPORT", B)>>]
                  /\ \E l \in Classify(w, globalModel[w]) : class' = [class EXCEPT ![w] = l]
             ELSE UNCHANGED <<up, class>>
        /\ pc' = [pc EXCEPT ![w] = IF n = 1 THEN "support" ELSE "exited"]
        /\ down' = [down EXCEPT ![T][w] = Tail(@)]
  BY <1>2 DEF ClassifyData, TakeAndSend, Take, Goto, Exit
<1>4. /\ pc[w] = "hulls" /\ Received(T, w, "ALL_HULLS_SENT")
      /\ UNCHANGED <<clump, filter, data, dims, globalModel, support, rootVars>>
  BY DEF ClassifyData
<1> HIDE DEF B
<1>5. /\ h.sent[T][w] = 4 /\ h.sent[X][w] = 1 /\ h.sent[S][w] = 0
      /\ h.dtook[T][w] = 2 /\ 2 < h.dsent[T] /\ h.dtook[X][w] = 1 /\ h.dtook[S][w] = 0
  <2>1. h.dtook[T][w] \in {-1, 2, 3} /\ h.dtook[T][w] < h.dsent[T]
    BY <1>1, <1>4, DownTag
  <2>2. Progress(h, w) \in {<<4, 1, 0, 1, 1, 0>>, <<4, 1, 0, 2, 1, 0>>}
    BY <1>1, <1>4, PlaceIs
  <2> QED
    BY <2>1, <2>2 DEF Progress
<1>6. PICK g : Acts(h, g, w, S, n, T, 1, h.noise[w], h.hulls[w], h.info[w], B)
  <2>1. /\ h.sent[S][w] + n <= 6 /\ h.dtook[T][w] + 1 <= 4
        /\ n \in Nat /\ 1 \in {0, 1}
    BY <1>5
  <2> HIDE DEF T, X, S
  <2> QED
    BY <1>1, <1>2, <2>1, ActsExists
<1>7. /\ g.sent[T][w] = 4 /\ g.sent[X][w] = 1 /\ g.sent[S][w] = n
      /\ g.dtook[T][w] = 3 /\ g.dtook[X][w] = 1 /\ g.dtook[S][w] = 0
      /\ g.noise[w] = h.noise[w] /\ g.hulls[w] = h.hulls[w]
      /\ g.info[w] = h.info[w] /\ g.sup[w] = B
      /\ g.round = h.round /\ g.old = h.old /\ g.news = h.news
  BY <1>1, <1>5, <1>6 DEF Acts
<1>8. \A s \in Stream : Kept(h, g, s, w, h.sent[s][w])
  BY <1>5, <1>7 DEF Kept
<1>9. /\ Bursts(w)' = Bursts(w) /\ Cells(w)' = Cells(w) /\ CellOf' = CellOf
      /\ \A M : OneClump(M)' <=> OneClump(M)
  BY <1>4 DEF Bursts, Cells, CellOf, OneClump
<1>10. Contents(g, w)'
  <2>1. /\ h.noise[w] \subseteq Bursts(w)
        /\ h.noise[w] \cup UNION h.hulls[w] = Bursts(w)
        /\ h.noise[w] \cap UNION h.hulls[w] = {}
        /\ Apart(h.hulls[w]) /\ \A M \in h.hulls[w] : OneClump(M)
    BY <1>1, <1>5 DEF Contents
  <2> QED
    BY <1>7, <1>9, <2>1 DEF Contents, B
<1>11. Sends(h, g, w, S, n)
  <2>1. Script(g, S, w)[1] = Packet("SUPPORT", B)
    BY <1>7, ScriptIs
  <2> DEFINE script == Script(g, S, w)
  <2> HIDE DEF script
  <2>2. Segment(script, 0, 0 + 1) = <<script[1]>>
    BY DEF Segment
  <2> QED
    BY <1>3, <1>5, <2>1, <2>2 DEF Sends, script
<1>12. /\ pc'[w] = (IF n = 1 THEN "support" ELSE "exited")
       /\ \A v \in Worker \ {w} : pc'[v] = pc[v] /\ class'[v] = class[v]
       /\ IF n = 1 THEN class'[w] \in Classify(w, globalModel[w]) ELSE class'[w] = class[w]
  BY <1>1, <1>3 DEF Shapes
<1>13. WorkerOK(g, w)'
  <2>1. Progress(g, w) = <<4, 1, n, 3, 1, 0>>
    BY <1>7 DEF Progress
  <2>2. Progress(g, w) \in Places(IF n = 1 THEN "support" ELSE "exited")
    BY <1>3, <2>1 DEF Places
  <2>3. globalModel[w] = Model(g) /\ class[w] = << >>
    <3>1. Model(g) = Model(h)
      BY <1>7 DEF Model
    <3> QED
      BY <1>1, <1>4, <1>5, <3>1 DEF WorkerOK
  <2>4. \A b \in data[w] : Home[b] = w
    BY <1>1 DEF WorkerOK
  <2>5. Classify(w, Model(g))' = Classify(w, Model(g))
    BY <1>4 DEF Classify, Answers, Touch
  <2>6. n = 1 \/ n = 0
    OBVIOUS
  <2>7. Measured(g, w)'
    BY <1>1, <1>4, <1>7, <1>12, <2>6, MeasuredKept DEF WorkerOK, SameRanges
  <2> QED
    BY <1>4, <1>7, <1>12, <2>2, <2>3, <2>4, <2>5, <2>6, <2>7 DEF WorkerOK
<1>14. Agrees(g)'
  <2>1. /\ \A v \in Worker \ {w} : /\ pc'[v] = pc[v] /\ SameRanges(v)
                                   /\ globalModel'[v] = globalModel[v]
                                   /\ support'[v] = support[v]
        /\ UNCHANGED <<clump, filter, rootVars>>
    BY <1>4, <1>12 DEF SameRanges
  <2>2. h.sent[S][w] + n <= Length(S) /\ n \in Nat /\ 1 \in {0, 1}
    BY <1>5 DEF Length
  <2>3. Receives(h, w, T, 1)
    BY <1>3, <1>5 DEF Receives
  <2>4. Shapes'
    BY <1>1, <1>3, <1>4 DEF Shapes, rootVars
  <2>5. IF rpc \in {"dims", "barrier"} THEN g.sent["TDBSCAN"][w] = 0 /\ pc'[w] # "model"
        ELSE g.dtook["TDBSCAN"][w] >= 1
    <3>1. RootOK(h)
      BY DEF Agrees
    <3> QED
      BY <1>5, <1>7, <3>1 DEF RootOK
  <2>6. ChangesOwn(h, w)
    BY <1>4, <1>5, <1>12 DEF ChangesOwn
  <2> HIDE DEF T, X, S
  <2> QED
    BY <1>1, <1>6, <1>8, <1>10, <1>11, <1>13, <2>1, <2>2, <2>3, <2>4, <2>5, <2>6, WorkerFrame
<1> QED
  BY <1>14 DEF IInv

\* What a back-end reports of its clusters is the tally of the ids of its bursts.
LEMMA IndividualsAre ==
  ASSUME NEW w \in Worker, NEW m \in Seq(SUBSET Burst), class[w] \in Classify(w, m), Extracted
  PROVE  Individuals(w) = Tally(data[w], IdOf) /\ \A b \in data[w] : IdOf[b] = class[w][b]
<1>1. class[w] \in [data[w] -> Nat]
  BY ClassifyIs
<1>2. \A b \in data[w] : IdOf[b] = class[w][b]
  BY <1>1 DEF Extracted, IdOf
<1>3. Individuals(w) = Tally(data[w], class[w])
  <2>1. Range(class[w]) = {class[w][b] : b \in data[w]}
    BY <1>1 DEF Range
  <2> QED
    BY <2>1 DEF Individuals, Tally
<1> DEFINE key1 == class[w]
           key2 == IdOf
<1>4. \A b \in data[w] : key1[b] = key2[b]
  BY <1>2
<1> HIDE DEF key1, key2
<1>5. Tally(data[w], key1) = Tally(data[w], key2)
  BY <1>4, TallySame
<1> QED
  BY <1>2, <1>3, <1>5 DEF key1, key2

\* Sequences of one and of two packets.
LEMMA ShortQueues ==
  ASSUME NEW x, NEW y
  PROVE  /\ Head(<<x>>) = x /\ Tail(<<x>>) = << >> /\ <<x>> # << >>
         /\ Head(<<x, y>>) = x /\ Tail(<<x, y>>) = <<y>> /\ <<x, y>> # << >>
         /\ << >> \o <<x>> = <<x>> /\ <<x>> \o << >> = <<x>>
         /\ << >> \o <<x, y>> = <<x, y>>
         /\ << >> \o << >> = << >>
         /\ <<x>> \o <<y>> = <<x, y>> /\ <<x, y>> \o << >> = <<x, y>>
         /\ Append(<< >>, x) = <<x>> /\ Append(<<x>>, y) = <<x, y>>
<1>1. Head(<<x>>) = x /\ <<x>> # << >> /\ Head(<<x, y>>) = x /\ <<x, y>> # << >>
  OBVIOUS
<1>2. Tail(<<x>>) = << >>
  OBVIOUS
<1>3. Tail(<<x, y>>) = <<y>>
  OBVIOUS
<1>4. << >> \o <<x>> = <<x>> /\ <<x>> \o << >> = <<x>> /\ << >> \o << >> = << >>
  OBVIOUS
<1>5. << >> \o <<x, y>> = <<x, y>> /\ <<x, y>> \o << >> = <<x, y>>
  OBVIOUS
<1>6. <<x>> \o <<y>> = <<x, y>>
  <2> DEFINE s == <<x, y>>
  <2>1. Segment(s, 0, 1) = <<x>> /\ Segment(s, 0, 1 + 1) = <<x, y>> /\ s[1 + 1] = y
    BY DEF Segment
  <2> HIDE DEF s
  <2>2. Segment(s, 0, 1) \o <<s[1 + 1]>> = Segment(s, 0, 1 + 1)
    BY SegmentAppend
  <2> QED
    BY <2>1, <2>2
<1>7. Append(<< >>, x) = <<x>>
  OBVIOUS
<1> QED
  BY <1>1, <1>2, <1>3, <1>4, <1>5, <1>6, <1>7, AppendOne

\* The two ways in which a back-end ends its part of the round: with a report of its
\* clusters, and without one.
Informs(w) ==
  \/ /\ TakeAndSend("Support", w, "TDBSCAN", <<Packet("CLUSTERS_INFO", Individuals(w)),
                                               Packet("STATISTICS", {w})>>)
     /\ Goto(w, "config")
  \/ /\ TakeAndSend("Support", w, "TDBSCAN", <<Packet("CLUSTERS_INFO", Individuals(w))>>)
     /\ Exit(w)

Withholds(w) ==
  \/ /\ TakeAndSend("Support", w, "TDBSCAN", <<Packet("STATISTICS", {w})>>)
     /\ Goto(w, "config")
  \/ /\ TakeAndSend("Support", w, "TDBSCAN", << >>)
     /\ Exit(w)

\* There is no third.
LEMMA ReportsOrNot ==
  ASSUME NEW w \in Worker, ReportResults(w)
  PROVE  /\ pc[w] = "support" /\ Received("Support", w, "SUPPORT")
         /\ support' = [support EXCEPT ![w] = Head(down["Support"][w]).body]
         /\ UNCHANGED <<filter, data, dims, globalModel, class, rootVars>>
         /\ Informs(w) \/ Withholds(w)
<1> DEFINE x == Packet("CLUSTERS_INFO", Individuals(w))
           y == Packet("STATISTICS", {w})
<1>1. PICK scripts \in {<<x>>} \cup (IF "scripts" \in Failures THEN {<< >>} ELSE {}) :
        \/ /\ TakeAndSend("Support", w, "TDBSCAN", Append(scripts, y))
           /\ Goto(w, "config")
        \/ /\ "process" \in Failures
           /\ TakeAndSend("Support", w, "TDBSCAN", scripts)
           /\ Exit(w)
  BY DEF ReportResults
<1>2. scripts = <<x>> \/ scripts = << >>
  BY <1>1
<1> DEFINE a == x
           b == y
<1>3. Append(<<a>>, b) = <<a, b>> /\ Append(<< >>, b) = <<b>>
  <2> HIDE DEF a, b
  <2> QED
    BY ShortQueues
<1>4. Append(scripts, y) = IF scripts = << >> THEN <<y>> ELSE <<x, y>>
  BY <1>2, <1>3
<1> HIDE DEF x, y
<1>5. Informs(w) \/ Withholds(w)
  <2>1. CASE scripts = <<x>>
    <3>1. Append(scripts, y) = <<x, y>>
      BY <1>4, <2>1, ShortQueues
    <3> QED
      BY <1>1, <2>1, <3>1 DEF Informs, x, y
  <2>2. CASE scripts = << >>
    <3>1. Append(scripts, y) = <<y>>
      BY <1>4, <2>2
    <3> QED
      BY <1>1, <2>2, <3>1 DEF Withholds, y
  <2> QED
    BY <1>2, <2>1, <2>2
<1> QED
  BY <1>5 DEF ReportResults

\* The report of a back-end is about its bursts, with the ids it gave them.
LEMMA ReportResultsStep ==
  ASSUME NEW h, Agrees(h), UNCHANGED clump, NEW w \in Worker, ReportResults(w), Informs(w)
  PROVE  IInv'
<1> DEFINE T == "TDBSCAN"
           X == "XchangeDimensions"
           S == "Support"
           I == Tally(data[w], IdOf)
<1>1. /\ w \in Node /\ Possible(h) /\ Queues(h) /\ Shapes /\ WorkerOK(h, w) /\ Contents(h, w)
      /\ h.noise[w] \in SUBSET Burst /\ h.hulls[w] \in SUBSET SUBSET Burst
      /\ h.sup[w] \in Counts(Range(clump))
      /\ Bursts(w) = data[w] /\ Under(w) = {w}
      /\ T \in Stream /\ X \in Stream /\ S \in Stream
  BY WorkerStart, StreamFacts
<1>2. /\ pc[w] = "support" /\ Received(S, w, "SUPPORT")
      /\ support' = [support EXCEPT ![w] = Head(down[S][w]).body]
      /\ UNCHANGED <<clump, filter, data, dims, globalModel, class, rootVars>>
  BY DEF ReportResults
<1>3. PICK n \in {1, 2} :
        /\ up' = [up EXCEPT ![T][w] = @ \o
                    IF n = 2 THEN <<Packet("CLUSTERS_INFO", Individuals(w)),
                                    Packet("STATISTICS", {w})>>
                             ELSE <<Packet("CLUSTERS_INFO", Individuals(w))>>]
        /\ pc' = [pc EXCEPT ![w] = IF n = 2 THEN "config" ELSE "exited"]
        /\ down' = [down EXCEPT ![S][w] = Tail(@)]
  <2>1. CASE /\ TakeAndSend(S, w, T, <<Packet("CLUSTERS_INFO", Individuals(w)),
                                        Packet("STATISTICS", {w})>>)
             /\ Goto(w, "config")
    <3>1. 2 \in {1, 2}
      OBVIOUS
    <3> QED
      BY <2>1, <3>1 DEF TakeAndSend, Goto
  <2>2. CASE TakeAndSend(S, w, T, <<Packet("CLUSTERS_INFO", Individuals(w))>>) /\ Exit(w)
    <3>1. 1 \in {1, 2} /\ 1 # 2
      OBVIOUS
    <3> QED
      BY <2>2, <3>1 DEF TakeAndSend, Exit
  <2> QED
    BY <2>1, <2>2 DEF Informs
<1>4. /\ h.sent[T][w] = 4 /\ h.sent[X][w] = 1 /\ h.sent[S][w] = 1
      /\ h.dtook[T][w] = 3 /\ h.dtook[X][w] = 1 /\ h.dtook[S][w] = 0
  <2>1. Progress(h, w) = <<4, 1, 1, 3, 1, 0>>
    BY <1>1, <1>2, PlaceIs
  <2> QED
    BY <2>1 DEF Progress
<1>5. 0 < h.dsent[S] /\ Head(down[S][w]).body = h.sup[Root]
      /\ h.sup[Root] \in Counts(Range(clump))
  <2>1. h.dsent[S] \in 0 .. 4 /\ 0 # h.dsent[S]
    BY <1>1, <1>2, <1>4, DownQueue, AccountFacts DEF Received
  <2>2. Head(down[S][w]) = DownScript(h, S)[h.dtook[S][w] + 1] /\ h.dtook[S][w] + 1 = 1
    BY <1>1, <1>4, <2>1, DownQueue
  <2>3. Head(down[S][w]) = Packet("SUPPORT", h.sup[Root])
    BY <2>2, DownScriptIs
  <2> QED
    BY <1>1, <2>1, <2>3, PacketIs, ContentsType, NodeFacts
<1>6. class[w] \in Classify(w, Model(h)) /\ globalModel[w] = Model(h)
      /\ \A b \in data[w] : Home[b] = w
  BY <1>1, <1>4 DEF WorkerOK
<1>7. Individuals(w) = I /\ I \in Counts(Nat)
  <2>1. Extracted
    BY DEF Agrees, Shapes, WorkerOK, Extracted
  <2>2. Model(h) \in Seq(SUBSET Burst)
    BY <1>1 DEF Possible, Accounts, Model
  <2>3. Individuals(w) = I
    BY <1>6, <2>1, <2>2, IndividualsAre
  <2>4. IsFiniteSet(data[w]) /\ \A b \in data[w] : IdOf[b] \in Nat
    <3>1. data[w] \subseteq Burst
      BY <2>1 DEF Extracted
    <3> QED
      BY <3>1, FiniteFacts, FS_Subset, IdsAreNumbers
  <2>5. I \in Counts(Nat)
    BY <2>4, TallyType
  <2> QED
    BY <2>3, <2>5
<1> HIDE DEF I
<1>8. PICK g : Acts(h, g, w, T, n, S, 1, h.noise[w], h.hulls[w], I, h.sup[w])
  <2>1. /\ h.sent[T][w] + n <= 6 /\ h.dtook[S][w] + 1 <= 4
        /\ n \in Nat /\ 1 \in {0, 1}
    BY <1>4
  <2> HIDE DEF T, X, S
  <2> QED
    BY <1>1, <1>7, <2>1, ActsExists
<1>9. /\ g.sent[T][w] = 4 + n /\ g.sent[X][w] = 1 /\ g.sent[S][w] = 1
      /\ g.dtook[T][w] = 3 /\ g.dtook[X][w] = 1 /\ g.dtook[S][w] = 1
      /\ g.noise[w] = h.noise[w] /\ g.hulls[w] = h.hulls[w]
      /\ g.info[w] = I /\ g.sup[w] = h.sup[w] /\ g.sup[Root] = h.sup[Root]
      /\ g.round = h.round /\ g.old = h.old /\ g.news = h.news
  BY <1>1, <1>4, <1>8, NodeFacts DEF Acts
<1>10. \A s \in Stream : Kept(h, g, s, w, h.sent[s][w])
  BY <1>4, <1>9 DEF Kept
<1>11. Contents(g, w)'
  <2>1. /\ h.noise[w] \subseteq Bursts(w)
        /\ h.noise[w] \cup UNION h.hulls[w] = Bursts(w)
        /\ h.noise[w] \cap UNION h.hulls[w] = {}
        /\ Apart(h.hulls[w]) /\ \A M \in h.hulls[w] : OneClump(M)
        /\ h.sup[w] = Tally(Cells(w), CellOf)
    BY <1>1, <1>4 DEF Contents
  <2>2. Contents(g, w)
    BY <1>1, <1>9, <2>1 DEF Contents, I
  <2>3. UNCHANGED <<clump, data, class>>
    BY <1>2
  <2> QED
    BY <2>2, <2>3, SameData
<1>12. Sends(h, g, w, T, n)
  <2>1. /\ Script(g, T, w)[5] = Packet("CLUSTERS_INFO", Individuals(w))
        /\ Script(g, T, w)[6] = Packet("STATISTICS", {w})
    <3>1. /\ Script(g, T, w)[5] = Packet("CLUSTERS_INFO", g.info[w])
          /\ Script(g, T, w)[6] = Packet("STATISTICS", Under(w))
      BY ScriptIs
    <3> QED
      BY <1>1, <1>7, <1>9, <3>1
  <2> DEFINE script == Script(g, T, w)
  <2> HIDE DEF script
  <2>2. /\ Segment(script, 4, 4 + 1) = <<script[5]>>
        /\ Segment(script, 4, 4 + 2) = <<script[5], script[6]>>
    BY DEF Segment
  <2>3. n = 1 \/ n = 2
    OBVIOUS
  <2> QED
    BY <1>3, <1>4, <2>1, <2>2, <2>3 DEF Sends, script
<1>13. /\ pc'[w] = (IF n = 2 THEN "config" ELSE "exited")
       /\ support'[w] = h.sup[Root]
       /\ \A v \in Worker \ {w} : pc'[v] = pc[v] /\ support'[v] = support[v]
       /\ support' \in [Worker -> Counts(Range(clump))]
  BY <1>1, <1>2, <1>3, <1>5 DEF Shapes
<1>14. WorkerOK(g, w)'
  <2>1. Progress(g, w) = <<4 + n, 1, 1, 3, 1, 1>> /\ (n = 1 \/ n = 2)
    BY <1>9 DEF Progress
  <2>2. Progress(g, w) \in Places(IF n = 2 THEN "config" ELSE "exited")
    BY <2>1 DEF Places
  <2>3. Model(g) = Model(h)
    BY <1>9 DEF Model
  <2>4. Classify(w, Model(g))' = Classify(w, Model(g))
    BY <1>2 DEF Classify, Answers, Touch
  <2>5. n = 1 \/ n = 2
    OBVIOUS
  <2>6. Measured(g, w)'
    BY <1>1, <1>2, <1>9, <1>13, <2>5, MeasuredKept DEF WorkerOK, SameRanges
  <2> QED
    BY <1>2, <1>6, <1>9, <1>13, <2>1, <2>2, <2>3, <2>4, <2>6 DEF WorkerOK
<1>15. Agrees(g)'
  <2>1. /\ \A v \in Worker \ {w} : /\ pc'[v] = pc[v] /\ SameRanges(v)
                                   /\ globalModel'[v] = globalModel[v]
                                   /\ support'[v] = support[v]
        /\ UNCHANGED <<clump, filter, rootVars>>
    BY <1>2, <1>13 DEF SameRanges
  <2>2. h.sent[T][w] + n <= Length(T) /\ n \in Nat /\ 1 \in {0, 1}
    BY <1>4 DEF Length
  <2>3. Receives(h, w, S, 1)
    BY <1>3, <1>4, <1>5 DEF Receives
  <2>4. Shapes'
    BY <1>1, <1>2, <1>3, <1>13 DEF Shapes, rootVars
  <2>5. IF rpc \in {"dims", "barrier"} THEN g.sent["TDBSCAN"][w] = 0 /\ pc'[w] # "model"
        ELSE g.dtook["TDBSCAN"][w] >= 1
    <3>1. RootOK(h)
      BY DEF Agrees
    <3> QED
      BY <1>4, <1>9, <3>1 DEF RootOK
  <2>6. ChangesOwn(h, w)
    BY <1>2 DEF ChangesOwn
  <2> HIDE DEF T, X, S
  <2> QED
    BY <1>1, <1>8, <1>10, <1>11, <1>12, <1>14, <2>1, <2>2, <2>3, <2>4, <2>5, <2>6, WorkerFrame
<1> QED
  BY <1>15 DEF IInv

-----------------------------------------------------------------------------
(***************************************************************************)
(* The steps of the front-end.                                             *)
(***************************************************************************)
\* g is the account when the front-end has taken k packets from stream us and broadcast
\* n on stream ds, news being what it adds to the model.
RootActs(h, g, us, k, ds, n, news) ==
  /\ g \in Accounts
  /\ \A s \in Stream, m \in Node :
       g.took[s][m] = IF s = us /\ m = Root THEN h.took[s][m] + k ELSE h.took[s][m]
  /\ \A s \in Stream : g.dsent[s] = IF s = ds THEN h.dsent[s] + n ELSE h.dsent[s]
  /\ g.sent = h.sent /\ g.dtook = h.dtook /\ g.noise = h.noise /\ g.hulls = h.hulls
  /\ g.info = h.info /\ g.sup = h.sup /\ g.round = h.round /\ g.old = h.old /\ g.news = news

\* There is such an account.
LEMMA RootActsExists ==
  ASSUME NEW h, Possible(h), NEW us \in Stream, NEW k \in Nat, NEW ds \in Stream, NEW n \in Nat,
         NEW news \in Seq(SUBSET Burst), h.took[us][Root] + k <= 6, h.dsent[ds] + n <= 4
  PROVE  \E g : RootActs(h, g, us, k, ds, n, news)
<1>1. Root \in Node /\ h \in Accounts
  BY NodeFacts DEF Possible
<1>2. /\ \A s \in Stream, m \in Node : h.took[s][m] \in 0 .. 6
      /\ \A s \in Stream : h.dsent[s] \in 0 .. 4
  <2>1. \A s \in Stream : h.took[s] \in [Node -> 0 .. 6] /\ h.dsent[s] \in 0 .. 4
    BY <1>1 DEF Accounts
  <2> QED
    BY <2>1
<1>3. h.took[us][Root] + k \in 0 .. 6 /\ h.dsent[ds] + n \in 0 .. 4
  BY <1>1, <1>2, SMTT(20)
<1> DEFINE took == [s \in Stream |-> [m \in Node |-> IF s = us /\ m = Root THEN h.took[s][m] + k
                                                     ELSE h.took[s][m]]]
           dsent == [s \in Stream |-> IF s = ds THEN h.dsent[s] + n ELSE h.dsent[s]]
           g == [h EXCEPT !.took = took, !.dsent = dsent, !.news = news]
<1>4. /\ took \in [Stream -> [Node -> 0 .. 6]]
      /\ \A s \in Stream, m \in Node :
           took[s][m] = IF s = us /\ m = Root THEN h.took[s][m] + k ELSE h.took[s][m]
  BY <1>2, <1>3
<1>5. /\ dsent \in [Stream -> 0 .. 4]
      /\ \A s \in Stream : dsent[s] = IF s = ds THEN h.dsent[s] + n ELSE h.dsent[s]
  BY <1>2, <1>3
<1> HIDE DEF took, dsent
<1>6. /\ g \in Accounts
      /\ g.took = took /\ g.dsent = dsent /\ g.news = news
      /\ g.sent = h.sent /\ g.dtook = h.dtook /\ g.noise = h.noise /\ g.hulls = h.hulls
      /\ g.info = h.info /\ g.sup = h.sup /\ g.round = h.round /\ g.old = h.old
  BY <1>1, <1>4, <1>5 DEF Accounts
<1> HIDE DEF g
<1>7. RootActs(h, g, us, k, ds, n, news)
  BY <1>4, <1>5, <1>6 DEF RootActs
<1> QED
  BY <1>7

\* What the front-end does to the network when it acts.
RootSends(h, g, ds, n) ==
  \/ n = 0 /\ UNCHANGED down
  \/ Broadcast(ds, Segment(DownScript(g, ds), h.dsent[ds], h.dsent[ds] + n))

RootTook(h, us, k) ==
  \/ k = 0 /\ UNCHANGED up
  \/ /\ k = 1 /\ h.took[us][Root] < h.sent[us][Root]
     /\ RootTakes(us)

\* The queues agree with the account then.
LEMMA RootQueues ==
  ASSUME NEW h, NEW g, NEW us \in Stream, NEW k \in {0, 1}, NEW ds \in Stream, NEW n \in Nat,
         NEW news, Possible(h), Queues(h), RootActs(h, g, us, k, ds, n, news),
         RootSends(h, g, ds, n), RootTook(h, us, k),
         news = h.news \/ h.dsent["TDBSCAN"] < 2
  PROVE  Queues(g)'
<1>1. Root \in Node
  BY NodeFacts
<1>2. /\ \A s \in Stream, m \in Node :
           /\ h.sent[s][m] \in 0 .. 6 /\ h.took[s][m] \in 0 .. 6
           /\ h.took[s][m] <= h.sent[s][m]
      /\ \A s \in Stream, v \in Worker :
           h.dtook[s][v] \in -1 .. 4 /\ h.dsent[s] \in 0 .. 4 /\ h.dtook[s][v] <= h.dsent[s]
      /\ \A s \in Stream : h.dsent[s] \in 0 .. 4
  <2>1. \A s \in Stream : h.dsent[s] \in 0 .. 4
    BY DEF Possible, Accounts
  <2> QED
    BY <2>1, AccountFacts
<1>3. ASSUME NEW s \in Stream, NEW m \in Node
      PROVE  up'[s][m] = Segment(Script(g, s, m), g.took[s][m], g.sent[s][m])
  <2>1. Kept(h, g, s, m, h.sent[s][m])
    BY DEF RootActs, Kept
  <2> DEFINE S == Script(g, s, m)
             a == h.took[s][m]
             b == h.sent[s][m]
  <2>2. up[s][m] = Segment(S, a, b)
    BY <2>1, UpChange
  <2>3. a \in Int /\ b \in Int /\ a <= b /\ g.sent[s][m] = b
    BY <1>2 DEF RootActs
  <2>4. CASE s = us /\ m = Root /\ k = 1
    <3>1. g.took[s][m] = a + 1
      BY <2>4 DEF RootActs
    <3>2. up'[s][m] = Tail(up[s][m]) /\ a < b
      <4>1. DOMAIN up = Stream /\ DOMAIN up[s] = Node
        BY DEF Queues
      <4>2. k # 0
        BY <2>4
      <4>3. h.took[us][Root] < h.sent[us][Root] /\ up' = [up EXCEPT ![us][Root] = Tail(@)]
        BY <4>2 DEF RootTook, RootTakes
      <4> QED
        BY <2>4, <4>1, <4>3
    <3> HIDE DEF S, a, b
    <3>3. Tail(Segment(S, a, b)) = Segment(S, a + 1, b)
      BY <2>3, <3>2, QueueChange
    <3> QED
      BY <2>2, <2>3, <3>1, <3>2, <3>3 DEF S
  <2>5. CASE ~(s = us /\ m = Root /\ k = 1)
    <3>1. g.took[s][m] = a
      <4>1. s = us /\ m = Root => k = 0 /\ a + k = a
        BY <2>3, <2>5
      <4> QED
        BY <4>1 DEF RootActs
    <3>2. up'[s][m] = up[s][m]
      BY <2>5 DEF RootTook, RootTakes, Queues
    <3> QED
      BY <2>2, <2>3, <3>1, <3>2
  <2> QED
    BY <2>4, <2>5
<1>4. ASSUME NEW s \in Stream, NEW v \in Worker
      PROVE  down'[s][v] = Segment(DownScript(g, s), g.dtook[s][v], g.dsent[s])
  <2>1. KeptDown(h, g, s, h.dsent[s])
    <3>1. s = "TDBSCAN" /\ h.dsent[s] >= 2 => g.news = h.news
      BY <1>2, StreamFacts DEF RootActs
    <3> QED
      BY <3>1 DEF KeptDown, RootActs
  <2> DEFINE S == DownScript(g, s)
             a == h.dtook[s][v]
             b == h.dsent[s]
  <2>2. down[s][v] = Segment(S, a, b)
    BY <2>1, DownChange
  <2>3. a \in Int /\ b \in Int /\ a <= b /\ g.dtook[s][v] = a
    BY <1>2 DEF RootActs
  <2>4. CASE s = ds
    <3>1. g.dsent[s] = b + n
      BY <2>4 DEF RootActs
    <3>2. down'[s][v] = down[s][v] \o Segment(S, b, b + n)
      <4>1. CASE n = 0 /\ UNCHANGED down
        <5>1. b + n = b
          BY <2>3, <4>1
        <5> HIDE DEF S, a, b
        <5>2. Segment(S, a, b) \o Segment(S, b, b) = Segment(S, a, b)
          BY <2>3, SegmentConcat
        <5> QED
          BY <2>2, <4>1, <5>1, <5>2
      <4>2. CASE Broadcast(ds, Segment(DownScript(g, ds), h.dsent[ds], h.dsent[ds] + n))
        BY <2>4, <4>2 DEF Queues, Broadcast
      <4> QED
        BY <4>1, <4>2 DEF RootSends
    <3> HIDE DEF S, a, b
    <3>3. Segment(S, a, b) \o Segment(S, b, b + n) = Segment(S, a, b + n)
      BY <2>3, QueueChange
    <3> QED
      BY <2>2, <2>3, <3>1, <3>2, <3>3 DEF S
  <2>5. CASE s # ds
    <3>1. g.dsent[s] = b
      BY <2>5 DEF RootActs
    <3>2. down'[s][v] = down[s][v]
      BY <2>5 DEF RootSends, Broadcast, Queues
    <3> QED
      BY <2>2, <2>3, <3>1, <3>2
  <2> QED
    BY <2>4, <2>5
<1>5. /\ DOMAIN up' = Stream /\ DOMAIN down' = Stream
      /\ \A s \in Stream : DOMAIN up'[s] = Node /\ DOMAIN down'[s] = Worker
  <2>1. DOMAIN up' = Stream /\ \A s \in Stream : DOMAIN up'[s] = Node
    BY DEF RootTook, RootTakes, Queues
  <2>2. DOMAIN down' = Stream /\ \A s \in Stream : DOMAIN down'[s] = Worker
    BY DEF RootSends, Broadcast, Queues
  <2> QED
    BY <2>1, <2>2
<1> QED
  BY <1>3, <1>4, <1>5 DEF Queues

\* All that has to be shown of a front-end's step is about the front-end itself.
LEMMA RootFrame ==
  ASSUME NEW h, NEW g, NEW us \in Stream, NEW k \in {0, 1}, NEW ds \in Stream, NEW n \in Nat,
         NEW news, Agrees(h), RootActs(h, g, us, k, ds, n, news),
         RootSends(h, g, ds, n), RootTook(h, us, k),
         \/ news = h.news /\ (g.dsent["TDBSCAN"] < 3 => h.dsent["TDBSCAN"] < 3)
         \/ rpc = "hulls" /\ h.dsent["TDBSCAN"] = 1 /\ g.dsent["TDBSCAN"] = 3,
         UNCHANGED <<clump, filter, workerVars>>, Shapes', RootOK(g)'
  PROVE  Agrees(g)'
<1>1. Root \in Node /\ Root \notin Worker /\ Worker \subseteq Node
      /\ \A p \in Filter : \A c \in Children(p) : c \in Node /\ c # Root
  BY NodeFacts
<1>2. Possible(h) /\ Queues(h) /\ RootOK(h)
  BY DEF Agrees
<1>3. /\ \A s \in Stream, m \in Node :
           /\ h.sent[s][m] \in 0 .. 6 /\ h.took[s][m] \in 0 .. 6
           /\ h.took[s][m] <= h.sent[s][m] /\ h.sent[s][m] <= Length(s)
      /\ \A s \in Stream, v \in Worker :
           h.dtook[s][v] \in -1 .. 4 /\ h.dtook[s][v] <= h.dsent[s]
      /\ \A s \in Stream : h.dsent[s] \in 0 .. 4
  <2>1. \A s \in Stream : h.dsent[s] \in 0 .. 4
    BY <1>2 DEF Possible, Accounts
  <2> QED
    BY <1>2, <2>1, AccountFacts DEF Possible
<1>4. /\ g \in Accounts
      /\ \A s \in Stream, m \in Node :
           g.took[s][m] = IF s = us /\ m = Root THEN h.took[s][m] + k ELSE h.took[s][m]
      /\ \A s \in Stream : g.dsent[s] = IF s = ds THEN h.dsent[s] + n ELSE h.dsent[s]
      /\ g.sent = h.sent /\ g.dtook = h.dtook /\ g.noise = h.noise /\ g.hulls = h.hulls
      /\ g.info = h.info /\ g.sup = h.sup /\ g.round = h.round /\ g.old = h.old /\ g.news = news
  BY DEF RootActs
<1>5. UNCHANGED <<clump, data, class>>
  BY DEF workerVars
<1>6. Possible(g)
  <2>1. ASSUME NEW s \in Stream, NEW m \in Node
        PROVE  g.took[s][m] <= g.sent[s][m] /\ g.sent[s][m] <= Length(s)
    <3>1. CASE s = us /\ m = Root
      <4>1. h.took[us][Root] + k <= h.sent[us][Root]
        BY <1>1, <1>3 DEF RootTook
      <4> QED
        BY <1>3, <1>4, <3>1, <4>1
    <3>2. CASE ~(s = us /\ m = Root)
      BY <1>3, <1>4, <3>2
    <3> QED
      BY <3>1, <3>2
  <2>2. ASSUME NEW s \in Stream, NEW v \in Worker
        PROVE  g.dtook[s][v] <= g.dsent[s] /\ (s # "TDBSCAN" => g.dtook[s][v] >= 0)
    <3>1. h.dsent[s] <= g.dsent[s] /\ g.dsent[s] \in Int
      BY <1>3, <1>4
    <3>2. s # "TDBSCAN" => h.dtook[s][v] >= 0
      BY <1>2 DEF Possible
    <3> QED
      BY <1>3, <1>4, <3>1, <3>2
  <2>3. g.dsent["TDBSCAN"] < 3 => g.news = << >>
    BY <1>2, <1>3, <1>4, StreamFacts DEF Possible
  <2> QED
    BY <1>4, <2>1, <2>2, <2>3 DEF Possible
<1>7. Queues(g)'
  <2>1. news = h.news \/ h.dsent["TDBSCAN"] < 2
    BY <1>3, StreamFacts
  <2> QED
    BY <1>2, <2>1, RootQueues
<1>8. \A m \in Node : Contents(g, m)
  BY <1>4 DEF Agrees, Contents
<1>9. ASSUME NEW p \in Filter
      PROVE  Forwards(g, p) /\ FilterOK(g, p, filter'[p])
  <2>1. /\ Forwards(h, p) /\ FilterOK(h, p, filter[p])
        /\ \A s \in Stream : \A c \in Children(p) : g.took[s][c] = h.took[s][c]
    BY <1>1, <1>4 DEF Agrees
  <2>2. Forwards(g, p)
    BY <1>4, <2>1, StreamFacts DEF Forwards
  <2>3. \A i : Taken(g, p, i) = Taken(h, p, i) /\ Missing(g, p, i) = Missing(h, p, i)
    BY <2>1, StreamFacts DEF Taken, Missing
  <2>4. \A ff : Holds(h, p, ff) => Holds(g, p, ff)
    <3>1. /\ NoiseIn(g, p) = NoiseIn(h, p) /\ HullsIn(g, p) = HullsIn(h, p)
          /\ Informed(g, p) = Informed(h, p) /\ Reported(g, p) = Reported(h, p)
      BY <1>4, <2>3 DEF NoiseIn, HullsIn, Informed, Reported
    <3> QED
      BY <1>4, <2>3, <3>1 DEF Holds
  <2>5. FilterOK(g, p, filter[p])
    BY <2>1, <2>4, StreamFacts DEF FilterOK
  <2> QED
    BY <2>2, <2>5
<1>10. ASSUME NEW v \in Worker
       PROVE  WorkerOK(g, v)'
  <2>1. WorkerOK(h, v) /\ Progress(g, v) = Progress(h, v)
    BY <1>4 DEF Agrees, Progress
  <2>2. CASE news = h.news
    <3>1. Model(g) = Model(h)
      BY <1>4, <2>2 DEF Model
    <3>2. \A m : Classify(v, m)' = Classify(v, m)
      BY DEF Classify, Answers, Touch, workerVars
    <3> QED
      BY <1>4, <2>1, <3>1, <3>2 DEF WorkerOK, Measured, workerVars
  <2>3. CASE rpc = "hulls" /\ h.dsent["TDBSCAN"] = 1
    <3>1. h.dtook["TDBSCAN"][v] = 1
      <4>1. h.dtook["TDBSCAN"][v] >= 1
        BY <1>2, <2>3 DEF RootOK
      <4> QED
        BY <1>3, <2>3, <4>1, StreamFacts
    <3>2. h.sent["Support"][v] = 0
      <4>1. /\ pc[v] \in {"config", "dims", "barrier", "model", "hulls", "support", "exited"}
            /\ Progress(h, v) \in Places(pc[v])
        BY <2>1 DEF WorkerOK
      <4>2. \A l \in {"config", "dims", "barrier", "model", "hulls", "support", "exited"} :
              \A x \in Places(l) : x[4] = 1 => x[3] = 0
        BY DEF Places
      <4>3. Progress(h, v)[4] = 1 => Progress(h, v)[3] = 0
        BY <4>1, <4>2
      <4> QED
        BY <3>1, <4>3 DEF Progress
    <3>3. /\ class[v] = << >> /\ globalModel[v] = h.old
          /\ h.dtook["Support"][v] = 1 => support[v] = h.sup[Root]
      BY <2>1, <3>1, <3>2 DEF WorkerOK
    <3> QED
      BY <1>4, <2>1, <3>1, <3>2, <3>3 DEF WorkerOK, Measured, workerVars
  <2> QED
    BY <2>2, <2>3
<1> QED
  BY <1>5, <1>6, <1>7, <1>8, <1>9, <1>10, SameData DEF Agrees

\* Nothing changes that the invariant is about.
LEMMA StutterStep ==
  ASSUME NEW h, Agrees(h), UNCHANGED vars
  PROVE  IInv'
<1>1. UNCHANGED <<clump, data, class>>
  BY DEF vars, workerVars
<1>2. Shapes' /\ Queues(h)'
  BY DEF Agrees, vars, workerVars, rootVars, Shapes, Queues
<1>3. \A w \in Worker : WorkerOK(h, w)'
  <2>1. \A w, m : Classify(w, m)' = Classify(w, m)
    BY <1>1 DEF Classify, Answers, Touch
  <2> QED
    BY <2>1 DEF Agrees, vars, workerVars, WorkerOK, Measured
<1>4. RootOK(h)'
  <2>1. Modelled(h)'
    BY ModelKept DEF Agrees, vars, rootVars
  <2> QED
    BY <2>1 DEF Agrees, vars, workerVars, rootVars, RootOK
<1>5. filter' = filter
  BY DEF vars
<1>6. Agrees(h)'
  BY <1>1, <1>2, <1>3, <1>4, <1>5, SameData DEF Agrees
<1> QED
  BY <1>6 DEF IInv

\* The barrier opens for all back-ends at once, none of which has sent a hull yet.
LEMMA BarrierStep ==
  ASSUME NEW h, Agrees(h), UNCHANGED clump, Barrier
  PROVE  IInv'
<1>1. /\ rpc = "barrier" /\ \A w \in Worker : pc[w] = "barrier"
      /\ rpc' = "hulls" /\ pc' = [w \in Worker |-> "model"]
      /\ UNCHANGED <<clump, up, down, filter, data, dims, globalModel, class, support, round,
                     rootModel, info, nodes, arrived, left>>
  BY DEF Barrier, RootGoto
<1>2. Shapes' /\ Queues(h)'
  BY <1>1 DEF Agrees, Shapes, Queues
<1>3. \A w \in Worker : h.dtook["TDBSCAN"][w] = 1
  BY <1>1, PlaceIs DEF Agrees, Progress
<1>4. ASSUME NEW w \in Worker
      PROVE  WorkerOK(h, w)'
  <2>1. WorkerOK(h, w) /\ pc[w] = "barrier" /\ pc'[w] = "model"
    BY <1>1 DEF Agrees
  <2>2. Progress(h, w) \in Places("model")
    BY <2>1 DEF WorkerOK, Places
  <2>3. \A m : Classify(w, m)' = Classify(w, m)
    BY <1>1 DEF Classify, Answers, Touch
  <2> QED
    BY <1>1, <2>1, <2>2, <2>3 DEF WorkerOK, Measured
<1>5. RootOK(h)'
  <2>1. RootOK(h)
    BY DEF Agrees
  <2>2. RootProgress(h) \in RootPlaces("hulls")
    BY <1>1, <2>1 DEF RootOK, RootPlaces
  <2>3. Modelled(h)'
    BY <1>1, <2>1, ModelKept
  <2> QED
    BY <1>1, <1>3, <2>1, <2>2, <2>3 DEF RootOK
<1>6. Agrees(h)'
  BY <1>1, <1>2, <1>4, <1>5, SameData DEF Agrees
<1> QED
  BY <1>6 DEF IInv

\* Where the front-end is in Run tells what it has received and broadcast.
LEMMA RootPlaceIs ==
  ASSUME NEW h, RootOK(h)
  PROVE  /\ rpc = "start" => RootProgress(h) = <<6, 1, 1, 4, 1, 1>>
         /\ rpc = "dims" => RootProgress(h) = <<0, 0, 0, 1, 0, 0>>
         /\ rpc = "barrier" => RootProgress(h) = <<0, 1, 0, 1, 1, 0>>
         /\ rpc = "hulls" => RootProgress(h) \in RootPlaces("hulls")
         /\ rpc = "support" => RootProgress(h) = <<4, 1, 0, 4, 1, 0>>
         /\ rpc = "info" => RootProgress(h) = <<4, 1, 1, 4, 1, 1>>
         /\ rpc = "stats" => RootProgress(h) = <<5, 1, 1, 4, 1, 1>>
BY DEF RootOK, RootPlaces

\* What the steps of the front-end start from.
LEMMA RootStart ==
  ASSUME NEW h, Agrees(h)
  PROVE  /\ Root \in Node /\ Possible(h) /\ Queues(h) /\ Shapes /\ RootOK(h)
         /\ h.noise[Root] \in SUBSET Burst /\ h.hulls[Root] \in SUBSET SUBSET Burst
         /\ h.info[Root] \in Counts(Nat) /\ h.news \in Seq(SUBSET Burst)
BY NodeFacts, ContentsType DEF Agrees, Possible, Accounts

\* The last filter's ranges span the bursts of all back-ends.
LEMMA ReturnDimensionsStep ==
  ASSUME NEW h, Agrees(h), UNCHANGED clump, ReturnDimensions
  PROVE  IInv'
<1> DEFINE T == "TDBSCAN"
           X == "XchangeDimensions"
           S == "Support"
<1>1. /\ Root \in Node /\ Possible(h) /\ Queues(h) /\ Shapes /\ RootOK(h)
      /\ h.news \in Seq(SUBSET Burst) /\ T \in Stream /\ X \in Stream /\ S \in Stream
  BY RootStart, StreamFacts
<1>2. /\ rpc = "dims" /\ up[X][Root] # << >> /\ RootTakes(X)
      /\ Broadcast(X, <<Head(up[X][Root])>>)
      /\ rpc' = "barrier"
      /\ UNCHANGED <<clump, filter, workerVars, round, rootModel, info, nodes, arrived, left>>
  BY DEF ReturnDimensions, RootReceives, Arrived, RootGoto
<1>3. /\ h.took[T][Root] = 0 /\ h.took[X][Root] = 0 /\ h.took[S][Root] = 0
      /\ h.dsent[T] = 1 /\ h.dsent[X] = 0 /\ h.dsent[S] = 0
  BY <1>1, <1>2, RootPlaceIs DEF RootProgress
<1>4. 0 < h.sent[X][Root] /\ Head(up[X][Root]) = Packet("XCHANGE_DIMENSIONS", Told(Worker, h.round))
  <2>1. h.sent[X][Root] \in 0 .. 6 /\ 0 # h.sent[X][Root]
    BY <1>1, <1>2, <1>3, UpQueue, AccountFacts
  <2>2. Head(up[X][Root]) = Script(h, X, Root)[h.took[X][Root] + 1] /\ h.took[X][Root] + 1 = 1
    BY <1>1, <1>3, <2>1, UpQueue
  <2>3. Head(up[X][Root]) = Packet("XCHANGE_DIMENSIONS", Told(Workers(Root), h.round))
    BY <2>2, ScriptIs
  <2> QED
    BY <2>1, <2>3, WorkersOf
<1>5. PICK g : RootActs(h, g, X, 1, X, 1, h.news)
  <2>1. h.took[X][Root] + 1 <= 6 /\ h.dsent[X] + 1 <= 4 /\ 1 \in Nat
    BY <1>3
  <2> HIDE DEF T, X, S
  <2> QED
    BY <1>1, <2>1, RootActsExists
<1>6. /\ g.took[T][Root] = 0 /\ g.took[X][Root] = 1 /\ g.took[S][Root] = 0
      /\ g.dsent[T] = 1 /\ g.dsent[X] = 1 /\ g.dsent[S] = 0 /\ g.sent = h.sent
  BY <1>1, <1>3, <1>5 DEF RootActs
<1>7. RootSends(h, g, X, 1)
  <2>1. DownScript(g, X)[1] = Packet("XCHANGE_DIMENSIONS", Told(Worker, h.round))
    BY <1>5, DownScriptIs DEF RootActs
  <2> DEFINE script == DownScript(g, X)
  <2> HIDE DEF script
  <2>2. Segment(script, 0, 0 + 1) = <<script[1]>>
    BY DEF Segment
  <2> QED
    BY <1>2, <1>3, <1>4, <2>1, <2>2 DEF RootSends, script
<1>8. RootTook(h, X, 1)
  BY <1>2, <1>3, <1>4 DEF RootTook
<1>9. RootOK(g)'
  <2>1. RootProgress(g) = <<0, 1, 0, 1, 1, 0>>
    BY <1>6 DEF RootProgress
  <2>2. RootProgress(g) \in RootPlaces("barrier")
    BY <2>1 DEF RootPlaces
  <2>3. \A w \in Worker : g.sent["TDBSCAN"][w] = 0 /\ pc'[w] # "model"
    BY <1>1, <1>2, <1>6 DEF RootOK, workerVars
  <2>9. Modelled(g)'
    BY <1>1, <1>2, <1>3, <1>5, <1>6, ModelKept DEF RootActs
  <2>10. g.round = round'
    BY <1>1, <1>2, <1>5 DEF RootOK, RootActs
  <2> QED
    BY <1>2, <1>6, <2>2, <2>3, <2>9, <2>10 DEF RootOK
<1>10. Agrees(g)'
  <2>1. /\ 1 \in {0, 1} /\ 1 \in Nat
        /\ \/ h.news = h.news /\ (g.dsent["TDBSCAN"] < 3 => h.dsent["TDBSCAN"] < 3)
           \/ rpc = "hulls" /\ h.dsent["TDBSCAN"] = 1 /\ g.dsent["TDBSCAN"] = 3
        /\ UNCHANGED <<clump, filter, workerVars>>
    BY <1>2, <1>3
  <2>2. Shapes'
    BY <1>1, <1>2 DEF Shapes, workerVars
  <2> HIDE DEF T, X, S
  <2> QED
    BY <1>1, <1>5, <1>7, <1>8, <1>9, <2>1, <2>2, RootFrame
<1> QED
  BY <1>10 DEF IInv

\* The support the last filter has added up is what the back-ends get.
LEMMA ReturnSupportStep ==
  ASSUME NEW h, Agrees(h), UNCHANGED clump, ReturnSupport
  PROVE  IInv'
<1> DEFINE T == "TDBSCAN"
           X == "XchangeDimensions"
           S == "Support"
<1>1. /\ Root \in Node /\ Possible(h) /\ Queues(h) /\ Shapes /\ RootOK(h)
      /\ h.news \in Seq(SUBSET Burst) /\ T \in Stream /\ X \in Stream /\ S \in Stream
  BY RootStart, StreamFacts
<1>2. /\ rpc = "support" /\ up[S][Root] # << >> /\ RootTakes(S)
      /\ Broadcast(S, <<Head(up[S][Root])>>)
      /\ rpc' = "info"
      /\ UNCHANGED <<clump, filter, workerVars, round, rootModel, info, nodes, arrived, left>>
  BY DEF ReturnSupport, RootReceives, Arrived, RootGoto
<1>3. /\ h.took[T][Root] = 4 /\ h.took[X][Root] = 1 /\ h.took[S][Root] = 0
      /\ h.dsent[T] = 4 /\ h.dsent[X] = 1 /\ h.dsent[S] = 0
  BY <1>1, <1>2, RootPlaceIs DEF RootProgress
<1>4. 0 < h.sent[S][Root] /\ Head(up[S][Root]) = Packet("SUPPORT", h.sup[Root])
  <2>1. h.sent[S][Root] \in 0 .. 6 /\ 0 # h.sent[S][Root]
    BY <1>1, <1>2, <1>3, UpQueue, AccountFacts
  <2>2. Head(up[S][Root]) = Script(h, S, Root)[h.took[S][Root] + 1] /\ h.took[S][Root] + 1 = 1
    BY <1>1, <1>3, <2>1, UpQueue
  <2> QED
    BY <2>1, <2>2, ScriptIs
<1>5. PICK g : RootActs(h, g, S, 1, S, 1, h.news)
  <2>1. h.took[S][Root] + 1 <= 6 /\ h.dsent[S] + 1 <= 4 /\ 1 \in Nat
    BY <1>3
  <2> HIDE DEF T, X, S
  <2> QED
    BY <1>1, <2>1, RootActsExists
<1>6. /\ g.took[T][Root] = 4 /\ g.took[X][Root] = 1 /\ g.took[S][Root] = 1
      /\ g.dsent[T] = 4 /\ g.dsent[X] = 1 /\ g.dsent[S] = 1
      /\ g.sup = h.sup /\ g.dtook = h.dtook /\ g.noise = h.noise /\ g.hulls = h.hulls
  BY <1>1, <1>3, <1>5 DEF RootActs
<1>7. RootSends(h, g, S, 1)
  <2>1. DownScript(g, S)[1] = Packet("SUPPORT", h.sup[Root])
    BY <1>6, DownScriptIs
  <2> DEFINE script == DownScript(g, S)
  <2> HIDE DEF script
  <2>2. Segment(script, 0, 0 + 1) = <<script[1]>>
    BY DEF Segment
  <2> QED
    BY <1>2, <1>3, <1>4, <2>1, <2>2 DEF RootSends, script
<1>8. RootTook(h, S, 1)
  BY <1>2, <1>3, <1>4 DEF RootTook
<1>9. RootOK(g)'
  <2>1. RootProgress(g) = <<4, 1, 1, 4, 1, 1>>
    BY <1>6 DEF RootProgress
  <2>2. RootProgress(g) \in RootPlaces("info")
    BY <2>1 DEF RootPlaces
  <2>3. /\ \A w \in Worker : g.dtook["TDBSCAN"][w] >= 1
        /\ left = g.noise[Root] /\ arrived = g.hulls[Root]
    BY <1>1, <1>2, <1>3, <1>6 DEF RootOK
  <2>9. Modelled(g)'
    BY <1>1, <1>2, <1>3, <1>5, <1>6, ModelKept DEF RootActs
  <2>10. g.round = round'
    BY <1>1, <1>2, <1>5 DEF RootOK, RootActs
  <2> QED
    BY <1>2, <1>6, <2>2, <2>3, <2>9, <2>10 DEF RootOK
<1>10. Agrees(g)'
  <2>1. /\ 1 \in {0, 1} /\ 1 \in Nat
        /\ \/ h.news = h.news /\ (g.dsent["TDBSCAN"] < 3 => h.dsent["TDBSCAN"] < 3)
           \/ rpc = "hulls" /\ h.dsent["TDBSCAN"] = 1 /\ g.dsent["TDBSCAN"] = 3
        /\ UNCHANGED <<clump, filter, workerVars>>
    BY <1>2, <1>3, <1>6
  <2>2. Shapes'
    BY <1>1, <1>2 DEF Shapes, workerVars
  <2> HIDE DEF T, X, S
  <2> QED
    BY <1>1, <1>5, <1>7, <1>8, <1>9, <2>1, <2>2, RootFrame
<1> QED
  BY <1>10 DEF IInv

\* The account after the front-end has taken a packet of the TDBSCAN stream and
\* broadcast n.
Advances(h, g, n, news) ==
  /\ RootActs(h, g, "TDBSCAN", 1, "TDBSCAN", n, news)
  /\ g.took["TDBSCAN"][Root] = h.took["TDBSCAN"][Root] + 1
  /\ g.took["XchangeDimensions"][Root] = h.took["XchangeDimensions"][Root]
  /\ g.took["Support"][Root] = h.took["Support"][Root]
  /\ g.dsent["TDBSCAN"] = h.dsent["TDBSCAN"] + n
  /\ g.dsent["XchangeDimensions"] = h.dsent["XchangeDimensions"]
  /\ g.dsent["Support"] = h.dsent["Support"]
  /\ g.noise = h.noise /\ g.hulls = h.hulls /\ g.info = h.info
  /\ g.sup = h.sup /\ g.dtook = h.dtook /\ g.sent = h.sent /\ g.news = news

\* The front-end takes a packet of the TDBSCAN stream and broadcasts n.
LEMMA RootTakesOne ==
  ASSUME NEW h, Agrees(h), NEW n \in Nat, NEW news \in Seq(SUBSET Burst), NEW t,
         RootReceives("TDBSCAN", t), h.dsent["TDBSCAN"] + n <= 4
  PROVE  /\ h.took["TDBSCAN"][Root] \in 0 .. 5
         /\ h.took["TDBSCAN"][Root] < h.sent["TDBSCAN"][Root]
         /\ \E g : Advances(h, g, n, news)
<1>1. /\ Root \in Node /\ Possible(h) /\ Queues(h)
      /\ "TDBSCAN" \in Stream /\ "XchangeDimensions" \in Stream /\ "Support" \in Stream
  BY RootStart, StreamFacts
<1>2. /\ h.took["TDBSCAN"][Root] \in 0 .. 5
      /\ h.took["TDBSCAN"][Root] < h.sent["TDBSCAN"][Root]
  BY <1>1, UpTag DEF RootReceives
<1>3. PICK g : RootActs(h, g, "TDBSCAN", 1, "TDBSCAN", n, news)
  <2> DEFINE T == "TDBSCAN"
  <2>1. h.took[T][Root] + 1 <= 6 /\ h.dsent[T] + n <= 4 /\ 1 \in Nat /\ T \in Stream
    BY <1>1, <1>2
  <2> HIDE DEF T
  <2>2. \E g : RootActs(h, g, T, 1, T, n, news)
    BY <1>1, <2>1, RootActsExists
  <2> QED
    BY <2>2 DEF T
<1>4. Advances(h, g, n, news)
  BY <1>1, <1>2, <1>3 DEF RootActs, Advances
<1> QED
  BY <1>2, <1>4

\* The remaining noise is what the last filter could not cluster.
LEMMA CountRemainingNoiseStep ==
  ASSUME NEW h, Agrees(h), UNCHANGED clump, CountRemainingNoise
  PROVE  IInv'
<1> DEFINE T == "TDBSCAN"
<1>1. /\ Root \in Node /\ Possible(h) /\ Queues(h) /\ Shapes /\ RootOK(h)
      /\ h.noise[Root] \in SUBSET Burst /\ h.hulls[Root] \in SUBSET SUBSET Burst
      /\ h.info[Root] \in Counts(Nat) /\ h.news \in Seq(SUBSET Burst) /\ T \in Stream
  BY RootStart, StreamFacts
<1>2. /\ rpc = "hulls" /\ RootReceives(T, "NOISE") /\ RootTakes(T)
      /\ left' = Head(up[T][Root]).body
      /\ UNCHANGED <<clump, down, filter, workerVars, rpc, round, rootModel, info, nodes, arrived>>
  BY DEF CountRemainingNoise, RootGoto, rootVars
<1>3. /\ h.took[T][Root] = 0 /\ h.dsent[T] = 1 /\ Head(up[T][Root]).body = h.noise[Root]
  BY <1>1, <1>2, UpTag, RootPlaceIs DEF RootReceives, RootProgress, RootPlaces
<1>4. /\ h.took["XchangeDimensions"][Root] = 1 /\ h.took["Support"][Root] = 0
      /\ h.dsent["XchangeDimensions"] = 1 /\ h.dsent["Support"] = 0
  BY <1>1, <1>2, <1>3, RootPlaceIs DEF RootProgress, RootPlaces
<1>5. PICK g : Advances(h, g, 0, h.news)
  <2>1. h.dsent["TDBSCAN"] + 0 <= 4 /\ 0 \in Nat /\ RootReceives("TDBSCAN", "NOISE")
    BY <1>2, <1>3
  <2> QED
    BY <1>1, <2>1, RootTakesOne
<1>10. /\ RootActs(h, g, T, 1, T, 0, h.news)
       /\ g.took[T][Root] = 1 /\ g.took["XchangeDimensions"][Root] = 1
       /\ g.took["Support"][Root] = 0 /\ g.dsent[T] = 1
       /\ g.dsent["XchangeDimensions"] = 1 /\ g.dsent["Support"] = 0
       /\ g.noise = h.noise /\ g.hulls = h.hulls /\ g.info = h.info
       /\ g.dtook = h.dtook
  BY <1>3, <1>4, <1>5 DEF Advances
<1>6. RootSends(h, g, T, 0)
  BY <1>2 DEF RootSends
<1>7. RootTook(h, T, 1)
  <2>1. h.took[T][Root] < h.sent[T][Root]
    BY <1>1, <1>2, UpTag DEF RootReceives
  <2> QED
    BY <1>2, <2>1 DEF RootTook
<1>8. RootOK(g)'
  <2>1. RootProgress(g) = <<1, 1, 0, 1, 1, 0>>
    BY <1>10 DEF RootProgress
  <2>2. RootProgress(g) \in RootPlaces("hulls") /\ rpc' = "hulls"
    BY <1>2, <2>1 DEF RootPlaces
  <2>3. \A w \in Worker : g.dtook["TDBSCAN"][w] >= 1
    BY <1>1, <1>2, <1>10 DEF RootOK
  <2>9. Modelled(g)'
    BY <1>1, <1>2, <1>3, <1>10, ModelKept DEF RootActs
  <2>10. g.round = round'
    BY <1>1, <1>2, <1>10 DEF RootOK, RootActs
  <2> QED
    BY <1>2, <1>3, <1>10, <2>2, <2>3, <2>9, <2>10 DEF RootOK
<1>9. Agrees(g)'
  <2>1. /\ 1 \in {0, 1} /\ 0 \in Nat
        /\ \/ h.news = h.news /\ (g.dsent["TDBSCAN"] < 3 => h.dsent["TDBSCAN"] < 3)
           \/ rpc = "hulls" /\ h.dsent["TDBSCAN"] = 1 /\ g.dsent["TDBSCAN"] = 3
        /\ UNCHANGED <<clump, filter, workerVars>>
    BY <1>2, <1>3, <1>10
  <2>2. Shapes'
    BY <1>1, <1>2, <1>3 DEF Shapes, workerVars
  <2> HIDE DEF T
  <2> QED
    BY <1>1, <1>10, <1>6, <1>7, <1>8, <2>1, <2>2, RootFrame
<1> QED
  BY <1>9 DEF IInv

\* The end of the noise is passed over.
LEMMA PassOverStep ==
  ASSUME NEW h, Agrees(h), UNCHANGED clump, PassOver
  PROVE  IInv'
<1> DEFINE T == "TDBSCAN"
<1>1. /\ Root \in Node /\ Possible(h) /\ Queues(h) /\ Shapes /\ RootOK(h)
      /\ h.noise[Root] \in SUBSET Burst /\ h.hulls[Root] \in SUBSET SUBSET Burst
      /\ h.info[Root] \in Counts(Nat) /\ h.news \in Seq(SUBSET Burst) /\ T \in Stream
  BY RootStart, StreamFacts
<1>2. /\ rpc = "hulls" /\ RootReceives(T, "ALL_NOISE_SENT") /\ RootTakes(T)
      /\ UNCHANGED <<clump, down, filter, workerVars, rpc, round, rootModel, info, nodes, arrived, left>>
  BY DEF PassOver, RootGoto, rootVars
<1>3. /\ h.took[T][Root] = 1 /\ h.dsent[T] = 1
  BY <1>1, <1>2, UpTag, RootPlaceIs DEF RootReceives, RootProgress, RootPlaces
<1>4. /\ h.took["XchangeDimensions"][Root] = 1 /\ h.took["Support"][Root] = 0
      /\ h.dsent["XchangeDimensions"] = 1 /\ h.dsent["Support"] = 0
  BY <1>1, <1>2, <1>3, RootPlaceIs DEF RootProgress, RootPlaces
<1>5. PICK g : Advances(h, g, 0, h.news)
  <2>1. h.dsent["TDBSCAN"] + 0 <= 4 /\ 0 \in Nat /\ RootReceives("TDBSCAN", "ALL_NOISE_SENT")
    BY <1>2, <1>3
  <2> QED
    BY <1>1, <2>1, RootTakesOne
<1>10. /\ RootActs(h, g, T, 1, T, 0, h.news)
       /\ g.took[T][Root] = 2 /\ g.took["XchangeDimensions"][Root] = 1
       /\ g.took["Support"][Root] = 0 /\ g.dsent[T] = 1
       /\ g.dsent["XchangeDimensions"] = 1 /\ g.dsent["Support"] = 0
       /\ g.noise = h.noise /\ g.hulls = h.hulls /\ g.info = h.info
       /\ g.dtook = h.dtook
  BY <1>3, <1>4, <1>5 DEF Advances
<1>6. RootSends(h, g, T, 0)
  BY <1>2 DEF RootSends
<1>7. RootTook(h, T, 1)
  <2>1. h.took[T][Root] < h.sent[T][Root]
    BY <1>1, <1>2, UpTag DEF RootReceives
  <2> QED
    BY <1>2, <2>1 DEF RootTook
<1>8. RootOK(g)'
  <2>1. RootProgress(g) = <<2, 1, 0, 1, 1, 0>>
    BY <1>10 DEF RootProgress
  <2>2. RootProgress(g) \in RootPlaces("hulls") /\ rpc' = "hulls"
    BY <1>2, <2>1 DEF RootPlaces
  <2>3. \A w \in Worker : g.dtook["TDBSCAN"][w] >= 1
    BY <1>1, <1>2, <1>10 DEF RootOK
  <2>4. left = g.noise[Root]
    BY <1>1, <1>3, <1>10 DEF RootOK
  <2>9. Modelled(g)'
    BY <1>1, <1>2, <1>3, <1>10, ModelKept DEF RootActs
  <2>10. g.round = round'
    BY <1>1, <1>2, <1>10 DEF RootOK, RootActs
  <2> QED
    BY <1>2, <1>10, <2>2, <2>3, <2>4, <2>9, <2>10 DEF RootOK
<1>9. Agrees(g)'
  <2>1. /\ 1 \in {0, 1} /\ 0 \in Nat
        /\ \/ h.news = h.news /\ (g.dsent["TDBSCAN"] < 3 => h.dsent["TDBSCAN"] < 3)
           \/ rpc = "hulls" /\ h.dsent["TDBSCAN"] = 1 /\ g.dsent["TDBSCAN"] = 3
        /\ UNCHANGED <<clump, filter, workerVars>>
    BY <1>2, <1>3, <1>10
  <2>2. Shapes'
    BY <1>1, <1>2, <1>3 DEF Shapes, workerVars
  <2> HIDE DEF T
  <2> QED
    BY <1>1, <1>10, <1>6, <1>7, <1>8, <2>1, <2>2, RootFrame
<1> QED
  BY <1>9 DEF IInv

\* The end of the hulls ends the loop.
LEMMA EndOfHullsStep ==
  ASSUME NEW h, Agrees(h), UNCHANGED clump, EndOfHulls
  PROVE  IInv'
<1> DEFINE T == "TDBSCAN"
<1>1. /\ Root \in Node /\ Possible(h) /\ Queues(h) /\ Shapes /\ RootOK(h)
      /\ h.noise[Root] \in SUBSET Burst /\ h.hulls[Root] \in SUBSET SUBSET Burst
      /\ h.info[Root] \in Counts(Nat) /\ h.news \in Seq(SUBSET Burst) /\ T \in Stream
  BY RootStart, StreamFacts
<1>2. /\ rpc = "hulls" /\ RootReceives(T, "ALL_HULLS_SENT") /\ RootTakes(T)
      /\ Broadcast(T, <<Mark("ALL_HULLS_SENT")>>) /\ rpc' = "support"
      /\ UNCHANGED <<clump, filter, workerVars, round, rootModel, info, nodes, arrived, left>>
  BY DEF EndOfHulls, RootGoto, rootVars
<1>3. /\ h.took[T][Root] = 3 /\ h.dsent[T] = 3
  BY <1>1, <1>2, UpTag, RootPlaceIs DEF RootReceives, RootProgress, RootPlaces
<1>4. /\ h.took["XchangeDimensions"][Root] = 1 /\ h.took["Support"][Root] = 0
      /\ h.dsent["XchangeDimensions"] = 1 /\ h.dsent["Support"] = 0
  BY <1>1, <1>2, <1>3, RootPlaceIs DEF RootProgress, RootPlaces
<1>5. PICK g : Advances(h, g, 1, h.news)
  <2>1. h.dsent["TDBSCAN"] + 1 <= 4 /\ 1 \in Nat /\ RootReceives("TDBSCAN", "ALL_HULLS_SENT")
    BY <1>2, <1>3
  <2> QED
    BY <1>1, <2>1, RootTakesOne
<1>10. /\ RootActs(h, g, T, 1, T, 1, h.news)
       /\ g.took[T][Root] = 4 /\ g.took["XchangeDimensions"][Root] = 1
       /\ g.took["Support"][Root] = 0 /\ g.dsent[T] = 4
       /\ g.dsent["XchangeDimensions"] = 1 /\ g.dsent["Support"] = 0
       /\ g.noise = h.noise /\ g.hulls = h.hulls /\ g.info = h.info
       /\ g.dtook = h.dtook
  BY <1>3, <1>4, <1>5 DEF Advances
<1>6. RootSends(h, g, T, 1)
  <2>1. DownScript(g, T)[4] = Mark("ALL_HULLS_SENT")
    BY DownScriptIs
  <2> DEFINE script == DownScript(g, T)
  <2> HIDE DEF script
  <2>2. Segment(script, 3, 3 + 1) = <<script[4]>>
    BY DEF Segment
  <2> QED
    BY <1>2, <1>3, <2>1, <2>2 DEF RootSends, script
<1>7. RootTook(h, T, 1)
  <2>1. h.took[T][Root] < h.sent[T][Root]
    BY <1>1, <1>2, UpTag DEF RootReceives
  <2> QED
    BY <1>2, <2>1 DEF RootTook
<1>8. RootOK(g)'
  <2>1. RootProgress(g) = <<4, 1, 0, 4, 1, 0>>
    BY <1>10 DEF RootProgress
  <2>2. RootProgress(g) \in RootPlaces("support") /\ rpc' = "support"
    BY <1>2, <2>1 DEF RootPlaces
  <2>3. \A w \in Worker : g.dtook["TDBSCAN"][w] >= 1
    BY <1>1, <1>2, <1>10 DEF RootOK
  <2>4. left = g.noise[Root] /\ arrived = g.hulls[Root]
    BY <1>1, <1>3, <1>10 DEF RootOK
  <2>9. Modelled(g)'
    BY <1>1, <1>2, <1>3, <1>10, ModelKept DEF RootActs
  <2>10. g.round = round'
    BY <1>1, <1>2, <1>10 DEF RootOK, RootActs
  <2> QED
    BY <1>2, <1>10, <2>2, <2>3, <2>4, <2>9, <2>10 DEF RootOK
<1>9. Agrees(g)'
  <2>1. /\ 1 \in {0, 1} /\ 1 \in Nat
        /\ \/ h.news = h.news /\ (g.dsent["TDBSCAN"] < 3 => h.dsent["TDBSCAN"] < 3)
           \/ rpc = "hulls" /\ h.dsent["TDBSCAN"] = 1 /\ g.dsent["TDBSCAN"] = 3
        /\ UNCHANGED <<clump, filter, workerVars>>
    BY <1>2, <1>3, <1>10
  <2>2. Shapes'
    BY <1>1, <1>2, <1>3 DEF Shapes, workerVars
  <2> HIDE DEF T
  <2> QED
    BY <1>1, <1>10, <1>6, <1>7, <1>8, <2>1, <2>2, RootFrame
<1> QED
  BY <1>9 DEF IInv

\* The report is the sum the last filter has made.
LEMMA ReceiveInfoStep ==
  ASSUME NEW h, Agrees(h), UNCHANGED clump, ReceiveInfo
  PROVE  IInv'
<1> DEFINE T == "TDBSCAN"
<1>1. /\ Root \in Node /\ Possible(h) /\ Queues(h) /\ Shapes /\ RootOK(h)
      /\ h.noise[Root] \in SUBSET Burst /\ h.hulls[Root] \in SUBSET SUBSET Burst
      /\ h.info[Root] \in Counts(Nat) /\ h.news \in Seq(SUBSET Burst) /\ T \in Stream
  BY RootStart, StreamFacts
<1>2. /\ rpc = "info" /\ RootReceives(T, "CLUSTERS_INFO") /\ RootTakes(T)
      /\ info' = Head(up[T][Root]).body /\ rpc' = "stats"
      /\ UNCHANGED <<clump, down, filter, workerVars, round, rootModel, nodes, arrived, left>>
  BY DEF ReceiveInfo, RootGoto, rootVars
<1>3. /\ h.took[T][Root] = 4 /\ h.dsent[T] = 4 /\ Head(up[T][Root]).body = h.info[Root]
  BY <1>1, <1>2, UpTag, RootPlaceIs DEF RootReceives, RootProgress, RootPlaces
<1>4. /\ h.took["XchangeDimensions"][Root] = 1 /\ h.took["Support"][Root] = 1
      /\ h.dsent["XchangeDimensions"] = 1 /\ h.dsent["Support"] = 1
  BY <1>1, <1>2, <1>3, RootPlaceIs DEF RootProgress, RootPlaces
<1>5. PICK g : Advances(h, g, 0, h.news)
  <2>1. h.dsent["TDBSCAN"] + 0 <= 4 /\ 0 \in Nat /\ RootReceives("TDBSCAN", "CLUSTERS_INFO")
    BY <1>2, <1>3
  <2> QED
    BY <1>1, <2>1, RootTakesOne
<1>10. /\ RootActs(h, g, T, 1, T, 0, h.news)
       /\ g.took[T][Root] = 5 /\ g.took["XchangeDimensions"][Root] = 1
       /\ g.took["Support"][Root] = 1 /\ g.dsent[T] = 4
       /\ g.dsent["XchangeDimensions"] = 1 /\ g.dsent["Support"] = 1
       /\ g.noise = h.noise /\ g.hulls = h.hulls /\ g.info = h.info
       /\ g.dtook = h.dtook
  BY <1>3, <1>4, <1>5 DEF Advances
<1>6. RootSends(h, g, T, 0)
  BY <1>2 DEF RootSends
<1>7. RootTook(h, T, 1)
  <2>1. h.took[T][Root] < h.sent[T][Root]
    BY <1>1, <1>2, UpTag DEF RootReceives
  <2> QED
    BY <1>2, <2>1 DEF RootTook
<1>8. RootOK(g)'
  <2>1. RootProgress(g) = <<5, 1, 1, 4, 1, 1>>
    BY <1>10 DEF RootProgress
  <2>2. RootProgress(g) \in RootPlaces("stats") /\ rpc' = "stats"
    BY <1>2, <2>1 DEF RootPlaces
  <2>3. \A w \in Worker : g.dtook["TDBSCAN"][w] >= 1
    BY <1>1, <1>2, <1>10 DEF RootOK
  <2>4. left = g.noise[Root] /\ arrived = g.hulls[Root]
    BY <1>1, <1>3, <1>10 DEF RootOK
  <2>9. Modelled(g)'
    BY <1>1, <1>2, <1>3, <1>10, ModelKept DEF RootActs
  <2>10. g.round = round'
    BY <1>1, <1>2, <1>10 DEF RootOK, RootActs
  <2> QED
    BY <1>2, <1>3, <1>10, <2>2, <2>3, <2>4, <2>9, <2>10 DEF RootOK
<1>9. Agrees(g)'
  <2>1. /\ 1 \in {0, 1} /\ 0 \in Nat
        /\ \/ h.news = h.news /\ (g.dsent["TDBSCAN"] < 3 => h.dsent["TDBSCAN"] < 3)
           \/ rpc = "hulls" /\ h.dsent["TDBSCAN"] = 1 /\ g.dsent["TDBSCAN"] = 3
        /\ UNCHANGED <<clump, filter, workerVars>>
    BY <1>2, <1>3, <1>10
  <2>2. Shapes'
    BY <1>1, <1>2, <1>3 DEF Shapes, workerVars
  <2> HIDE DEF T
  <2> QED
    BY <1>1, <1>10, <1>6, <1>7, <1>8, <2>1, <2>2, RootFrame
<1> QED
  BY <1>9 DEF IInv

\* The statistics are those of all processes below the front-end, and its own.
LEMMA ReceiveStatisticsStep ==
  ASSUME NEW h, Agrees(h), UNCHANGED clump, ReceiveStatistics
  PROVE  IInv'
<1> DEFINE T == "TDBSCAN"
<1>1. /\ Root \in Node /\ Possible(h) /\ Queues(h) /\ Shapes /\ RootOK(h)
      /\ h.noise[Root] \in SUBSET Burst /\ h.hulls[Root] \in SUBSET SUBSET Burst
      /\ h.info[Root] \in Counts(Nat) /\ h.news \in Seq(SUBSET Burst) /\ T \in Stream
  BY RootStart, StreamFacts
<1>2. /\ rpc = "stats" /\ RootReceives(T, "STATISTICS") /\ RootTakes(T)
      /\ nodes' = Head(up[T][Root]).body /\ rpc' = "start"
      /\ UNCHANGED <<clump, down, filter, workerVars, round, rootModel, info, arrived, left>>
  BY DEF ReceiveStatistics, RootGoto, rootVars
<1>3. /\ h.took[T][Root] = 5 /\ h.dsent[T] = 4 /\ Head(up[T][Root]).body = Under(Root)
      /\ Under(Root) = Node
  BY <1>1, <1>2, UpTag, RootPlaceIs, UnderRoot DEF RootReceives, RootProgress, RootPlaces
<1>4. /\ h.took["XchangeDimensions"][Root] = 1 /\ h.took["Support"][Root] = 1
      /\ h.dsent["XchangeDimensions"] = 1 /\ h.dsent["Support"] = 1
  BY <1>1, <1>2, <1>3, RootPlaceIs DEF RootProgress, RootPlaces
<1>5. PICK g : Advances(h, g, 0, h.news)
  <2>1. h.dsent["TDBSCAN"] + 0 <= 4 /\ 0 \in Nat /\ RootReceives("TDBSCAN", "STATISTICS")
    BY <1>2, <1>3
  <2> QED
    BY <1>1, <2>1, RootTakesOne
<1>10. /\ RootActs(h, g, T, 1, T, 0, h.news)
       /\ g.took[T][Root] = 6 /\ g.took["XchangeDimensions"][Root] = 1
       /\ g.took["Support"][Root] = 1 /\ g.dsent[T] = 4
       /\ g.dsent["XchangeDimensions"] = 1 /\ g.dsent["Support"] = 1
       /\ g.noise = h.noise /\ g.hulls = h.hulls /\ g.info = h.info
       /\ g.dtook = h.dtook
  BY <1>3, <1>4, <1>5 DEF Advances
<1>6. RootSends(h, g, T, 0)
  BY <1>2 DEF RootSends
<1>7. RootTook(h, T, 1)
  <2>1. h.took[T][Root] < h.sent[T][Root]
    BY <1>1, <1>2, UpTag DEF RootReceives
  <2> QED
    BY <1>2, <2>1 DEF RootTook
<1>8. RootOK(g)'
  <2>1. RootProgress(g) = <<6, 1, 1, 4, 1, 1>>
    BY <1>10 DEF RootProgress
  <2>2. RootProgress(g) \in RootPlaces("start") /\ rpc' = "start"
    BY <1>2, <2>1 DEF RootPlaces
  <2>3. \A w \in Worker : g.dtook["TDBSCAN"][w] >= 1
    BY <1>1, <1>2, <1>10 DEF RootOK
  <2>4. left = g.noise[Root] /\ arrived = g.hulls[Root] /\ info = g.info[Root]
    BY <1>1, <1>3, <1>10 DEF RootOK
  <2>9. Modelled(g)'
    BY <1>1, <1>2, <1>3, <1>10, ModelKept DEF RootActs
  <2>10. g.round = round'
    BY <1>1, <1>2, <1>10 DEF RootOK, RootActs
  <2> QED
    BY <1>2, <1>3, <1>10, <2>2, <2>3, <2>4, <2>9, <2>10 DEF RootOK
<1>9. Agrees(g)'
  <2>1. /\ 1 \in {0, 1} /\ 0 \in Nat
        /\ \/ h.news = h.news /\ (g.dsent["TDBSCAN"] < 3 => h.dsent["TDBSCAN"] < 3)
           \/ rpc = "hulls" /\ h.dsent["TDBSCAN"] = 1 /\ g.dsent["TDBSCAN"] = 3
        /\ UNCHANGED <<clump, filter, workerVars>>
    BY <1>2, <1>3, <1>10
  <2>2. Shapes'
    BY <1>1, <1>2, <1>3 DEF Shapes, workerVars
  <2> HIDE DEF T
  <2> QED
    BY <1>1, <1>10, <1>6, <1>7, <1>8, <2>1, <2>2, RootFrame
<1> QED
  BY <1>9 DEF IInv

\* A receive of the front-end that names a tag never meets a packet with another.
LEMMA RootDropsNothing ==
  ASSUME NEW h, Agrees(h), RootDrops
  PROVE  FALSE
<1> DEFINE T == "TDBSCAN"
           n == h.took[T][Root]
<1>1. /\ Root \in Node /\ Possible(h) /\ Queues(h) /\ RootOK(h) /\ T \in Stream
  BY RootStart, StreamFacts
<1>2. /\ rpc \in {"info", "stats"} /\ up[T][Root] # << >>
      /\ ~Arrived(T, Root, IF rpc = "info" THEN "CLUSTERS_INFO" ELSE "STATISTICS")
  BY DEF RootDrops
<1>3. n < h.sent[T][Root]
  <2>1. n # h.sent[T][Root]
    BY <1>1, <1>2, UpQueue
  <2> QED
    BY <1>1, <2>1, AccountFacts
<1>4. Head(up[T][Root]) = Script(h, T, Root)[n + 1]
  BY <1>1, <1>3, UpQueue
<1>5. CASE rpc = "info"
  <2>1. n + 1 = 5
    BY <1>1, <1>5, RootPlaceIs DEF RootProgress
  <2>2. Head(up[T][Root]) = Packet("CLUSTERS_INFO", h.info[Root])
    BY <1>4, <2>1, ScriptIs
  <2> QED
    BY <1>2, <1>5, <2>2, PacketIs DEF Arrived
<1>6. CASE rpc = "stats"
  <2>1. n + 1 = 6
    BY <1>1, <1>6, RootPlaceIs DEF RootProgress
  <2>2. Head(up[T][Root]) = Packet("STATISTICS", Under(Root))
    BY <1>4, <2>1, ScriptIs
  <2> QED
    BY <1>2, <1>6, <2>2, PacketIs DEF Arrived
<1> QED
  BY <1>2, <1>5, <1>6

-----------------------------------------------------------------------------
(***************************************************************************)
(* The global model.                                                       *)
(***************************************************************************)
\* The elements of a finite set can be put in a sequence, and SetToSeq does it.
LEMMA SetToSeqIs ==
  ASSUME NEW S, IsFiniteSet(S)
  PROVE  /\ Cardinality(S) \in Nat /\ SetToSeq(S) \in [1 .. Cardinality(S) -> S]
         /\ Range(SetToSeq(S)) = S
<1>1. PICK n \in Nat : ExistsBijection(1 .. n, S)
  BY FS_NatBijection
<1>2. Cardinality(S) = n
  BY <1>1, FS_CountingElements
<1>3. PICK f \in [1 .. Cardinality(S) -> S] : IsInjective(f)
  BY <1>1, <1>2 DEF ExistsBijection, Bijection, Injection, IsInjective
<1> DEFINE Orders == {f1 \in [1 .. Cardinality(S) -> S] : IsInjective(f1)}
<1>4. SetToSeq(S) \in [1 .. Cardinality(S) -> S] /\ IsInjective(SetToSeq(S))
  BY <1>3 DEF SetToSeq
<1> QED
  BY <1>2, <1>4, InjectionOnto

\* A list to which the elements of a set are appended.
Extended(M, A) == M \o SetToSeq(A)

IsExtended(S, M, A, N) ==
  /\ N \in Seq(S) /\ Cardinality(A) \in Nat /\ Len(N) = Len(M) + Cardinality(A)
  /\ \A k \in 1 .. Len(M) : N[k] = M[k]
  /\ A = {N[k] : k \in Len(M) + 1 .. Len(N)}

LEMMA SetAppended ==
  ASSUME NEW S, NEW M \in Seq(S), NEW A \in SUBSET S, IsFiniteSet(A), NEW N,
         N = Extended(M, A)
  PROVE  IsExtended(S, M, A, N)
<1> DEFINE more == SetToSeq(A)
           n == Cardinality(A)
           m == Len(M)
<1>1. n \in Nat /\ more \in [1 .. n -> A] /\ Range(more) = A /\ m \in Nat
  BY SetToSeqIs
<1> HIDE DEF more, n
<1>2. more \in Seq(S) /\ Len(more) = n
  BY <1>1
<1>3. /\ N \in Seq(S) /\ Len(N) = m + n
      /\ \A k \in 1 .. m : N[k] = M[k]
      /\ \A k \in 1 .. n : N[m + k] = more[k]
  <2>1. N = M \o more
    BY DEF more, Extended
  <2>2. /\ M \o more \in Seq(S) /\ Len(M \o more) = Len(M) + Len(more)
        /\ \A k \in 1 .. Len(M) : (M \o more)[k] = M[k]
        /\ \A k \in 1 .. Len(more) : (M \o more)[Len(M) + k] = more[k]
    BY <1>2
  <2> QED
    BY <1>2, <2>1, <2>2
<1>4. A = {N[k] : k \in m + 1 .. m + n}
  <2>1. ASSUME NEW H \in A
        PROVE  \E k \in m + 1 .. m + n : N[k] = H
    <3>1. PICK j \in 1 .. n : more[j] = H
      BY <1>1 DEF Range
    <3>2. m + j \in m + 1 .. m + n /\ N[m + j] = H
      BY <1>1, <1>3, <3>1
    <3> QED
      BY <3>2
  <2>2. ASSUME NEW k \in m + 1 .. m + n
        PROVE  N[k] \in A
    <3>1. k - m \in 1 .. n /\ m + (k - m) = k
      BY <1>1
    <3>2. N[k] = more[k - m]
      BY <1>3, <3>1
    <3> QED
      BY <1>1, <3>1, <3>2
  <2> QED
    BY <2>1, <2>2
<1> QED
  BY <1>1, <1>3, <1>4 DEF n, IsExtended

\* The hulls that arrive are the last ones of the front-end's model.
LEMMA ModelGrows ==
  ASSUME rootModel \in Seq(SUBSET Burst), arrived' \in SUBSET SUBSET Burst,
         rootModel' = rootModel \o SetToSeq(arrived')
  PROVE  /\ rootModel' \in Seq(SUBSET Burst) /\ Cardinality(arrived') \in Nat
         /\ Len(rootModel) \in Nat
         /\ Len(rootModel') = Len(rootModel) + Cardinality(arrived')
         /\ \A k \in 1 .. Len(rootModel) : rootModel'[k] = rootModel[k]
         /\ arrived' = {rootModel'[k] : k \in Len(rootModel) + 1 .. Len(rootModel')}
<1> DEFINE S == SUBSET Burst
           A == arrived'
           M == rootModel
           N == rootModel'
<1>1. IsFiniteSet(S)
  BY FiniteFacts, FS_SUBSET
<1>2. M \in Seq(S) /\ A \in SUBSET S /\ N = Extended(M, A) /\ Len(M) \in Nat
  BY DEF Extended
<1> HIDE DEF S, A, M, N
<1>3. IsFiniteSet(A)
  BY <1>1, <1>2, FS_Subset
<1>4. IsExtended(S, M, A, N)
  BY <1>2, <1>3, SetAppended
<1> QED
  BY <1>2, <1>4 DEF IsExtended, S, A, M, N

\* What is broadcast is made of hulls of the front-end's model.
LEMMA ByTimeType ==
  ASSUME NEW model \in Seq(SUBSET Burst), NEW P \in SUBSET DOMAIN model,
         NEW order \in ByTime(model, P)
  PROVE  [k \in DOMAIN order |-> model[order[k]]] \in Seq(SUBSET Burst)
<1>1. order \in [1 .. Cardinality(P) -> P]
  BY DEF ByTime
<1>2. IsFiniteSet(DOMAIN model)
  BY FS_Interval
<1>3. Cardinality(P) \in Nat
  BY <1>2, FS_Subset, FS_CardinalityType
<1>4. \A k \in DOMAIN order : model[order[k]] \in SUBSET Burst
  BY <1>1
<1>5. [k \in DOMAIN order |-> model[order[k]]] \in [1 .. Cardinality(P) -> SUBSET Burst]
  BY <1>1, <1>4
<1> QED
  BY <1>3, <1>5

\* The model the front-end broadcasts is what every back-end will add to its own; none
\* has classified anything by then.
LEMMA BroadcastGlobalModelStep ==
  ASSUME NEW h, Agrees(h), UNCHANGED clump, BroadcastGlobalModel
  PROVE  IInv'
<1> DEFINE T == "TDBSCAN"
<1>1. /\ Root \in Node /\ Possible(h) /\ Queues(h) /\ Shapes /\ RootOK(h)
      /\ h.hulls[Root] \in SUBSET SUBSET Burst /\ T \in Stream
  BY RootStart, StreamFacts
<1>2. /\ rpc = "hulls" /\ RootReceives(T, "ALL_HULLS") /\ RootTakes(T)
      /\ arrived' = Head(up[T][Root]).body /\ rootModel' = rootModel \o SetToSeq(arrived')
      /\ UNCHANGED <<clump, filter, workerVars, rpc, round, info, nodes, left>>
  BY DEF BroadcastGlobalModel
<1>3. h.took[T][Root] = 2 /\ h.dsent[T] = 1 /\ arrived' = h.hulls[Root]
  BY <1>1, <1>2, UpTag, RootPlaceIs DEF RootReceives, RootProgress, RootPlaces
<1>4. /\ h.took["XchangeDimensions"][Root] = 1 /\ h.took["Support"][Root] = 0
      /\ h.dsent["XchangeDimensions"] = 1 /\ h.dsent["Support"] = 0
  BY <1>1, <1>2, <1>3, RootPlaceIs DEF RootProgress, RootPlaces
<1>5. /\ rootModel \in Seq(SUBSET Burst) /\ rootModel' \in Seq(SUBSET Burst)
      /\ Cardinality(arrived') \in Nat /\ Len(rootModel) \in Nat
      /\ Len(rootModel') = Len(rootModel) + Cardinality(arrived')
      /\ \A k \in 1 .. Len(rootModel) : rootModel'[k] = rootModel[k]
      /\ arrived' = {rootModel'[k] : k \in Len(rootModel) + 1 .. Len(rootModel')}
  <2>1. rootModel \in Seq(SUBSET Burst) /\ arrived' \in SUBSET SUBSET Burst
    BY <1>1, <1>3 DEF Shapes
  <2> QED
    BY <1>2, <2>1, ModelGrows
<1> DEFINE dense == Dense(rootModel')
<1>6. PICK order \in ByTime(rootModel', dense) :
         Broadcast(T, <<Packet("ALL_HULLS", [k \in DOMAIN order |-> rootModel'[order[k]]]),
                        Mark("ALL_HULLS_SENT")>>)
  BY DEF BroadcastGlobalModel
<1> DEFINE news == [k \in DOMAIN order |-> rootModel'[order[k]]]
<1>7. news \in Seq(SUBSET Burst)
  <2>1. dense \in SUBSET DOMAIN rootModel'
    BY DEF Dense
  <2> QED
    BY <1>5, <1>6, <2>1, ByTimeType
<1>8. Broadcast(T, <<Packet("ALL_HULLS", news), Mark("ALL_HULLS_SENT")>>)
  BY <1>6
<1> HIDE DEF news
<1>9. PICK g : Advances(h, g, 2, news)
  <2>1. h.dsent["TDBSCAN"] + 2 <= 4 /\ 2 \in Nat /\ RootReceives("TDBSCAN", "ALL_HULLS")
    BY <1>2, <1>3
  <2> QED
    BY <1>7, <2>1, RootTakesOne
<1>10. /\ RootActs(h, g, T, 1, T, 2, news)
       /\ g.took[T][Root] = 3 /\ g.took["XchangeDimensions"][Root] = 1
       /\ g.took["Support"][Root] = 0 /\ g.dsent[T] = 3
       /\ g.dsent["XchangeDimensions"] = 1 /\ g.dsent["Support"] = 0
       /\ g.noise = h.noise /\ g.hulls = h.hulls /\ g.info = h.info
       /\ g.dtook = h.dtook /\ g.news = news
  BY <1>3, <1>4, <1>9 DEF Advances
<1>11. RootSends(h, g, T, 2)
  <2> DEFINE script == DownScript(g, T)
  <2>1. /\ script[2] = Packet("ALL_HULLS", news)
        /\ script[3] = Mark("ALL_HULLS_SENT")
    BY <1>10, DownScriptIs
  <2> HIDE DEF script
  <2>2. Segment(script, 1, 1 + 2) = <<script[2], script[3]>>
    BY DEF Segment
  <2> QED
    BY <1>3, <1>8, <2>1, <2>2 DEF RootSends, script
<1>12. RootTook(h, T, 1)
  <2>1. h.took[T][Root] < h.sent[T][Root]
    BY <1>1, <1>2, UpTag DEF RootReceives
  <2> QED
    BY <1>2, <2>1 DEF RootTook
<1>13. RootOK(g)'
  <2>1. RootProgress(g) = <<3, 1, 0, 3, 1, 0>>
    BY <1>10 DEF RootProgress
  <2>2. RootProgress(g) \in RootPlaces("hulls") /\ rpc' = "hulls"
    BY <1>2, <2>1 DEF RootPlaces
  <2>3. \A w \in Worker : g.dtook["TDBSCAN"][w] >= 1
    BY <1>1, <1>2, <1>10 DEF RootOK
  <2>4. left = g.noise[Root]
    BY <1>1, <1>3, <1>10 DEF RootOK
  <2>5. Modelled(g)'
    <3>1. /\ Range(news) = DenseHulls'
      <4>1. Range(order) = dense /\ Cardinality(dense) \in Nat
        <5>1. IsFiniteSet(dense)
          <6>1. DOMAIN rootModel' = 1 .. Len(rootModel') /\ Len(rootModel') \in Nat
            BY <1>5
          <6>2. dense \in SUBSET (1 .. Len(rootModel'))
            BY <6>1 DEF Dense
          <6>3. IsFiniteSet(1 .. Len(rootModel'))
            BY <6>1, FS_Interval
          <6> HIDE DEF dense
          <6> QED
            BY <6>2, <6>3, FS_Subset
        <5> QED
          BY <1>6, <5>1, InjectionOnto, FS_CardinalityType DEF ByTime
      <4> QED
        BY <4>1 DEF news, DenseHulls, Range
    <3>2. DenseHulls \subseteq DenseHulls'
      <4>1. Dense(rootModel) \subseteq Dense(rootModel')
        BY <1>5 DEF Dense
      <4>2. \A k \in Dense(rootModel) : rootModel'[k] = rootModel[k]
        BY <1>5 DEF Dense
      <4> QED
        BY <4>1, <4>2 DEF DenseHulls
    <3>3. \A H \in arrived' : OneClump(H)
      <4>1. h.sent[T][Root] >= 4
        <5>1. /\ h.sent[T][Root] \in {0, 2, 4, 5, 6} /\ 2 < h.sent[T][Root]
          BY <1>1, <1>2, <1>3, UpTag, NodeFacts DEF RootReceives, Agrees, Forwards
        <5> QED
          BY <5>1
      <4> QED
        BY <1>1, <1>3, <4>1 DEF Agrees, Contents
    <3>4. \A k \in DOMAIN rootModel' : \A a, b \in rootModel'[k] : clump'[a] = clump'[b]
      <4>1. \A k \in 1 .. Len(rootModel) : OneClump(rootModel[k])
        BY <1>1, <1>5 DEF RootOK, Modelled
      <4>2. ASSUME NEW k \in 1 .. Len(rootModel')
            PROVE  OneClump(rootModel'[k])
        <5>1. CASE k <= Len(rootModel)
          BY <1>5, <4>1, <5>1
        <5>2. CASE k > Len(rootModel)
          <6>1. k \in Len(rootModel) + 1 .. Len(rootModel')
            BY <1>5, <5>2
          <6>2. rootModel'[k] \in arrived'
            BY <1>5, <6>1
          <6> QED
            BY <3>3, <6>2
        <5> QED
          BY <1>5, <5>1, <5>2
      <4>3. DOMAIN rootModel' = 1 .. Len(rootModel')
        BY <1>5
      <4> QED
        BY <4>2, <4>3 DEF OneClump
    <3>5. /\ Cardinality(arrived') <= Len(rootModel')
          /\ arrived' = {rootModel'[k] : k \in Len(rootModel') - Cardinality(arrived') + 1
                                              .. Len(rootModel')}
      <4>1. /\ Len(rootModel') - Cardinality(arrived') + 1 = Len(rootModel) + 1
            /\ Cardinality(arrived') <= Len(rootModel')
        BY <1>5
      <4> QED
        BY <1>5, <4>1
    <3>6. Range(g.old) \subseteq DenseHulls /\ g.news = news /\ g.took["TDBSCAN"][Root] = 3
      BY <1>1, <1>10 DEF RootOK, Modelled, RootActs
    <3> QED
      BY <3>1, <3>2, <3>4, <3>5, <3>6 DEF Modelled, OneClump, LastHulls
  <2>6. g.round = round'
    BY <1>1, <1>2, <1>10 DEF RootOK, RootActs
  <2> QED
    BY <1>2, <1>3, <1>10, <2>2, <2>3, <2>4, <2>5, <2>6, SMTT(20) DEF RootOK
<1>14. Agrees(g)'
  <2>1. /\ 1 \in {0, 1} /\ 2 \in Nat
        /\ \/ news = h.news /\ (g.dsent["TDBSCAN"] < 3 => h.dsent["TDBSCAN"] < 3)
           \/ rpc = "hulls" /\ h.dsent["TDBSCAN"] = 1 /\ g.dsent["TDBSCAN"] = 3
        /\ UNCHANGED <<clump, filter, workerVars>>
    BY <1>2, <1>3, <1>10
  <2>2. Shapes'
    BY <1>1, <1>2, <1>3, <1>5 DEF Shapes, workerVars
  <2> HIDE DEF T
  <2> QED
    BY <1>1, <1>10, <1>11, <1>12, <1>13, <2>1, <2>2, RootFrame
<1> QED
  BY <1>14 DEF IInv

-----------------------------------------------------------------------------
(***************************************************************************)
(* The beginning of a round.                                               *)
(***************************************************************************)
\* When the front-end has ended a round, all packets of it have been sent and taken,
\* but for the second end of the hulls some back-ends have still to drop.
LEMMA RoundOver ==
  ASSUME NEW h, Agrees(h), rpc = "start"
  PROVE  /\ \A s \in Stream, c \in Node : h.sent[s][c] = Length(s) /\ h.took[s][c] = Length(s)
         /\ \A s \in Stream : h.dsent[s] = IF s = "TDBSCAN" THEN 4 ELSE 1
         /\ \A w \in Worker : /\ pc[w] = "config" /\ h.dtook["TDBSCAN"][w] \in {3, 4}
                              /\ h.dtook["XchangeDimensions"][w] = 1
                              /\ h.dtook["Support"][w] = 1
<1>1. /\ Root \in Node /\ Possible(h) /\ RootOK(h)
      /\ \A p \in Filter : Forwards(h, p)
  BY NodeFacts DEF Agrees
<1>2. RootProgress(h) = <<6, 1, 1, 4, 1, 1>>
  BY <1>1, RootPlaceIs
<1>3. \A s \in Stream : h.took[s][Root] = Length(s) /\ h.dsent[s] = IF s = "TDBSCAN" THEN 4 ELSE 1
  BY <1>2, StreamFacts DEF RootProgress, Length
<1>4. \A s \in Stream, c \in Node :
        /\ h.sent[s][c] \in 0 .. 6 /\ h.took[s][c] \in 0 .. 6 /\ Length(s) \in Nat
        /\ h.took[s][c] <= h.sent[s][c] /\ h.sent[s][c] <= Length(s)
  BY <1>1, AccountFacts DEF Possible, Length
<1>5. ASSUME NEW s \in Stream, NEW c \in Node
      PROVE  h.sent[s][c] = Length(s)
  <2>1. h.sent[s][Root] = Length(s)
    BY <1>1, <1>3, <1>4
  <2>2. h.sent[s][Root] <= h.sent[s][c]
    BY <1>1, SentByAll
  <2> QED
    BY <1>4, <2>1, <2>2
<1>6. ASSUME NEW s \in Stream, NEW c \in Node
      PROVE  h.took[s][c] = Length(s)
  <2>1. CASE c = Root
    BY <1>3, <2>1
  <2>2. CASE c # Root
    <3>1. Parent[c] \in Filter /\ Parent[c] \in Node /\ c \in Children(Parent[c])
      BY <2>2, NodeFacts
    <3>2. h.sent[s][Parent[c]] <= h.took[s][c] /\ h.sent[s][Parent[c]] = Length(s)
      BY <1>1, <1>5, <3>1 DEF Forwards
    <3> QED
      BY <1>4, <3>2
  <2> QED
    BY <2>1, <2>2
<1>7. ASSUME NEW w \in Worker
      PROVE  /\ pc[w] = "config" /\ h.dtook["TDBSCAN"][w] \in {3, 4}
             /\ h.dtook["XchangeDimensions"][w] = 1 /\ h.dtook["Support"][w] = 1
  <2>1. h.sent["TDBSCAN"][w] = 6
    BY <1>5, NodeFacts, StreamFacts DEF Length
  <2>2. /\ pc[w] \in {"config", "dims", "barrier", "model", "hulls", "support", "exited"}
        /\ Progress(h, w) \in Places(pc[w])
    BY DEF Agrees, WorkerOK
  <2>3. \A l \in {"config", "dims", "barrier", "model", "hulls", "support", "exited"} :
          \A x \in Places(l) : x[1] = 6 => /\ l = "config" /\ x[4] \in {3, 4}
                                           /\ x[5] = 1 /\ x[6] = 1
    BY DEF Places
  <2>4. /\ Progress(h, w)[1] = 6 /\ Progress(h, w)[4] = h.dtook["TDBSCAN"][w]
        /\ Progress(h, w)[5] = h.dtook["XchangeDimensions"][w]
        /\ Progress(h, w)[6] = h.dtook["Support"][w]
    BY <2>1 DEF Progress
  <2> QED
    BY <2>2, <2>3, <2>4
<1> QED
  BY <1>3, <1>5, <1>6, <1>7

\* The models of a round consist of the dense hulls.
LEMMA ModelHulls ==
  ASSUME NEW h, Possible(h), RootOK(h)
  PROVE  Model(h) \in Seq(SUBSET Burst) /\ Range(Model(h)) = DenseHulls
<1>1. h.old \in Seq(SUBSET Burst) /\ h.news \in Seq(SUBSET Burst) /\ Modelled(h)
  BY DEF Possible, Accounts, RootOK
<1>2. CASE h.took["TDBSCAN"][Root] >= 3
  <2> DEFINE S == SUBSET Burst
             old == h.old
             news == h.news
  <2>1. Model(h) = old \o news /\ old \in Seq(S) /\ news \in Seq(S)
    BY <1>1 DEF Model
  <2>2. Range(old) \subseteq DenseHulls /\ Range(news) = DenseHulls
    BY <1>1, <1>2 DEF Modelled
  <2> HIDE DEF S, old, news
  <2>3. old \o news \in Seq(S) /\ Range(old \o news) = Range(old) \cup Range(news)
    BY <2>1, RangeConcat
  <2>4. Model(h) \in Seq(S) /\ Range(Model(h)) = DenseHulls
    BY <2>1, <2>2, <2>3
  <2> QED
    BY <2>4 DEF S
<1>3. CASE ~(h.took["TDBSCAN"][Root] >= 3)
  <2>1. rpc \in {"start", "dims", "barrier", "hulls", "support", "info", "stats"}
        /\ RootProgress(h) \in RootPlaces(rpc)
    BY DEF RootOK
  <2>2. \A l \in {"start", "dims", "barrier", "hulls", "support", "info", "stats"} :
          \A x \in RootPlaces(l) : x[1] >= 3 \/ x[4] < 3
    BY DEF RootPlaces
  <2>3. h.dsent["TDBSCAN"] < 3
    BY <1>3, <2>1, <2>2 DEF RootProgress
  <2>4. h.news = << >> /\ Range(h.old) = DenseHulls
    BY <1>1, <1>3, <2>3 DEF Possible, Modelled
  <2>5. Model(h) = h.old
    BY <1>1, <2>4 DEF Model
  <2> QED
    BY <1>1, <2>4, <2>5
<1> QED
  BY <1>2, <1>3

\* g is the account of a round that begins after the round h accounts for.
Begins(h, g) ==
  /\ g \in Accounts
  /\ \A s \in Stream, c \in Node : g.sent[s][c] = 0 /\ g.took[s][c] = 0
  /\ \A s \in Stream : g.dsent[s] = IF s = "TDBSCAN" THEN 1 ELSE 0
  /\ \A w \in Worker : /\ g.dtook["TDBSCAN"][w] = h.dtook["TDBSCAN"][w] - 4
                       /\ g.dtook["XchangeDimensions"][w] = 0
                       /\ g.dtook["Support"][w] = 0
  /\ g.round = h.round + 1 /\ g.old = Model(h) /\ g.news = << >>

\* There is one.
LEMMA BeginsExists ==
  ASSUME NEW h, Agrees(h), rpc = "start"
  PROVE  \E g : Begins(h, g)
<1> DEFINE none == [s \in Stream |-> [c \in Node |-> 0]]
           dsent == [s \in Stream |-> IF s = "TDBSCAN" THEN 1 ELSE 0]
           dtook == [s \in Stream |-> [w \in Worker |->
                       IF s = "TDBSCAN" THEN h.dtook["TDBSCAN"][w] - 4 ELSE 0]]
           model == Model(h)
           g == [h EXCEPT !.sent = none, !.took = none, !.dsent = dsent, !.dtook = dtook,
                          !.round = h.round + 1, !.old = model, !.news = << >>]
<1>1. h \in Accounts
  BY DEF Agrees, Possible
<1>2. /\ none \in [Stream -> [Node -> 0 .. 6]]
      /\ \A s \in Stream, c \in Node : none[s][c] = 0
  OBVIOUS
<1>3. /\ dsent \in [Stream -> 0 .. 4]
      /\ \A s \in Stream : dsent[s] = IF s = "TDBSCAN" THEN 1 ELSE 0
  OBVIOUS
<1>4. /\ dtook \in [Stream -> [Worker -> -1 .. 4]]
      /\ \A w \in Worker : /\ dtook["TDBSCAN"][w] = h.dtook["TDBSCAN"][w] - 4
                           /\ dtook["XchangeDimensions"][w] = 0 /\ dtook["Support"][w] = 0
  <2>1. \A w \in Worker : h.dtook["TDBSCAN"][w] - 4 \in {-1, 0}
    BY RoundOver
  <2> QED
    BY <2>1, StreamFacts
<1>5. model \in Seq(SUBSET Burst) /\ << >> \in Seq(SUBSET Burst)
  BY <1>1 DEF Model, Accounts
<1> HIDE DEF none, dsent, dtook, model
<1>6. /\ g \in Accounts
      /\ g.sent = none /\ g.took = none /\ g.dsent = dsent /\ g.dtook = dtook
      /\ g.round = h.round + 1 /\ g.old = model /\ g.news = << >>
  <2>1. h.round + 1 \in Nat
    BY <1>1 DEF Accounts
  <2> DEFINE next == h.round + 1
  <2> HIDE DEF next
  <2>2. [h EXCEPT !.sent = none, !.took = none, !.dsent = dsent, !.dtook = dtook,
                  !.round = next, !.old = model, !.news = << >>] \in Accounts
    BY <1>1, <1>2, <1>3, <1>4, <1>5, <2>1 DEF Accounts, next
  <2> QED
    BY <1>1, <2>2 DEF Accounts, next
<1> HIDE DEF g
<1>7. Begins(h, g)
  BY <1>2, <1>3, <1>4, <1>6 DEF Begins, model
<1> QED
  BY <1>7

\* A back-end that has still the end of the hulls of the last round in its queue finds
\* it before the configuration of the new one.
LEMMA BeginsQueues ==
  ASSUME NEW h, NEW g, Agrees(h), rpc = "start", Begins(h, g), UNCHANGED up,
         Broadcast("TDBSCAN", <<Mark("CLUSTERING_CONFIG")>>)
  PROVE  Queues(g)'
<1>1. Possible(h) /\ Queues(h)
  BY DEF Agrees
<1>2. ASSUME NEW s \in Stream, NEW c \in Node
      PROVE  up'[s][c] = Segment(Script(g, s, c), g.took[s][c], g.sent[s][c])
  <2>1. up[s][c] = << >>
    BY <1>1, UpQueue, RoundOver
  <2>2. Segment(Script(g, s, c), 0, 0) = << >>
    BY SegmentEmpty
  <2> QED
    BY <2>1, <2>2 DEF Begins
<1>3. ASSUME NEW w \in Worker
      PROVE  down'["TDBSCAN"][w]
               = Segment(DownScript(g, "TDBSCAN"), g.dtook["TDBSCAN"][w], g.dsent["TDBSCAN"])
  <2> DEFINE old == DownScript(h, "TDBSCAN")
             new == DownScript(g, "TDBSCAN")
             a == h.dtook["TDBSCAN"][w]
  <2>1. /\ a \in {3, 4} /\ g.dtook["TDBSCAN"][w] = a - 4 /\ g.dsent["TDBSCAN"] = 1
        /\ h.dsent["TDBSCAN"] = 4
    BY RoundOver, StreamFacts DEF Begins
  <2>2. down["TDBSCAN"][w] = Segment(old, a, 4)
    BY <1>1, <2>1, StreamFacts DEF Queues
  <2>3. down'["TDBSCAN"][w] = down["TDBSCAN"][w] \o <<Mark("CLUSTERING_CONFIG")>>
    BY <1>1, StreamFacts DEF Broadcast, Queues
  <2>4. new[0] = old[4] /\ new[1] = Mark("CLUSTERING_CONFIG")
    BY DownScriptIs
  <2> HIDE DEF old, new, a
  <2>5. Segment(old, a, 4) = Segment(new, a - 4, 0)
    <3>1. CASE a = 3
      <4>1. Segment(old, 3, 4) = <<old[4]>> /\ Segment(new, -1, 0) = <<new[0]>>
        BY DEF Segment
      <4>2. a - 4 = -1
        BY <3>1
      <4> QED
        BY <2>4, <3>1, <4>1, <4>2
    <3>2. CASE a = 4
      <4>1. Segment(old, 4, 4) = << >> /\ Segment(new, 0, 0) = << >>
        BY SegmentEmpty
      <4>2. a - 4 = 0
        BY <3>2
      <4> QED
        BY <3>2, <4>1, <4>2
    <3> QED
      BY <2>1, <3>1, <3>2
  <2>6. Segment(new, 0, 1) = <<new[1]>>
    BY DEF Segment
  <2>7. Segment(new, a - 4, 0) \o Segment(new, 0, 1) = Segment(new, a - 4, 1)
    <3>1. a - 4 \in Int /\ a - 4 <= 0 /\ 0 \in Int /\ 1 \in Int /\ 0 <= 1
      BY <2>1
    <3> QED
      BY <3>1, SegmentConcat
  <2> QED
    BY <2>1, <2>2, <2>3, <2>4, <2>5, <2>6, <2>7 DEF new
<1>4. ASSUME NEW s \in Stream, s # "TDBSCAN", NEW w \in Worker
      PROVE  down'[s][w] = Segment(DownScript(g, s), g.dtook[s][w], g.dsent[s])
  <2>1. h.dtook[s][w] = 1 /\ h.dsent[s] = 1 /\ g.dtook[s][w] = 0 /\ g.dsent[s] = 0
    BY <1>4, RoundOver, StreamFacts DEF Begins
  <2>2. down[s][w] = << >>
    BY <1>1, <2>1, DownQueue
  <2>3. down'[s][w] = down[s][w]
    BY <1>1, <1>4 DEF Broadcast, Queues
  <2>4. Segment(DownScript(g, s), 0, 0) = << >>
    BY SegmentEmpty
  <2> QED
    BY <2>1, <2>2, <2>3, <2>4
<1>5. /\ DOMAIN up' = Stream /\ DOMAIN down' = Stream
      /\ \A s \in Stream : DOMAIN up'[s] = Node /\ DOMAIN down'[s] = Worker
  <2>1. DOMAIN down' = Stream /\ \A s \in Stream : DOMAIN down'[s] = Worker
    BY <1>1 DEF Broadcast, Queues
  <2> QED
    BY <1>1, <2>1 DEF Queues
<1> QED
  BY <1>2, <1>3, <1>4, <1>5 DEF Queues

\* A round begins with a new account: no packet of the round before is left that could
\* be taken for one of this, and the model of the back-ends is what they ended with.
LEMMA SendConfigurationStep ==
  ASSUME NEW h, Agrees(h), UNCHANGED clump, SendConfiguration
  PROVE  IInv'
<1>1. /\ rpc = "start" /\ round < Rounds /\ round' = round + 1
      /\ info' = EmptyBag /\ nodes' = {} /\ arrived' = {} /\ left' = {} /\ rpc' = "dims"
      /\ Broadcast("TDBSCAN", <<Mark("CLUSTERING_CONFIG")>>)
      /\ UNCHANGED <<clump, up, filter, pc, data, dims, globalModel, class, support, rootModel>>
  BY DEF SendConfiguration, RootGoto, workerVars
<1>2. Possible(h) /\ Shapes /\ Root \in Node
  BY NodeFacts DEF Agrees
<1>3. PICK g : Begins(h, g)
  BY <1>1, BeginsExists
<1>4. /\ g \in Accounts /\ g.old = Model(h) /\ g.news = << >>
      /\ g.round = h.round + 1 /\ h.round = round /\ round \in Nat
      /\ \A s \in Stream, c \in Node : g.sent[s][c] = 0 /\ g.took[s][c] = 0
      /\ \A w \in Worker : /\ g.dtook["TDBSCAN"][w] \in {-1, 0}
                           /\ g.dtook["XchangeDimensions"][w] = 0
                           /\ g.dtook["Support"][w] = 0
      /\ \A s \in Stream : g.dsent[s] = IF s = "TDBSCAN" THEN 1 ELSE 0
  <2>1. h.round = round /\ round \in Nat
    BY <1>2 DEF Agrees, RootOK, Shapes
  <2> QED
    BY <1>1, <1>3, <2>1, RoundOver DEF Begins
<1>5. Shapes'
  <2>1. round' \in 0 .. Rounds
    BY <1>1, <1>2, TDBSCANAssumption DEF Shapes
  <2> QED
    BY <1>1, <1>2, <2>1, EmptyCounts DEF Shapes
<1>6. Possible(g)
  <2>1. \A s \in Stream : Length(s) >= 0
    BY DEF Length
  <2> QED
    BY <1>4, <2>1, StreamFacts DEF Possible
<1>7. Queues(g)'
  BY <1>1, <1>3, BeginsQueues
<1>8. ASSUME NEW p \in Filter
      PROVE  Forwards(g, p) /\ FilterOK(g, p, filter[p])
  <2>1. p \in Node /\ Children(p) # {} /\ \A c \in Children(p) : c \in Node
    BY NodeFacts
  <2>2. Forwards(g, p)
    BY <1>4, <2>1, StreamFacts DEF Forwards
  <2>3. FilterOK(h, p, filter[p]) /\ \A c \in Children(p) : h.took["TDBSCAN"][c] = 6
    BY <1>1, <2>1, RoundOver, StreamFacts DEF Agrees, Length
  <2>4. ~(filter[p].alive /\ ~filter[p].needsReset)
    BY <2>3 DEF FilterOK
  <2>5. FilterOK(g, p, filter[p])
    BY <1>4, <2>1, <2>3, <2>4, StreamFacts DEF FilterOK
  <2> QED
    BY <2>2, <2>5
<1>9. \A c \in Node : Contents(g, c)
  BY <1>4, StreamFacts DEF Contents
<1>10. ASSUME NEW w \in Worker
       PROVE  WorkerOK(g, w)'
  <2>1. /\ WorkerOK(h, w) /\ pc[w] = "config" /\ h.dtook["TDBSCAN"][w] \in {3, 4}
        /\ h.sent["Support"][w] = 1 /\ w \in Node
    BY <1>1, RoundOver, NodeFacts, StreamFacts DEF Agrees, Length
  <2>2. Progress(g, w) \in Places("config")
    BY <1>4, <2>1, StreamFacts DEF Progress, Places
  <2>3. Model(g) = Model(h)
    BY <1>2, <1>4 DEF Model, Possible, Accounts
  <2>4. globalModel[w] = g.old /\ class[w] \in Classify(w, Model(g))
    BY <1>4, <2>1, <2>3 DEF WorkerOK
  <2>5. Classify(w, Model(g))' = Classify(w, Model(g))
    BY <1>1 DEF Classify, Answers, Touch
  <2>6. \A b \in data[w] : Home[b] = w
    BY <2>1 DEF WorkerOK
  <2>7. Measured(g, w)'
    <3>1. /\ Measured(h, w) /\ data[w] \subseteq Burst /\ ~(h.dtook["TDBSCAN"][w] <= 0)
          /\ pc'[w] = "config" /\ g.round = round + 1
      BY <1>1, <1>2, <1>4, <2>1 DEF WorkerOK, Shapes
    <3>2. \A b \in data[w] : Arrives[b] <= round /\ Arrives[b] \in Nat
      BY <1>4, <3>1, TDBSCANAssumption DEF Measured
    <3>3. \A b \in data[w] : Arrives[b] < g.round /\ Arrives[b] <= g.round
      BY <1>4, <3>1, <3>2
    <3>4. \A b \in Burst : Home[b] = w =>
            dims'[b] = IF b \notin data[w] THEN {} ELSE Told(Worker, Arrives[b])
      BY <1>1, <2>1, <3>1 DEF Measured
    <3> QED
      BY <1>1, <3>1, <3>3, <3>4 DEF Measured
  <2> QED
    BY <1>1, <1>4, <2>1, <2>2, <2>4, <2>5, <2>6, <2>7, StreamFacts DEF WorkerOK
<1>11. RootOK(g)'
  <2>1. RootProgress(g) = <<0, 0, 0, 1, 0, 0>>
    BY <1>2, <1>4, StreamFacts DEF RootProgress
  <2>2. RootProgress(g) \in RootPlaces("dims")
    BY <2>1 DEF RootPlaces
  <2>3. \A w \in Worker : g.sent["TDBSCAN"][w] = 0 /\ pc'[w] # "model"
    BY <1>1, <1>4, RoundOver, NodeFacts, StreamFacts
  <2>4. g.took["TDBSCAN"][Root] = 0
    BY <1>2, <1>4, StreamFacts
  <2>5. Modelled(g)'
    <3>1. RootOK(h) /\ h.took["TDBSCAN"][Root] >= 3
      BY <1>1, <1>2, RoundOver, StreamFacts DEF Agrees, Length
    <3>2. Range(g.old) = DenseHulls
      BY <1>2, <1>4, <3>1, ModelHulls
    <3>3. /\ \A H : OneClump(H)' <=> OneClump(H)
          /\ DenseHulls' = DenseHulls
      BY <1>1 DEF OneClump, DenseHulls, Dense
    <3> QED
      BY <1>1, <2>4, <3>1, <3>2, <3>3 DEF RootOK, Modelled
  <2> QED
    BY <1>1, <1>4, <2>2, <2>3, <2>4, <2>5 DEF RootOK
<1>12. UNCHANGED <<clump, data, class>> /\ filter' = filter
  BY <1>1
<1>13. Agrees(g)'
  BY <1>5, <1>6, <1>7, <1>8, <1>9, <1>10, <1>11, <1>12, SameData DEF Agrees
<1> QED
  BY <1>13 DEF IInv

-----------------------------------------------------------------------------
(***************************************************************************)
(* What the account of a round says of its bursts.                         *)
(***************************************************************************)
\* What the last filter has sent to the front-end when it has all hulls.
LEMMA EndOfHullsIs ==
  ASSUME NEW h, Agrees(h), rpc \in {"support", "info", "stats"}
  PROVE  /\ left = h.noise[Root] /\ arrived = h.hulls[Root]
         /\ left \cup UNION arrived = UNION Range(data)
         /\ left \cap UNION arrived = {} /\ Apart(arrived)
         /\ \A H \in arrived : OneClump(H)
<1>1. Root \in Node /\ Possible(h) /\ RootOK(h) /\ Contents(h, Root)
  BY NodeFacts DEF Agrees
<1>2. h.took["TDBSCAN"][Root] \in {4, 5}
  BY <1>1, RootPlaceIs DEF RootProgress
<1>3. h.sent["TDBSCAN"][Root] >= 4
  <2>1. /\ h.took["TDBSCAN"][Root] <= h.sent["TDBSCAN"][Root]
        /\ h.sent["TDBSCAN"][Root] \in 0 .. 6
    BY <1>1, AccountFacts, StreamFacts
  <2> QED
    BY <1>2, <2>1
<1>4. left = h.noise[Root] /\ arrived = h.hulls[Root]
  BY <1>1, <1>2 DEF RootOK
<1>5. Bursts(Root) = UNION Range(data)
  BY BurstsOf DEF Agrees, Shapes, WorkerOK, Extracted
<1> QED
  BY <1>1, <1>3, <1>4, <1>5 DEF Contents

\* The hulls at the front-end and the noise left partition the bursts.
LEMMA AccountedInRound == IInv => EveryBurstAccounted
<1> SUFFICES ASSUME NEW h, Agrees(h), rpc \in {"support", "info", "stats"},
                    NEW b \in UNION Range(data)
             PROVE  Cardinality({H \in arrived : b \in H}) = IF b \in left THEN 0 ELSE 1
  BY DEF IInv, EveryBurstAccounted
<1>1. CASE b \in left
  <2>1. {H \in arrived : b \in H} = {}
    BY <1>1, EndOfHullsIs
  <2> QED
    BY <1>1, <2>1, FS_EmptySet
<1>2. CASE b \notin left
  <2>1. PICK G \in arrived : b \in G
    BY <1>2, EndOfHullsIs
  <2>2. \A H \in arrived : b \in H => H = G
    BY <2>1, EndOfHullsIs DEF Apart
  <2>3. {H \in arrived : b \in H} = {G}
    BY <2>1, <2>2
  <2> QED
    BY <1>2, <2>3, FS_Singleton
<1> QED
  BY <1>1, <1>2

\* The ids two back-ends give by one model m: an id is that of a hull of the burst's clump,
\* and a hull that no other touches is the only one its bursts can be classified by.
LEMMA SameIds ==
  ASSUME NEW m \in Seq(SUBSET Burst), \A H \in Range(m) : OneClump(H),
         NEW v \in Worker, NEW l \in Classify(v, m), NEW a \in data[v],
         NEW w \in Worker, NEW n \in Classify(w, m), NEW b \in data[w]
  PROVE  /\ l[a] = n[b] /\ l[a] # 0 => clump[a] = clump[b]
         /\ \A H \in Range(m) : a \in H /\ b \in H =>
              /\ l[a] # 0
              /\ l[a] = n[b] \/ \E G \in Range(m) \ {H} : Touch(G, H)
<1>1. \A k \in DOMAIN m : m[k] \in Range(m) /\ k \in Nat /\ k # 0
  BY DEF Range
<1>2. ASSUME l[a] = n[b], l[a] # 0
      PROVE  clump[a] = clump[b]
  <2>1. /\ l[a] \in DOMAIN m /\ \E x \in m[l[a]] : clump[x] = clump[a]
        /\ \E x \in m[n[b]] : clump[x] = clump[b]
    BY <1>2, ClassifyIs
  <2> QED
    BY <1>1, <1>2, <2>1 DEF OneClump
<1>3. ASSUME NEW H \in Range(m), a \in H, b \in H
      PROVE  l[a] # 0 /\ (l[a] = n[b] \/ \E G \in Range(m) \ {H} : Touch(G, H))
  <2>1. PICK k \in DOMAIN m : m[k] = H
    BY DEF Range
  <2>2. /\ l[a] \in DOMAIN m /\ \E x \in m[l[a]] : clump[x] = clump[a]
        /\ n[b] \in DOMAIN m /\ \E x \in m[n[b]] : clump[x] = clump[b]
    BY <1>1, <1>3, <2>1, ClassifyIs
  <2>3. ASSUME \A G \in Range(m) \ {H} : ~Touch(G, H)
        PROVE  l[a] = n[b]
    <3>1. m[l[a]] = H /\ m[n[b]] = H
      BY <1>1, <1>3, <2>2, <2>3 DEF Touch
    <3>2. l[a] <= n[b] /\ n[b] <= l[a]
      BY <1>3, <2>2, <3>1, ClassifyIs
    <3> QED
      BY <1>1, <2>2, <3>2
  <2> QED
    BY <1>1, <2>2, <2>3
<1> QED
  BY <1>2, <1>3

\* All back-ends classify by the model of the round, or still of the last one.
LEMMA ClassifiedInRound == IInv => ClassifiedAlike
<1> SUFFICES ASSUME NEW h, Agrees(h)
             PROVE  ClassifiedAlike
  BY DEF IInv
<1>1. NormalisedAlike
  <2> SUFFICES ASSUME NEW w \in Worker, pc[w] \in {"barrier", "model", "hulls", "support"},
                      NEW b \in data[w]
               PROVE  dims[b] = Told(Worker, Arrives[b])
    BY DEF NormalisedAlike, Told
  <2>1. Measured(h, w) /\ Home[b] = w /\ b \in Burst
    BY DEF Agrees, WorkerOK, Shapes
  <2> QED
    BY <2>1 DEF Measured
<1> DEFINE model == Model(h)
<1>2. model \in Seq(SUBSET Burst) /\ Range(model) = DenseHulls
  BY ModelHulls DEF Agrees
<1>3. \A H \in DenseHulls : OneClump(H)
  BY DEF Agrees, RootOK, Modelled, DenseHulls, Dense
<1>4. \A w \in Worker : class[w] = << >> \/ class[w] \in Classify(w, model)
  BY DEF Agrees, WorkerOK
<1> HIDE DEF model
<1>5. ASSUME NEW v \in Worker, NEW w \in Worker, NEW a \in DOMAIN class[v],
             NEW b \in DOMAIN class[w]
      PROVE  /\ class[v][a] = class[w][b] /\ class[v][a] # 0 => clump[a] = clump[b]
             /\ \A H \in DenseHulls : a \in H /\ b \in H =>
                  /\ class[v][a] # 0
                  /\ class[v][a] = class[w][b] \/ \E G \in DenseHulls \ {H} : Touch(G, H)
  <2>1. class[v] \in Classify(v, model) /\ class[w] \in Classify(w, model)
    BY <1>4, <1>5
  <2>2. a \in data[v] /\ b \in data[w]
    BY <1>2, <1>5, <2>1, ClassifyIs
  <2> QED
    BY <1>2, <1>3, <2>1, <2>2, SameIds
<1> QED
  BY <1>1, <1>5 DEF ClassifiedAlike

-----------------------------------------------------------------------------
(***************************************************************************)
(* A round in which scripts fail.                                          *)
(*                                                                         *)
(* A back-end whose scripts fail sends no CLUSTERS_INFO, and no filter     *)
(* above it ever sends one, while the STATISTICS go up as always: the      *)
(* front-end stays where it waits for the first.  What goes on below it is *)
(* told by an account m of the two packets alone: the processes that have  *)
(* sent them and those whose parents have taken them.                      *)
(***************************************************************************)
Infos == {Packet("CLUSTERS_INFO", B) : B \in Counts(Nat)}
Stats == {Packet("STATISTICS", X) : X \in SUBSET Node}

\* The reports c has sent and its parent has not taken.
Pending(m, c) ==
  IF c \in m.sentInfo \ m.tookInfo
    THEN IF c \in m.sentStats \ m.tookStats THEN {<<x, y>> : x \in Infos, y \in Stats}
                                            ELSE {<<x>> : x \in Infos}
    ELSE IF c \in m.sentStats \ m.tookStats THEN {<<y>> : y \in Stats} ELSE {<< >>}

\* A filter sends a report when it has it of all its children; the packets of one
\* process are taken in order.
Ordered(m) ==
  /\ m \in [sentInfo : SUBSET Node, tookInfo : SUBSET Node,
            sentStats : SUBSET Node, tookStats : SUBSET Node]
  /\ m.tookInfo \subseteq m.sentInfo /\ m.tookStats \subseteq m.sentStats
  /\ m.tookStats \cap m.sentInfo \subseteq m.tookInfo
  /\ \A p \in Filter : /\ p \in m.sentInfo => Children(p) \subseteq m.tookInfo
                       /\ p \in m.sentStats => Children(p) \subseteq m.tookStats

FilterLate(m, p, f) ==
  /\ f \in FilterState(p)
  /\ f.needsReset => Children(p) \subseteq m.tookStats
  /\ f.alive /\ ~f.needsReset =>
       /\ f.waitForClustersInfo = Cardinality(Children(p) \ m.tookInfo)
       /\ f.waitForStats = Cardinality(Children(p) \ m.tookStats)
       /\ ~(Children(p) \subseteq m.tookStats)

WorkerLate(m, w) ==
  /\ pc[w] \in {"support", "config", "exited"}
  /\ pc[w] = "support" => w \notin m.sentInfo \cup m.sentStats
  /\ class[w] \in [data[w] -> Nat]
  /\ globalModel[w] \in Seq(SUBSET Burst)
  /\ down["TDBSCAN"][w] \in {<< >>, <<Mark("ALL_HULLS_SENT")>>}
  /\ \/ down["Support"][w] = << >>
     \/ \E B \in Counts(Range(clump)) : down["Support"][w] = <<Packet("SUPPORT", B)>>

\* The state agrees with m, and nothing but reports is on its way up.
Late(m) ==
  /\ Shapes /\ Ordered(m)
  /\ DOMAIN up = Stream /\ DOMAIN down = Stream
  /\ \A s \in Stream : DOMAIN up[s] = Node /\ DOMAIN down[s] = Worker
  /\ \A c \in Node : /\ up["XchangeDimensions"][c] = << >> /\ up["Support"][c] = << >>
                     /\ up["TDBSCAN"][c] \in Pending(m, c)
  /\ \A p \in Filter : FilterLate(m, p, filter[p])
  /\ \A w \in Worker : WorkerLate(m, w)
  /\ rpc = "info"
  /\ EveryBurstAccounted /\ ClassifiedAlike

\* The processes of Z send no CLUSTERS_INFO: every filter of Z waits for one of them.
Silent(m, Z) ==
  /\ Z \subseteq Node /\ Root \in Z /\ Z \cap m.sentInfo = {}
  /\ \A p \in Z \cap Filter : Children(p) \cap Z # {}
  /\ \A w \in Z \cap Worker : pc[w] # "support"

Stuck == \E m, Z : Late(m) /\ Silent(m, Z)

\* The four cases of what is on its way from a process.
LEMMA PendingCases ==
  ASSUME NEW m, NEW c
  PROVE  LET i == c \in m.sentInfo \ m.tookInfo
             s == c \in m.sentStats \ m.tookStats
         IN  /\ i /\ s =>
                  \A q : q \in Pending(m, c) <=> \E x \in Infos, y \in Stats : q = <<x, y>>
             /\ i /\ ~s => \A q : q \in Pending(m, c) <=> \E x \in Infos : q = <<x>>
             /\ ~i /\ s => \A q : q \in Pending(m, c) <=> \E y \in Stats : q = <<y>>
             /\ ~i /\ ~s => Pending(m, c) = {<< >>}
<1>1. CASE c \in m.sentInfo \ m.tookInfo
  BY <1>1 DEF Pending
<1>2. CASE c \notin m.sentInfo \ m.tookInfo
  BY <1>2 DEF Pending
<1> QED
  BY <1>1, <1>2

\* The first of the reports on their way from a process.
LEMMA PendingIs ==
  ASSUME NEW m, NEW c, NEW q \in Pending(m, c), q # << >>
  PROVE  \/ /\ Head(q).tag = "CLUSTERS_INFO" /\ Head(q).body \in Counts(Nat)
            /\ c \in m.sentInfo \ m.tookInfo
            /\ IF c \in m.sentStats \ m.tookStats THEN Tail(q) \in {<<y>> : y \in Stats}
                                                  ELSE Tail(q) = << >>
         \/ /\ Head(q).tag = "STATISTICS" /\ Head(q).body \in SUBSET Node
            /\ c \notin m.sentInfo \ m.tookInfo /\ c \in m.sentStats \ m.tookStats
            /\ Tail(q) = << >>
<1>1. /\ \A x \in Infos : x.tag = "CLUSTERS_INFO" /\ x.body \in Counts(Nat)
      /\ \A y \in Stats : y.tag = "STATISTICS" /\ y.body \in SUBSET Node
  BY DEF Infos, Stats, Packet
<1>2. CASE c \in m.sentInfo \ m.tookInfo /\ c \in m.sentStats \ m.tookStats
  <2>1. PICK x \in Infos, y \in Stats : q = <<x, y>>
    BY <1>2 DEF Pending
  <2>2. Head(q) = x /\ Tail(q) = <<y>>
    BY <2>1, ShortQueues
  <2> QED
    BY <1>1, <1>2, <2>2
<1>3. CASE c \in m.sentInfo \ m.tookInfo /\ c \notin m.sentStats \ m.tookStats
  <2>1. PICK x \in Infos : q = <<x>>
    BY <1>3 DEF Pending
  <2>2. Head(q) = x /\ Tail(q) = << >>
    BY <2>1, ShortQueues
  <2> QED
    BY <1>1, <1>3, <2>2
<1>4. CASE c \notin m.sentInfo \ m.tookInfo /\ c \in m.sentStats \ m.tookStats
  <2>1. PICK y \in Stats : q = <<y>>
    BY <1>4 DEF Pending
  <2>2. Head(q) = y /\ Tail(q) = << >>
    BY <2>1, ShortQueues
  <2> QED
    BY <1>1, <1>4, <2>2
<1>5. CASE c \notin m.sentInfo \ m.tookInfo /\ c \notin m.sentStats \ m.tookStats
  BY <1>5 DEF Pending
<1> QED
  BY <1>2, <1>3, <1>4, <1>5

\* The parts of Late that say nothing of a packet or a filter are kept.
LEMMA LateFrame ==
  ASSUME NEW m, Late(m), NEW g, Ordered(g),
         UNCHANGED <<clump, data, class, dims, rootModel, arrived, left>>, Shapes', rpc' = "info",
         DOMAIN up' = Stream, DOMAIN down' = Stream,
         \A s \in Stream : DOMAIN up'[s] = Node /\ DOMAIN down'[s] = Worker,
         \A c \in Node : /\ up'["XchangeDimensions"][c] = << >> /\ up'["Support"][c] = << >>
                         /\ up'["TDBSCAN"][c] \in Pending(g, c),
         \A p \in Filter : FilterLate(g, p, filter'[p]),
         \A w \in Worker : WorkerLate(g, w)',
         \A w \in Worker : pc'[w] = "support" => pc[w] = "support"
  PROVE  Late(g)'
<1>1. EveryBurstAccounted'
  <2>1. rpc \in {"support", "info", "stats"}
    BY DEF Late
  <2>2. EveryBurstAccounted
    BY DEF Late
  <2> QED
    BY <2>1, <2>2 DEF EveryBurstAccounted
<1>2. ClassifiedAlike'
  <2>1. \A w \in Worker : pc'[w] \in {"support", "config", "exited"}
    BY DEF WorkerLate
  <2>2. NormalisedAlike'
    BY <2>1 DEF Late, ClassifiedAlike, NormalisedAlike
  <2> QED
    BY <2>2 DEF Late, ClassifiedAlike, DenseHulls, Dense, Touch
<1>3. Ordered(g)' /\ \A c : Pending(g, c)' = Pending(g, c)
  BY DEF Ordered, Pending, Infos, Stats
<1>4. \A p, f : FilterLate(g, p, f)' <=> FilterLate(g, p, f)
  BY DEF FilterLate
<1>5. \A p \in Filter : FilterLate(g, p, filter[p])'
  BY <1>4
<1>6. \A c \in Node : (up["TDBSCAN"][c] \in Pending(g, c))'
  BY <1>3
<1> QED
  BY <1>1, <1>2, <1>3, <1>5, <1>6 DEF Late

\* A filter takes the first of the reports of its child c, becomes f and passes on out.
LEMMA LateFilterFrame ==
  ASSUME NEW m, Late(m), NEW g, Ordered(g), UNCHANGED clump,
         NEW c \in Node \ {Root}, NEW f, NEW out, FilterStep(c, f, out),
         g.tookInfo \ {c} = m.tookInfo \ {c}, g.tookStats \ {c} = m.tookStats \ {c},
         g.sentInfo \ {Parent[c]} = m.sentInfo \ {Parent[c]},
         g.sentStats \ {Parent[c]} = m.sentStats \ {Parent[c]},
         Tail(up["TDBSCAN"][c]) \in Pending(g, c),
         up["TDBSCAN"][Parent[c]] \o out \in Pending(g, Parent[c]),
         FilterLate(g, Parent[c], f)
  PROVE  /\ Late(g)' /\ UNCHANGED pc
         /\ \A p \in Filter \ {Parent[c]} : filter'[p] = filter[p]
         /\ filter'[Parent[c]] = f
<1> DEFINE p == Parent[c]
<1>1. /\ filter' = [filter EXCEPT ![p] = f]
      /\ up' = [up EXCEPT !["TDBSCAN"][c] = Tail(@), !["TDBSCAN"][p] = @ \o out]
      /\ UNCHANGED <<down, pc, data, dims, globalModel, class, support, rpc, round, rootModel,
                     info, nodes, arrived, left>>
  BY DEF FilterStep, workerVars, rootVars
<1>2. p \in Filter /\ p \in Node /\ c \in Node /\ c \in Children(p) /\ p # c
  <2>1. p \in Filter /\ p \in Node /\ c \in Node /\ c \in Children(p)
    BY NodeFacts
  <2>2. c \notin Above(p) /\ p \in Above(p)
    BY <2>1, Acyclic, AboveSelf
  <2> QED
    BY <2>1, <2>2
<1> HIDE DEF p
<1>3. Shapes /\ rpc = "info" /\ DOMAIN up = Stream /\ DOMAIN down = Stream
      /\ \A s \in Stream : DOMAIN up[s] = Node /\ DOMAIN down[s] = Worker
  BY DEF Late
<1>4. /\ filter'[p] = f /\ \A q \in Filter \ {p} : filter'[q] = filter[q]
      /\ DOMAIN filter' = Filter
  BY <1>1, <1>2, <1>3 DEF Shapes
<1>5. /\ DOMAIN up' = Stream /\ \A s \in Stream : DOMAIN up'[s] = Node
      /\ \A s \in Stream \ {"TDBSCAN"} : up'[s] = up[s]
      /\ \A d \in Node \ {c, p} : up'["TDBSCAN"][d] = up["TDBSCAN"][d]
      /\ up'["TDBSCAN"][c] = Tail(up["TDBSCAN"][c])
      /\ up'["TDBSCAN"][p] = up["TDBSCAN"][p] \o out
  BY <1>1, <1>2, <1>3, StreamFacts
<1>6. ASSUME NEW d \in Node
      PROVE  up'["TDBSCAN"][d] \in Pending(g, d)
  <2>1. CASE d \in {c, p}
    BY <1>5, <2>1 DEF p
  <2>2. CASE d \notin {c, p}
    <3>1. /\ d \in g.tookInfo <=> d \in m.tookInfo
          /\ d \in g.tookStats <=> d \in m.tookStats
          /\ d \in g.sentInfo <=> d \in m.sentInfo
          /\ d \in g.sentStats <=> d \in m.sentStats
      BY <2>2 DEF p
    <3>2. Pending(g, d) = Pending(m, d)
      BY <3>1 DEF Pending
    <3> QED
      BY <1>5, <2>2, <3>2 DEF Late
  <2> QED
    BY <2>1, <2>2
<1>7. ASSUME NEW q \in Filter
      PROVE  FilterLate(g, q, filter'[q])
  <2>1. CASE q = p
    BY <1>4, <2>1 DEF p
  <2>2. CASE q # p
    <3>1. c \notin Children(q)
      BY <1>2, <2>2, NodeFacts
    <3>2. /\ Children(q) \ g.tookInfo = Children(q) \ m.tookInfo
          /\ Children(q) \ g.tookStats = Children(q) \ m.tookStats
          /\ Children(q) \subseteq g.tookStats <=> Children(q) \subseteq m.tookStats
      BY <3>1
    <3>3. FilterLate(m, q, filter[q])
      BY DEF Late
    <3> QED
      BY <1>4, <2>2, <3>2, <3>3 DEF FilterLate
  <2> QED
    BY <2>1, <2>2
<1>8. ASSUME NEW w \in Worker
      PROVE  WorkerLate(g, w)'
  <2>1. w # p
    BY <1>2, NodeFacts
  <2>2. w \in g.sentInfo \cup g.sentStats => w \in m.sentInfo \cup m.sentStats
    BY <2>1 DEF p
  <2>3. WorkerLate(m, w)
    BY DEF Late
  <2> QED
    BY <1>1, <2>2, <2>3 DEF WorkerLate
<1>9. Shapes'
  BY <1>1, <1>3, <1>4 DEF Shapes
<1>10. \A d \in Node : /\ up'["XchangeDimensions"][d] = << >> /\ up'["Support"][d] = << >>
                       /\ up'["TDBSCAN"][d] \in Pending(g, d)
  BY <1>5, <1>6, StreamFacts DEF Late
<1>11. /\ rpc' = "info" /\ DOMAIN down' = Stream
       /\ UNCHANGED <<data, class, dims, rootModel, arrived, left>>
       /\ \A s \in Stream : DOMAIN up'[s] = Node /\ DOMAIN down'[s] = Worker
       /\ \A w \in Worker : pc'[w] = "support" => pc[w] = "support"
  BY <1>1, <1>3, <1>5
<1>12. Late(g)'
  BY <1>5, <1>7, <1>8, <1>9, <1>10, <1>11, LateFrame
<1> QED
  BY <1>1, <1>4, <1>12 DEF p

\* No filter is reset in a step.
NoReset == \A p \in Filter : filter[p].needsReset => filter'[p].needsReset

\* The sum of two bags.
LEMMA CountsSum ==
  ASSUME NEW K, NEW A \in Counts(K), NEW B \in Counts(K)
  PROVE  A (+) B \in Counts(K)
<1>1. PICK D \in SUBSET K : A \in [D -> Nat \ {0}]
  BY DEF Counts
<1>2. PICK E \in SUBSET K : B \in [E -> Nat \ {0}]
  BY DEF Counts
<1>3. A (+) B = [k \in D \cup E |-> (IF k \in D THEN A[k] ELSE 0) + (IF k \in E THEN B[k] ELSE 0)]
  BY <1>1, <1>2 DEF (+)
<1>4. A (+) B \in [D \cup E -> Nat \ {0}]
  BY <1>1, <1>2, <1>3
<1> QED
  BY <1>4 DEF Counts

\* A filter one of whose children has statistics to come is not reset.
LEMMA LateCurrent ==
  ASSUME NEW m, Late(m), NEW c \in Node \ {Root}, filter[Parent[c]].alive, c \notin m.tookStats
  PROVE  LET p == Parent[c]
         IN  /\ p \in Filter /\ c \in Children(p) /\ p \notin m.sentStats
             /\ Current(p) = filter[p] /\ ~filter[p].needsReset
             /\ filter[p] \in FilterState(p)
             /\ filter[p].waitForClustersInfo = Cardinality(Children(p) \ m.tookInfo)
             /\ filter[p].waitForStats = Cardinality(Children(p) \ m.tookStats)
             /\ \A k \in {m.tookInfo, m.tookStats} : c \notin k =>
                  /\ Cardinality(Children(p) \ (k \cup {c})) = Cardinality(Children(p) \ k) - 1
                  /\ Cardinality(Children(p) \ (k \cup {c})) \in 0 .. Cardinality(Children(p))
                  /\ Cardinality(Children(p) \ (k \cup {c})) = 0
                       <=> Children(p) \subseteq k \cup {c}
<1> DEFINE p == Parent[c]
<1>1. p \in Filter /\ c \in Children(p) /\ FilterLate(m, p, filter[p]) /\ Ordered(m)
  BY NodeFacts DEF Late
<1>2. ~filter[p].needsReset /\ p \notin m.sentStats
  BY <1>1 DEF FilterLate, Ordered
<1>3. Current(p) = filter[p]
  BY <1>2 DEF Current
<1>4. ASSUME NEW k, c \notin k
      PROVE  /\ Cardinality(Children(p) \ (k \cup {c})) = Cardinality(Children(p) \ k) - 1
             /\ Cardinality(Children(p) \ (k \cup {c})) \in 0 .. Cardinality(Children(p))
             /\ Cardinality(Children(p) \ (k \cup {c})) = 0 <=> Children(p) \subseteq k \cup {c}
  <2> DEFINE S == Children(p)
             R == S \ k
  <2>1. IsFiniteSet(S) /\ IsFiniteSet(R) /\ c \in R
    <3>1. IsFiniteSet(S)
      BY FiniteFacts
    <3>2. R \subseteq S
      OBVIOUS
    <3> QED
      BY <1>1, <1>4, <3>1, <3>2, FS_Subset
  <2>2. S \ (k \cup {c}) = R \ {c}
    OBVIOUS
  <2>3. R \ {c} \subseteq S /\ (R \ {c} = {} <=> S \subseteq k \cup {c})
    OBVIOUS
  <2> HIDE DEF S, R
  <2>4. Cardinality(R \ {c}) = Cardinality(R) - 1
    BY <2>1, FS_RemoveElement
  <2>5. /\ IsFiniteSet(R \ {c}) /\ Cardinality(R \ {c}) \in Nat
        /\ Cardinality(S) \in Nat /\ Cardinality(R \ {c}) <= Cardinality(S)
    BY <2>1, <2>3, FS_Subset, FS_CardinalityType
  <2>6. Cardinality(R \ {c}) = 0 <=> R \ {c} = {}
    BY <2>5, FS_EmptySet
  <2> DEFINE a == Cardinality(R \ {c})
             b == Cardinality(S)
  <2>7. a \in Nat /\ b \in Nat /\ a <= b => a \in 0 .. b
    OBVIOUS
  <2>8. a \in 0 .. b
    BY <2>5, <2>7
  <2> HIDE DEF a, b
  <2>9. /\ Cardinality(S \ (k \cup {c})) = Cardinality(R) - 1
        /\ Cardinality(S \ (k \cup {c})) \in 0 .. Cardinality(S)
        /\ Cardinality(S \ (k \cup {c})) = 0 <=> S \subseteq k \cup {c}
    BY <2>2, <2>3, <2>4, <2>6, <2>8 DEF a, b
  <2> QED
    BY <2>9 DEF S, R
<1> QED
  BY <1>1, <1>2, <1>3, <1>4 DEF FilterLate

\* The child's report is added; what goes up when it is the last is not missed above,
\* where another child is silent.
LEMMA LateInfo ==
  ASSUME NEW m, NEW Z, Late(m), Silent(m, Z), UNCHANGED clump,
         NEW c \in Node \ {Root}, FilterClustersInfo(c)
  PROVE  Stuck' /\ NoReset
<1> DEFINE p == Parent[c]
           q == up["TDBSCAN"][c]
           sum == filter[p].info (+) Head(q).body
           f == [Current(p) EXCEPT !.waitForClustersInfo = @ - 1, !.info = @ (+) Head(q).body]
           out == IF f.waitForClustersInfo <= 0 THEN <<Packet("CLUSTERS_INFO", f.info)>>
                                               ELSE << >>
<1>1. /\ c \in Node /\ p \in Node /\ p \in Filter /\ Ordered(m) /\ q \in Pending(m, c)
      /\ up["TDBSCAN"][p] \in Pending(m, p) /\ c \in Children(p) /\ p # c
  <2>1. c \in Node /\ p \in Node /\ p \in Filter /\ c \in Children(p)
    BY NodeFacts
  <2>2. c \notin Above(p) /\ p \in Above(p)
    BY <2>1, Acyclic, AboveSelf
  <2> QED
    BY <2>1, <2>2 DEF Late
<1>2. q # << >> /\ Head(q).tag = "CLUSTERS_INFO" /\ FilterStep(c, f, out) /\ filter[p].alive
  <2>1. q # << >> /\ Head(q).tag = "CLUSTERS_INFO" /\ FilterStep(c, f, out)
    BY DEF FilterClustersInfo, Arrived
  <2> QED
    BY <2>1 DEF FilterStep
<1>3. /\ c \in m.sentInfo \ m.tookInfo /\ Head(q).body \in Counts(Nat)
      /\ IF c \in m.sentStats \ m.tookStats THEN Tail(q) \in {<<y>> : y \in Stats}
                                            ELSE Tail(q) = << >>
  BY <1>1, <1>2, PendingIs
<1>4. c \notin m.tookInfo /\ c \notin m.tookStats
  BY <1>1, <1>3 DEF Ordered
<1> DEFINE took == m.tookInfo \cup {c}
<1>5. /\ p \notin m.sentStats /\ p \notin m.tookStats
      /\ p \notin m.sentInfo /\ p \notin m.tookInfo
      /\ Current(p) = filter[p] /\ ~filter[p].needsReset /\ filter[p] \in FilterState(p)
      /\ filter[p].waitForClustersInfo = Cardinality(Children(p) \ m.tookInfo)
      /\ filter[p].waitForStats = Cardinality(Children(p) \ m.tookStats)
      /\ Cardinality(Children(p) \ took) = filter[p].waitForClustersInfo - 1
      /\ Cardinality(Children(p) \ took) \in 0 .. Cardinality(Children(p))
      /\ Cardinality(Children(p) \ took) = 0 <=> Children(p) \subseteq took
  <2>1. p \notin m.sentInfo
    BY <1>1, <1>4 DEF Ordered
  <2>2. \A k \in {m.tookInfo, m.tookStats} : c \notin k =>
          /\ Cardinality(Children(p) \ (k \cup {c})) = Cardinality(Children(p) \ k) - 1
          /\ Cardinality(Children(p) \ (k \cup {c})) \in 0 .. Cardinality(Children(p))
          /\ Cardinality(Children(p) \ (k \cup {c})) = 0 <=> Children(p) \subseteq k \cup {c}
    BY <1>2, <1>4, LateCurrent
  <2>3. /\ p \notin m.sentStats
        /\ Current(p) = filter[p] /\ ~filter[p].needsReset /\ filter[p] \in FilterState(p)
        /\ filter[p].waitForClustersInfo = Cardinality(Children(p) \ m.tookInfo)
        /\ filter[p].waitForStats = Cardinality(Children(p) \ m.tookStats)
    BY <1>2, <1>4, LateCurrent
  <2> QED
    BY <1>1, <1>4, <2>1, <2>2, <2>3 DEF Ordered
<1>6. sum \in Counts(Nat)
  <2>1. filter[p].info \in Counts(Nat)
    BY <1>5, FilterFields
  <2> QED
    BY <1>3, <2>1, CountsSum
<1>7. f = [filter[p] EXCEPT !.waitForClustersInfo = @ - 1, !.info = sum]
  BY <1>5 DEF FilterState
<1> HIDE DEF f, sum
<1>8. /\ f \in FilterState(p) /\ f.info = sum /\ ~f.needsReset
      /\ f.waitForClustersInfo = Cardinality(Children(p) \ took)
      /\ f.waitForStats = Cardinality(Children(p) \ m.tookStats)
  BY <1>5, <1>6, <1>7 DEF FilterState
<1> DEFINE g == [sentInfo |-> IF Children(p) \subseteq took THEN m.sentInfo \cup {p}
                                                            ELSE m.sentInfo,
                 tookInfo |-> took, sentStats |-> m.sentStats, tookStats |-> m.tookStats]
<1>9. /\ g.sentInfo = IF Children(p) \subseteq took THEN m.sentInfo \cup {p} ELSE m.sentInfo
      /\ g.tookInfo = took /\ g.sentStats = m.sentStats /\ g.tookStats = m.tookStats
      /\ g \in [sentInfo : SUBSET Node, tookInfo : SUBSET Node,
                sentStats : SUBSET Node, tookStats : SUBSET Node]
  BY <1>1 DEF Ordered
<1> HIDE DEF g
<1>10. Ordered(g)
  <2>1. /\ g.tookInfo \subseteq g.sentInfo /\ g.tookStats \subseteq g.sentStats
        /\ g.tookStats \cap g.sentInfo \subseteq g.tookInfo
    BY <1>1, <1>3, <1>5, <1>9 DEF Ordered
  <2>2. ASSUME NEW r \in Filter
        PROVE  /\ r \in g.sentInfo => Children(r) \subseteq g.tookInfo
               /\ r \in g.sentStats => Children(r) \subseteq g.tookStats
    BY <1>1, <1>9 DEF Ordered
  <2> QED
    BY <1>9, <2>1, <2>2 DEF Ordered
<1>11. Tail(q) \in Pending(g, c)
  <2>1. c \notin g.sentInfo \ g.tookInfo
    BY <1>9
  <2>2. c \in g.sentStats \ g.tookStats <=> c \in m.sentStats \ m.tookStats
    BY <1>9
  <2>3. CASE c \in m.sentStats \ m.tookStats
    <3>1. \E y \in Stats : Tail(q) = <<y>>
      BY <1>3, <2>3
    <3> QED
      BY <2>1, <2>2, <2>3, <3>1, PendingCases
  <2>4. CASE c \notin m.sentStats \ m.tookStats
    <3>1. Tail(q) = << >>
      BY <1>3, <2>4
    <3>2. Pending(g, c) = {<< >>}
      BY <2>1, <2>2, <2>4, PendingCases
    <3> QED
      BY <3>1, <3>2
  <2> QED
    BY <2>3, <2>4
<1>17. f.waitForClustersInfo <= 0 <=> Children(p) \subseteq took
  <2>1. f.waitForClustersInfo \in 0 .. Cardinality(Children(p))
    BY <1>8, FilterFields
  <2>2. f.waitForClustersInfo = 0 <=> Children(p) \subseteq took
    BY <1>5, <1>8
  <2> HIDE DEF f
  <2>3. f.waitForClustersInfo <= 0 <=> f.waitForClustersInfo = 0
    BY <2>1
  <2> QED
    BY <2>2, <2>3
<1>12. up["TDBSCAN"][p] \o out \in Pending(g, p)
  <2>1. up["TDBSCAN"][p] = << >>
    BY <1>1, <1>5, PendingCases
  <2>2. p \notin g.tookInfo /\ p \notin g.sentStats
    BY <1>1, <1>5, <1>9
  <2>3. CASE Children(p) \subseteq took
    <3>1. out = <<Packet("CLUSTERS_INFO", sum)>>
      BY <1>8, <1>17, <2>3
    <3>2. up["TDBSCAN"][p] \o out = <<Packet("CLUSTERS_INFO", sum)>>
      BY <2>1, <3>1, ShortQueues
    <3>3. Packet("CLUSTERS_INFO", sum) \in Infos
      BY <1>6 DEF Infos
    <3>4. p \in g.sentInfo \ g.tookInfo /\ p \notin g.sentStats \ g.tookStats
      BY <1>9, <2>2, <2>3
    <3> QED
      BY <3>2, <3>3, <3>4, PendingCases
  <2>4. CASE ~(Children(p) \subseteq took)
    <3>1. out = << >>
      BY <1>17, <2>4
    <3>2. up["TDBSCAN"][p] \o out = << >>
      BY <2>1, <3>1, ShortQueues
    <3>3. p \notin g.sentInfo
      BY <1>5, <1>9, <2>4
    <3> QED
      BY <2>2, <3>2, <3>3, PendingCases
  <2> QED
    BY <2>3, <2>4
<1>13. FilterLate(g, p, f)
  <2>1. ~(Children(p) \subseteq g.tookStats)
    BY <1>1, <1>4, <1>9
  <2> QED
    BY <1>8, <1>9, <2>1 DEF FilterLate
<1> HIDE DEF out
<1>14. /\ Late(g)' /\ UNCHANGED pc
       /\ \A r \in Filter \ {Parent[c]} : filter'[r] = filter[r]
  <2>1. /\ g.tookInfo \ {c} = m.tookInfo \ {c} /\ g.tookStats \ {c} = m.tookStats \ {c}
        /\ g.sentInfo \ {Parent[c]} = m.sentInfo \ {Parent[c]}
        /\ g.sentStats \ {Parent[c]} = m.sentStats \ {Parent[c]}
    BY <1>9
  <2> QED
    BY <1>2, <1>10, <1>11, <1>12, <1>13, <2>1, LateFilterFrame
<1>15. Silent(g, Z)'
  <2>1. p \in Z => ~(Children(p) \subseteq took)
    <3> SUFFICES ASSUME p \in Z PROVE ~(Children(p) \subseteq took)
      OBVIOUS
    <3>1. PICK d \in Children(p) : d \in Z
      BY <1>1 DEF Silent
    <3>2. d \notin m.sentInfo
      BY <3>1 DEF Silent
    <3>3. d \notin m.tookInfo /\ d # c
      BY <1>1, <1>3, <3>2 DEF Ordered
    <3> QED
      BY <3>1, <3>3
  <2>2. Z \cap g.sentInfo = {}
    BY <1>9, <2>1 DEF Silent
  <2> QED
    BY <1>14, <2>2 DEF Silent
<1>16. NoReset
  BY <1>5, <1>14 DEF NoReset
<1> QED
  BY <1>14, <1>15, <1>16 DEF Stuck

\* What a filter finds that takes the statistics of a child, and what it becomes.
LEMMA LateStatsStart ==
  ASSUME NEW m, Late(m), NEW c \in Node \ {Root}, Arrived("TDBSCAN", c, "STATISTICS"),
         filter[Parent[c]].alive
  PROVE  LET p == Parent[c]
             q == up["TDBSCAN"][c]
             took == m.tookStats \cup {c}
         IN  /\ p \in Filter /\ p \in Node /\ c \in Node /\ c \in Children(p) /\ p # c
             /\ c \in m.sentStats /\ c \notin m.tookStats /\ c \notin m.sentInfo \ m.tookInfo
             /\ Head(q).body \in SUBSET Node /\ Tail(q) = << >>
             /\ p \notin m.sentStats /\ p \notin m.tookStats
             /\ Current(p) = filter[p] /\ ~filter[p].needsReset /\ filter[p] \in FilterState(p)
             /\ filter[p].waitForClustersInfo = Cardinality(Children(p) \ m.tookInfo)
             /\ Cardinality(Children(p) \ took) = filter[p].waitForStats - 1
             /\ Cardinality(Children(p) \ took) \in 0 .. Cardinality(Children(p))
             /\ Cardinality(Children(p) \ took) = 0 <=> Children(p) \subseteq took
<1> DEFINE p == Parent[c]
           q == up["TDBSCAN"][c]
<1>1. /\ c \in Node /\ p \in Node /\ p \in Filter /\ Ordered(m) /\ q \in Pending(m, c)
      /\ c \in Children(p) /\ p # c
  <2>1. c \in Node /\ p \in Node /\ p \in Filter /\ c \in Children(p)
    BY NodeFacts
  <2>2. c \notin Above(p) /\ p \in Above(p)
    BY <2>1, Acyclic, AboveSelf
  <2> QED
    BY <2>1, <2>2 DEF Late
<1>2. q # << >> /\ Head(q).tag = "STATISTICS"
  BY DEF Arrived
<1>3. /\ Head(q).body \in SUBSET Node /\ Tail(q) = << >>
      /\ c \notin m.sentInfo \ m.tookInfo /\ c \in m.sentStats \ m.tookStats
  BY <1>1, <1>2, PendingIs
<1>4. /\ p \notin m.sentStats
      /\ Current(p) = filter[p] /\ ~filter[p].needsReset /\ filter[p] \in FilterState(p)
      /\ filter[p].waitForClustersInfo = Cardinality(Children(p) \ m.tookInfo)
      /\ filter[p].waitForStats = Cardinality(Children(p) \ m.tookStats)
  BY <1>3, LateCurrent
<1>5. \A k \in {m.tookInfo, m.tookStats} : c \notin k =>
        /\ Cardinality(Children(p) \ (k \cup {c})) = Cardinality(Children(p) \ k) - 1
        /\ Cardinality(Children(p) \ (k \cup {c})) \in 0 .. Cardinality(Children(p))
        /\ Cardinality(Children(p) \ (k \cup {c})) = 0 <=> Children(p) \subseteq k \cup {c}
  BY <1>3, LateCurrent
<1> QED
  BY <1>1, <1>3, <1>4, <1>5 DEF Ordered

\* The account after c's statistics are taken, and sent on by its parent or not.
LEMMA LateStatsAccount ==
  ASSUME NEW m, Ordered(m), NEW c \in Node \ {Root},
         c \in m.sentStats, c \notin m.sentInfo \ m.tookInfo
  PROVE  /\ \E g : /\ Ordered(g)
                   /\ g.sentInfo = m.sentInfo /\ g.tookInfo = m.tookInfo
                   /\ g.sentStats = m.sentStats /\ g.tookStats = m.tookStats \cup {c}
         /\ Children(Parent[c]) \subseteq m.tookStats \cup {c} =>
              \E g : /\ Ordered(g)
                     /\ g.sentInfo = m.sentInfo /\ g.tookInfo = m.tookInfo
                     /\ g.sentStats = m.sentStats \cup {Parent[c]}
                     /\ g.tookStats = m.tookStats \cup {c}
<1>1. ASSUME NEW X \in SUBSET Node, X \subseteq {Parent[c]},
             X # {} => Children(Parent[c]) \subseteq m.tookStats \cup {c}
      PROVE  \E g : /\ Ordered(g)
                    /\ g.sentInfo = m.sentInfo /\ g.tookInfo = m.tookInfo
                    /\ g.sentStats = m.sentStats \cup X /\ g.tookStats = m.tookStats \cup {c}
  <2> DEFINE g == [sentInfo |-> m.sentInfo, tookInfo |-> m.tookInfo,
                   sentStats |-> m.sentStats \cup X, tookStats |-> m.tookStats \cup {c}]
  <2>1. /\ g.sentInfo = m.sentInfo /\ g.tookInfo = m.tookInfo
        /\ g.sentStats = m.sentStats \cup X /\ g.tookStats = m.tookStats \cup {c}
        /\ g \in [sentInfo : SUBSET Node, tookInfo : SUBSET Node,
                  sentStats : SUBSET Node, tookStats : SUBSET Node]
    BY DEF Ordered
  <2> HIDE DEF g
  <2>2. Ordered(g)
    BY <1>1, <2>1 DEF Ordered
  <2> QED
    BY <2>1, <2>2
<1>2. Parent[c] \in Node
  BY NodeFacts
<1>3. \E g : /\ Ordered(g)
             /\ g.sentInfo = m.sentInfo /\ g.tookInfo = m.tookInfo
             /\ g.sentStats = m.sentStats /\ g.tookStats = m.tookStats \cup {c}
  <2>1. {} \in SUBSET Node /\ {} \subseteq {Parent[c]} /\ m.sentStats \cup {} = m.sentStats
    OBVIOUS
  <2>2. \E g : /\ Ordered(g)
               /\ g.sentInfo = m.sentInfo /\ g.tookInfo = m.tookInfo
               /\ g.sentStats = m.sentStats \cup {} /\ g.tookStats = m.tookStats \cup {c}
    BY <1>1, <2>1
  <2> QED
    BY <2>1, <2>2
<1>4. ASSUME Children(Parent[c]) \subseteq m.tookStats \cup {c}
      PROVE  \E g : /\ Ordered(g)
                    /\ g.sentInfo = m.sentInfo /\ g.tookInfo = m.tookInfo
                    /\ g.sentStats = m.sentStats \cup {Parent[c]}
                    /\ g.tookStats = m.tookStats \cup {c}
  <2>1. {Parent[c]} \in SUBSET Node /\ {Parent[c]} \subseteq {Parent[c]}
    BY <1>2
  <2> QED
    BY <1>1, <1>4, <2>1
<1> QED
  BY <1>3, <1>4

\* Statistics taken and not passed on, whether the filter waits for more or dies.
LEMMA LateStatsQuiet ==
  ASSUME NEW m, NEW Z, Late(m), Silent(m, Z), UNCHANGED clump,
         NEW c \in Node \ {Root}, Arrived("TDBSCAN", c, "STATISTICS"),
         NEW f \in FilterState(Parent[c]), FilterStep(c, f, << >>), ~f.needsReset,
         f.alive => /\ f.waitForClustersInfo = filter[Parent[c]].waitForClustersInfo
                    /\ f.waitForStats = filter[Parent[c]].waitForStats - 1
                    /\ f.waitForStats > 0
  PROVE  Stuck' /\ NoReset
<1> DEFINE p == Parent[c]
           took == m.tookStats \cup {c}
<1>1. /\ p \in Filter /\ p \in Node /\ c \in Node /\ c \in Children(p) /\ p # c
      /\ c \in m.sentStats /\ c \notin m.tookStats /\ c \notin m.sentInfo \ m.tookInfo
      /\ Tail(up["TDBSCAN"][c]) = << >>
      /\ p \notin m.sentStats /\ p \notin m.tookStats
      /\ ~filter[p].needsReset
      /\ filter[p].waitForClustersInfo = Cardinality(Children(p) \ m.tookInfo)
      /\ Cardinality(Children(p) \ took) = filter[p].waitForStats - 1
      /\ Cardinality(Children(p) \ took) = 0 <=> Children(p) \subseteq took
  <2>1. filter[Parent[c]].alive
    BY DEF FilterStep
  <2> QED
    BY <2>1, LateStatsStart
<1>2. PICK g : /\ Ordered(g)
               /\ g.sentInfo = m.sentInfo /\ g.tookInfo = m.tookInfo
               /\ g.sentStats = m.sentStats /\ g.tookStats = took
  <2>1. Ordered(m)
    BY DEF Late
  <2> QED
    BY <1>1, <2>1, LateStatsAccount
<1>3. Tail(up["TDBSCAN"][c]) \in Pending(g, c)
  <2>1. c \notin g.sentInfo \ g.tookInfo /\ c \notin g.sentStats \ g.tookStats
    BY <1>1, <1>2
  <2>2. Pending(g, c) = {<< >>}
    BY <2>1, PendingCases
  <2> QED
    BY <1>1, <2>2
<1>4. up["TDBSCAN"][p] \o << >> \in Pending(g, p)
  <2>1. up["TDBSCAN"][p] \in Pending(m, p) /\ Pending(g, p) = Pending(m, p)
    <3>1. up["TDBSCAN"][p] \in Pending(m, p)
      BY <1>1 DEF Late
    <3>2. /\ p \in g.sentInfo \ g.tookInfo <=> p \in m.sentInfo \ m.tookInfo
          /\ p \in g.sentStats \ g.tookStats <=> p \in m.sentStats \ m.tookStats
      BY <1>1, <1>2
    <3>3. Pending(g, p) = Pending(m, p)
      BY <3>2 DEF Pending
    <3> QED
      BY <3>1, <3>3
  <2>2. up["TDBSCAN"][p] \o << >> = up["TDBSCAN"][p]
    <3>1. CASE p \in m.sentInfo \ m.tookInfo
      <4>1. PICK x \in Infos : up["TDBSCAN"][p] = <<x>>
        BY <1>1, <2>1, <3>1, PendingCases
      <4> QED
        BY <4>1, ShortQueues
    <3>2. CASE p \notin m.sentInfo \ m.tookInfo
      <4>1. up["TDBSCAN"][p] = << >>
        BY <1>1, <2>1, <3>2, PendingCases
      <4> QED
        BY <4>1, ShortQueues
    <3> QED
      BY <3>1, <3>2
  <2> QED
    BY <2>1, <2>2
<1>5. FilterLate(g, p, f)
  BY <1>1, <1>2 DEF FilterLate
<1>6. /\ Late(g)' /\ UNCHANGED pc
      /\ \A r \in Filter \ {Parent[c]} : filter'[r] = filter[r]
  <2>1. /\ g.tookInfo \ {c} = m.tookInfo \ {c} /\ g.tookStats \ {c} = m.tookStats \ {c}
        /\ g.sentInfo \ {Parent[c]} = m.sentInfo \ {Parent[c]}
        /\ g.sentStats \ {Parent[c]} = m.sentStats \ {Parent[c]}
    BY <1>2
  <2> DEFINE out == << >>
  <2>2. up["TDBSCAN"][p] \o out \in Pending(g, p) /\ FilterStep(c, f, out)
    BY <1>4
  <2> HIDE DEF out
  <2> QED
    BY <1>2, <1>3, <1>5, <2>1, <2>2, LateFilterFrame
<1>7. Silent(g, Z)'
  BY <1>2, <1>6 DEF Silent
<1>8. NoReset
  BY <1>1, <1>6 DEF NoReset
<1> QED
  BY <1>6, <1>7, <1>8 DEF Stuck

\* The last child's statistics go up with the filter's own, whatever else it waits for.
LEMMA LateStats ==
  ASSUME NEW m, NEW Z, Late(m), Silent(m, Z), UNCHANGED clump,
         NEW c \in Node \ {Root}, FilterStatistics(c)
  PROVE  Stuck' /\ NoReset
<1> DEFINE p == Parent[c]
           q == up["TDBSCAN"][c]
           took == m.tookStats \cup {c}
           all == filter[p].nodes \cup Head(q).body
           f == [Current(p) EXCEPT !.waitForStats = @ - 1, !.nodes = @ \cup Head(q).body]
           last == [f EXCEPT !.needsReset = TRUE, !.nodes = @ \cup {p}]
           out == <<Packet("STATISTICS", f.nodes \cup {p})>>
<1>1. /\ Arrived("TDBSCAN", c, "STATISTICS")
      /\ \/ f.waitForStats > 0 /\ FilterStep(c, f, << >>)
         \/ ~(f.waitForStats > 0) /\ FilterStep(c, last, out)
      /\ filter[p].alive
  <2>1. /\ Arrived("TDBSCAN", c, "STATISTICS")
        /\ \/ f.waitForStats > 0 /\ FilterStep(c, f, << >>)
           \/ ~(f.waitForStats > 0) /\ FilterStep(c, last, out)
    BY DEF FilterStatistics
  <2> QED
    BY <2>1 DEF FilterStep
<1>2. /\ p \in Filter /\ p \in Node /\ c \in Node /\ c \in Children(p) /\ p # c
      /\ c \in m.sentStats /\ c \notin m.tookStats /\ c \notin m.sentInfo \ m.tookInfo
      /\ Head(q).body \in SUBSET Node /\ Tail(q) = << >>
      /\ p \notin m.sentStats /\ p \notin m.tookStats
      /\ Current(p) = filter[p] /\ ~filter[p].needsReset /\ filter[p] \in FilterState(p)
      /\ filter[p].waitForClustersInfo = Cardinality(Children(p) \ m.tookInfo)
      /\ Cardinality(Children(p) \ took) = filter[p].waitForStats - 1
      /\ Cardinality(Children(p) \ took) \in 0 .. Cardinality(Children(p))
      /\ Cardinality(Children(p) \ took) = 0 <=> Children(p) \subseteq took
  BY <1>1, LateStatsStart
<1>3. f = [filter[p] EXCEPT !.waitForStats = @ - 1, !.nodes = all]
  BY <1>2 DEF FilterState
<1>4. all \in SUBSET Node /\ all \cup {p} \in SUBSET Node
  BY <1>2, FilterFields
<1> HIDE DEF f, all
<1>5. /\ f \in FilterState(p) /\ ~f.needsReset /\ f.nodes = all
      /\ f.waitForClustersInfo = filter[p].waitForClustersInfo
      /\ f.waitForStats = filter[p].waitForStats - 1
  BY <1>2, <1>3, <1>4 DEF FilterState
<1>6. CASE f.waitForStats > 0 /\ FilterStep(c, f, << >>)
  BY <1>1, <1>5, <1>6, LateStatsQuiet
<1>7. CASE ~(f.waitForStats > 0) /\ FilterStep(c, last, out)
  <2>1. Children(p) \subseteq took
    BY <1>2, <1>5, <1>7
  <2>2. last \in FilterState(p) /\ last.needsReset
    BY <1>4, <1>5 DEF FilterState
  <2> HIDE DEF last
  <2>3. PICK g : /\ Ordered(g)
                 /\ g.sentInfo = m.sentInfo /\ g.tookInfo = m.tookInfo
                 /\ g.sentStats = m.sentStats \cup {p} /\ g.tookStats = took
    <3>1. Ordered(m)
      BY DEF Late
    <3> QED
      BY <1>2, <2>1, <3>1, LateStatsAccount
  <2>4. Tail(up["TDBSCAN"][c]) \in Pending(g, c)
    <3>1. c \notin g.sentInfo \ g.tookInfo /\ c \notin g.sentStats \ g.tookStats
      BY <1>2, <2>3
    <3>2. Pending(g, c) = {<< >>}
      BY <3>1, PendingCases
    <3> QED
      BY <1>2, <3>2
  <2>5. up["TDBSCAN"][p] \o out \in Pending(g, p)
    <3> DEFINE y == Packet("STATISTICS", all \cup {p})
    <3>1. y \in Stats /\ out = <<y>>
      BY <1>4, <1>5 DEF Stats
    <3>2. /\ p \in g.sentStats \ g.tookStats
          /\ p \in g.sentInfo \ g.tookInfo <=> p \in m.sentInfo \ m.tookInfo
          /\ up["TDBSCAN"][p] \in Pending(m, p)
      BY <1>2, <2>3 DEF Late
    <3> HIDE DEF y, out
    <3>3. CASE p \in m.sentInfo \ m.tookInfo
      <4>1. PICK x \in Infos : up["TDBSCAN"][p] = <<x>>
        BY <1>2, <3>2, <3>3, PendingCases
      <4>2. up["TDBSCAN"][p] \o out = <<x, y>>
        BY <3>1, <4>1, ShortQueues
      <4> QED
        BY <3>1, <3>2, <3>3, <4>2, PendingCases
    <3>4. CASE p \notin m.sentInfo \ m.tookInfo
      <4>1. up["TDBSCAN"][p] = << >>
        BY <1>2, <3>2, <3>4, PendingCases
      <4>2. up["TDBSCAN"][p] \o out = <<y>>
        BY <3>1, <4>1, ShortQueues
      <4> QED
        BY <3>1, <3>2, <3>4, <4>2, PendingCases
    <3> QED
      BY <3>3, <3>4
  <2>6. FilterLate(g, p, last)
    BY <2>1, <2>2, <2>3 DEF FilterLate
  <2> HIDE DEF out
  <2>7. /\ Late(g)' /\ UNCHANGED pc
        /\ \A r \in Filter \ {Parent[c]} : filter'[r] = filter[r]
    <3>1. /\ g.tookInfo \ {c} = m.tookInfo \ {c} /\ g.tookStats \ {c} = m.tookStats \ {c}
          /\ g.sentInfo \ {Parent[c]} = m.sentInfo \ {Parent[c]}
          /\ g.sentStats \ {Parent[c]} = m.sentStats \ {Parent[c]}
      BY <2>3
    <3> QED
      BY <1>7, <2>3, <2>4, <2>5, <2>6, <3>1, LateFilterFrame
  <2>8. Silent(g, Z)'
    BY <2>3, <2>7 DEF Silent
  <2>9. NoReset
    BY <1>2, <2>7 DEF NoReset
  <2> QED
    BY <2>7, <2>8, <2>9 DEF Stuck
<1> QED
  BY <1>1, <1>6, <1>7

\* A filter that made no comparison dies of its statistics in such a round as well.
LEMMA LateDies ==
  ASSUME NEW m, NEW Z, Late(m), Silent(m, Z), UNCHANGED clump,
         NEW c \in Node \ {Root}, FilterDies(c)
  PROVE  Stuck' /\ NoReset
<1> DEFINE p == Parent[c]
           f == [Current(p) EXCEPT !.alive = FALSE]
<1>1. Arrived("TDBSCAN", c, "STATISTICS") /\ FilterStep(c, f, << >>) /\ filter[p].alive
  <2>1. Arrived("TDBSCAN", c, "STATISTICS") /\ FilterStep(c, f, << >>)
    BY DEF FilterDies
  <2> QED
    BY <2>1 DEF FilterStep
<1>2. Current(p) = filter[p] /\ ~filter[p].needsReset /\ filter[p] \in FilterState(p)
  BY <1>1, LateStatsStart
<1>3. f \in FilterState(p) /\ ~f.needsReset /\ ~f.alive
  BY <1>2 DEF FilterState
<1> HIDE DEF f
<1> QED
  BY <1>1, <1>3, LateStatsQuiet

\* A back-end takes the support and sends its last packets.
LEMMA LateWorkerFrame ==
  ASSUME NEW m, Late(m), NEW g, Ordered(g), UNCHANGED clump, NEW w \in Worker,
         NEW packets, NEW l \in {"config", "exited"},
         pc[w] = "support", Received("Support", w, "SUPPORT"),
         support' = [support EXCEPT ![w] = Head(down["Support"][w]).body],
         TakeAndSend("Support", w, "TDBSCAN", packets), pc' = [pc EXCEPT ![w] = l],
         UNCHANGED <<filter, data, dims, globalModel, class, rootVars>>,
         g.tookInfo = m.tookInfo, g.tookStats = m.tookStats,
         g.sentInfo \ {w} = m.sentInfo \ {w}, g.sentStats \ {w} = m.sentStats \ {w},
         << >> \o packets \in Pending(g, w)
  PROVE  Late(g)' /\ pc'[w] # "support" /\ \A v \in Worker \ {w} : pc'[v] = pc[v]
<1>1. /\ Shapes /\ rpc = "info" /\ DOMAIN up = Stream /\ DOMAIN down = Stream
      /\ \A s \in Stream : DOMAIN up[s] = Node /\ DOMAIN down[s] = Worker
      /\ w \in Node /\ Ordered(m) /\ \A v \in Worker : WorkerLate(m, v)
  BY NodeFacts DEF Late
<1>2. /\ down' = [down EXCEPT !["Support"][w] = Tail(@)]
      /\ up' = [up EXCEPT !["TDBSCAN"][w] = @ \o packets]
  BY DEF TakeAndSend
<1>3. up["TDBSCAN"][w] = << >>
  <2>1. w \notin m.sentInfo /\ w \notin m.sentStats
    BY <1>1 DEF WorkerLate
  <2>2. Pending(m, w) = {<< >>}
    BY <2>1, PendingCases
  <2> QED
    BY <1>1, <2>2 DEF Late
<1>4. PICK B \in Counts(Range(clump)) : down["Support"][w] = <<Packet("SUPPORT", B)>>
  BY <1>1 DEF Received, WorkerLate
<1>5. Head(down["Support"][w]).body = B /\ Tail(down["Support"][w]) = << >>
  <2> DEFINE x == Packet("SUPPORT", B)
  <2>1. x.body = B /\ down["Support"][w] = <<x>>
    BY <1>4, PacketIs
  <2> HIDE DEF x
  <2> QED
    BY <2>1, ShortQueues
<1>6. /\ DOMAIN up' = Stream /\ DOMAIN down' = Stream
      /\ \A s \in Stream : DOMAIN up'[s] = Node /\ DOMAIN down'[s] = Worker
      /\ \A s \in Stream \ {"TDBSCAN"} : up'[s] = up[s]
      /\ \A d \in Node \ {w} : up'["TDBSCAN"][d] = up["TDBSCAN"][d]
      /\ up'["TDBSCAN"][w] = << >> \o packets
      /\ down'["TDBSCAN"] = down["TDBSCAN"]
      /\ \A v \in Worker \ {w} : down'["Support"][v] = down["Support"][v]
      /\ down'["Support"][w] = << >>
  BY <1>1, <1>2, <1>3, <1>5, StreamFacts
<1>7. /\ support' \in [Worker -> Counts(Range(clump))]
      /\ DOMAIN pc' = Worker /\ pc'[w] = l /\ \A v \in Worker \ {w} : pc'[v] = pc[v]
  BY <1>1, <1>5 DEF Shapes
<1>8. ASSUME NEW d \in Node
      PROVE  up'["TDBSCAN"][d] \in Pending(g, d)
  <2>1. CASE d = w
    BY <1>6, <2>1
  <2>2. CASE d # w
    <3>1. /\ d \in g.sentInfo \ g.tookInfo <=> d \in m.sentInfo \ m.tookInfo
          /\ d \in g.sentStats \ g.tookStats <=> d \in m.sentStats \ m.tookStats
      BY <2>2
    <3>2. Pending(g, d) = Pending(m, d)
      BY <3>1 DEF Pending
    <3> QED
      BY <1>6, <2>2, <3>2 DEF Late
  <2> QED
    BY <2>1, <2>2
<1>9. ASSUME NEW v \in Worker
      PROVE  WorkerLate(g, v)'
  <2>1. v # w => (v \in g.sentInfo \cup g.sentStats <=> v \in m.sentInfo \cup m.sentStats)
    OBVIOUS
  <2>2. WorkerLate(m, v)
    BY <1>1
  <2> QED
    BY <1>6, <1>7, <2>1, <2>2 DEF WorkerLate
<1>10. \A p \in Filter : FilterLate(g, p, filter'[p])
  <2>1. \A p \in Filter : FilterLate(m, p, filter[p])
    BY DEF Late
  <2> QED
    BY <2>1 DEF FilterLate
<1>11. Shapes'
  BY <1>1, <1>7 DEF Shapes, rootVars
<1>12. /\ rpc' = "info" /\ UNCHANGED <<clump, data, class, dims, rootModel, arrived, left>>
       /\ \A v \in Worker : pc'[v] = "support" => pc[v] = "support"
       /\ \A c \in Node : /\ up'["XchangeDimensions"][c] = << >> /\ up'["Support"][c] = << >>
                          /\ up'["TDBSCAN"][c] \in Pending(g, c)
  BY <1>1, <1>6, <1>7, <1>8, StreamFacts DEF rootVars, Late
<1>13. Late(g)'
  BY <1>6, <1>9, <1>10, <1>11, <1>12, LateFrame
<1> QED
  BY <1>7, <1>13

\* What a back-end reports of its clusters is a bag of ids.
LEMMA IndividualsType ==
  ASSUME NEW w \in Worker, class[w] \in [data[w] -> Nat], data[w] \subseteq Burst
  PROVE  Individuals(w) \in Counts(Nat)
<1> DEFINE X == data[w]
           key == class[w]
<1>1. IsFiniteSet(X) /\ \A b \in X : key[b] \in Nat
  BY FiniteFacts, FS_Subset
<1>2. Range(key) = {key[b] : b \in X}
  BY DEF Range
<1>3. Individuals(w) = Tally(X, key)
  BY <1>2 DEF Individuals, Tally
<1> HIDE DEF X, key
<1>4. Tally(X, key) \in Counts(Nat)
  BY <1>1, TallyType
<1> QED
  BY <1>3, <1>4

\* A back-end that still works reports, with or without its clusters.
LEMMA LateReport ==
  ASSUME NEW m, Late(m), UNCHANGED clump, NEW w \in Worker, ReportResults(w)
  PROVE  /\ w \notin m.sentInfo /\ pc'[w] # "support" /\ \A v \in Worker \ {w} : pc'[v] = pc[v]
         /\ Informs(w) => \E g : Late(g)' /\ g.sentInfo = m.sentInfo \cup {w}
         /\ Withholds(w) => \E g : Late(g)' /\ g.sentInfo = m.sentInfo
<1> DEFINE x == Packet("CLUSTERS_INFO", Individuals(w))
           y == Packet("STATISTICS", {w})
<1>1. /\ pc[w] = "support" /\ Received("Support", w, "SUPPORT")
      /\ support' = [support EXCEPT ![w] = Head(down["Support"][w]).body]
      /\ UNCHANGED <<filter, data, dims, globalModel, class, rootVars>>
      /\ Informs(w) \/ Withholds(w)
  BY ReportsOrNot
<1>2. /\ w \notin m.sentInfo /\ w \notin m.sentStats /\ Ordered(m)
      /\ w \notin m.tookInfo /\ w \notin m.tookStats
      /\ class[w] \in [data[w] -> Nat] /\ data[w] \subseteq Burst
  BY <1>1 DEF Late, WorkerLate, Shapes, Ordered
<1>3. x \in Infos /\ y \in Stats
  <2>1. Individuals(w) \in Counts(Nat)
    BY <1>2, IndividualsType
  <2> QED
    BY <2>1, NodeFacts DEF Infos, Stats
<1>4. DOMAIN pc = Worker
  BY DEF Late, Shapes
<1> HIDE DEF x, y
<1>5. /\ << >> \o <<x, y>> = <<x, y>> /\ << >> \o <<x>> = <<x>>
      /\ << >> \o <<y>> = <<y>> /\ << >> \o << >> = << >>
  BY ShortQueues
<1>6. ASSUME NEW packets, NEW l \in {"config", "exited"}, NEW X, NEW Y,
             X \subseteq {w}, Y \subseteq {w},
             TakeAndSend("Support", w, "TDBSCAN", packets), pc' = [pc EXCEPT ![w] = l],
             \A g : (w \in g.sentInfo \ g.tookInfo <=> w \in X)
                    /\ (w \in g.sentStats \ g.tookStats <=> w \in Y)
                      => << >> \o packets \in Pending(g, w)
      PROVE  /\ \E g : Late(g)' /\ g.sentInfo = m.sentInfo \cup X
             /\ pc'[w] # "support" /\ \A v \in Worker \ {w} : pc'[v] = pc[v]
  <2> DEFINE g == [sentInfo |-> m.sentInfo \cup X, tookInfo |-> m.tookInfo,
                   sentStats |-> m.sentStats \cup Y, tookStats |-> m.tookStats]
  <2>4. /\ g.sentInfo = m.sentInfo \cup X /\ g.tookInfo = m.tookInfo
        /\ g.sentStats = m.sentStats \cup Y /\ g.tookStats = m.tookStats
        /\ g \in [sentInfo : SUBSET Node, tookInfo : SUBSET Node,
                  sentStats : SUBSET Node, tookStats : SUBSET Node]
    BY <1>2, <1>6, NodeFacts DEF Ordered
  <2> HIDE DEF g
  <2>1. /\ Ordered(g)
        /\ g.sentInfo = m.sentInfo \cup X /\ g.tookInfo = m.tookInfo
        /\ g.sentStats = m.sentStats \cup Y /\ g.tookStats = m.tookStats
    <3>1. /\ g.tookInfo \subseteq g.sentInfo /\ g.tookStats \subseteq g.sentStats
          /\ g.tookStats \cap g.sentInfo \subseteq g.tookInfo
      BY <1>2, <1>6, <2>4 DEF Ordered
    <3>2. \A p \in Filter : p # w
      BY NodeFacts
    <3>3. ASSUME NEW p \in Filter
          PROVE  /\ p \in g.sentInfo => Children(p) \subseteq g.tookInfo
                 /\ p \in g.sentStats => Children(p) \subseteq g.tookStats
      BY <1>2, <1>6, <2>4, <3>2 DEF Ordered
    <3> QED
      BY <2>4, <3>1, <3>3 DEF Ordered
  <2>2. /\ g.sentInfo \ {w} = m.sentInfo \ {w} /\ g.sentStats \ {w} = m.sentStats \ {w}
        /\ << >> \o packets \in Pending(g, w)
    BY <1>2, <1>6, <2>1
  <2>3. Late(g)' /\ pc'[w] # "support" /\ \A v \in Worker \ {w} : pc'[v] = pc[v]
    BY <1>1, <1>6, <2>1, <2>2, LateWorkerFrame
  <2> QED
    BY <2>1, <2>3
<1>7. ASSUME NEW g
      PROVE  LET i == w \in g.sentInfo \ g.tookInfo
                 s == w \in g.sentStats \ g.tookStats
             IN  /\ i /\ s => << >> \o <<x, y>> \in Pending(g, w)
                 /\ i /\ ~s => << >> \o <<x>> \in Pending(g, w)
                 /\ ~i /\ s => << >> \o <<y>> \in Pending(g, w)
                 /\ ~i /\ ~s => << >> \o << >> \in Pending(g, w)
  BY <1>3, <1>5, PendingCases
<1> DEFINE both == <<x, y>>
           one == <<x>>
           other == <<y>>
           none == << >>
           W == {w}
           E == {}
<1>8. /\ \A g : (w \in g.sentInfo \ g.tookInfo <=> w \in W)
                /\ (w \in g.sentStats \ g.tookStats <=> w \in W)
                    => << >> \o both \in Pending(g, w)
      /\ \A g : (w \in g.sentInfo \ g.tookInfo <=> w \in W)
                /\ (w \in g.sentStats \ g.tookStats <=> w \in E)
                    => << >> \o one \in Pending(g, w)
      /\ \A g : (w \in g.sentInfo \ g.tookInfo <=> w \in E)
                /\ (w \in g.sentStats \ g.tookStats <=> w \in W)
                    => << >> \o other \in Pending(g, w)
      /\ \A g : (w \in g.sentInfo \ g.tookInfo <=> w \in E)
                /\ (w \in g.sentStats \ g.tookStats <=> w \in E)
                    => << >> \o none \in Pending(g, w)
  BY <1>7
<1>9. /\ Informs(w) => \/ /\ TakeAndSend("Support", w, "TDBSCAN", both)
                          /\ pc' = [pc EXCEPT ![w] = "config"]
                       \/ /\ TakeAndSend("Support", w, "TDBSCAN", one)
                          /\ pc' = [pc EXCEPT ![w] = "exited"]
      /\ Withholds(w) => \/ /\ TakeAndSend("Support", w, "TDBSCAN", other)
                            /\ pc' = [pc EXCEPT ![w] = "config"]
                         \/ /\ TakeAndSend("Support", w, "TDBSCAN", none)
                            /\ pc' = [pc EXCEPT ![w] = "exited"]
  BY DEF Informs, Withholds, Goto, Exit, x, y
<1>10. /\ W \subseteq {w} /\ E \subseteq {w} /\ W = {w}
       /\ m.sentInfo \cup E = m.sentInfo
  OBVIOUS
<1> HIDE DEF both, one, other, none, W, E
<1>11. ASSUME Informs(w)
       PROVE  /\ \E g : Late(g)' /\ g.sentInfo = m.sentInfo \cup W
              /\ pc'[w] # "support" /\ \A v \in Worker \ {w} : pc'[v] = pc[v]
  <2>1. CASE TakeAndSend("Support", w, "TDBSCAN", both) /\ pc' = [pc EXCEPT ![w] = "config"]
    BY <1>6, <1>8, <1>10, <2>1
  <2>2. CASE TakeAndSend("Support", w, "TDBSCAN", one) /\ pc' = [pc EXCEPT ![w] = "exited"]
    BY <1>6, <1>8, <1>10, <2>2
  <2> QED
    BY <1>9, <1>11, <2>1, <2>2
<1>12. ASSUME Withholds(w)
       PROVE  /\ \E g : Late(g)' /\ g.sentInfo = m.sentInfo \cup E
              /\ pc'[w] # "support" /\ \A v \in Worker \ {w} : pc'[v] = pc[v]
  <2>1. CASE TakeAndSend("Support", w, "TDBSCAN", other) /\ pc' = [pc EXCEPT ![w] = "config"]
    BY <1>6, <1>8, <1>10, <2>1
  <2>2. CASE TakeAndSend("Support", w, "TDBSCAN", none) /\ pc' = [pc EXCEPT ![w] = "exited"]
    BY <1>6, <1>8, <1>10, <2>2
  <2> QED
    BY <1>9, <1>12, <2>1, <2>2
<1> QED
  BY <1>1, <1>2, <1>10, <1>11, <1>12

\* A back-end between two rounds drops the mark that ended the hulls.
LEMMA LateDrop ==
  ASSUME NEW m, NEW Z, Late(m), Silent(m, Z), UNCHANGED clump, NEW w \in Worker, WorkerDrops(w)
  PROVE  Stuck' /\ NoReset
<1>1. /\ down' = [down EXCEPT !["TDBSCAN"][w] = Tail(@)] /\ down["TDBSCAN"][w] # << >>
      /\ UNCHANGED <<up, filter, workerVars, rootVars>>
  BY DEF WorkerDrops, Take
<1>2. /\ Shapes /\ rpc = "info" /\ DOMAIN up = Stream /\ DOMAIN down = Stream
      /\ \A s \in Stream : DOMAIN up[s] = Node /\ DOMAIN down[s] = Worker
      /\ Ordered(m) /\ \A v \in Worker : WorkerLate(m, v)
      /\ \A p \in Filter : FilterLate(m, p, filter[p])
      /\ \A c \in Node : /\ up["XchangeDimensions"][c] = << >> /\ up["Support"][c] = << >>
                         /\ up["TDBSCAN"][c] \in Pending(m, c)
  BY DEF Late
<1>3. Tail(down["TDBSCAN"][w]) = << >>
  <2> DEFINE x == Mark("ALL_HULLS_SENT")
  <2>1. down["TDBSCAN"][w] = <<x>>
    BY <1>1, <1>2 DEF WorkerLate
  <2> HIDE DEF x
  <2> QED
    BY <2>1, ShortQueues
<1>4. /\ DOMAIN down' = Stream /\ \A s \in Stream : DOMAIN down'[s] = Worker
      /\ down'["Support"] = down["Support"] /\ down'["TDBSCAN"][w] = << >>
      /\ \A v \in Worker \ {w} : down'["TDBSCAN"][v] = down["TDBSCAN"][v]
  BY <1>1, <1>2, <1>3, StreamFacts
<1>5. ASSUME NEW v \in Worker
      PROVE  WorkerLate(m, v)'
  <2>1. WorkerLate(m, v)
    BY <1>2
  <2> QED
    BY <1>1, <1>4, <2>1 DEF WorkerLate, workerVars
<1>6. /\ \A p \in Filter : FilterLate(m, p, filter'[p])
      /\ Shapes'
  BY <1>1, <1>2 DEF Shapes, workerVars, rootVars
<1>7. /\ rpc' = "info" /\ UNCHANGED <<clump, pc, data, class, dims, rootModel, arrived, left>>
      /\ up' = up /\ DOMAIN up' = Stream
      /\ \A s \in Stream : DOMAIN up'[s] = Node /\ DOMAIN down'[s] = Worker
      /\ \A c \in Node : /\ up'["XchangeDimensions"][c] = << >> /\ up'["Support"][c] = << >>
                         /\ up'["TDBSCAN"][c] \in Pending(m, c)
  BY <1>1, <1>2, <1>4 DEF workerVars, rootVars
<1>8. Late(m)'
  BY <1>2, <1>4, <1>5, <1>6, <1>7, LateFrame
<1>9. Silent(m, Z)' /\ NoReset
  BY <1>1, <1>7 DEF Silent, NoReset
<1> QED
  BY <1>8, <1>9 DEF Stuck

\* The front-end drops the statistics it meets where it waits for the clusters.
LEMMA LateRootDrop ==
  ASSUME NEW m, NEW Z, Late(m), Silent(m, Z), UNCHANGED clump, RootDrops
  PROVE  Stuck' /\ NoReset
<1> DEFINE q == up["TDBSCAN"][Root]
<1>1. /\ up' = [up EXCEPT !["TDBSCAN"][Root] = Tail(@)] /\ q # << >>
      /\ UNCHANGED <<down, filter, workerVars, rootVars>>
  BY DEF RootDrops, RootTakes
<1>2. /\ Shapes /\ rpc = "info" /\ DOMAIN up = Stream /\ DOMAIN down = Stream
      /\ \A s \in Stream : DOMAIN up[s] = Node /\ DOMAIN down[s] = Worker
      /\ Ordered(m) /\ \A v \in Worker : WorkerLate(m, v)
      /\ \A p \in Filter : FilterLate(m, p, filter[p])
      /\ \A c \in Node : /\ up["XchangeDimensions"][c] = << >> /\ up["Support"][c] = << >>
                         /\ up["TDBSCAN"][c] \in Pending(m, c)
      /\ Root \in Node /\ Root \notin m.sentInfo /\ \A p : Root \notin Children(p)
  BY NodeFacts DEF Late, Silent
<1>3. /\ Root \in m.sentStats \ m.tookStats /\ Tail(q) = << >>
  BY <1>1, <1>2, PendingIs
<1> DEFINE g == [sentInfo |-> m.sentInfo, tookInfo |-> m.tookInfo,
                 sentStats |-> m.sentStats, tookStats |-> m.tookStats \cup {Root}]
<1>4. /\ g.sentInfo = m.sentInfo /\ g.tookInfo = m.tookInfo
      /\ g.sentStats = m.sentStats /\ g.tookStats = m.tookStats \cup {Root}
      /\ g \in [sentInfo : SUBSET Node, tookInfo : SUBSET Node,
                sentStats : SUBSET Node, tookStats : SUBSET Node]
  BY <1>2 DEF Ordered
<1> HIDE DEF g
<1>5. Ordered(g)
  BY <1>2, <1>3, <1>4 DEF Ordered
<1>6. /\ DOMAIN up' = Stream /\ \A s \in Stream : DOMAIN up'[s] = Node
      /\ \A s \in Stream \ {"TDBSCAN"} : up'[s] = up[s]
      /\ up'["TDBSCAN"][Root] = << >>
      /\ \A c \in Node \ {Root} : up'["TDBSCAN"][c] = up["TDBSCAN"][c]
  BY <1>1, <1>2, <1>3, StreamFacts
<1>7. ASSUME NEW c \in Node
      PROVE  up'["TDBSCAN"][c] \in Pending(g, c)
  <2>1. CASE c = Root
    <3>1. c \notin g.sentInfo \ g.tookInfo /\ c \notin g.sentStats \ g.tookStats
      BY <1>2, <1>4, <2>1
    <3>2. Pending(g, c) = {<< >>}
      BY <3>1, PendingCases
    <3> QED
      BY <1>6, <2>1, <3>2
  <2>2. CASE c # Root
    <3>1. /\ c \in g.sentInfo \ g.tookInfo <=> c \in m.sentInfo \ m.tookInfo
          /\ c \in g.sentStats \ g.tookStats <=> c \in m.sentStats \ m.tookStats
      BY <1>4, <2>2
    <3>2. Pending(g, c) = Pending(m, c)
      BY <3>1 DEF Pending
    <3> QED
      BY <1>2, <1>6, <2>2, <3>2
  <2> QED
    BY <2>1, <2>2
<1>8. ASSUME NEW p \in Filter
      PROVE  FilterLate(g, p, filter'[p])
  <2>1. /\ Children(p) \ g.tookInfo = Children(p) \ m.tookInfo
        /\ Children(p) \ g.tookStats = Children(p) \ m.tookStats
        /\ Children(p) \subseteq g.tookStats <=> Children(p) \subseteq m.tookStats
    BY <1>2, <1>4
  <2>2. FilterLate(m, p, filter[p]) /\ filter' = filter
    BY <1>1, <1>2
  <2> QED
    BY <2>1, <2>2 DEF FilterLate
<1>9. ASSUME NEW v \in Worker
      PROVE  WorkerLate(g, v)'
  <2>1. WorkerLate(m, v)
    BY <1>2
  <2> QED
    BY <1>1, <1>4, <2>1 DEF WorkerLate, workerVars
<1>10. /\ rpc' = "info" /\ Shapes'
       /\ UNCHANGED <<clump, pc, data, class, dims, rootModel, arrived, left>>
       /\ DOMAIN down' = Stream /\ \A s \in Stream : DOMAIN down'[s] = Worker
       /\ filter' = filter
  BY <1>1, <1>2 DEF workerVars, rootVars, Shapes
<1>11. \A c \in Node : /\ up'["XchangeDimensions"][c] = << >> /\ up'["Support"][c] = << >>
                       /\ up'["TDBSCAN"][c] \in Pending(g, c)
  BY <1>2, <1>6, <1>7, StreamFacts
<1>12. Late(g)'
  <2>1. /\ \A s \in Stream : DOMAIN up'[s] = Node /\ DOMAIN down'[s] = Worker
        /\ \A v \in Worker : pc'[v] = "support" => pc[v] = "support"
    BY <1>6, <1>10
  <2> QED
    BY <1>5, <1>6, <1>8, <1>9, <1>10, <1>11, <2>1, LateFrame
<1>13. Silent(g, Z)' /\ NoReset
  BY <1>4, <1>10 DEF Silent, NoReset
<1> QED
  BY <1>12, <1>13 DEF Stuck

\* Nothing else happens in such a round: no packet but reports is on its way up, none but
\* marks and the support on its way down.
LEMMA LateNothingElse ==
  ASSUME NEW m, NEW Z, Late(m), Silent(m, Z)
  PROVE  /\ \A c \in Node : /\ ~FilterNoise(c) /\ ~FilterAllNoiseSent(c)
                            /\ ~FilterAllHulls(c) /\ ~FilterAllHullsSent(c)
         /\ \A p \in Filter : ~FilterDimensions(p) /\ ~FilterSupport(p)
         /\ \A w \in Worker : /\ ~StartRound(w) /\ ~ClusterLocally(w) /\ ~SendLocalModel(w)
                              /\ ~ReceiveGlobalModel(w) /\ ~ClassifyData(w)
         /\ ~Barrier /\ ~(RootStep /\ ~RootDrops)
<1>1. \A c \in Node : \A t : Arrived("TDBSCAN", c, t) => t \in {"CLUSTERS_INFO", "STATISTICS"}
  BY PendingIs DEF Late, Arrived
<1>2. \A c \in Node : /\ ~FilterNoise(c) /\ ~FilterAllNoiseSent(c)
                      /\ ~FilterAllHulls(c) /\ ~FilterAllHullsSent(c)
  BY <1>1 DEF FilterNoise, FilterAllNoiseSent, FilterAllHulls, FilterAllHullsSent
<1>3. ASSUME NEW p \in Filter, NEW s \in {"XchangeDimensions", "Support"}, NEW packet,
             Combine(s, p, packet)
      PROVE  FALSE
  <2>1. PICK c \in Children(p) : c \in Node
    BY NodeFacts
  <2> QED
    BY <1>3, <2>1 DEF Combine, Late
<1>4. \A p \in Filter : ~FilterDimensions(p) /\ ~FilterSupport(p)
  BY <1>3 DEF FilterDimensions, FilterSupport
<1>5. ASSUME NEW w \in Worker
      PROVE  /\ ~StartRound(w) /\ ~ClusterLocally(w) /\ ~SendLocalModel(w)
             /\ ~ReceiveGlobalModel(w) /\ ~ClassifyData(w)
  <2>1. /\ pc[w] \in {"support", "config", "exited"}
        /\ down["TDBSCAN"][w] \in {<< >>, <<Mark("ALL_HULLS_SENT")>>}
    BY DEF Late, WorkerLate
  <2>2. ~Received("TDBSCAN", w, "CLUSTERING_CONFIG")
    <3> DEFINE x == Mark("ALL_HULLS_SENT")
    <3>1. x.tag # "CLUSTERING_CONFIG"
      BY PacketIs
    <3> HIDE DEF x
    <3>2. Head(<<x>>) = x
      BY ShortQueues
    <3>3. down["TDBSCAN"][w] = << >> \/ down["TDBSCAN"][w] = <<x>>
      BY <2>1 DEF x
    <3> QED
      BY <3>1, <3>2, <3>3 DEF Received
  <2> QED
    BY <2>1, <2>2 DEF StartRound, ClusterLocally, SendLocalModel, ReceiveGlobalModel, ClassifyData
<1>6. ~RootReceives("TDBSCAN", "CLUSTERS_INFO")
  <2> SUFFICES ASSUME RootReceives("TDBSCAN", "CLUSTERS_INFO")
               PROVE  FALSE
    OBVIOUS
  <2>1. Root \in Node /\ up["TDBSCAN"][Root] \in Pending(m, Root) /\ Root \notin m.sentInfo
    BY NodeFacts DEF Late, Silent
  <2> QED
    BY <2>1, PendingIs DEF RootReceives, Arrived
<1>7. rpc = "info"
  BY DEF Late
<1>8. ~Barrier /\ ~(RootStep /\ ~RootDrops)
  BY <1>6, <1>7 DEF Barrier, RootStep, SendConfiguration, ReturnDimensions,
     BroadcastGlobalModel, CountRemainingNoise, PassOver, EndOfHulls, ReturnSupport,
     ReceiveInfo, ReceiveStatistics
<1> QED
  BY <1>2, <1>4, <1>5, <1>8

\* A state without a change.
LEMMA LateStutter ==
  ASSUME Stuck, UNCHANGED vars
  PROVE  Stuck' /\ NoReset
<1>1. PICK m, Z : Late(m) /\ Silent(m, Z)
  BY DEF Stuck
<1>2. UNCHANGED <<clump, up, down, filter, pc, data, dims, globalModel, class, support, rpc,
                  round, rootModel, info, nodes, arrived, left>>
  BY DEF vars, workerVars, rootVars
<1>3. Late(m)'
  <2>1. /\ Ordered(m) /\ Shapes' /\ \A w \in Worker : WorkerLate(m, w)'
    BY <1>1, <1>2 DEF Late, Shapes, WorkerLate
  <2>2. /\ rpc' = "info" /\ DOMAIN up' = Stream /\ DOMAIN down' = Stream
        /\ \A s \in Stream : DOMAIN up'[s] = Node /\ DOMAIN down'[s] = Worker
        /\ \A c \in Node : /\ up'["XchangeDimensions"][c] = << >> /\ up'["Support"][c] = << >>
                           /\ up'["TDBSCAN"][c] \in Pending(m, c)
        /\ \A p \in Filter : FilterLate(m, p, filter'[p])
    BY <1>1, <1>2 DEF Late
  <2> QED
    BY <1>1, <1>2, <2>1, <2>2, LateFrame
<1>4. Silent(m, Z)' /\ NoReset
  BY <1>1, <1>2 DEF Silent, NoReset
<1> QED
  BY <1>3, <1>4 DEF Stuck

\* Once a round lacks a report it stays so.
LEMMA LateNext ==
  ASSUME Stuck, [Next]_vars
  PROVE  Stuck' /\ NoReset
<1>1. PICK m, Z : Late(m) /\ Silent(m, Z)
  BY DEF Stuck
<1>2. CASE UNCHANGED vars
  BY <1>2, LateStutter
<1>3. CASE Next
  <2>1. UNCHANGED clump
    BY <1>3 DEF Next
  <2>2. ASSUME NEW c \in Worker \cup Comm, FilterTakes(c)
        PROVE  Stuck' /\ NoReset
    <3>1. c \in Node \ {Root} /\ c \in Node
      BY NodeFacts
    <3>2. FilterClustersInfo(c) \/ FilterStatistics(c) \/ FilterDies(c)
      BY <1>1, <2>2, <3>1, LateNothingElse DEF FilterTakes
    <3> QED
      BY <1>1, <2>1, <3>1, <3>2, LateInfo, LateStats, LateDies
  <2>3. ASSUME NEW w \in Worker, WorkerStep(w)
        PROVE  Stuck' /\ NoReset
    <3>1. WorkerDrops(w) \/ ReportResults(w)
      BY <1>1, <2>3, LateNothingElse DEF WorkerStep
    <3>2. CASE WorkerDrops(w)
      BY <1>1, <2>1, <3>2, LateDrop
    <3>3. CASE ReportResults(w)
      <4>1. /\ w \notin m.sentInfo /\ pc'[w] # "support"
            /\ \A v \in Worker \ {w} : pc'[v] = pc[v]
            /\ \E g : Late(g)' /\ (g.sentInfo = m.sentInfo \/ g.sentInfo = m.sentInfo \cup {w})
        BY <1>1, <2>1, <3>3, LateReport, ReportsOrNot
      <4>2. PICK g : Late(g)' /\ (g.sentInfo = m.sentInfo \/ g.sentInfo = m.sentInfo \cup {w})
        BY <4>1
      <4>3. pc[w] = "support" /\ filter' = filter
        BY <3>3, ReportsOrNot
      <4>4. w \notin Z
        BY <1>1, <4>3 DEF Silent
      <4>5. Silent(g, Z)'
        BY <1>1, <4>1, <4>2, <4>4 DEF Silent
      <4>6. NoReset
        BY <4>3 DEF NoReset
      <4> QED
        BY <4>2, <4>5, <4>6 DEF Stuck
    <3> QED
      BY <3>1, <3>2, <3>3
  <2>4. CASE RootStep
    <3>1. RootDrops
      BY <1>1, <2>4, LateNothingElse
    <3> QED
      BY <1>1, <2>1, <3>1, LateRootDrop
  <2>5. CASE Finished
    <3>1. UNCHANGED vars
      BY <2>5 DEF Finished
    <3> QED
      BY <3>1, LateStutter
  <2>6. ~Barrier /\ \A p \in Filter : ~FilterDimensions(p) /\ ~FilterSupport(p)
    BY <1>1, LateNothingElse
  <2> QED
    BY <1>3, <2>2, <2>3, <2>4, <2>5, <2>6 DEF Next
<1> QED
  BY <1>2, <1>3

\* Before its scripts fail, the reports of a round are as the account of the round has
\* them: the front-end waits for the first of them, all back-ends have classified.
LEMMA LateBegins ==
  ASSUME NEW h, Agrees(h), rpc = "info", EveryBurstAccounted, ClassifiedAlike
  PROVE  \E m : Late(m)
<1> DEFINE T == "TDBSCAN"
           X == "XchangeDimensions"
           S == "Support"
<1>1. /\ Root \in Node /\ Possible(h) /\ Queues(h) /\ Shapes /\ RootOK(h)
      /\ \A p \in Filter : Forwards(h, p) /\ FilterOK(h, p, filter[p])
      /\ \A w \in Worker : WorkerOK(h, w)
      /\ T \in Stream /\ X \in Stream /\ S \in Stream
  BY NodeFacts, StreamFacts DEF Agrees
<1>2. /\ h.took[T][Root] = 4 /\ h.took[X][Root] = 1 /\ h.took[S][Root] = 1
      /\ h.dsent[T] = 4 /\ h.dsent[X] = 1 /\ h.dsent[S] = 1
  BY <1>1, RootPlaceIs DEF RootProgress
<1>3. /\ \A s \in Stream, c \in Node : /\ h.sent[s][c] \in 0 .. 6 /\ h.took[s][c] \in 0 .. 6
                                       /\ h.took[s][c] <= h.sent[s][c]
      /\ \A c \in Node : h.sent[X][c] <= 1 /\ h.sent[S][c] <= 1
  BY <1>1, AccountFacts
<1>4. ASSUME NEW s \in Stream, NEW c \in Node
      PROVE  h.took[s][Root] <= h.took[s][c]
  <2>1. CASE c = Root
    BY <1>3, <2>1
  <2>2. CASE c # Root
    <3>1. Parent[c] \in Filter /\ Parent[c] \in Node /\ c \in Children(Parent[c])
      BY <2>2, NodeFacts
    <3>2. h.sent[s][Root] <= h.sent[s][Parent[c]]
      BY <1>1, <3>1, SentByAll
    <3>3. h.sent[s][Parent[c]] <= h.took[s][c]
      BY <1>1, <3>1 DEF Forwards
    <3> QED
      BY <1>1, <1>3, <3>1, <3>2, <3>3
  <2> QED
    BY <2>1, <2>2
<1>5. ASSUME NEW c \in Node
      PROVE  /\ h.took[T][c] \in 4 .. 6 /\ h.sent[T][c] \in 4 .. 6 /\ h.took[T][c] <= h.sent[T][c]
             /\ h.took[X][c] = 1 /\ h.sent[X][c] = 1 /\ h.took[S][c] = 1 /\ h.sent[S][c] = 1
  <2>1. h.took[T][c] >= 4 /\ h.took[X][c] >= 1 /\ h.took[S][c] >= 1
    BY <1>1, <1>2, <1>3, <1>4
  <2> QED
    BY <1>1, <1>3, <2>1
<1> DEFINE m == [sentInfo |-> {c \in Node : h.sent[T][c] >= 5},
                 tookInfo |-> {c \in Node : h.took[T][c] >= 5},
                 sentStats |-> {c \in Node : h.sent[T][c] >= 6},
                 tookStats |-> {c \in Node : h.took[T][c] >= 6}]
<1>6. /\ m \in [sentInfo : SUBSET Node, tookInfo : SUBSET Node,
                sentStats : SUBSET Node, tookStats : SUBSET Node]
      /\ \A c \in Node : /\ c \in m.sentInfo <=> h.sent[T][c] \in {5, 6}
                         /\ c \in m.tookInfo <=> h.took[T][c] \in {5, 6}
                         /\ c \in m.sentStats <=> h.sent[T][c] = 6
                         /\ c \in m.tookStats <=> h.took[T][c] = 6
  BY <1>5
<1> HIDE DEF m
<1>7. Ordered(m)
  <2>1. ASSUME NEW p \in Filter, NEW c \in Children(p)
        PROVE  c \in Node /\ h.sent[T][p] <= h.took[T][c]
    <3>1. Forwards(h, p) /\ T \in Stream
      BY <1>1
    <3>2. h.sent[T][p] <= h.took[T][c]
      BY <3>1 DEF Forwards
    <3> QED
      BY <3>2, NodeFacts
  <2>2. ASSUME NEW p \in Filter
        PROVE  /\ p \in m.sentInfo => Children(p) \subseteq m.tookInfo
               /\ p \in m.sentStats => Children(p) \subseteq m.tookStats
    <3>1. p \in Node
      BY NodeFacts
    <3> QED
      BY <1>5, <1>6, <2>1, <3>1
  <2>3. /\ m.tookInfo \subseteq m.sentInfo /\ m.tookStats \subseteq m.sentStats
        /\ m.tookStats \cap m.sentInfo \subseteq m.tookInfo
    BY <1>5, <1>6
  <2> QED
    BY <1>6, <2>2, <2>3 DEF Ordered
<1>8. ASSUME NEW c \in Node
      PROVE  /\ up[X][c] = << >> /\ up[S][c] = << >>
             /\ up[T][c] \in Pending(m, c)
  <2>1. up[X][c] = << >> /\ up[S][c] = << >>
    BY <1>1, <1>5, UpQueue
  <2> DEFINE script == Script(h, T, c)
             x == script[5]
             y == script[6]
             a == h.took[T][c]
             b == h.sent[T][c]
  <2>2. up[T][c] = Segment(script, a, b)
    BY <1>1 DEF Queues
  <2>3. x \in Infos /\ y \in Stats
    <3>1. x = Packet("CLUSTERS_INFO", h.info[c]) /\ y = Packet("STATISTICS", Under(c))
      BY ScriptIs
    <3>2. h.info[c] \in Counts(Nat) /\ Under(c) \in SUBSET Node
      BY <1>1, ContentsType DEF Under
    <3> QED
      BY <3>1, <3>2 DEF Infos, Stats
  <2>4. a \in 4 .. 6 /\ b \in 4 .. 6 /\ a <= b
    BY <1>5
  <2>5. /\ c \in m.sentInfo <=> b \in {5, 6}
        /\ c \in m.tookInfo <=> a \in {5, 6}
        /\ c \in m.sentStats <=> b = 6
        /\ c \in m.tookStats <=> a = 6
    BY <1>6
  <2> HIDE DEF script, a, b
  <2>6. /\ Segment(script, 4, 5) = <<x>> /\ Segment(script, 4, 6) = <<x, y>>
        /\ Segment(script, 5, 6) = <<y>>
        /\ \A k \in Int : Segment(script, k, k) = << >>
    BY DEF Segment
  <2> HIDE DEF x, y
  <2>7. CASE a = b
    <3>1. up[T][c] = << >>
      BY <2>2, <2>4, <2>6, <2>7
    <3>2. c \notin m.sentInfo \ m.tookInfo /\ c \notin m.sentStats \ m.tookStats
      BY <2>5, <2>7
    <3>3. Pending(m, c) = {<< >>}
      BY <3>2, PendingCases
    <3> QED
      BY <2>1, <3>1, <3>3
  <2>8. CASE a = 4 /\ b = 5
    <3>1. c \in m.sentInfo \ m.tookInfo /\ c \notin m.sentStats \ m.tookStats
      BY <2>5, <2>8
    <3>2. up[T][c] = <<x>>
      BY <2>2, <2>6, <2>8
    <3> QED
      BY <2>1, <2>3, <3>1, <3>2, PendingCases
  <2>9. CASE a = 4 /\ b = 6
    <3>1. c \in m.sentInfo \ m.tookInfo /\ c \in m.sentStats \ m.tookStats
      BY <2>5, <2>9
    <3>2. up[T][c] = <<x, y>>
      BY <2>2, <2>6, <2>9
    <3> QED
      BY <2>1, <2>3, <3>1, <3>2, PendingCases
  <2>10. CASE a = 5 /\ b = 6
    <3>1. c \notin m.sentInfo \ m.tookInfo /\ c \in m.sentStats \ m.tookStats
      BY <2>5, <2>10
    <3>2. up[T][c] = <<y>>
      BY <2>2, <2>6, <2>10
    <3> QED
      BY <2>1, <2>3, <3>1, <3>2, PendingCases
  <2> QED
    BY <2>4, <2>7, <2>8, <2>9, <2>10
<1>9. ASSUME NEW p \in Filter
      PROVE  FilterLate(m, p, filter[p])
  <2>1. FilterOK(h, p, filter[p])
    BY <1>1
  <2>2. \A c \in Children(p) : c \in Node
    BY NodeFacts
  <2>3. /\ Children(p) \ m.tookInfo = {c \in Children(p) : h.took[T][c] < 5}
        /\ Children(p) \ m.tookStats = {c \in Children(p) : h.took[T][c] < 6}
    <3>1. \A c \in Children(p) : /\ c \notin m.tookInfo <=> h.took[T][c] < 5
                                 /\ c \notin m.tookStats <=> h.took[T][c] < 6
      BY <1>5, <1>6, <2>2
    <3> QED
      BY <3>1
  <2>4. filter[p].needsReset => Children(p) \subseteq m.tookStats
    <3> SUFFICES ASSUME filter[p].needsReset, NEW c \in Children(p)
                 PROVE  c \in m.tookStats
      OBVIOUS
    <3>1. h.took[T][c] \in 4 .. 6 /\ c \in Node
      BY <1>5, <2>2
    <3>2. h.took[T][c] = 0 \/ h.took[T][c] = 6
      BY <2>1 DEF FilterOK
    <3> QED
      BY <1>6, <3>1, <3>2
  <2>5. ASSUME filter[p].alive, ~filter[p].needsReset
        PROVE  /\ filter[p].waitForClustersInfo = Cardinality(Children(p) \ m.tookInfo)
               /\ filter[p].waitForStats = Cardinality(Children(p) \ m.tookStats)
               /\ ~(Children(p) \subseteq m.tookStats)
    <3>1. Holds(h, p, filter[p]) /\ \E c \in Children(p) : h.took[T][c] < 6
      BY <2>1, <2>5 DEF FilterOK
    <3>2. ~(Children(p) \subseteq m.tookStats)
      BY <2>3, <3>1
    <3> QED
      BY <2>3, <3>1, <3>2 DEF Holds, Missing
  <2>6. filter[p] \in FilterState(p)
    BY <2>1 DEF FilterOK
  <2> QED
    BY <2>4, <2>5, <2>6 DEF FilterLate
<1>10. ASSUME NEW w \in Worker
       PROVE  WorkerLate(m, w)
  <2>1. w \in Node /\ WorkerOK(h, w) /\ h.sent[S][w] = 1 /\ h.sent[T][w] \in 4 .. 6
    BY <1>1, <1>5, NodeFacts
  <2>2. /\ pc[w] \in {"config", "dims", "barrier", "model", "hulls", "support", "exited"}
        /\ Progress(h, w) \in Places(pc[w])
        /\ Progress(h, w)[3] = 1 /\ Progress(h, w)[1] = h.sent[T][w]
        /\ Progress(h, w)[4] = h.dtook[T][w] /\ Progress(h, w)[6] = h.dtook[S][w]
    BY <2>1 DEF WorkerOK, Progress
  <2>3. \A l \in {"config", "dims", "barrier", "model", "hulls", "support", "exited"} :
          \A z \in Places(l) : z[3] = 1 =>
            /\ l \in {"support", "config", "exited"}
            /\ z[4] \in {3, 4} /\ z[6] \in {0, 1}
            /\ l = "support" => z[1] = 4
    BY DEF Places
  <2>4. /\ pc[w] \in {"support", "config", "exited"}
        /\ h.dtook[T][w] \in {3, 4} /\ h.dtook[S][w] \in {0, 1}
        /\ pc[w] = "support" => h.sent[T][w] = 4
    BY <2>2, <2>3
  <2>5. pc[w] = "support" => w \notin m.sentInfo \cup m.sentStats
    BY <1>6, <2>1, <2>4
  <2>6. /\ class[w] \in [data[w] -> Nat] /\ globalModel[w] \in Seq(SUBSET Burst)
    <3>1. Model(h) \in Seq(SUBSET Burst) /\ h.old \in Seq(SUBSET Burst)
      BY <1>1 DEF Possible, Accounts, Model
    <3>2. class[w] \in Classify(w, Model(h))
      BY <2>1 DEF WorkerOK
    <3>3. globalModel[w] = Model(h) \/ globalModel[w] = h.old
      BY <2>1 DEF WorkerOK
    <3> QED
      BY <3>1, <3>2, <3>3, ClassifyIs
  <2>7. down[T][w] \in {<< >>, <<Mark("ALL_HULLS_SENT")>>}
    <3>1. down[T][w] = Segment(DownScript(h, T), h.dtook[T][w], 4)
      BY <1>1, <1>2 DEF Queues
    <3>2. DownScript(h, T)[4] = Mark("ALL_HULLS_SENT")
      BY DownScriptIs
    <3> DEFINE script == DownScript(h, T)
    <3> HIDE DEF script
    <3>3. Segment(script, 4, 4) = << >> /\ Segment(script, 3, 4) = <<script[4]>>
      BY DEF Segment
    <3> QED
      BY <2>4, <3>1, <3>2, <3>3 DEF script
  <2>8. \/ down[S][w] = << >>
        \/ \E B \in Counts(Range(clump)) : down[S][w] = <<Packet("SUPPORT", B)>>
    <3>1. down[S][w] = Segment(DownScript(h, S), h.dtook[S][w], 1)
      BY <1>1, <1>2 DEF Queues
    <3>2. DownScript(h, S)[1] = Packet("SUPPORT", h.sup[Root])
      BY DownScriptIs
    <3> DEFINE script == DownScript(h, S)
    <3> HIDE DEF script
    <3>3. Segment(script, 1, 1) = << >> /\ Segment(script, 0, 1) = <<script[1]>>
      BY DEF Segment
    <3>4. h.sup[Root] \in Counts(Range(clump))
      BY <1>1, ContentsType
    <3> QED
      BY <2>4, <3>1, <3>2, <3>3, <3>4 DEF script
  <2> QED
    BY <2>4, <2>5, <2>6, <2>7, <2>8 DEF WorkerLate
<1>11. /\ DOMAIN up = Stream /\ DOMAIN down = Stream
       /\ \A s \in Stream : DOMAIN up[s] = Node /\ DOMAIN down[s] = Worker
  BY <1>1 DEF Queues
<1>12. Late(m)
  BY <1>1, <1>7, <1>8, <1>9, <1>10, <1>11 DEF Late
<1> QED
  BY <1>12

\* The scripts of a back-end fail: from there up to the front-end nobody reports.
LEMMA WithholdsStep ==
  ASSUME NEW h, Agrees(h), UNCHANGED clump, NEW w \in Worker, ReportResults(w), Withholds(w),
         EveryBurstAccounted, ClassifiedAlike
  PROVE  Stuck' /\ NoReset
<1>1. /\ pc[w] = "support" /\ Received("Support", w, "SUPPORT") /\ filter' = filter
  BY ReportsOrNot
<1>2. rpc = "info"
  <2>1. /\ w \in Node /\ Root \in Node /\ Possible(h) /\ Queues(h) /\ WorkerOK(h, w)
        /\ RootOK(h) /\ \A p \in Filter : Forwards(h, p)
    BY NodeFacts DEF Agrees
  <2>2. Progress(h, w) = <<4, 1, 1, 3, 1, 0>>
    BY <1>1, <2>1, PlaceIs
  <2>3. h.sent["TDBSCAN"][w] = 4 /\ h.dtook["Support"][w] = 0
    BY <2>2 DEF Progress
  <2>4. h.sent["TDBSCAN"][Root] <= 4 /\ h.took["TDBSCAN"][Root] <= 4
    <3>1. h.sent["TDBSCAN"][Root] <= h.sent["TDBSCAN"][w]
      BY <2>1, SentByAll, StreamFacts
    <3>2. /\ h.took["TDBSCAN"][Root] <= h.sent["TDBSCAN"][Root]
          /\ h.sent["TDBSCAN"][Root] \in 0 .. 6 /\ h.took["TDBSCAN"][Root] \in 0 .. 6
      BY <2>1, AccountFacts, StreamFacts
    <3> QED
      BY <2>3, <3>1, <3>2
  <2>5. h.dsent["Support"] # 0
    BY <1>1, <2>1, <2>3, DownQueue, StreamFacts DEF Received
  <2>6. \A l \in {"start", "dims", "barrier", "hulls", "support", "info", "stats"} :
          \A z \in RootPlaces(l) : z[1] <= 4 /\ z[6] # 0 => l = "info"
    BY DEF RootPlaces
  <2>7. /\ rpc \in {"start", "dims", "barrier", "hulls", "support", "info", "stats"}
        /\ RootProgress(h) \in RootPlaces(rpc)
        /\ RootProgress(h)[1] = h.took["TDBSCAN"][Root] /\ RootProgress(h)[6] = h.dsent["Support"]
    BY <2>1 DEF RootOK, RootProgress
  <2> QED
    BY <2>4, <2>5, <2>6, <2>7
<1>3. PICK m : Late(m)
  BY <1>2, LateBegins
<1>4. /\ w \notin m.sentInfo /\ pc'[w] # "support" /\ \A v \in Worker \ {w} : pc'[v] = pc[v]
      /\ \E g : Late(g)' /\ g.sentInfo = m.sentInfo
  BY <1>3, LateReport
<1>5. PICK g : Late(g)' /\ g.sentInfo = m.sentInfo
  BY <1>4
<1> DEFINE Z == Above(w)
<1>6. w \in Node /\ Ordered(m)
  BY <1>3, NodeFacts DEF Late
<1>7. Z \subseteq Node \ m.sentInfo
  <2> DEFINE Y == Node \ m.sentInfo
  <2>1. Y \in SUBSET Node /\ w \in Y
    BY <1>4, <1>6
  <2>2. ASSUME NEW c \in Y \ {Root}
        PROVE  Parent[c] \in Y
    <3>1. c \in Node \ {Root} /\ c \notin m.sentInfo
      BY <2>2
    <3>2. Parent[c] \in Filter /\ Parent[c] \in Node /\ c \in Children(Parent[c])
      BY <3>1, NodeFacts
    <3>3. c \notin m.tookInfo
      BY <1>6, <3>1 DEF Ordered
    <3>4. Parent[c] \notin m.sentInfo
      BY <1>6, <3>2, <3>3 DEF Ordered
    <3> QED
      BY <3>2, <3>4
  <2> HIDE DEF Y
  <2>3. Above(w) \subseteq Y
    BY <1>6, <2>1, <2>2, AboveMinimal
  <2> QED
    BY <2>3 DEF Y
<1>8. Root \in Z
  BY <1>6, UnderRoot DEF Under
<1>9. ASSUME NEW p \in Z \cap Filter
      PROVE  Children(p) \cap Z # {}
  <2>1. w \in Under(p) /\ w # p /\ p \in Filter
    BY <1>6, <1>9, NodeFacts DEF Under
  <2>2. PICK c \in Children(p) : w \in Under(c)
    BY <2>1, UnderFilter
  <2> QED
    BY <2>2 DEF Under
<1>10. ASSUME NEW v \in Z \cap Worker
       PROVE  v = w
  <2>1. w \in Under(v)
    BY <1>6, <1>10 DEF Under
  <2> QED
    BY <2>1, UnderWorker
<1> HIDE DEF Z
<1>11. Silent(g, Z)'
  <2>1. Z \cap g.sentInfo = {} /\ Z \subseteq Node
    BY <1>5, <1>7
  <2> QED
    BY <1>4, <1>8, <1>9, <1>10, <2>1 DEF Silent
<1>12. NoReset
  BY <1>1 DEF NoReset
<1> QED
  BY <1>5, <1>11, <1>12 DEF Stuck

-----------------------------------------------------------------------------
(***************************************************************************)
(* The invariant.                                                          *)
(***************************************************************************)
\* Before the first round the state is as after one in which nothing was sent up but
\* empty packets.
LEMMA InitHolds == Init => IInv
<1> SUFFICES ASSUME Init
             PROVE  IInv
  OBVIOUS
<1> DEFINE all == [s \in Stream |-> [c \in Node |-> Length(s)]]
           dsent == [s \in Stream |-> IF s = "TDBSCAN" THEN 4 ELSE 1]
           dtook == [s \in Stream |-> [w \in Worker |-> dsent[s]]]
           nothing == [c \in Node |-> {}]
           nobody == [c \in Node |-> EmptyBag]
           h == [sent |-> all, took |-> all, dsent |-> dsent, dtook |-> dtook,
                 noise |-> nothing, hulls |-> nothing, info |-> nobody, sup |-> nobody,
                 old |-> << >>, news |-> << >>, round |-> 0]
<1>1. /\ all \in [Stream -> [Node -> 0 .. 6]]
      /\ \A s \in Stream, c \in Node : all[s][c] = Length(s)
  BY DEF Length
<1>2. /\ dsent \in [Stream -> 0 .. 4] /\ dtook \in [Stream -> [Worker -> -1 .. 4]]
      /\ \A s \in Stream : dsent[s] = IF s = "TDBSCAN" THEN 4 ELSE 1
      /\ \A s \in Stream, w \in Worker : dtook[s][w] = dsent[s]
  OBVIOUS
<1>3. /\ EmptyBag \in Counts(Nat) /\ EmptyBag \in Counts(Range(clump))
      /\ \A key : Tally({}, key) = EmptyBag
  <2>1. EmptyBag \in [{} -> Nat \ {0}]
    BY DEF EmptyBag, SetToBag
  <2> QED
    BY <2>1, EmptyCounts DEF Counts
<1>4. /\ nothing \in [Node -> SUBSET Burst] /\ nothing \in [Node -> SUBSET SUBSET Burst]
      /\ nobody \in [Node -> Counts(Nat)] /\ nobody \in [Node -> Counts(Range(clump))]
      /\ \A c \in Node : nothing[c] = {} /\ nobody[c] = EmptyBag
  BY <1>3
<1>5. << >> \in Seq(SUBSET Burst) /\ << >> \o << >> = << >>
  OBVIOUS
<1> HIDE DEF all, dsent, dtook, nothing, nobody
<1>6. /\ h \in Accounts
      /\ h.sent = all /\ h.took = all /\ h.dsent = dsent /\ h.dtook = dtook
      /\ h.noise = nothing /\ h.hulls = nothing /\ h.info = nobody /\ h.sup = nobody
      /\ h.old = << >> /\ h.news = << >> /\ h.round = 0
  BY <1>1, <1>2, <1>4, <1>5 DEF Accounts
<1> HIDE DEF h
<1>7. /\ \A s \in Stream, c \in Node : h.sent[s][c] = Length(s) /\ h.took[s][c] = Length(s)
      /\ \A s \in Stream : h.dsent[s] = IF s = "TDBSCAN" THEN 4 ELSE 1
      /\ \A s \in Stream, w \in Worker : h.dtook[s][w] = h.dsent[s]
      /\ \A c \in Node : /\ h.noise[c] = {} /\ h.hulls[c] = {}
                         /\ h.info[c] = EmptyBag /\ h.sup[c] = EmptyBag
      /\ Model(h) = << >>
  BY <1>1, <1>2, <1>4, <1>5, <1>6 DEF Model
<1>8. Shapes
  <2>1. 0 \in 0 .. Rounds
    BY TDBSCANAssumption
  <2> QED
    BY <1>3, <1>5, <2>1 DEF Init, Shapes
<1>9. Possible(h)
  BY <1>6, <1>7, StreamFacts DEF Possible, Length
<1>10. Queues(h)
  <2>1. ASSUME NEW s \in Stream, NEW c \in Node
        PROVE  up[s][c] = Segment(Script(h, s, c), h.took[s][c], h.sent[s][c])
    <3>1. Length(s) \in Int
      BY DEF Length
    <3>2. Segment(Script(h, s, c), Length(s), Length(s)) = << >>
      BY <3>1, SegmentEmpty
    <3> QED
      BY <1>7, <3>2 DEF Init
  <2>2. ASSUME NEW s \in Stream, NEW w \in Worker
        PROVE  down[s][w] = Segment(DownScript(h, s), h.dtook[s][w], h.dsent[s])
    <3>1. h.dsent[s] \in Int
      BY <1>7
    <3>2. Segment(DownScript(h, s), h.dsent[s], h.dsent[s]) = << >>
      BY <3>1, SegmentEmpty
    <3> QED
      BY <1>7, <3>2 DEF Init
  <2> QED
    BY <2>1, <2>2 DEF Queues, Init
<1>11. ASSUME NEW p \in Filter
       PROVE  Forwards(h, p) /\ FilterOK(h, p, filter[p])
  <2>1. p \in Node /\ \A c \in Children(p) : c \in Node
    BY NodeFacts
  <2>2. Forwards(h, p)
    <3>1. \A s \in Stream : Length(s) <= Length(s)
      BY DEF Length
    <3> QED
      BY <1>7, <2>1, <3>1, StreamFacts DEF Forwards, Length
  <2>3. /\ filter[p].needsReset /\ Rests(filter[p])
        /\ filter[p] \in FilterState(p)
    <3> DEFINE f0 == [needsReset |-> TRUE, waitForNoise |-> 0, waitForHulls |-> 0,
                      waitForStats |-> 0, waitForClustersInfo |-> 0, noise |-> {},
                      merged |-> {}, compared |-> FALSE, nodes |-> {}, info |-> EmptyBag,
                      alive |-> TRUE]
    <3>1. filter[p] = f0
      BY DEF Init, Fresh
    <3>2. 0 \in 0 .. Cardinality(Children(p))
      BY FiniteFacts
    <3>3. f0 \in FilterState(p) /\ f0.needsReset /\ Rests(f0)
      BY <3>2, EmptyCounts DEF Rests, FilterState
    <3> QED
      BY <3>1, <3>3
  <2>4. \A c \in Children(p) : h.took["TDBSCAN"][c] = 6
    BY <1>7, <2>1, StreamFacts DEF Length
  <2> QED
    BY <2>2, <2>3, <2>4 DEF FilterOK
<1>12. \A w \in Worker : data[w] = {}
  BY DEF Init
<1>13. ASSUME NEW c \in Node
       PROVE  Contents(h, c)
  <2>1. Bursts(c) = {} /\ Cells(c) = {}
    BY <1>12, WorkersOf DEF Bursts, Cells
  <2> QED
    BY <1>3, <1>7, <2>1 DEF Contents, Apart
<1>14. ASSUME NEW w \in Worker
       PROVE  WorkerOK(h, w)
  <2>1. /\ pc[w] = "config" /\ globalModel[w] = << >> /\ class[w] = << >>
        /\ support[w] = EmptyBag /\ w \in Node /\ Root \in Node
    BY NodeFacts DEF Init
  <2>2. Progress(h, w) \in Places("config")
    BY <1>7, <2>1, StreamFacts DEF Progress, Places, Length
  <2>3. << >> \in Classify(w, << >>)
    <3>1. << >> \in [data[w] -> 0 .. Len(<< >>)]
      BY <1>12
    <3> QED
      BY <1>12, <3>1 DEF Classify
  <2>4. Measured(h, w)
    BY <1>12, <2>1 DEF Measured, Init
  <2> QED
    BY <1>6, <1>7, <1>12, <2>1, <2>2, <2>3, <2>4, StreamFacts DEF WorkerOK, Length
<1>15. RootOK(h)
  <2>1. Root \in Node /\ rpc = "start" /\ round = 0 /\ left = {} /\ arrived = {} /\ info = EmptyBag
    BY NodeFacts DEF Init
  <2>2. RootProgress(h) \in RootPlaces("start")
    BY <1>7, <2>1, StreamFacts DEF RootProgress, RootPlaces, Length
  <2>3. \A w \in Worker : h.dtook["TDBSCAN"][w] >= 1
    BY <1>7, StreamFacts
  <2>4. Modelled(h)
    <3>1. /\ rootModel = << >> /\ DOMAIN << >> = {} /\ Len(<< >>) = 0
          /\ Cardinality({}) = 0 /\ Range(<< >>) = {}
      <4>1. << >> \in Seq({}) /\ DOMAIN << >> = {} /\ Len(<< >>) = 0
        OBVIOUS
      <4> QED
        BY <4>1, FS_EmptySet DEF Init, Range
    <3>2. DenseHulls = {} /\ LastHulls(0) = {}
      BY <3>1 DEF DenseHulls, LastHulls, Dense
    <3> QED
      BY <1>6, <2>1, <3>1, <3>2 DEF Modelled
  <2> QED
    BY <1>6, <1>7, <2>1, <2>2, <2>3, <2>4 DEF RootOK
<1> QED
  BY <1>8, <1>9, <1>10, <1>11, <1>13, <1>14, <1>15 DEF IInv, Agrees

\* Every step of the system leads from an account of the round to another, or to a round
\* that lacks a report.
LEMMA NextHolds ==
  ASSUME IInv, [Next]_vars
  PROVE  IInv' \/ Stuck'
<1>1. PICK h : Agrees(h)
  BY DEF IInv
<1>2. CASE UNCHANGED vars
  BY <1>1, <1>2, StutterStep
<1>3. CASE Next
  <2>1. UNCHANGED clump
    BY <1>3 DEF Next
  <2>2. ASSUME NEW c \in Worker \cup Comm, FilterTakes(c)
        PROVE  IInv'
    <3>1. c \in Node \ {Root}
      BY NodeFacts
    <3>2. \/ FilterNoise(c) \/ FilterAllNoiseSent(c) \/ FilterAllHulls(c)
          \/ FilterAllHullsSent(c) \/ FilterClustersInfo(c) \/ FilterStatistics(c)
          \/ FilterDies(c)
      BY <2>2 DEF FilterTakes
    <3> QED
      BY <1>1, <2>1, <3>1, <3>2, NoiseStep, NoiseSentStep, HullsStep, HullsSentStep, InfoStep,
         StatisticsStep, DiesStep
  <2>3. ASSUME NEW p \in Filter, FilterDimensions(p) \/ FilterSupport(p)
        PROVE  IInv'
    BY <1>1, <2>1, <2>3, DimensionsStep, SupportStep
  <2>4. ASSUME NEW w \in Worker, WorkerStep(w)
        PROVE  IInv' \/ Stuck'
    <3>1. \/ StartRound(w) \/ WorkerDrops(w) \/ ClusterLocally(w) \/ SendLocalModel(w)
          \/ ReceiveGlobalModel(w) \/ ClassifyData(w) \/ ReportResults(w)
      BY <2>4 DEF WorkerStep
    <3>2. CASE ReportResults(w)
      <4>1. CASE Informs(w)
        BY <1>1, <2>1, <3>2, <4>1, ReportResultsStep
      <4>2. CASE Withholds(w)
        <5>1. EveryBurstAccounted /\ ClassifiedAlike
          BY AccountedInRound, ClassifiedInRound
        <5> QED
          BY <1>1, <2>1, <3>2, <4>2, <5>1, WithholdsStep
      <4> QED
        BY <3>2, <4>1, <4>2, ReportsOrNot
    <3> QED
      BY <1>1, <2>1, <3>1, <3>2, StartRoundStep, WorkerDropsStep, ClusterLocallyStep,
         SendLocalModelStep, ReceiveGlobalModelStep, ClassifyDataStep
  <2>5. CASE Barrier
    BY <1>1, <2>1, <2>5, BarrierStep
  <2>6. CASE RootStep
    <3>1. \/ SendConfiguration \/ ReturnDimensions \/ BroadcastGlobalModel
          \/ CountRemainingNoise \/ PassOver \/ EndOfHulls \/ ReturnSupport
          \/ ReceiveInfo \/ ReceiveStatistics \/ RootDrops
      BY <2>6 DEF RootStep
    <3> QED
      BY <1>1, <2>1, <3>1, SendConfigurationStep, ReturnDimensionsStep,
         BroadcastGlobalModelStep, CountRemainingNoiseStep, PassOverStep, EndOfHullsStep,
         ReturnSupportStep, ReceiveInfoStep, ReceiveStatisticsStep, RootDropsNothing
  <2>7. CASE Finished
    <3>1. UNCHANGED vars
      BY <2>7 DEF Finished
    <3> QED
      BY <1>1, <3>1, StutterStep
  <2> QED
    BY <1>3, <2>2, <2>3, <2>4, <2>5, <2>6, <2>7 DEF Next
<1> QED
  BY <1>2, <1>3

\* A round has an account of what was sent and taken in it, or it lacks a report and the
\* front-end waits for it.
RoundInv == IInv \/ Stuck

\* The invariant of every reachable state.
THEOREM Invariant == Spec => []RoundInv
<1>1. Init => RoundInv
  BY InitHolds DEF RoundInv
<1>2. RoundInv /\ [Next]_vars => RoundInv'
  <2> SUFFICES ASSUME RoundInv, [Next]_vars
               PROVE  IInv' \/ Stuck'
    BY DEF RoundInv
  <2>1. CASE IInv
    BY <2>1, NextHolds
  <2>2. CASE Stuck
    BY <2>2, LateNext
  <2> QED
    BY <2>1, <2>2 DEF RoundInv
<1> QED
  BY <1>1, <1>2, PTL DEF Spec

\* Two of the variables are given no domain by the account of the round.
Functional ==
  /\ pc = [w \in Worker |-> pc[w]]
  /\ globalModel = [w \in Worker |-> globalModel[w]]

\* pc and globalModel are functions on the back-ends throughout.
LEMMA FunctionalHolds ==
  ASSUME Functional, [Next]_vars
  PROVE  Functional'
<1>1. CASE UNCHANGED vars
  BY <1>1 DEF Functional, vars, workerVars
<1>2. CASE Next
  <2>1. ASSUME NEW c, FilterTakes(c)
        PROVE  Functional'
    <3> SUFFICES UNCHANGED workerVars
      BY DEF Functional, workerVars
    <3>1. CASE FilterNoise(c)
      BY <3>1 DEF FilterNoise, FilterStep
    <3>2. CASE FilterAllNoiseSent(c)
      BY <3>2 DEF FilterAllNoiseSent, FilterStep
    <3>3. CASE FilterAllHulls(c)
      BY <3>3 DEF FilterAllHulls, FilterStep
    <3>4. CASE FilterAllHullsSent(c)
      BY <3>4 DEF FilterAllHullsSent, FilterStep
    <3>5. CASE FilterClustersInfo(c)
      BY <3>5 DEF FilterClustersInfo, FilterStep
    <3>6. CASE FilterStatistics(c)
      BY <3>6 DEF FilterStatistics, FilterStep
    <3>7. CASE FilterDies(c)
      BY <3>7 DEF FilterDies, FilterStep
    <3> QED
      BY <2>1, <3>1, <3>2, <3>3, <3>4, <3>5, <3>6, <3>7 DEF FilterTakes
  <2>2. CASE \E p \in Filter : FilterDimensions(p) \/ FilterSupport(p)
    BY <2>2 DEF Functional, FilterDimensions, FilterSupport, Combine, workerVars
  <2>3. ASSUME NEW w \in Worker, WorkerStep(w)
        PROVE  Functional'
    <3>1. CASE StartRound(w)
      BY <3>1 DEF Functional, StartRound, Goto, Exit
    <3>2. CASE WorkerDrops(w)
      BY <3>2 DEF Functional, WorkerDrops, workerVars
    <3>3. CASE ClusterLocally(w)
      BY <3>3 DEF Functional, ClusterLocally, Goto, Exit
    <3>4. CASE SendLocalModel(w)
      BY <3>4 DEF Functional, SendLocalModel, Goto
    <3>5. CASE ReceiveGlobalModel(w)
      BY <3>5 DEF Functional, ReceiveGlobalModel
    <3>6. CASE ClassifyData(w)
      BY <3>6 DEF Functional, ClassifyData, Goto, Exit
    <3>7. CASE ReportResults(w)
      BY <3>7 DEF Functional, ReportResults, Goto, Exit
    <3> QED
      BY <2>3, <3>1, <3>2, <3>3, <3>4, <3>5, <3>6, <3>7 DEF WorkerStep
  <2>4. CASE Barrier
    BY <2>4 DEF Functional, Barrier
  <2>5. CASE RootStep
    BY <2>5 DEF Functional, RootStep, SendConfiguration, ReturnDimensions,
       BroadcastGlobalModel, CountRemainingNoise, PassOver, EndOfHulls, ReturnSupport,
       ReceiveInfo, ReceiveStatistics, RootDrops, workerVars
  <2>6. CASE Finished
    BY <2>6 DEF Functional, Finished, vars, workerVars
  <2> QED
    BY <1>2, <2>1, <2>2, <2>3, <2>4, <2>5, <2>6 DEF Next
<1> QED
  BY <1>1, <1>2

\* The types follow from the account.
LEMMA TypesFollow == IInv /\ Functional => TypeOK
<1> SUFFICES ASSUME NEW h, Agrees(h), Functional
             PROVE  TypeOK
  BY DEF IInv
<1>1. Shapes /\ Possible(h) /\ Queues(h) /\ RootOK(h)
  BY DEF Agrees
<1>2. h.old \in Seq(SUBSET Burst) /\ h.news \in Seq(SUBSET Burst)
      /\ Model(h) \in Seq(SUBSET Burst)
  BY <1>1 DEF Possible, Accounts, Model
<1>3. \A w \in Worker : WorkerOK(h, w)
  BY DEF Agrees
<1>4. pc \in [Worker -> {"config", "dims", "barrier", "model", "hulls", "support", "exited"}]
  BY <1>3 DEF WorkerOK, Functional
<1>5. globalModel \in [Worker -> Seq(SUBSET Burst)]
  <2>1. \A w \in Worker : globalModel[w] \in Seq(SUBSET Burst)
    BY <1>2, <1>3 DEF WorkerOK
  <2> QED
    BY <2>1 DEF Functional
<1>6. \A w \in Worker : class[w] = << >> \/ class[w] \in [data[w] -> Nat]
  <2>1. \A w \in Worker : class[w] = << >> \/ class[w] \in Classify(w, Model(h))
    BY <1>3 DEF WorkerOK
  <2> QED
    BY <1>2, <2>1, ClassifyIs
<1>7. \A p \in Filter :
        /\ filter[p].needsReset \in BOOLEAN
        /\ filter[p].waitForNoise \in 0 .. Cardinality(Children(p))
        /\ filter[p].waitForHulls \in 0 .. Cardinality(Children(p))
        /\ filter[p].waitForStats \in 0 .. Cardinality(Children(p))
        /\ filter[p].waitForClustersInfo \in 0 .. Cardinality(Children(p))
        /\ filter[p].noise \subseteq Burst
        /\ filter[p].merged \subseteq SUBSET Burst
        /\ filter[p].nodes \subseteq Node
        /\ IsABag(filter[p].info)
        /\ filter[p].compared \in BOOLEAN /\ filter[p].alive \in BOOLEAN
  <2> SUFFICES ASSUME NEW p \in Filter
               PROVE  /\ filter[p].needsReset \in BOOLEAN
                      /\ filter[p].waitForNoise \in 0 .. Cardinality(Children(p))
                      /\ filter[p].waitForHulls \in 0 .. Cardinality(Children(p))
                      /\ filter[p].waitForStats \in 0 .. Cardinality(Children(p))
                      /\ filter[p].waitForClustersInfo \in 0 .. Cardinality(Children(p))
                      /\ filter[p].noise \subseteq Burst
                      /\ filter[p].merged \subseteq SUBSET Burst
                      /\ filter[p].nodes \subseteq Node
                      /\ IsABag(filter[p].info)
                      /\ filter[p].compared \in BOOLEAN /\ filter[p].alive \in BOOLEAN
    OBVIOUS
  <2>1. filter[p] \in FilterState(p)
    BY DEF Agrees, FilterOK
  <2>2. filter[p].info \in Counts(Nat)
    BY <2>1, FilterFields
  <2>3. IsABag(filter[p].info)
    BY <2>2, CountsBag
  <2> QED
    BY <2>1, <2>3, FilterFields
<1>8. \A w \in Worker : IsABag(support[w])
  BY <1>1, CountsBag DEF Shapes
<1>9. IsABag(info)
  BY <1>1, CountsBag DEF Shapes
<1>10. \A s \in Stream : DOMAIN up[s] = Node /\ DOMAIN down[s] = Worker
  BY <1>1 DEF Queues
<1>11. rpc \in {"start", "dims", "barrier", "hulls", "support", "info", "stats"}
  BY <1>1 DEF RootOK
<1> QED
  BY <1>1, <1>4, <1>5, <1>6, <1>7, <1>8, <1>9, <1>10, <1>11 DEF TypeOK, Shapes

\* So they do from the account of the reports alone.
LEMMA LateTypes == Stuck /\ Functional => TypeOK
<1> SUFFICES ASSUME NEW m, Late(m), Functional
             PROVE  TypeOK
  BY DEF Stuck
<1>1. Shapes /\ \A w \in Worker : WorkerLate(m, w)
  BY DEF Late
<1>2. pc \in [Worker -> {"config", "dims", "barrier", "model", "hulls", "support", "exited"}]
  BY <1>1 DEF WorkerLate, Functional
<1>3. globalModel \in [Worker -> Seq(SUBSET Burst)]
  BY <1>1 DEF WorkerLate, Functional
<1>4. \A w \in Worker : class[w] \in [data[w] -> Nat]
  BY <1>1 DEF WorkerLate
<1>5. ASSUME NEW p \in Filter
      PROVE  /\ filter[p].needsReset \in BOOLEAN
             /\ filter[p].waitForNoise \in 0 .. Cardinality(Children(p))
             /\ filter[p].waitForHulls \in 0 .. Cardinality(Children(p))
             /\ filter[p].waitForStats \in 0 .. Cardinality(Children(p))
             /\ filter[p].waitForClustersInfo \in 0 .. Cardinality(Children(p))
             /\ filter[p].noise \subseteq Burst
             /\ filter[p].merged \subseteq SUBSET Burst
             /\ filter[p].nodes \subseteq Node
             /\ IsABag(filter[p].info)
             /\ filter[p].compared \in BOOLEAN /\ filter[p].alive \in BOOLEAN
  <2>1. filter[p] \in FilterState(p)
    BY DEF Late, FilterLate
  <2>2. filter[p].info \in Counts(Nat)
    BY <2>1, FilterFields
  <2>3. IsABag(filter[p].info)
    BY <2>2, CountsBag
  <2> QED
    BY <2>1, <2>3, FilterFields
<1>6. IsABag(info) /\ \A w \in Worker : IsABag(support[w])
  BY <1>1, CountsBag DEF Shapes
<1>7. /\ \A s \in Stream : DOMAIN up[s] = Node /\ DOMAIN down[s] = Worker
      /\ rpc \in {"start", "dims", "barrier", "hulls", "support", "info", "stats"}
  BY DEF Late
<1> QED
  BY <1>1, <1>2, <1>3, <1>4, <1>5, <1>6, <1>7 DEF TypeOK, Shapes

\* The state of every process has the types its declarations give it: no counter of a
\* filter falls below zero, and no packet puts anything else into a variable.
THEOREM TypeCorrect == Spec => []TypeOK
<1>1. Init => Functional
  BY DEF Init, Functional
<1>2. Functional /\ [Next]_vars => Functional'
  BY FunctionalHolds
<1>3. Spec => []Functional
  BY <1>1, <1>2, PTL DEF Spec
<1>4. Spec => []RoundInv
  BY Invariant
<1>5. RoundInv /\ Functional => TypeOK
  BY TypesFollow, LateTypes DEF RoundInv
<1> QED
  BY <1>3, <1>4, <1>5, PTL

\* No burst is lost, counted twice or merged too late on its way to the front-end.
THEOREM BurstsAccounted == Spec => []EveryBurstAccounted
<1>1. RoundInv => EveryBurstAccounted
  <2>1. Stuck => EveryBurstAccounted
    BY DEF Stuck, Late
  <2> QED
    BY <2>1, AccountedInRound DEF RoundInv
<1>2. Spec => []RoundInv
  BY Invariant
<1> QED
  BY <1>1, <1>2, PTL

\* An id stands for one clump in every back-end, and bursts of one dense hull get one id,
\* never noise, unless another dense hull touches it: all back-ends number one model.
THEOREM ClassifiedTheSame == Spec => []ClassifiedAlike
<1>1. RoundInv => ClassifiedAlike
  <2>1. Stuck => ClassifiedAlike
    BY DEF Stuck, Late
  <2> QED
    BY <2>1, ClassifiedInRound DEF RoundInv
<1>2. Spec => []RoundInv
  BY Invariant
<1> QED
  BY <1>1, <1>2, PTL

\* At the end of a round the support of all back-ends is that of the last filter.
LEMMA SupportInRound == IInv => SupportExact
<1> SUFFICES ASSUME NEW h, Agrees(h), rpc = "start", NEW w \in Worker
             PROVE  support[w] = [k \in {clump[b] : b \in UNION Range(data)} |->
                       Cardinality({v \in Worker : \E b \in data[v] : clump[b] = k})]
  BY DEF IInv, SupportExact, Between
<1> DEFINE K == {clump[b] : b \in UNION Range(data)}
           holders(k) == {v \in Worker : \E b \in data[v] : clump[b] = k}
           cells(k) == {x \in Cells(Root) : CellOf[x] = k}
<1>1. /\ Root \in Node /\ WorkerOK(h, w) /\ Contents(h, Root)
      /\ clump \in Layouts /\ data \in [Worker -> SUBSET Burst]
  BY NodeFacts DEF Agrees, Shapes
<1>2. h.dtook["Support"][w] = 1 /\ h.sent["Support"][Root] = 1
  BY <1>1, RoundOver, StreamFacts DEF Length
<1>3. support[w] = Tally(Cells(Root), CellOf)
  BY <1>1, <1>2 DEF WorkerOK, Contents
<1>4. Cells(Root) = {x \in Worker \X Range(clump) : \E b \in data[x[1]] : clump[b] = x[2]}
  BY WorkersOf DEF Cells
<1>5. \A x \in Worker \X Range(clump) : CellOf[x] = x[2]
  BY DEF CellOf
<1>6. ASSUME NEW v \in Worker, NEW b \in data[v]
      PROVE  /\ <<v, clump[b]>> \in Cells(Root) /\ CellOf[<<v, clump[b]>>] = clump[b]
             /\ b \in UNION Range(data)
  <2>1. b \in Burst /\ clump[b] \in Range(clump) /\ data[v] \in Range(data)
    BY <1>1, CellsOf DEF Range
  <2> DEFINE x == <<v, clump[b]>>
  <2>2. x \in Worker \X Range(clump) /\ x[1] = v /\ x[2] = clump[b]
    BY <2>1
  <2> QED
    BY <1>4, <1>5, <1>6, <2>1, <2>2
<1>7. ASSUME NEW x \in Cells(Root)
      PROVE  /\ x[1] \in Worker /\ x = <<x[1], x[2]>> /\ CellOf[x] = x[2]
             /\ \E b \in data[x[1]] : clump[b] = x[2]
  BY <1>4, <1>5
<1>8. {CellOf[x] : x \in Cells(Root)} = K
  <2>1. \A x \in Cells(Root) : CellOf[x] \in K
    BY <1>6, <1>7
  <2>2. ASSUME NEW b \in UNION Range(data)
        PROVE  \E x \in Cells(Root) : CellOf[x] = clump[b]
    <3>1. PICK v \in Worker : b \in data[v]
      BY <1>1 DEF Range
    <3> QED
      BY <1>6, <3>1
  <2> QED
    BY <2>1, <2>2
<1>9. ASSUME NEW k \in K
      PROVE  Cardinality(cells(k)) = Cardinality(holders(k))
  <2> DEFINE f == [v \in holders(k) |-> <<v, k>>]
  <2>1. \A v \in holders(k) : <<v, k>> \in cells(k)
    BY <1>6
  <2>2. \A x \in cells(k) : x[1] \in holders(k) /\ x = <<x[1], k>>
    BY <1>7
  <2>3. f \in Bijection(holders(k), cells(k))
    <3>1. f \in [holders(k) -> cells(k)]
      BY <2>1
    <3>2. \A x, y \in holders(k) : f[x] = f[y] => x = y
      OBVIOUS
    <3>3. \A x \in cells(k) : \E v \in holders(k) : f[v] = x
      BY <2>2
    <3> HIDE DEF f, holders, cells
    <3> QED
      BY <3>1, <3>2, <3>3 DEF Bijection, Injection, Surjection, IsInjective
  <2>4. IsFiniteSet(holders(k))
    BY FiniteFacts, FS_Subset
  <2> HIDE DEF f, holders, cells
  <2>5. ExistsBijection(holders(k), cells(k))
    BY <2>3 DEF ExistsBijection
  <2> QED
    BY <2>4, <2>5, FS_Bijection
<1>10. Tally(Cells(Root), CellOf) = [k \in K |-> Cardinality(cells(k))]
  BY <1>8 DEF Tally
<1> HIDE DEF K, cells
<1>11. Tally(Cells(Root), CellOf) = [k \in K |-> Cardinality(holders(k))]
  BY <1>9, <1>10
<1> QED
  BY <1>3, <1>11 DEF K

\* The support is the number of back-ends with bursts in a cell, in every back-end.
THEOREM SupportCounted == Spec => []SupportExact
<1>1. RoundInv => SupportExact
  <2>1. Stuck => rpc = "info"
    BY DEF Stuck, Late
  <2>2. rpc = "info" => SupportExact
    BY DEF SupportExact, Between
  <2> QED
    BY <2>1, <2>2, SupportInRound DEF RoundInv
<1>2. Spec => []RoundInv
  BY Invariant
<1> QED
  BY <1>1, <1>2, PTL

\* When the front-end has the information, all back-ends have classified, and it is
\* what the last filter has summed up.
LEMMA InfoIs ==
  ASSUME NEW h, Agrees(h), rpc \in {"stats", "start"}
  PROVE  /\ h.took["TDBSCAN"][Root] >= 3 /\ Model(h) \in Seq(SUBSET Burst) /\ Extracted
         /\ info = Tally(UNION Range(data), IdOf)
         /\ \A w \in Worker : class[w] \in Classify(w, Model(h))
<1>1. /\ Root \in Node /\ Possible(h) /\ RootOK(h) /\ Contents(h, Root)
      /\ \A p \in Filter : Forwards(h, p)
  BY NodeFacts DEF Agrees
<1>2. h.took["TDBSCAN"][Root] \in {5, 6}
  BY <1>1, RootPlaceIs DEF RootProgress
<1>3. h.sent["TDBSCAN"][Root] >= 5 /\ h.sent["TDBSCAN"][Root] \in 0 .. 6
  <2>1. /\ h.took["TDBSCAN"][Root] <= h.sent["TDBSCAN"][Root]
        /\ h.sent["TDBSCAN"][Root] \in 0 .. 6
    BY <1>1, AccountFacts, StreamFacts
  <2> QED
    BY <1>2, <2>1
<1>4. info = Tally(Bursts(Root), IdOf)
  <2>1. info = h.info[Root]
    BY <1>1, <1>2 DEF RootOK
  <2> QED
    BY <1>1, <1>3, <2>1 DEF Contents
<1>5. Extracted
  BY DEF Agrees, Shapes, WorkerOK, Extracted
<1>6. ASSUME NEW w \in Worker
      PROVE  class[w] \in Classify(w, Model(h))
  <2>1. h.sent["TDBSCAN"][w] \in {5, 6}
    <3>1. w \in Node /\ h.sent["TDBSCAN"][w] \in 0 .. 6
      BY <1>1, NodeFacts, AccountFacts, StreamFacts
    <3>2. h.sent["TDBSCAN"][Root] <= h.sent["TDBSCAN"][w]
      BY <1>1, <3>1, SentByAll, StreamFacts
    <3> QED
      BY <1>3, <3>1, <3>2
  <2>2. h.sent["Support"][w] = 1
    <3>1. /\ pc[w] \in {"config", "dims", "barrier", "model", "hulls", "support", "exited"}
          /\ Progress(h, w) \in Places(pc[w])
      BY DEF Agrees, WorkerOK
    <3>2. \A l \in {"config", "dims", "barrier", "model", "hulls", "support", "exited"} :
            \A x \in Places(l) : x[1] \in {5, 6} => x[3] = 1
      BY DEF Places
    <3>3. /\ Progress(h, w)[1] = h.sent["TDBSCAN"][w]
          /\ Progress(h, w)[3] = h.sent["Support"][w]
      BY DEF Progress
    <3> QED
      BY <2>1, <3>1, <3>2, <3>3
  <2> QED
    BY <2>2 DEF Agrees, WorkerOK
<1>7. Model(h) \in Seq(SUBSET Burst)
  BY <1>1 DEF Possible, Accounts, Model
<1>8. Bursts(Root) = UNION Range(data)
  BY <1>5, BurstsOf
<1>9. h.took["TDBSCAN"][Root] >= 3
  BY <1>2
<1> QED
  BY <1>4, <1>5, <1>6, <1>7, <1>8, <1>9

\* At the end of a round the front-end has what the last filter has summed up.
LEMMA ReportsInRound == IInv => ReportsComplete
<1> SUFFICES ASSUME NEW h, Agrees(h)
             PROVE  InfoComplete /\ StatisticsComplete
  BY DEF IInv, ReportsComplete
<1>1. Root \in Node /\ RootOK(h)
  BY NodeFacts DEF Agrees
<1>2. ASSUME rpc \in {"stats", "start"}
      PROVE  info = FoldFunction((+), EmptyBag, [w \in Worker |-> Individuals(w)])
  <2>1. /\ Extracted /\ \A w \in Worker : Individuals(w) = Tally(data[w], IdOf)
    BY <1>2, InfoIs, IndividualsAre
  <2>2. /\ IsFiniteSet(Worker) /\ \A w \in Worker : IsFiniteSet(data[w])
        /\ \A v, w \in Worker : v # w => data[v] \cap data[w] = {}
    <3>1. \A w \in Worker : Bursts(w) = data[w] /\ IsFiniteSet(Bursts(w))
      BY <2>1, BurstsOf
    <3> QED
      BY <2>1, <3>1, FiniteFacts DEF Extracted
  <2>3. FoldFunction((+), EmptyBag, [w \in Worker |-> Tally(data[w], IdOf)])
          = Tally(UNION {data[w] : w \in Worker}, IdOf)
    BY <2>2, FoldTally
  <2>4. [w \in Worker |-> Individuals(w)] = [w \in Worker |-> Tally(data[w], IdOf)]
    BY <2>1
  <2>5. UNION Range(data) = UNION {data[w] : w \in Worker}
    BY <2>1 DEF Extracted, Range
  <2>6. info = Tally(UNION Range(data), IdOf)
    BY <1>2, InfoIs
  <2> QED
    BY <2>3, <2>4, <2>5, <2>6
<1>3. ASSUME rpc = "start", round > 0
      PROVE  nodes = Worker \cup Filter
  <2>1. h.took["TDBSCAN"][Root] = 6
    BY <1>1, <1>3, RootPlaceIs DEF RootProgress
  <2> QED
    BY <1>1, <1>3, <2>1, NodeFacts DEF RootOK
<1> QED
  BY <1>2, <1>3 DEF InfoComplete, StatisticsComplete, Between

\* The report of a round counts every burst once, under the id its back-end gave it, and
\* the statistics come from all processes.
THEOREM ReportsAreComplete == Spec => []ReportsComplete
<1>1. RoundInv => ReportsComplete
  <2>1. Stuck => rpc = "info"
    BY DEF Stuck, Late
  <2>2. rpc = "info" => ReportsComplete
    BY DEF ReportsComplete, InfoComplete, StatisticsComplete, Between
  <2> QED
    BY <2>1, <2>2, ReportsInRound DEF RoundInv
<1>2. Spec => []RoundInv
  BY Invariant
<1> QED
  BY <1>1, <1>2, PTL

\* A filter that is reset has passed on everything: its children have sent all, or
\* nothing yet, of a round.
THEOREM ResetsLoseNothing == Spec => ResetLosesNothing
<1> DEFINE Lossless ==
      \A p \in Filter :
        filter[p].needsReset /\ ~filter'[p].needsReset =>
          /\ filter[p].waitForNoise = 0 /\ filter[p].waitForHulls = 0
          /\ filter[p].waitForStats = 0 /\ filter[p].waitForClustersInfo = 0
<1>1. RoundInv /\ [Next]_vars => [Lossless]_vars
  <2>1. IInv => Lossless
    BY DEF IInv, Agrees, FilterOK, Rests
  <2>2. Stuck /\ [Next]_vars => Lossless
    BY LateNext DEF NoReset
  <2> QED
    BY <2>1, <2>2 DEF RoundInv
<1>2. Spec => []RoundInv
  BY Invariant
<1> QED
  BY <1>1, <1>2, PTL DEF Spec, ResetLosesNothing

-----------------------------------------------------------------------------
(***************************************************************************)
(* The protocol implements the global clustering.                          *)
(***************************************************************************)
\* The operators of the standard modules are those of the abstract specification.
LEMMA SameCardinality == \A S : Abstract!Cardinality(S) = Cardinality(S)
BY DEF Abstract!Cardinality, Cardinality

LEMMA EmptyBagIs == EmptyBag = << >>
<1>1. EmptyBag = [e \in {} |-> 1]
  BY DEF EmptyBag, SetToBag
<1>2. [e \in {} |-> 1] = << >>
  OBVIOUS
<1> QED
  BY <1>1, <1>2

\* What the front-end has when it has all hulls, and what the back-ends have made of
\* them when it has the information of the clusters.
Clustered ==
  /\ left \cup UNION arrived = UNION Range(data) /\ left \cap UNION arrived = {}
  /\ Apart(arrived) /\ \A H \in arrived : OneClump(H)
  /\ Known(rootModel, Len(rootModel))
       = Known(rootModel, Len(rootModel) - Cardinality(arrived))
         \cup {H \in arrived : Cardinality(H) >= MinPoints}

NamesAlike(bursts, ids, known, counts) ==
  /\ \A b \in bursts : ids[b] # 0 => \E H \in known : Touch({b}, H)
  /\ \A a, b \in bursts : ids[a] = ids[b] /\ ids[a] # 0 => clump[a] = clump[b]
  /\ \A H \in known : \A a, b \in bursts \cap H :
       ids[a] # 0 /\ (ids[a] = ids[b] \/ \E G \in known \ {H} : Touch(G, H))
  /\ counts = [k \in {ids[b] : b \in bursts} |-> Cardinality({b \in bursts : ids[b] = k})]

NamedAlike ==
  NamesAlike(UNION Range(data), [b \in UNION Range(data) |-> class[Home[b]][b]],
             Known(rootModel, Len(rootModel)), info)

Promised == (rpc = "support" => Clustered) /\ (rpc = "stats" => NamedAlike)

\* At the end of a round the dense hulls are known.
LEMMA KnownIs ==
  ASSUME Shapes
  PROVE  Known(rootModel, Len(rootModel)) = DenseHulls
<1>1. {j \in Dense(rootModel) : j <= Len(rootModel)} = Dense(rootModel)
  BY DEF Shapes, Dense
<1> QED
  BY <1>1 DEF Known, DenseHulls

\* The hulls of the round are the last ones of the model.
LEMMA ClusteredInRound ==
  ASSUME NEW h, Agrees(h), rpc = "support"
  PROVE  Clustered
<1> DEFINE m == Len(rootModel)
           n == Cardinality(arrived)
           J(i) == {j \in Dense(rootModel) : j <= i}
           News == {H \in arrived : Cardinality(H) >= MinPoints}
<1>1. /\ n <= m /\ arrived = LastHulls(n) /\ rootModel \in Seq(SUBSET Burst)
  <2>1. RootOK(h) /\ rootModel \in Seq(SUBSET Burst)
    BY DEF Agrees, Shapes
  <2>2. h.took["TDBSCAN"][Root] = 4 /\ Modelled(h)
    BY <2>1, RootPlaceIs DEF RootProgress, RootOK
  <2> QED
    BY <2>1, <2>2 DEF Modelled
<1>2. m \in Nat /\ n \in Nat
  <2>1. IsFiniteSet(arrived)
    BY FiniteFacts, FS_SUBSET, FS_Subset DEF Agrees, Shapes
  <2> QED
    BY <1>1, <2>1, FS_CardinalityType
<1> HIDE DEF n
<1>3. {rootModel[k] : k \in J(m)} = {rootModel[k] : k \in J(m - n)} \cup News
  <2>1. arrived = {rootModel[k] : k \in m - n + 1 .. m}
    BY <1>1 DEF LastHulls
  <2>2. \A k : k \in J(m) <=> k \in 1 .. m /\ Cardinality(rootModel[k]) >= MinPoints
    BY <1>1, <1>2 DEF Dense
  <2>3. \A k : k \in J(m - n) <=> k \in 1 .. m - n /\ Cardinality(rootModel[k]) >= MinPoints
    BY <1>1, <1>2 DEF Dense
  <2>4. \A k : k \in 1 .. m <=> k \in 1 .. m - n \/ k \in m - n + 1 .. m
    BY <1>1, <1>2
  <2> HIDE DEF J, m
  <2> QED
    BY <2>1, <2>2, <2>3, <2>4
<1>4. \A i : Known(rootModel, i) = {rootModel[k] : k \in J(i)}
  BY DEF Known
<1> HIDE DEF J, m, News
<1>5. Known(rootModel, m) = Known(rootModel, m - n) \cup News
  BY <1>3, <1>4
<1> QED
  BY <1>5, EndOfHullsIs DEF Clustered, m, n, News

\* A burst has the number of a dense hull of its clump, in every back-end the same numbers.
LEMMA NamedInRound ==
  ASSUME NEW h, Agrees(h), rpc = "stats"
  PROVE  NamedAlike
<1> DEFINE bursts == UNION Range(data)
           model == Model(h)
           ids == [b \in bursts |-> class[Home[b]][b]]
           known == Known(rootModel, Len(rootModel))
<1>1. /\ Extracted /\ model \in Seq(SUBSET Burst) /\ info = Tally(bursts, IdOf)
      /\ \A w \in Worker : class[w] \in Classify(w, model)
      /\ Range(model) = DenseHulls
  BY InfoIs, ModelHulls DEF Agrees
<1>2. known = Range(model)
  BY <1>1, KnownIs DEF Agrees
<1>3. ASSUME NEW H \in Range(model)
      PROVE  OneClump(H)
  BY <1>1, <1>3 DEF Agrees, RootOK, Modelled, DenseHulls, Dense
<1> HIDE DEF model, known
<1>4. ASSUME NEW b \in bursts
      PROVE  /\ Home[b] \in Worker /\ b \in data[Home[b]]
             /\ class[Home[b]] \in Classify(Home[b], model)
             /\ ids[b] = class[Home[b]][b] /\ IdOf[b] = ids[b]
  <2>1. Home[b] \in Worker /\ b \in data[Home[b]] /\ class[Home[b]] \in Classify(Home[b], model)
    BY <1>1 DEF Extracted, Range
  <2> QED
    BY <1>1, <2>1, IndividualsAre
<1> HIDE DEF ids
<1>5. ASSUME NEW b \in bursts, ids[b] # 0
      PROVE  \E H \in known : Touch({b}, H)
  <2>1. ids[b] \in DOMAIN model /\ \E x \in model[ids[b]] : clump[x] = clump[b]
    BY <1>1, <1>4, <1>5, ClassifyIs
  <2> QED
    BY <1>2, <2>1 DEF Touch, Range
<1>6. ASSUME NEW a \in bursts, NEW b \in bursts
      PROVE  /\ ids[a] = ids[b] /\ ids[a] # 0 => clump[a] = clump[b]
             /\ \A H \in known : a \in H /\ b \in H =>
                  ids[a] # 0 /\ (ids[a] = ids[b] \/ \E G \in known \ {H} : Touch(G, H))
  BY <1>1, <1>2, <1>3, <1>4, SameIds
<1>7. info = Tally(bursts, ids)
  BY <1>1, <1>4, TallySame
<1> QED
  BY <1>5, <1>6, <1>7 DEF NamedAlike, NamesAlike, Tally, ids, known

LEMMA PromisedInRound == RoundInv => Promised
BY ClusteredInRound, NamedInRound DEF RoundInv, IInv, Stuck, Late, Promised

\* What a step that leaves the front-end and the bursts alone does to the promise.
LEMMA Stutters ==
  ASSUME UNCHANGED <<clump, data, rpc, rootModel, info, nodes, arrived, left>>,
         Named => class' = class
  PROVE  UNCHANGED Abstract!vars
<1>1. (Gathering' <=> Gathering) /\ (Named' <=> Named)
  BY DEF Gathering, Named
<1>2. Phase' = Phase /\ FinalHulls' = FinalHulls /\ FinalNoise' = FinalNoise
  BY <1>1 DEF Phase, FinalHulls, FinalNoise
<1>3. KnownClusters' = KnownClusters
  BY <1>1 DEF KnownClusters
<1>4. GivenIds' = GivenIds
  BY <1>1 DEF GivenIds
<1> QED
  BY <1>2, <1>3, <1>4 DEF Abstract!vars

\* A back-end begins a round only when the front-end has, and classifies before it has
\* the information.
LEMMA WorkersInTime ==
  ASSUME RoundInv, NEW w \in Worker
  PROVE  /\ StartRound(w) => rpc \in {"dims", "barrier"}
         /\ ClassifyData(w) => ~Named
<1>1. ASSUME NEW h, Agrees(h), StartRound(w)
      PROVE  rpc \in {"dims", "barrier"}
  <2>1. h.dtook["TDBSCAN"][w] = 0
    BY <1>1, WorkerStart, StreamFacts, DownTag DEF StartRound
  <2> QED
    BY <1>1, <2>1 DEF Agrees, RootOK
<1>2. ASSUME NEW h, Agrees(h), ClassifyData(w), Named
      PROVE  FALSE
  <2>1. /\ WorkerOK(h, w) /\ pc[w] = "hulls"
    BY <1>2 DEF Agrees, ClassifyData
  <2>2. h.sent["Support"][w] = 0 /\ h.sent["TDBSCAN"][w] = 4
    BY <2>1, PlaceIs DEF Progress, Places
  <2>3. h.took["TDBSCAN"][Root] \in {5, 6}
    BY <1>2, RootPlaceIs DEF RootProgress, Named, Agrees
  <2>4. h.sent["TDBSCAN"][Root] <= 4 /\ h.took["TDBSCAN"][Root] <= h.sent["TDBSCAN"][Root]
    BY <1>2, <2>2, SentByAll, AccountFacts, NodeFacts, StreamFacts DEF Agrees
  <2>5. h.sent["TDBSCAN"][Root] \in 0 .. 6
    <3>1. Root \in Node /\ Possible(h)
      BY <1>2, NodeFacts DEF Agrees
    <3> QED
      BY <3>1, AccountFacts, StreamFacts
  <2> QED
    BY <2>3, <2>4, <2>5
<1>3. ASSUME Stuck
      PROVE  ~StartRound(w) /\ rpc = "info"
  <2>1. PICK m : Late(m)
    BY <1>3 DEF Stuck
  <2>2. /\ down["TDBSCAN"][w] \in {<< >>, <<Mark("ALL_HULLS_SENT")>>}
        /\ rpc = "info"
    BY <2>1 DEF Late, WorkerLate
  <2>3. Mark("ALL_HULLS_SENT").tag = "ALL_HULLS_SENT"
    BY PacketIs
  <2>4. ~Received("TDBSCAN", w, "CLUSTERING_CONFIG")
    BY <2>2, <2>3 DEF Received
  <2> QED
    BY <2>2, <2>4 DEF StartRound
<1> QED
  BY <1>1, <1>2, <1>3 DEF RoundInv, IInv, Named

\* Every step of a process that is not the front-end.
LEMMA OthersRefine ==
  ASSUME RoundInv, UNCHANGED clump,
         \/ \E c \in Worker \cup Comm : FilterTakes(c)
         \/ \E p \in Filter : FilterDimensions(p) \/ FilterSupport(p)
         \/ \E w \in Worker : WorkerStep(w)
  PROVE  [Abstract!Next]_(Abstract!vars)
<1>1. CASE \E c \in Worker \cup Comm : FilterTakes(c)
  <2>1. UNCHANGED <<workerVars, rootVars>>
    BY <1>1 DEF FilterTakes, FilterNoise, FilterAllNoiseSent, FilterAllHulls,
                FilterAllHullsSent, FilterClustersInfo, FilterStatistics, FilterDies, FilterStep
  <2> QED
    BY <2>1, Stutters DEF workerVars, rootVars
<1>2. CASE \E p \in Filter : FilterDimensions(p) \/ FilterSupport(p)
  BY <1>2, Stutters DEF FilterDimensions, FilterSupport, Combine, workerVars, rootVars
<1>3. ASSUME NEW w \in Worker, WorkerStep(w)
      PROVE  [Abstract!Next]_(Abstract!vars)
  <2>1. CASE StartRound(w)
    <3>1. rpc \in {"dims", "barrier"} /\ UNCHANGED <<clump, rootVars>>
      BY <2>1, WorkersInTime DEF StartRound
    <3>2. UNION Range(data) \subseteq UNION Range(data)'
      BY <2>1 DEF StartRound, Range
    <3>3. Gathering /\ Gathering' /\ ~Named /\ ~Named'
      BY <3>1 DEF Gathering, Named, rootVars
    <3>4. /\ Phase = "gathering" /\ Phase' = "gathering"
          /\ FinalHulls' = FinalHulls /\ FinalNoise' = FinalNoise /\ GivenIds' = GivenIds
      BY <3>1, <3>3 DEF Phase, FinalHulls, FinalNoise, GivenIds, rootVars
    <3>5. KnownClusters' = KnownClusters
      BY <3>1, <3>3 DEF KnownClusters, rootVars
    <3> QED
      BY <3>1, <3>2, <3>4, <3>5 DEF Abstract!Next, Abstract!Gather, rootVars
  <2>2. CASE ClassifyData(w)
    BY <2>2, WorkersInTime, Stutters DEF ClassifyData, rootVars
  <2>3. CASE ~StartRound(w) /\ ~ClassifyData(w)
    <3>1. UNCHANGED <<data, class, rootVars>>
      BY <1>3, <2>3 DEF WorkerStep, WorkerDrops, ClusterLocally, SendLocalModel,
                        ReceiveGlobalModel, ReportResults, workerVars
    <3> QED
      BY <3>1, Stutters DEF rootVars
  <2> QED
    BY <2>1, <2>2, <2>3
<1> QED
  BY <1>1, <1>2, <1>3

\* In the rest of a round the front-end's models are those it had before.
LEMMA BroadcastRefines ==
  ASSUME RoundInv, UNCHANGED clump, BroadcastGlobalModel
  PROVE  UNCHANGED Abstract!vars
<1>1. /\ rpc = "hulls" /\ rpc' = "hulls" /\ rootModel' = rootModel \o SetToSeq(arrived')
      /\ UNCHANGED <<clump, data, class, info, nodes>>
      /\ arrived' = Head(up["TDBSCAN"][Root]).body
      /\ RootReceives("TDBSCAN", "ALL_HULLS")
  BY DEF BroadcastGlobalModel, workerVars
<1>2. PICK h : Agrees(h)
  BY <1>1 DEF RoundInv, IInv, Stuck, Late
<1>3. /\ h.took["TDBSCAN"][Root] = 2 /\ arrived' = h.hulls[Root] /\ RootOK(h) /\ Shapes
      /\ h.hulls[Root] \in SUBSET SUBSET Burst
  BY <1>1, <1>2, RootStart, UpTag, StreamFacts DEF RootReceives
<1>4. arrived = {} /\ Cardinality(arrived) = 0
  <2>1. Modelled(h)
    BY <1>3 DEF RootOK
  <2>2. arrived = {}
    BY <1>3, <2>1 DEF Modelled
  <2> QED
    BY <2>2, FS_EmptySet
<1> DEFINE n == Len(rootModel)
           m == Len(rootModel')
<1>5. /\ rootModel \in Seq(SUBSET Burst) /\ rootModel' \in Seq(SUBSET Burst)
      /\ Cardinality(arrived') \in Nat /\ n \in Nat /\ m = n + Cardinality(arrived')
      /\ \A k \in 1 .. n : rootModel'[k] = rootModel[k]
  <2>1. rootModel \in Seq(SUBSET Burst) /\ arrived' \in SUBSET SUBSET Burst
    BY <1>3 DEF Shapes
  <2> QED
    BY <1>1, <2>1, ModelGrows
<1>6. m - Cardinality(arrived') = n /\ n - 0 = n
  BY <1>5
<1>7. Known(rootModel', n) = Known(rootModel, n)
  <2>1. \A j : j \in Dense(rootModel') /\ j <= n <=> j \in Dense(rootModel) /\ j <= n
    <3>1. DOMAIN rootModel = 1 .. n /\ DOMAIN rootModel' = 1 .. m
      BY <1>5
    <3>2. \A j : j \in 1 .. n <=> j \in 1 .. m /\ j <= n
      BY <1>5
    <3> QED
      BY <1>5, <3>1, <3>2 DEF Dense
  <2>2. \A j \in Dense(rootModel) : j <= n => rootModel'[j] = rootModel[j]
    <3>1. DOMAIN rootModel = 1 .. n
      BY <1>5
    <3> QED
      BY <1>5, <3>1 DEF Dense
  <2> HIDE DEF n
  <2>3. {rootModel'[k] : k \in {j \in Dense(rootModel') : j <= n}}
          = {rootModel[k] : k \in {j \in Dense(rootModel) : j <= n}}
    BY <2>1, <2>2
  <2> QED
    BY <2>3 DEF Known
<1>8. Gathering /\ Gathering' /\ ~Named /\ ~Named'
  BY <1>1 DEF Gathering, Named
<1>9. /\ Phase' = Phase /\ FinalHulls' = FinalHulls /\ FinalNoise' = FinalNoise
      /\ GivenIds' = GivenIds
  BY <1>1, <1>8 DEF Phase, FinalHulls, FinalNoise, GivenIds
<1>10. KnownClusters = Known(rootModel, n - Cardinality(arrived))
  BY <1>4, <1>8 DEF KnownClusters
<1>11. KnownClusters' = Known(rootModel', m - Cardinality(arrived'))
  BY <1>8 DEF KnownClusters
<1>12. KnownClusters' = KnownClusters
  BY <1>4, <1>6, <1>7, <1>10, <1>11
<1> QED
  BY <1>1, <1>9, <1>12 DEF Abstract!vars

\* The steps of the front-end that are steps of the global clustering.
LEMMA BeginRefines ==
  ASSUME RoundInv, UNCHANGED clump, SendConfiguration
  PROVE  Abstract!Begin
<1>1. /\ rpc = "start" /\ rpc' = "dims" /\ info' = << >> /\ nodes' = {} /\ arrived' = {}
      /\ UNCHANGED <<clump, data, rootModel>>
  BY EmptyBagIs DEF SendConfiguration, RootGoto, workerVars
<1>2. Gathering' /\ ~Named' /\ ~Gathering
  BY <1>1 DEF Gathering, Named
<1>3. Len(rootModel) \in Nat
  BY <1>1 DEF RoundInv, IInv, Stuck, Late, Agrees, Shapes
<1>4. KnownClusters' = KnownClusters
  <2>1. Len(rootModel) - Cardinality(arrived') = Len(rootModel)
    BY <1>1, <1>3, FS_EmptySet
  <2> QED
    BY <1>1, <1>2, <2>1 DEF KnownClusters
<1>5. /\ Phase = "idle" /\ Phase' = "gathering"
      /\ FinalHulls' = {} /\ FinalNoise' = {} /\ GivenIds' = << >>
  BY <1>1, <1>2 DEF Phase, FinalHulls, FinalNoise, GivenIds
<1> QED
  BY <1>1, <1>4, <1>5 DEF Abstract!Begin

LEMMA ClusterRefines ==
  ASSUME Promised', UNCHANGED clump, EndOfHulls
  PROVE  Abstract!Cluster
<1>1. /\ rpc = "hulls" /\ rpc' = "support"
      /\ UNCHANGED <<clump, data, class, rootModel, info, nodes, arrived, left>>
  BY DEF EndOfHulls, RootGoto, workerVars
<1>2. Gathering /\ ~Gathering' /\ ~Named /\ ~Named'
  BY <1>1 DEF Gathering, Named
<1>3. Clustered'
  BY <1>1 DEF Promised
<1>4. /\ left \cup UNION arrived = UNION Range(data) /\ left \cap UNION arrived = {}
      /\ \A G, H \in arrived : G # H => G \cap H = {}
      /\ \A H \in arrived : \A a, b \in H : clump[a] = clump[b]
      /\ Known(rootModel, Len(rootModel))
           = Known(rootModel, Len(rootModel) - Cardinality(arrived))
             \cup {H \in arrived : Cardinality(H) >= MinPoints}
  BY <1>1, <1>3 DEF Clustered, Apart, OneClump
<1>5. /\ Phase = "gathering" /\ Phase' = "clustered"
      /\ FinalHulls' = arrived /\ FinalNoise' = left /\ GivenIds' = GivenIds
  BY <1>1, <1>2 DEF Phase, FinalHulls, FinalNoise, GivenIds, Gathering
<1>6. KnownClusters = Known(rootModel, Len(rootModel) - Cardinality(arrived))
  BY <1>2 DEF KnownClusters
<1>7. KnownClusters' = Known(rootModel, Len(rootModel))
  BY <1>1, <1>2 DEF KnownClusters
<1>9. KnownClusters' = KnownClusters
        \cup {H \in arrived : Cardinality(H) >= MinPoints}
  BY <1>4, <1>6, <1>7
<1>10. Abstract!Clusters(arrived, left)
  BY <1>4 DEF Abstract!Clusters
<1>11. Abstract!Clusters(FinalHulls', FinalNoise')
  BY <1>5, <1>10
<1>12. KnownClusters' = KnownClusters
         \cup {H \in FinalHulls' : Abstract!Cardinality(H) >= MinPoints}
  BY <1>5, <1>9, SameCardinality
<1> QED
  BY <1>1, <1>5, <1>11, <1>12 DEF Abstract!Cluster

LEMMA NameRefines ==
  ASSUME Promised', UNCHANGED clump, ReceiveInfo
  PROVE  Abstract!Name
<1>1. /\ rpc = "info" /\ rpc' = "stats"
      /\ UNCHANGED <<clump, data, class, rootModel, nodes, arrived, left>>
  BY DEF ReceiveInfo, RootGoto, workerVars
<1>2. ~Gathering /\ ~Gathering' /\ ~Named /\ Named'
  BY <1>1 DEF Gathering, Named
<1>3. NamedAlike'
  BY <1>1 DEF Promised
<1> DEFINE bursts == UNION Range(data)
           ids == [b \in bursts |-> class[Home[b]][b]]
<1>4. /\ Phase = "clustered" /\ Phase' = "named"
      /\ FinalHulls' = FinalHulls /\ FinalNoise' = FinalNoise /\ GivenIds' = ids
  BY <1>1, <1>2 DEF Phase, FinalHulls, FinalNoise, GivenIds, Gathering
<1>5. /\ KnownClusters = Known(rootModel, Len(rootModel))
      /\ KnownClusters' = Known(rootModel, Len(rootModel))
  BY <1>1, <1>2 DEF KnownClusters
<1> DEFINE known == Known(rootModel, Len(rootModel))
<1>6. NamesAlike(bursts, ids, known, info')
  <2> DEFINE all == UNION Range(data')
             given == [b \in all |-> class'[Home[b]][b]]
             now == Known(rootModel', Len(rootModel'))
  <2>1. all = bursts /\ now = known /\ given = ids
    BY <1>1
  <2>2. /\ \A b \in all : given[b] # 0 => \E H \in now : Touch({b}, H)'
        /\ \A a, b \in all : given[a] = given[b] /\ given[a] # 0 => clump'[a] = clump'[b]
        /\ \A H \in now : \A a, b \in all \cap H :
             given[a] # 0 /\ (given[a] = given[b] \/ \E G \in now \ {H} : Touch(G, H)')
        /\ info' = [k \in {given[b] : b \in all} |-> Cardinality({b \in all : given[b] = k})]
    BY <1>3 DEF NamedAlike, NamesAlike
  <2>3. \A G, H : Touch(G, H)' <=> Touch(G, H)
    BY DEF Touch
  <2>4. clump' = clump
    OBVIOUS
  <2> HIDE DEF bursts, ids, known, all, given, now
  <2> QED
    BY <2>1, <2>2, <2>3, <2>4 DEF NamesAlike
<1>7. DOMAIN ids = bursts
  OBVIOUS
<1> HIDE DEF ids
<1>9. Abstract!Names(ids)
  BY <1>5, <1>6, <1>7 DEF Abstract!Names, Abstract!Near, NamesAlike, Touch
<1>10. Abstract!Names(GivenIds')
  BY <1>4, <1>9
<1>11. info' = [k \in {ids[b] : b \in bursts}
                 |-> Abstract!Cardinality({b \in bursts : ids[b] = k})]
  BY <1>6, SameCardinality DEF NamesAlike
<1>12. info' = [k \in {(GivenIds')[b] : b \in bursts}
                 |-> Abstract!Cardinality({b \in bursts : (GivenIds')[b] = k})]
  BY <1>4, <1>11
<1> QED
  BY <1>1, <1>4, <1>5, <1>10, <1>12 DEF Abstract!Name

LEMMA EndRefines ==
  ASSUME RoundInv, UNCHANGED clump, ReceiveStatistics
  PROVE  Abstract!End
<1>1. /\ rpc = "stats" /\ rpc' = "start" /\ nodes' = Head(up["TDBSCAN"][Root]).body
      /\ UNCHANGED <<clump, data, class, rootModel, info, arrived, left>>
      /\ RootReceives("TDBSCAN", "STATISTICS")
  BY DEF ReceiveStatistics, RootGoto, workerVars
<1>2. PICK h : Agrees(h)
  BY <1>1 DEF RoundInv, IInv, Stuck, Late
<1>3. nodes' = Node
  BY <1>1, <1>2, RootStart, UpTag, UnderRoot, StreamFacts DEF RootReceives
<1>4. ~Gathering /\ ~Gathering' /\ Named /\ Named'
  BY <1>1 DEF Gathering, Named
<1>5. /\ Phase = "named" /\ Phase' = "idle"
      /\ FinalHulls' = FinalHulls /\ FinalNoise' = FinalNoise
  BY <1>1, <1>4 DEF Phase, FinalHulls, FinalNoise, Gathering
<1>6. KnownClusters' = KnownClusters
  BY <1>1, <1>4 DEF KnownClusters
<1>7. GivenIds' = GivenIds
  BY <1>1, <1>4 DEF GivenIds
<1> QED
  BY <1>1, <1>3, <1>5, <1>6, <1>7 DEF Abstract!End

\* All others of the front-end leave it as it is.
LEMMA FrontEndRefines ==
  ASSUME RoundInv, Promised', UNCHANGED clump, RootStep \/ Barrier \/ Finished
  PROVE  [Abstract!Next]_(Abstract!vars)
<1>1. CASE \/ ReturnDimensions \/ Barrier \/ CountRemainingNoise
  <2>1. /\ Gathering /\ Gathering' /\ ~Named /\ ~Named'
        /\ UNCHANGED <<clump, data, class, rootModel, info, nodes, arrived>>
    BY <1>1 DEF ReturnDimensions, Barrier, CountRemainingNoise, RootGoto, workerVars,
                Gathering, Named
  <2>2. /\ Phase' = Phase /\ FinalHulls' = FinalHulls /\ FinalNoise' = FinalNoise
        /\ GivenIds' = GivenIds
    BY <2>1 DEF Phase, FinalHulls, FinalNoise, GivenIds, Gathering, Named
  <2>3. KnownClusters' = KnownClusters
    BY <2>1 DEF KnownClusters
  <2> QED
    BY <2>1, <2>2, <2>3 DEF Abstract!vars
<1>2. CASE ReturnSupport
  <2>1. /\ rpc = "support" /\ rpc' = "info"
        /\ UNCHANGED <<clump, data, class, rootModel, info, nodes, arrived, left>>
    BY <1>2 DEF ReturnSupport, RootGoto, workerVars
  <2>2. /\ Phase' = Phase /\ FinalHulls' = FinalHulls /\ FinalNoise' = FinalNoise
        /\ GivenIds' = GivenIds
    BY <2>1 DEF Phase, FinalHulls, FinalNoise, GivenIds, Gathering, Named
  <2>3. KnownClusters' = KnownClusters
    BY <2>1 DEF KnownClusters, Gathering
  <2> QED
    BY <2>1, <2>2, <2>3 DEF Abstract!vars
<1>3. CASE PassOver \/ RootDrops \/ Finished
  <2>1. UNCHANGED <<data, class, rootVars>>
    BY <1>3 DEF PassOver, RootDrops, Finished, workerVars, rootVars, vars
  <2> QED
    BY <2>1, Stutters DEF rootVars
<1> QED
  BY <1>1, <1>2, <1>3, BroadcastRefines, BeginRefines, ClusterRefines, NameRefines, EndRefines
  DEF RootStep, Abstract!Next

\* ImplementsGlobalClustering: front-end, filters and back-ends together share the bursts
\* of all back-ends out between hulls and noise in every round, give them ids that mean
\* the same in all back-ends, and count the bursts of each id once.
THEOREM RoundsAreGlobalClustering == Spec => ImplementsGlobalClustering
<1>1. Init => Abstract!Init
  <2> SUFFICES ASSUME Init
               PROVE  Abstract!Init
    OBVIOUS
  <2>1. /\ rpc = "start" /\ rootModel = << >> /\ info = << >> /\ nodes = {}
        /\ arrived = {} /\ left = {} /\ data = [w \in Worker |-> {}]
    BY EmptyBagIs DEF Init
  <2>2. UNION Range(data) = {}
    BY <2>1 DEF Range
  <2>3. ~Gathering /\ Named
    BY <2>1 DEF Gathering, Named
  <2>4. GivenIds = << >>
    <3>1. [b \in {} |-> class[Home[b]][b]] = << >>
      OBVIOUS
    <3> QED
      BY <2>2, <2>3, <3>1 DEF GivenIds
  <2>5. KnownClusters = {}
    <3>1. DOMAIN << >> = {}
      OBVIOUS
    <3>2. Dense(rootModel) = {}
      BY <2>1, <3>1 DEF Dense
    <3>3. \A n : Known(rootModel, n) = {}
      BY <3>2 DEF Known
    <3> QED
      BY <3>3 DEF KnownClusters
  <2>6. Phase = "idle" /\ FinalHulls = {} /\ FinalNoise = {}
    BY <2>1, <2>3 DEF Phase, FinalHulls, FinalNoise
  <2> QED
    BY <2>1, <2>2, <2>4, <2>5, <2>6 DEF Abstract!Init
<1>2. RoundInv /\ Promised' /\ [Next]_vars => [Abstract!Next]_(Abstract!vars)
  <2>1. UNCHANGED vars => UNCHANGED Abstract!vars
    BY Stutters DEF vars, workerVars, rootVars
  <2> QED
    BY <2>1, OthersRefine, FrontEndRefines DEF Next
<1>3. Spec => []RoundInv
  BY Invariant
<1> QED
  BY <1>1, <1>2, <1>3, PromisedInRound, PTL DEF Spec, ImplementsGlobalClustering, Abstract!Spec
=============================================================================
