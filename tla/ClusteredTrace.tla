--------------------------- MODULE ClusteredTrace ---------------------------
(***************************************************************************)
(* From a Paraver trace and back.  PRVStatesDataExtractor reads the        *)
(* records of the trace in file order and cuts each thread into CPU        *)
(* bursts, which TraceData stores in the order it is given them; the       *)
(* analysis gives every complete burst an id; ClusteredStatesPRVGenerator  *)
(* reads the trace again and writes, at the records where a burst begins   *)
(* and ends, the event that carries its id.                                *)
(*                                                                         *)
(* The two passes share nothing but the order of the bursts and times:     *)
(* the ids are matched to bursts by position, and bursts to records by     *)
(* time, looking only at the first burst of a thread not yet written.      *)
(*                                                                         *)
(* The file is produced as it is read: Inputs says what records each       *)
(* thread has, and any order of them that respects time is a trace.        *)
(***************************************************************************)
EXTENDS Integers, SequencesExt

CONSTANTS
  Threads,         \* number of threads, all of one task
  Inputs,          \* set of functions from thread to its sequence of records
  Parameters,      \* sequence of event types: the clustering parameters
  RangeMax,        \* the largest value of a parameter that is not filtered
  DurationFilter,  \* shorter bursts are filtered
  Id               \* the ids an analysis may give

Thread == 1 .. Threads

HWC_GROUP_CHANGE_TYPE == "hwc change"
DURATION_EVT_TYPE == "duration"

UNCLASSIFIED == -5
MISSING_DATA_CLUSTERID == UNCLASSIFIED + 1
DURATION_FILTERED_CLUSTERID == UNCLASSIFIED + 2
RANGE_FILTERED_CLUSTERID == UNCLASSIFIED + 3
PARAVER_OFFSET == 5

StateRecord ==
  [kind : {"state"}, thread : Thread, time : Nat, end : Nat, running : BOOLEAN]
EventRecord ==
  [kind : {"event"}, thread : Thread, time : Nat, data : Seq([type : STRING, value : Int])]
CommunicationRecord ==
  [kind : {"communication"}, thread : Thread, time : Nat]
Record == StateRecord \cup EventRecord \cup CommunicationRecord

IsRunning(r) == r.kind = "state" /\ r.running

ASSUME ThreadsAssumption == Threads \in Nat \ {0}
ASSUME IdAssumption == Id \subseteq Nat
ASSUME ParametersAssumption == Parameters \in Seq(STRING)

\* A thread has its records in order of time, and runs in one state at a time.
ASSUME InputsAssumption ==
  /\ Inputs \subseteq [Thread -> Seq(Record)]
  /\ \A l \in Inputs : \A t \in Thread : \A i \in 1 .. Len(l[t]) :
       /\ l[t][i].thread = t
       /\ IsRunning(l[t][i]) => l[t][i].time < l[t][i].end
       /\ \A j \in 1 .. i - 1 :
            /\ l[t][j].time <= l[t][i].time
            /\ IsRunning(l[t][j]) /\ IsRunning(l[t][i]) => l[t][j].end <= l[t][i].time

VARIABLES
  pc,                 \* "Reading", "Analysing", "Writing", "Done" or "Failed"
  left,               \* the records of each thread that follow in the file
  trace,              \* the records of the file so far
  TaskData,           \* the burst of each thread that is being read
  FutureTaskData,     \* and the one that began where it ends
  AllBursts,          \* the bursts, in order of instance number
  IDs,                \* the ids of the complete ones, in that order
  DoNotPrintFilteredBursts,
  pos,                \* the record that is being written
  BurstsToPrint,      \* the bursts of each thread not yet written
  LastBurstsPrinted,  \* time and id of the last event that opened a burst
  out                 \* the cluster events of the output trace

vars == <<pc, left, trace, TaskData, FutureTaskData, AllBursts, IDs,
          DoNotPrintFilteredBursts, pos, BurstsToPrint, LastBurstsPrinted, out>>

-----------------------------------------------------------------------------
(***************************************************************************)
(* One burst under construction.  Clear leaves BurstEndEvents alone, and   *)
(* an assignment copies neither that nor OngoingBurst.                     *)
(***************************************************************************)
NoEvents == [type \in {} |-> 0]

TaskDataContainer ==
  [OngoingBurst |-> FALSE, Line |-> 0, BeginTime |-> 0, EndTime |-> 0,
   EventsData |-> NoEvents, BurstEndEvents |-> {}]

Clear(c) == [TaskDataContainer EXCEPT !.BurstEndEvents = c.BurstEndEvents]

Assigned(c, other) ==
  [other EXCEPT !.OngoingBurst = c.OngoingBurst, !.BurstEndEvents = c.BurstEndEvents]

\* The counters read so far stay, as FillDataContainer does not reset them.
FillDataContainer(c, state, line) ==
  [c EXCEPT !.OngoingBurst = TRUE, !.Line = line,
            !.BeginTime = state.time, !.EndTime = state.end]

\* A type that is met again has its values summed.
AddValue(data, tv) ==
  [type \in DOMAIN data \cup {tv.type} |->
     (IF type \in DOMAIN data THEN data[type] ELSE 0) + (IF type = tv.type THEN tv.value ELSE 0)]

AddValues(data, values) == FoldLeft(AddValue, data, values)

(***************************************************************************)
(* TraceData::NewBurst.  The duration is one more counter, unless the      *)
(* trace has it.  When some event was met at the end of a burst, only      *)
(* types met at an end are kept.                                           *)
(* The parameters are asked in turn and the last one with something to     *)
(* object decides the type.                                                *)
(***************************************************************************)
NewData(c) ==
  LET read == DOMAIN c.EventsData
      kept == IF c.BurstEndEvents = {} THEN read ELSE read \cap c.BurstEndEvents
  IN [type \in kept \cup {DURATION_EVT_TYPE} |->
        IF type \in read THEN c.EventsData[type] ELSE c.EndTime - c.BeginTime]

GetData(data) ==
  LET Ask(result, type) ==
        IF type \notin DOMAIN data THEN MISSING_DATA_CLUSTERID
        ELSE IF data[type] > RangeMax THEN RANGE_FILTERED_CLUSTERID ELSE result
  IN FoldLeft(Ask, 0, Parameters)

\* The kind of a burst is the id it is printed with, 0 when it is complete.
Kind(data, duration) ==
  IF GetData(data) # MISSING_DATA_CLUSTERID /\ duration < DurationFilter
  THEN DURATION_FILTERED_CLUSTERID ELSE GetData(data)

NewBurst(bursts, t, c) ==
  IF c.Line = 0 /\ c.EndTime = c.BeginTime THEN bursts
  ELSE Append(bursts, [thread |-> t, Line |-> c.Line, BeginTime |-> c.BeginTime,
                       EndTime |-> c.EndTime, data |-> NewData(c),
                       kind |-> Kind(NewData(c), c.EndTime - c.BeginTime)])

CompleteBursts(bursts) ==
  LET Push(complete, b) == IF b.kind = 0 THEN Append(complete, b) ELSE complete
  IN FoldLeft(Push, <<>>, bursts)

-----------------------------------------------------------------------------
(***************************************************************************)
(* What a record does to the bursts of its thread: a value s holds the     *)
(* Current and the Next burst and the bursts that are stored.              *)
(***************************************************************************)
\* A variant that leaves the burst that is now current in wait as well.
FlushKeepsNext(s, t) ==
  [Current |-> IF s.Next.OngoingBurst THEN Assigned(s.Current, s.Next) ELSE Clear(s.Current),
   Next    |-> s.Next,
   Stored  |-> NewBurst(s.Stored, t, s.Current)]

Flush(s, t) ==
  [Current |-> IF s.Next.OngoingBurst THEN Assigned(s.Current, s.Next) ELSE Clear(s.Current),
   Next    |-> IF s.Next.OngoingBurst THEN Clear(s.Next) ELSE s.Next,
   Stored  |-> NewBurst(s.Stored, t, s.Current)]

\* A variant that takes a change of the counters for a counter.
EndEventCounts(s, t, tv) ==
  [s EXCEPT !.Current.EventsData = AddValue(@, tv),
            !.Current.BurstEndEvents = @ \cup {tv.type}]

\* One type and value at the end of the current burst.
EndEvent(s, t, tv) ==
  IF tv.type = HWC_GROUP_CHANGE_TYPE THEN Flush(s, t)
  ELSE [s EXCEPT !.Current.EventsData = AddValue(@, tv),
                 !.Current.BurstEndEvents = @ \cup {tv.type}]

EndEvents(s, t, data) ==
  LET AtEnd(acc, tv) == EndEvent(acc, t, tv)
  IN FoldLeft(AtEnd, s, data)

\* A variant without the second look, that gives an event met after the end
\* of the current burst to the one in wait, whatever its time.
CheckEventOnce(s, t, e) ==
  LET now == IF e.time > s.Current.EndTime THEN Flush(s, t) ELSE s
  IN IF ~ s.Current.OngoingBurst THEN s
     ELSE IF e.time >= now.Current.EndTime THEN EndEvents(now, t, e.data)
     ELSE [now EXCEPT !.Current.EventsData = AddValues(@, e.data)]

CheckEvent(s, t, e) ==
  LET now == IF e.time > s.Current.EndTime THEN Flush(s, t) ELSE s
  IN IF ~ s.Current.OngoingBurst THEN s
     ELSE IF e.time = now.Current.EndTime THEN EndEvents(now, t, e.data)
     ELSE IF now.Current.BeginTime < e.time /\ e.time < now.Current.EndTime
     THEN [now EXCEPT !.Current.EventsData = AddValues(@, e.data)]
     ELSE now

\* A variant that forgets the burst in wait when a later state arrives.
CheckStateOverwrites(s, t, state, line) ==
  LET f == Flush(s, t)
  IN IF ~ state.running THEN s
     ELSE IF ~ s.Current.OngoingBurst
     THEN [s EXCEPT !.Current = FillDataContainer(@, state, line)]
     ELSE IF s.Current.EndTime = state.time
     THEN [s EXCEPT !.Next = FillDataContainer(@, state, line)]
     ELSE [f EXCEPT !.Current = FillDataContainer(@, state, line)]

CheckState(s, t, state, line) ==
  LET f == Flush(s, t)
  IN CASE ~ state.running -> s
       [] state.running /\ ~ s.Current.OngoingBurst ->
            [s EXCEPT !.Current = FillDataContainer(@, state, line)]
       [] state.running /\ s.Current.OngoingBurst /\ s.Current.EndTime = state.time ->
            [s EXCEPT !.Next = FillDataContainer(@, state, line)]
       [] state.running /\ s.Current.OngoingBurst /\ s.Current.EndTime < state.time ->
            IF s.Next.OngoingBurst
            THEN [f EXCEPT !.Next = FillDataContainer(@, state, line)]
            ELSE [f EXCEPT !.Current = FillDataContainer(@, state, line)]
       [] OTHER -> s

-----------------------------------------------------------------------------
Init ==
  /\ pc = "Reading"
  /\ left \in Inputs
  /\ trace = <<>>
  /\ TaskData = [t \in Thread |-> TaskDataContainer]
  /\ FutureTaskData = [t \in Thread |-> TaskDataContainer]
  /\ AllBursts = <<>>
  /\ IDs = <<>>
  /\ DoNotPrintFilteredBursts \in BOOLEAN
  /\ pos = 1
  /\ BurstsToPrint = [t \in Thread |-> <<>>]
  /\ LastBurstsPrinted = [t \in Thread |-> <<>>]
  /\ out = <<>>

\* The records of a trace are sorted by time, and only by time.
GetNextRecord(t) ==
  /\ left[t] # <<>>
  /\ \A u \in Thread : left[u] # <<>> => Head(left[t]).time <= Head(left[u]).time
  /\ left' = [left EXCEPT ![t] = Tail(@)]
  /\ trace' = Append(trace, Head(left[t]))

Become(t, s) ==
  /\ TaskData' = [TaskData EXCEPT ![t] = s.Current]
  /\ FutureTaskData' = [FutureTaskData EXCEPT ![t] = s.Next]
  /\ AllBursts' = s.Stored

Now(t) == [Current |-> TaskData[t], Next |-> FutureTaskData[t], Stored |-> AllBursts]

UnchangedReading ==
  UNCHANGED <<pc, IDs, DoNotPrintFilteredBursts, pos, BurstsToPrint, LastBurstsPrinted, out>>

ReadState(t) ==
  /\ pc = "Reading"
  /\ GetNextRecord(t)
  /\ Head(left[t]).kind = "state"
  /\ Become(t, CheckState(Now(t), t, Head(left[t]), Len(trace) + 1))
  /\ UnchangedReading

ReadEvent(t) ==
  /\ pc = "Reading"
  /\ GetNextRecord(t)
  /\ Head(left[t]).kind = "event"
  /\ Become(t, CheckEvent(Now(t), t, Head(left[t])))
  /\ UnchangedReading

\* The mask of the reader leaves communications out.
SkipCommunication(t) ==
  /\ pc = "Reading"
  /\ GetNextRecord(t)
  /\ Head(left[t]).kind = "communication"
  /\ UNCHANGED <<TaskData, FutureTaskData, AllBursts>>
  /\ UnchangedReading

(***************************************************************************)
(* The end of the file: the current burst of each thread is stored, the    *)
(* one that waits for it is not.                                           *)
(***************************************************************************)
PendingBursts ==
  LET Store(bursts, t) ==
        IF TaskData[t].OngoingBurst THEN NewBurst(bursts, t, TaskData[t]) ELSE bursts
  IN FoldLeft(Store, AllBursts, [t \in Thread |-> t])

EndOfFile ==
  /\ pc = "Reading"
  /\ \A t \in Thread : left[t] = <<>>
  /\ AllBursts' = PendingBursts
  /\ pc' = IF CompleteBursts(PendingBursts) = <<>> THEN "Failed" ELSE "Analysing"
  /\ UNCHANGED <<left, trace, TaskData, FutureTaskData, IDs, DoNotPrintFilteredBursts,
                 pos, BurstsToPrint, LastBurstsPrinted, out>>

\* The analysis gives each complete burst, in order, one id.
ClusterAnalysis ==
  /\ pc = "Analysing"
  /\ IDs = <<>>
  /\ IDs' \in [1 .. Len(CompleteBursts(AllBursts)) -> Id]
  /\ UNCHANGED <<pc, left, trace, TaskData, FutureTaskData, AllBursts,
                 DoNotPrintFilteredBursts, pos, BurstsToPrint, LastBurstsPrinted, out>>

-----------------------------------------------------------------------------
\* A variant that counts every burst, the filtered ones too.
CurrentIDByInstance(k) ==
  IF AllBursts[k].kind = 0 /\ k <= Len(IDs) THEN IDs[k] ELSE AllBursts[k].kind

\* CurrentClusteringBurst counts the complete bursts met before this one.
CurrentID(k) ==
  IF AllBursts[k].kind = 0
  THEN IDs[Len(CompleteBursts(SubSeq(AllBursts, 1, k)))]
  ELSE AllBursts[k].kind

\* The bursts of thread t that have events, in order.
PrintedOf(t, bursts, completeOnly) ==
  LET Push(list, k) ==
        IF bursts[k].thread = t /\ (completeOnly => bursts[k].kind = 0)
        THEN Append(list, k) ELSE list
  IN FoldLeft(Push, <<>>, [k \in DOMAIN bursts |-> k])

Printed(t) == PrintedOf(t, AllBursts, DoNotPrintFilteredBursts)

BurstInfo(k) ==
  [BeginTime |-> AllBursts[k].BeginTime, EndTime |-> AllBursts[k].EndTime,
   InUse |-> FALSE, ID |-> CurrentID(k) + PARAVER_OFFSET]

BurstsOf(t) == [n \in DOMAIN Printed(t) |-> BurstInfo(Printed(t)[n])]

StartWriting ==
  /\ pc = "Analysing"
  /\ IDs # <<>>
  /\ pc' = "Writing"
  /\ BurstsToPrint' = [t \in Thread |-> BurstsOf(t)]
  /\ UNCHANGED <<left, trace, TaskData, FutureTaskData, AllBursts, IDs,
                 DoNotPrintFilteredBursts, pos, LastBurstsPrinted, out>>

(***************************************************************************)
(* One record of the second pass.  Exactly one of the four cases holds.    *)
(***************************************************************************)
List == BurstsToPrint[trace[pos].thread]

Ends == List # <<>> /\ Head(List).EndTime = trace[pos].time

BurstCloseAndOpenRecord ==
  Ends /\ Len(List) > 1 /\ List[2].BeginTime = trace[pos].time

BurstOpeningRecord ==
  /\ ~ BurstCloseAndOpenRecord
  /\ List # <<>>
  /\ Head(List).BeginTime = trace[pos].time
  /\ ~ Head(List).InUse

BurstClosingRecord == ~ BurstCloseAndOpenRecord /\ ~ BurstOpeningRecord /\ Ends

\* A variant that never finds a duplicate.
DuplicatedOpeningNever(id) == FALSE

DuplicatedOpening(id) == LastBurstsPrinted[trace[pos].thread] = <<trace[pos].time, id>>

Flushed(values) ==
  out' = Append(out, [thread |-> trace[pos].thread, time |-> trace[pos].time, values |-> values])

Opened(id) ==
  LastBurstsPrinted' = [LastBurstsPrinted EXCEPT ![trace[pos].thread] = <<trace[pos].time, id>>]

Listed(list) == BurstsToPrint' = [BurstsToPrint EXCEPT ![trace[pos].thread] = list]

NextRecord ==
  /\ pc = "Writing"
  /\ pos <= Len(trace)
  /\ pos' = pos + 1
  /\ UNCHANGED <<pc, left, trace, TaskData, FutureTaskData, AllBursts, IDs,
                 DoNotPrintFilteredBursts>>

CloseAndOpen ==
  /\ NextRecord
  /\ BurstCloseAndOpenRecord
  /\ Listed(Tail(List))
  /\ Flushed(<<0, List[2].ID>>)
  /\ Opened(List[2].ID)

InUse == <<[Head(List) EXCEPT !.InUse = TRUE]>> \o Tail(List)

Open ==
  /\ NextRecord
  /\ BurstOpeningRecord
  /\ Listed(InUse)
  /\ ~ DuplicatedOpening(Head(List).ID)
  /\ Flushed(<<Head(List).ID>>)
  /\ Opened(Head(List).ID)

OpenAgain ==
  /\ NextRecord
  /\ BurstOpeningRecord
  /\ Listed(InUse)
  /\ DuplicatedOpening(Head(List).ID)
  /\ UNCHANGED <<LastBurstsPrinted, out>>

Close ==
  /\ NextRecord
  /\ BurstClosingRecord
  /\ Listed(Tail(List))
  /\ Flushed(<<0>>)
  /\ UNCHANGED LastBurstsPrinted

Copy ==
  /\ NextRecord
  /\ ~ BurstCloseAndOpenRecord
  /\ ~ BurstOpeningRecord
  /\ ~ BurstClosingRecord
  /\ UNCHANGED <<BurstsToPrint, LastBurstsPrinted, out>>

Finish ==
  /\ pc = "Writing"
  /\ pos > Len(trace)
  /\ pc' = "Done"
  /\ UNCHANGED <<left, trace, TaskData, FutureTaskData, AllBursts, IDs,
                 DoNotPrintFilteredBursts, pos, BurstsToPrint, LastBurstsPrinted, out>>

\* The extraction that finds no complete burst stops the program as well.
Terminated == pc \in {"Done", "Failed"} /\ UNCHANGED vars

Next ==
  \/ \E t \in Thread : ReadState(t) \/ ReadEvent(t) \/ SkipCommunication(t)
  \/ EndOfFile \/ ClusterAnalysis \/ StartWriting
  \/ CloseAndOpen \/ Open \/ OpenAgain \/ Close \/ Copy \/ Finish
  \/ Terminated

Spec == Init /\ [][Next]_vars

-----------------------------------------------------------------------------
(***************************************************************************)
(* Properties of the reader.                                               *)
(***************************************************************************)
\* What each variable holds while the trace is read and written.
TypeOK ==
  /\ pc \in {"Reading", "Analysing", "Writing", "Done", "Failed"}
  /\ pos \in 1 .. Len(trace) + 1
  /\ \A t \in Thread :
       /\ HWC_GROUP_CHANGE_TYPE \notin TaskData[t].BurstEndEvents
       /\ FutureTaskData[t].OngoingBurst => TaskData[t].OngoingBurst
       /\ FutureTaskData[t].EventsData = NoEvents
       /\ FutureTaskData[t].BurstEndEvents = {}
  /\ \A k \in DOMAIN AllBursts : AllBursts[k].kind \in {0, MISSING_DATA_CLUSTERID,
       DURATION_FILTERED_CLUSTERID, RANGE_FILTERED_CLUSTERID}
  /\ DOMAIN IDs \in {{}, 1 .. Len(CompleteBursts(AllBursts))}
  /\ Len(out) < pos

RunningLines(t) ==
  {line \in DOMAIN trace : trace[line].thread = t /\ IsRunning(trace[line])}

\* Every burst that is stored is one Running state of the trace, no state is
\* stored twice, and the bursts of a thread are stored in time order, on
\* which the writer relies (PRVStatesDataExtractor, CheckState, CheckEvent).
BurstsAreRunningStates ==
  /\ \A k \in DOMAIN AllBursts : LET b == AllBursts[k] IN
       /\ b.Line \in RunningLines(b.thread)
       /\ trace[b.Line].time = b.BeginTime /\ trace[b.Line].end = b.EndTime
  /\ \A i, k \in DOMAIN AllBursts :
       i < k /\ AllBursts[i].thread = AllBursts[k].thread
         => AllBursts[i].EndTime <= AllBursts[k].BeginTime

Stored(line) == \E k \in DOMAIN AllBursts : AllBursts[k].Line = line

Holds(c, line) == c.OngoingBurst /\ c.Line = line

\* A Running state that was read is stored, or is the current burst of its
\* thread, or waits for that one: no step of the reader drops one.
EveryStateAccounted ==
  \A t \in Thread : \A line \in RunningLines(t) :
    \/ Stored(line)
    \/ Holds(FutureTaskData[t], line)
    \/ Holds(TaskData[t], line) /\ pc = "Reading"

\* The values of thread t at the times T, in the order of the trace tr.
Met(tr, t, T) ==
  LET Meet(values, r) ==
        IF r.thread = t /\ r.kind = "event" /\ r.time \in T THEN values \o r.data ELSE values
  IN FoldLeft(Meet, <<>>, tr)

\* Those before the first change of the group of counters.
UpToChange(values) ==
  LET n == CHOOSE n \in 1 .. Len(values) + 1 :
             /\ n <= Len(values) => values[n].type = HWC_GROUP_CHANGE_TYPE
             /\ \A i \in 1 .. n - 1 : values[i].type # HWC_GROUP_CHANGE_TYPE
  IN SubSeq(values, 1, n - 1)

\* The values of a burst of thread t: those inside it, and at its end those
\* up to a change.
InsideValues(tr, t, b) == Met(tr, t, b.BeginTime + 1 .. b.EndTime - 1)

EndValues(tr, t, b) == UpToChange(Met(tr, t, {b.EndTime}))

Own(tr, t, b) == AddValues(NoEvents, InsideValues(tr, t, b) \o EndValues(tr, t, b))

Types(values) == {values[i].type : i \in 1 .. Len(values)}

\* The group of counters changes in record r before its last value; it does so twice.
ChangesEarly(r) ==
  /\ r.kind = "event"
  /\ \E i \in 1 .. Len(r.data) - 1 : r.data[i].type = HWC_GROUP_CHANGE_TYPE

ChangesTwice(r) ==
  \E i, j \in 1 .. Len(r.data) :
    i # j /\ r.data[i].type = HWC_GROUP_CHANGE_TYPE /\ r.data[j].type = HWC_GROUP_CHANGE_TYPE

\* What is behind the change goes to the next burst of the thread, the one in wait or
\* another; a second change stores the one in wait, and its values go to the one after.
Spoilt(tr, t, b) ==
  \E i, j \in 1 .. Len(tr) :
    /\ tr[i].thread = t /\ ChangesEarly(tr[i]) /\ tr[i].time <= b.BeginTime
    /\ tr[j].thread = t /\ IsRunning(tr[j]) /\ tr[j].end = tr[i].time
    /\ \A k \in 1 .. Len(tr) :
         /\ tr[k].thread = t /\ IsRunning(tr[k])
         /\ tr[i].time <= tr[k].time /\ tr[k].time < b.BeginTime
         => tr[k].time = tr[i].time /\ ChangesTwice(tr[i])

\* Record i is an event of thread t at the end of one of its Running states.
MarksEnd(tr, t, i) ==
  /\ tr[i].thread = t /\ tr[i].kind = "event"
  /\ \E j \in 1 .. Len(tr) :
       tr[j].thread = t /\ IsRunning(tr[j]) /\ tr[j].end = tr[i].time

\* The types that have been met in these up to a time.
EndTypes(tr, t, time) ==
  UNION {Types(tr[i].data) :
           i \in {j \in 1 .. Len(tr) : MarksEnd(tr, t, j) /\ tr[j].time <= time}}

\* The counters of a burst are the sums of the values met in that burst, and none of
\* those at its end is missing: a value is never given to the burst before or after,
\* in whatever order state and event records of one time come
\* (PRVStatesDataExtractor::CheckEvent).  Only a change of the group that is not the last
\* value of its record gives values to another burst, and to no other than the next, or
\* the one after when it changes twice.  A burst with values at its end has only types
\* that were met there or at the end of an earlier burst of its thread, since Clear
\* leaves BurstEndEvents alone (ParametersManager::NewData).
CountersAreOwn ==
  \A k \in DOMAIN AllBursts :
    LET b == AllBursts[k]
        own == Own(trace, b.thread, b)
        end == Types(EndValues(trace, b.thread, b))
    IN ~ Spoilt(trace, b.thread, b) =>
         /\ end \subseteq DOMAIN b.data
         /\ DOMAIN b.data \subseteq DOMAIN own \cup {DURATION_EVT_TYPE}
         /\ \A type \in DOMAIN b.data \cap DOMAIN own : b.data[type] = own[type]
         /\ end # {} => DOMAIN b.data \subseteq
              EndTypes(trace, b.thread, b.EndTime) \cup {DURATION_EVT_TYPE}

\* doc/clusteringsuite_manual.tex:481: a CPU burst is a Running state.
\* Every one of them is a burst when the output trace has been written.
EveryRunningStateIsABurst ==
  pc = "Done" => \A t \in Thread : \A line \in RunningLines(t) : Stored(line)

-----------------------------------------------------------------------------
(***************************************************************************)
(* Properties of the writer.                                               *)
(***************************************************************************)
\* The id the analysis gave to a burst, by its position among complete ones.
IdOf(k) ==
  IF AllBursts[k].kind # 0 THEN AllBursts[k].kind
  ELSE IDs[Cardinality({i \in 1 .. k : AllBursts[i].kind = 0})]

\* The values a thread shows over time in the output trace.
ShownIn(t, events) ==
  LET Show(shown, e) ==
        IF e.thread = t THEN shown \o [i \in DOMAIN e.values |-> <<e.time, e.values[i]>>]
        ELSE shown
  IN FoldLeft(Show, <<>>, events)

Shown(t) == ShownIn(t, out)

\* The events of a thread open and close in turn, and the n-th region is the
\* n-th burst, from its begin to its end, with the id its own analysis gave
\* it (ClusteredStatesPRVGenerator::Run).
RegionsAreBursts ==
  \A t \in Thread : \A i \in DOMAIN Shown(t) :
    LET n == (i + 1) \div 2
        b == AllBursts[Printed(t)[n]]
    IN /\ n <= Len(Printed(t))
       /\ Shown(t)[i] = IF i % 2 = 1 THEN <<b.BeginTime, IdOf(Printed(t)[n]) + PARAVER_OFFSET>>
                         ELSE <<b.EndTime, 0>>

EndIsMarked(k) ==
  \E i \in DOMAIN trace :
    trace[i].thread = AllBursts[k].thread /\ trace[i].time = AllBursts[k].EndTime

\* What is missing in the output is what follows, on its thread, a burst
\* with no record at its end: that one is opened and stays open, and every
\* burst before it has its region.
MissingOnlyAfterUnmarked ==
  pc = "Done" =>
    \A t \in Thread :
      LET unmarked == {n \in DOMAIN Printed(t) : ~ EndIsMarked(Printed(t)[n])}
      IN IF unmarked = {} THEN Len(Shown(t)) = 2 * Len(Printed(t))
         ELSE \E n \in unmarked : /\ \A m \in unmarked : n <= m
                                  /\ Len(Shown(t)) = 2 * n - 1
=============================================================================
