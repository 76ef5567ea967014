-------------------------- MODULE MCClusteredTrace --------------------------
(***************************************************************************)
(* Traces of up to three bursts of one thread, where each is followed at   *)
(* once by the next one, by another state or by nothing, and has the       *)
(* counters of its end complete, incomplete, missing or before a change of *)
(* their group, which ends its record or does not; and traces of two       *)
(* threads, whose records interleave.                                      *)
(***************************************************************************)
EXTENDS ClusteredTrace

State(b, e, isRunning) == [kind |-> "state", time |-> b, end |-> e, running |-> isRunning]
Event(b, data) == [kind |-> "event", time |-> b, data |-> data]
Value(t, v) == [type |-> t, value |-> v]

\* The records at the end of a burst.
Counters(end, kind) ==
  CASE kind = "none" -> <<>>
    [] kind = "call" -> <<[kind |-> "communication", time |-> end]>>
    [] kind = "some" -> <<Event(end, <<Value("A", 1)>>)>>
    [] kind = "all" -> <<Event(end, <<Value("A", end), Value("B", 1)>>)>>
    [] kind = "split" -> <<Event(end, <<Value("A", 2), Value("B", 1)>>), Event(end, <<Value("A", 1)>>)>>
    [] kind = "change" -> <<Event(end, <<Value("A", 1), Value("B", 2), Value(HWC_GROUP_CHANGE_TYPE, 1)>>)>>
    [] kind = "behind" -> <<Event(end, <<Value("A", 1), Value(HWC_GROUP_CHANGE_TYPE, 1), Value("B", 3)>>)>>
    [] kind = "twice" ->
         <<Event(end, <<Value("A", 2), Value(HWC_GROUP_CHANGE_TYPE, 1), Value("B", 3),
                        Value(HWC_GROUP_CHANGE_TYPE, 1), Value("A", 4)>>)>>

Of(t, records) == [i \in DOMAIN records |-> [thread |-> t] @@ records[i]]

\* One thread: the length of each burst, what follows it, its counters,
\* whether states come before the events of the same time, and whether there
\* is a sample inside the long bursts.  The state between two bursts ends
\* with counters of its own.
Timeline(lengths, gaps, counters, statesFirst, sampled) ==
  LET n == Len(lengths)
      start[i \in 1 .. n] ==
        IF i = 1 THEN 1
        ELSE start[i - 1] + lengths[i - 1] + (IF gaps[i - 1] = "next" THEN 0 ELSE 1)
      End(i) == start[i] + lengths[i]
      Burst(i) == <<State(start[i], End(i), TRUE)>>
      Sample(i) == IF sampled /\ lengths[i] > 1
                   THEN <<Event(start[i] + 1, <<Value("A", 3), Value("B", 1)>>)>> ELSE <<>>
      Follows(i) == CASE gaps[i] = "next" /\ i < n -> Burst(i + 1)
                      [] gaps[i] = "idle" -> <<State(End(i), End(i) + 1, FALSE)>>
                      [] OTHER -> <<>>
      AtEnd(i) == IF statesFirst THEN Follows(i) \o Counters(End(i), counters[i])
                  ELSE Counters(End(i), counters[i]) \o Follows(i)
      Return(i) == IF gaps[i] = "idle" THEN <<Event(End(i) + 1, <<Value("A", 5)>>)>> ELSE <<>>
      Later(i) == CASE i = n -> Return(i)
                    [] i < n /\ gaps[i] = "next" -> <<>>
                    [] OTHER -> IF statesFirst THEN Burst(i + 1) \o Return(i)
                                ELSE Return(i) \o Burst(i + 1)
  IN Burst(1) \o FlattenSeq([i \in 1 .. n |-> Sample(i) \o AtEnd(i) \o Later(i)])

Timelines(lengths, gaps, counters) ==
  {Timeline(lengths, g, c, s, v) : g \in [DOMAIN lengths -> gaps],
     c \in [DOMAIN lengths -> counters], s \in BOOLEAN, v \in BOOLEAN}

OneThread ==
  {<<Of(1, l), <<>>>> : l \in Timelines(<<2, 1, 2>>, {"next", "idle", "nothing"}, {"call", "all", "change"})}

\* The group changes, once or twice, before the last value at the end of the first burst.
BehindChange ==
  {<<Of(1, Timeline(<<2, 1, 2>>, g, <<b, c, d>>, s, v)), <<>>>> :
     g \in [1 .. 3 -> {"next", "idle", "nothing"}], b \in {"behind", "twice"},
     c \in {"call", "all"}, d \in {"some", "all"}, s \in BOOLEAN, v \in BOOLEAN}

TwoThreads ==
  {<<Of(1, Timeline(<<2, 2>>, <<g, "idle">>, <<c, d>>, s, FALSE)),
     Of(2, Timeline(<<3>>, <<h>>, <<"all">>, s, FALSE))>> :
     g \in {"next", "idle"}, c \in {"some", "split"}, d \in {"some", "split"},
     h \in {"idle", "nothing"}, s \in BOOLEAN}

Layouts == OneThread \cup BehindChange \cup TwoThreads

Counted == <<"A", "B">>
Timed == <<DURATION_EVT_TYPE>>
=============================================================================
