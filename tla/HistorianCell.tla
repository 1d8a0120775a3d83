------------------------------ MODULE HistorianCell ------------------------------
(* The way of a KPI: counters of the PLC in the address space, the historian *)
(* process that polls them, InfluxDB, and the query API that anybody may     *)
(* call at any time.  The process may fail and be started again.             *)
EXTENDS HistorianService, QueryApi

CONSTANTS
  QueryWindows,                \* the windows a caller of the API asks for
  MaxTime,                     \* bound: ticks of the wall clock
  Events, Limits,              \* the nodes that show events; rows asked for
  MaxChanges,                  \* bound: changes of the nodes by the PLC
  MaxEvents,                   \* bound: events among them
  MaxFailures                  \* bound: ends of the historian process

\* The derived lines carry the name of no node; the measurement of a node
\* says whether it shows events.
ASSUME HistorianCellAssumption ==
  /\ Counters \subseteq Nodes \ SensorFields
  /\ Events \subseteq Nodes \ (SensorFields \cup Counters) /\ Limits \subseteq Nat
  /\ Nodes \cap {"sensor_counts", "computed_kpis"} = {}
  /\ DOMAIN Measurement = Nodes
  /\ \A n \in Counters : Measurement[n] \in KpiMeasurements
  /\ Events = {n \in Nodes : Measurement[n] \in EventMeasurements}
  /\ {MaxTime, MaxChanges, MaxEvents, MaxFailures} \subseteq Nat

VARIABLES
  clock,
  node,                        \* the address space
  stored,                      \* the lines in InfluxDB
  changes, failures,           \* counted for the bounds
  made,                        \* history: per counter, what the PLC ever counted
  read,                        \* history: made, when the counter was last read
  truth,                       \* history: per sample time, read at that time
  rises,                       \* history: rising edges of PE1 in this process' life,
                               \* a level that was there at its start included
  born,                        \* history: when this process was started
  ledger                       \* history: the lines it has ingested

plcVars == <<node, changes, made>>
historyVars == <<read, truth, born, ledger>>
cellVars == <<serviceVars, plcVars, historyVars, clock, stored, failures, rises>>

Level(n) == IF n \in SensorFields /\ node[n] # 0 THEN 1 ELSE 0

HistorianInit ==
  /\ ServiceInit
  /\ node = [n \in Nodes |-> 0] /\ clock = 0 /\ stored = {}
  /\ changes = 0 /\ failures = 0
  /\ made = [n \in Counters |-> 0] /\ read = made /\ truth = << >>
  /\ rises = [n \in SensorFields |-> 0] /\ born = 0 /\ ledger = << >>

------------------------------------------------------------------------------
(* The PLC as the address space shows it                                     *)

Change == changes < MaxChanges /\ changes' = changes + 1
plcOnly == <<serviceVars, historyVars, clock, stored, failures>>

Count(n) ==
  /\ Change
  /\ node' = [node EXCEPT ![n] = @ + 1] /\ made' = [made EXCEPT ![n] = @ + 1]
  /\ UNCHANGED <<plcOnly, rises>>

\* ResetCounters
ResetCounters ==
  /\ Change /\ \E n \in Counters : node[n] # 0
  /\ node' = [n \in Nodes |-> IF n \in Counters THEN 0 ELSE node[n]]
  /\ UNCHANGED <<plcOnly, made, rises>>

Toggle(n) ==
  /\ Change
  /\ node' = [node EXCEPT ![n] = 1 - @]
  /\ rises' = [rises EXCEPT ![n] = @ + 1 - node[n]]
  /\ UNCHANGED <<plcOnly, made>>

\* The event timeline shows the sequence number of its last event.
LogEvent(n) ==
  /\ Change /\ node[n] < MaxEvents
  /\ node' = [node EXCEPT ![n] = @ + 1]
  /\ UNCHANGED <<plcOnly, made, rises>>

Plc ==
  \/ \E n \in Counters : Count(n)
  \/ ResetCounters
  \/ \E n \in SensorFields : Toggle(n)
  \/ \E n \in Events : LogEvent(n)

Tick ==
  /\ clock < MaxTime /\ clock' = clock + 1
  /\ UNCHANGED <<serviceVars, plcVars, historyVars, stored, failures, rises>>

------------------------------------------------------------------------------
(* The historian process and InfluxDB                                        *)

ReadNext ==
  /\ ReadNode(node)
  /\ LET n == NodeSpecs[Len(sample) + 1]
     IN read' = IF n \in Counters THEN [read EXCEPT ![n] = made[n]] ELSE read
  /\ UNCHANGED <<plcVars, clock, stored, failures, truth, rises, born, ledger>>

IngestSample ==
  /\ Ingest(clock)
  /\ truth' = [t \in DOMAIN truth \cup {clock} |->
                 IF t = clock THEN read ELSE truth[t]]
  /\ ledger' = ledger \o Lines(TelemetrySample(clock))
  /\ UNCHANGED <<plcVars, clock, stored, failures, read, rises, born>>

WriteLines ==
  /\ WriteBatch
  /\ stored' = stored \cup {Batch[i] : i \in DOMAIN Batch}
  /\ UNCHANGED <<plcVars, historyVars, clock, failures, rises>>

Proceed ==
  /\ FlushDone(clock) \/ NextSample(clock)
  /\ UNCHANGED <<plcVars, historyVars, clock, stored, failures, rises>>

Crash ==
  /\ failures < MaxFailures /\ failures' = failures + 1
  /\ Fails /\ ledger' = << >>
  /\ UNCHANGED <<plcVars, clock, stored, read, truth, rises, born>>

\* It takes time to start a process.
Start ==
  /\ Restart(clock) /\ \A l \in stored : l.time < clock
  /\ born' = clock /\ rises' = [n \in SensorFields |-> Level(n)]
  /\ UNCHANGED <<plcVars, clock, stored, failures, read, truth, ledger>>

Historian == ReadNext \/ IngestSample \/ WriteLines \/ Proceed \/ Crash \/ Start

HistorianNext == Plc \/ Tick \/ Historian

HistorianSpec == HistorianInit /\ [][HistorianNext]_cellVars
------------------------------------------------------------------------------
(* Properties.                                                               *)

HistorianTypeOK ==
  /\ process \in {"reading", "flushing", "sleeping", "down"}
  /\ Len(sample) <= Len(NodeSpecs) /\ \A i \in DOMAIN sample : sample[i] \in Nat
  /\ \A i \in DOMAIN window :
       /\ window[i].time \in timestamp - KpiWindow .. timestamp
       /\ window[i].values \in [Nodes -> Nat]
  /\ last_state \in [SensorFields -> BOOLEAN] /\ counts \in [SensorFields -> Nat]
  /\ Len(items) <= MaxBufferSize
  /\ dropped_records \in Nat /\ clock \in 0..MaxTime /\ {last_flush, timestamp} \subseteq 0..clock
  /\ node \in [Nodes -> Nat]
  /\ \A l \in stored : l.time \in 0..clock

\* A buffer that has room for a batch less one and a sample drops nothing.
NothingDropped == dropped_records = 0

\* The lines a process has ingested are in InfluxDB up to a place and from
\* there on in the buffer, in order: what its end can lose is the end of what
\* it has read.
LedgerKept ==
  LET written == Len(ledger) - Len(items)
  IN /\ items = SubSeq(ledger, written + 1, Len(ledger))
     /\ \A i \in 1..written : ledger[i] \in stored

\* Between samples no line waits in the buffer for as long as the flush
\* interval, although it is looked at only when a sample has been taken.
BufferIsFresh ==
  process = "sleeping" /\ items # << >> =>
    timestamp - items[1].time < FlushInterval

\* Neither the difference nor the increments of a counter in a list of samples
\* exceed what the PLC counted from the read of the first to that of the last.
NotOverReported(samples) ==
  Len(samples) >= 2 =>
    LET first == samples[1]  last == samples[Len(samples)] IN
    \A n \in Counters \cap DOMAIN first.values :
      LET delta == CounterDelta(first.values[n], Value(last, n, 0))
      IN /\ delta <= Len(IncrementTimes(samples, n))
         /\ Len(IncrementTimes(samples, n)) <= truth[last.time][n] - truth[first.time][n]

\* No KPI of the collector or of the API claims packages or jams that were not
\* there: over resets of the counters, nodes read one after another, trimmed
\* windows, restarts, and samples of which only a part was written.  (Of an API
\* window whose first sample lacks the counter nothing is said: the code takes
\* the counter to be 0 there.)
KpisNotOverReported ==
  /\ NotOverReported(window)
  /\ \A w \in QueryWindows : NotOverReported(ReadSamples(stored, clock, w))

\* When the buffer is written, the API computes over the KPI window what the
\* collector has put into its KPI line, unless samples of an earlier process
\* are in the window.
ApiAgrees ==
  process = "sleeping" /\ items = << >> /\ timestamp = clock
      /\ (failures = 0 \/ born <= clock - KpiWindow)
    => GetKpis(stored, clock, KpiWindow) = summary

\* When the buffer is written, the API lists the event that the collector read
\* last before all others, whatever the limit, and leaves out older rows only:
\* although InfluxDB limits every node on its own before the merge.
EventsAreNewest ==
  process = "sleeping" /\ items = << >> =>
    \A w \in QueryWindows, limit \in Limits :
      LET answer == GetRecentEvents(stored, clock, w, limit)
          rows == {l \in stored : l.node \in Events /\ clock - l.time <= w}
      IN /\ ToSet(answer) \subseteq rows
         /\ Len(answer) = Min({Max({1, Min({limit, 500})}), Cardinality(rows)})
         /\ \A i \in DOMAIN answer, l \in rows \ ToSet(answer) :
              l.time <= answer[i].time
         /\ clock - timestamp <= w /\ Events # {} =>
              /\ answer[1].time = timestamp
              /\ answer[1].value = window[Len(window)].values[answer[1].node]

\* Sampling may miss edges of a sensor, but a count never has more than there
\* were since the process was started.
EdgesNotInvented == \A n \in SensorFields : counts[n] <= rises[n]
==============================================================================
