---------------------------- MODULE HistorianService ----------------------------
(* historian_service/collector.py with TelemetryBuffer and SensorEdgeCounter *)
(* of telemetry.py: an OPC UA client that polls the nodes one after another, *)
(* keeps a window of samples for the KPIs, buffers a line per node, a line   *)
(* of edge counts and a KPI line, and writes them in batches.                *)
(*                                                                           *)
(* The clock belongs to the module that composes; a line has the time and    *)
(* the node it is about, and the KPI line and the counts are kept beside it. *)
EXTENDS HistorianKpi

CONSTANTS
  NodeSpecs,                   \* the nodes, in the order in which they are read
  SensorFields,                \* SENSOR_FIELDS: those whose rising edges count
  MaxBatchSize, MaxBufferSize, \* max_batch_size, max_buffer_size
  FlushInterval, KpiWindow     \* flush_interval_s, kpi_window_s, in clock ticks

Nodes == {NodeSpecs[i] : i \in DOMAIN NodeSpecs}

\* The nodes are the keys of a dictionary.  A sample gives a line per node, one
\* of edge counts and one of KPIs; with less than a batch it fits into the buffer.
ASSUME HistorianServiceAssumption ==
  /\ NodeSpecs \in Seq(Nodes) /\ SensorFields \subseteq Nodes
  /\ \A i, j \in DOMAIN NodeSpecs : NodeSpecs[i] = NodeSpecs[j] => i = j
  /\ {MaxBatchSize, MaxBufferSize} \subseteq Nat \ {0}
  /\ {FlushInterval, KpiWindow} \subseteq Nat
  /\ MaxBatchSize - 1 + Len(NodeSpecs) + 2 <= MaxBufferSize

VARIABLES
  process,             \* where run_historian is; "down" after an exception
  sample, timestamp,   \* the values read so far, in the order of NodeSpecs;
                       \* the time of the last sample that was complete
  window,              \* the samples of the last KpiWindow ticks, oldest first
  last_state, counts,  \* per sensor: its level in the last sample, its edges
  summary,             \* the KPIs of the window, in the KPI line last buffered
  items,               \* the buffer, oldest line first
  dropped_records,
  last_flush

serviceVars == <<process, sample, timestamp, window, last_state, counts, summary,
                 items, dropped_records, last_flush>>

ServiceInit ==
  /\ process = "reading" /\ sample = << >> /\ timestamp = 0
  /\ window = << >> /\ summary = ComputeKpis(<< >>)
  /\ last_state = [n \in SensorFields |-> FALSE]
  /\ counts = [n \in SensorFields |-> 0]
  /\ items = << >> /\ dropped_records = 0 /\ last_flush = 0

------------------------------------------------------------------------------
\* read_sample awaits the value of the next node.
ReadNode(node) ==
  /\ process = "reading" /\ Len(sample) < Len(NodeSpecs)
  /\ sample' = Append(sample, node[NodeSpecs[Len(sample) + 1]])
  /\ UNCHANGED <<process, timestamp, window, last_state, counts, summary, items,
                 dropped_records, last_flush>>

\* The sample is timed when all its nodes have been read.
TelemetrySample(now) ==
  [time |-> now,
   values |-> [n \in Nodes |->
                 sample[CHOOSE i \in DOMAIN NodeSpecs : NodeSpecs[i] = n]]]

\* _trim_window: the oldest samples leave as long as they are too old.
TrimWindow(samples, now) ==
  LET kept == {i \in DOMAIN samples : now - samples[i].time <= KpiWindow}
  IN SubSeq(samples, CHOOSE i \in kept : \A j \in kept : i <= j, Len(samples))

Blocked(n, s) == s.values[n] # 0

Rises(s) == {n \in SensorFields : Blocked(n, s) /\ ~last_state[n]}

SensorUpdateBug(s) ==        \* does not note the level
  /\ counts' = [n \in SensorFields |-> IF n \in Rises(s) THEN counts[n] + 1 ELSE counts[n]]
  /\ UNCHANGED last_state

\* SensorEdgeCounter.update
SensorUpdate(s) ==
  /\ counts' = [n \in SensorFields |-> IF n \in Rises(s) THEN counts[n] + 1 ELSE counts[n]]
  /\ last_state' = [n \in SensorFields |-> Blocked(n, s)]

\* sample_to_line_protocol, the line of the sensor counter and the KPI line
Lines(s) ==
  [i \in DOMAIN NodeSpecs |->
     [time |-> s.time, node |-> NodeSpecs[i], value |-> s.values[NodeSpecs[i]]]]
  \o (IF Rises(s) = {} THEN << >>
      ELSE <<[time |-> s.time, node |-> "sensor_counts", value |-> 0]>>)
  \o <<[time |-> s.time, node |-> "computed_kpis", value |-> 0]>>

\* append_many: a full buffer drops its oldest line for each new one
AppendMany(buffer, lines) ==
  LET all == buffer \o lines
      over == IF Len(all) > MaxBufferSize THEN Len(all) - MaxBufferSize ELSE 0
  IN [items |-> SubSeq(all, over + 1, Len(all)), dropped |-> over]

ShouldFlushLate(now) == now - last_flush >= FlushInterval
ShouldFlushFull(now) == Len(items') >= MaxBatchSize

ShouldFlush(now) ==
  Len(items') >= MaxBatchSize \/ now - last_flush >= FlushInterval

\* ingest and should_flush; nothing is awaited between the last answer, the
\* flush or the sleep.
Ingest(now) ==
  LET s == TelemetrySample(now)
      appended == AppendMany(items, Lines(s))
  IN /\ process = "reading" /\ Len(sample) = Len(NodeSpecs)
     /\ timestamp' = now
     /\ window' = TrimWindow(Append(window, s), now)
     /\ SensorUpdate(s)
     /\ summary' = ComputeKpis(window')
     /\ items' = appended.items
     /\ dropped_records' = dropped_records + appended.dropped
     /\ process' = IF ShouldFlush(now) THEN "flushing" ELSE "sleeping"
     /\ UNCHANGED <<sample, last_flush>>

BatchLength == IF Len(items) < MaxBatchSize THEN Len(items) ELSE MaxBatchSize
Batch == SubSeq(items, 1, BatchLength)

WriteBatchBug ==             \* pops from the wrong end
  /\ process = "flushing" /\ items # << >>
  /\ items' = SubSeq(items, 1, Len(items) - BatchLength)
  /\ UNCHANGED <<process, sample, timestamp, window, last_state, counts, summary,
                 dropped_records, last_flush>>

\* One turn of the loop of flush: pop_batch and write_lines of the batch
WriteBatch ==
  /\ process = "flushing" /\ items # << >>
  /\ items' = SubSeq(items, BatchLength + 1, Len(items))
  /\ UNCHANGED <<process, sample, timestamp, window, last_state, counts, summary,
                 dropped_records, last_flush>>

FlushDone(now) ==
  /\ process = "flushing" /\ items = << >>
  /\ process' = "sleeping" /\ last_flush' = now
  /\ UNCHANGED <<sample, timestamp, window, last_state, counts, summary, items,
                 dropped_records>>

\* The sample period has passed.
NextSample(now) ==
  /\ process = "sleeping" /\ now > timestamp
  /\ process' = "reading" /\ sample' = << >>
  /\ UNCHANGED <<timestamp, window, last_state, counts, summary, items,
                 dropped_records, last_flush>>

\* A read or a write raises.  Nothing catches it: the process ends, and with
\* it the window, the counts, the buffer and the batch already taken from it.
Fails ==
  /\ process \in {"reading", "flushing"}
  /\ process' = "down" /\ sample' = << >> /\ items' = << >>
  /\ window' = << >> /\ summary' = ComputeKpis(<< >>)
  /\ last_state' = [n \in SensorFields |-> FALSE]
  /\ counts' = [n \in SensorFields |-> 0]
  /\ UNCHANGED <<timestamp, dropped_records, last_flush>>

\* The supervisor of the deployment starts a new process.
Restart(now) ==
  /\ process = "down"
  /\ process' = "reading" /\ dropped_records' = 0 /\ last_flush' = now
  /\ UNCHANGED <<sample, timestamp, window, last_state, counts, summary, items>>
==============================================================================
