-------------------------------- MODULE QueryApi --------------------------------
(* historian_service/query_api.py: the KPIs computed again from the lines in *)
(* InfluxDB, and the events.  The lines of one timestamp make a sample; a    *)
(* sample of which InfluxDB has only some lines lacks the other nodes.       *)
EXTENDS HistorianKpi

CONSTANT Measurement           \* the measurement of each node

KpiMeasurements == {"cell_kpis", "conveyor_telemetry", "event_timeline"}

\* range(start: -window) and the filter on the measurement; the derived
\* measurements computed_kpis and sensor_counts belong to no node
InRangeBug(lines, now, window) == \* a strict bound
  {l \in lines : /\ now - l.time < window /\ l.node \in DOMAIN Measurement
                 /\ Measurement[l.node] \in KpiMeasurements}

InRange(lines, now, window) ==
  {l \in lines : /\ now - l.time <= window /\ l.node \in DOMAIN Measurement
                 /\ Measurement[l.node] \in KpiMeasurements}

\* _read_samples: grouped by timestamp, sorted
ReadSamples(lines, now, window) ==
  LET records == InRange(lines, now, window)
      Grouped(t) == {l \in records : l.time = t}
      unsorted == SetToSeq({l.time : l \in records})
      times == SortedBy(unsorted, unsorted)
  IN [i \in DOMAIN times |->
        [time |-> times[i],
         values |-> [n \in {l.node : l \in Grouped(times[i])} |->
                       (CHOOSE l \in Grouped(times[i]) : l.node = n).value]]]

GetKpis(lines, now, window) == ComputeKpis(ReadSamples(lines, now, window))

------------------------------------------------------------------------------
EventMeasurements == {"event_timeline", "alarms_events"}

NewestBug(lines, limit) ==   \* sorts in ascending order
  LET rows == SetToSeq(lines)
  IN SubSeq(SortedBy(rows, [i \in DOMAIN rows |-> rows[i].time]), 1,
            Min({limit, Len(rows)}))

\* sort(desc: true) and limit of a table, and again of the merged tables
Newest(lines, limit) ==
  LET rows == SetToSeq(lines)
  IN SubSeq(SortedBy(rows, [i \in DOMAIN rows |-> -rows[i].time]), 1,
            Min({limit, Len(rows)}))

\* get_recent_events: InfluxDB limits each table, that is each node, and the
\* merged rows are limited once more.
GetRecentEvents(lines, now, window, limit) ==
  LET bounded_limit == Max({1, Min({limit, 500})})
      events == {l \in lines : /\ now - l.time <= window
                               /\ l.node \in DOMAIN Measurement
                               /\ Measurement[l.node] \in EventMeasurements}
      Table(n) == ToSet(Newest({l \in events : l.node = n}, bounded_limit))
  IN Newest(UNION {Table(l.node) : l \in events}, bounded_limit)
==============================================================================
