-------------------------- MODULE HistorianCell_proofs --------------------------
(* Proofs about the historian and the query API, for any nodes, any sizes of *)
(* batch and buffer that fit, any flush interval, any windows and any number *)
(* of failures: the buffer, the edge counts, the KPIs that the collector and *)
(* the API compute, and the events that the API lists.                       *)
EXTENDS HistorianCell, SequenceTheorems, FiniteSetTheorems, NaturalsInduction, TLAPS

Line == [time : Nat, node : Nodes \cup {"sensor_counts", "computed_kpis"},
         value : Nat]

PlcInvariant ==
  /\ clock \in Nat /\ timestamp \in Nat /\ last_flush \in 0..clock
  /\ node \in [Nodes -> Nat] /\ \A n \in SensorFields : node[n] \in {0, 1}
  /\ sample \in Seq(Nat)

\* The buffer is the end of the ledger and what stands before it is stored;
\* whatever is in the buffer came after the last flush.
BufferInvariant ==
  /\ items \in Seq(Line) /\ ledger \in Seq(Line) /\ Len(items) <= Len(ledger)
  /\ \A i \in 1..Len(items) : /\ items[i] = ledger[Len(ledger) - Len(items) + i]
                              /\ items[i].time >= last_flush
  /\ \A i \in 1..Len(ledger) - Len(items) : ledger[i] \in stored
  /\ dropped_records = 0
  /\ process # "flushing" => Len(items) < MaxBatchSize
  /\ process = "down" => items = << >>
  /\ process = "sleeping" /\ items # << >> => timestamp - last_flush < FlushInterval

IInv == PlcInvariant /\ BufferInvariant

LEMMA NodeSpecsFacts ==
  ASSUME HistorianServiceAssumption
  PROVE  /\ Len(NodeSpecs) \in Nat /\ DOMAIN NodeSpecs = 1..Len(NodeSpecs)
         /\ \A i \in 1..Len(NodeSpecs) : NodeSpecs[i] \in Nodes
  BY LenProperties DEF HistorianServiceAssumption, Nodes

\* A complete sample has a number for every node.
LEMMA SampleValues ==
  ASSUME HistorianServiceAssumption, sample \in Seq(Nat),
         Len(sample) = Len(NodeSpecs), NEW now
  PROVE  /\ TelemetrySample(now).time = now
         /\ TelemetrySample(now).values \in [Nodes -> Nat]
<1>1. ASSUME NEW n \in Nodes
      PROVE  sample[CHOOSE i \in DOMAIN NodeSpecs : NodeSpecs[i] = n] \in Nat
  <2>1. \E i \in DOMAIN NodeSpecs : NodeSpecs[i] = n
    BY DEF Nodes
  <2>2. (CHOOSE i \in DOMAIN NodeSpecs : NodeSpecs[i] = n) \in 1..Len(sample)
    BY <2>1, NodeSpecsFacts
  <2> QED
    BY <2>2, ElementOfSeq
<1> QED
  BY <1>1 DEF TelemetrySample

\* The lines of a sample all have its time, and there are at most two more
\* than nodes.
LEMMA SampleLines ==
  ASSUME HistorianServiceAssumption, NEW now \in Nat, NEW s,
         s.time = now, s.values \in [Nodes -> Nat]
  PROVE  /\ Lines(s) \in Seq(Line)
         /\ Len(Lines(s)) <= Len(NodeSpecs) + 2
         /\ \A i \in 1..Len(Lines(s)) : Lines(s)[i].time = now
<1> DEFINE Row(i) == [time |-> s.time, node |-> NodeSpecs[i],
                      value |-> s.values[NodeSpecs[i]]]
           nodes == [i \in DOMAIN NodeSpecs |-> Row(i)]
           edge == [time |-> s.time, node |-> "sensor_counts", value |-> 0]
           edges == IF Rises(s) = {} THEN << >> ELSE <<edge>>
           kpi == [time |-> s.time, node |-> "computed_kpis", value |-> 0]
           LineNow == {l \in Line : l.time = now}
<1>1. nodes \in Seq(LineNow) /\ Len(nodes) = Len(NodeSpecs)
  <2>1. \A i \in 1..Len(NodeSpecs) : Row(i) \in LineNow
    BY NodeSpecsFacts DEF Line
  <2>2. nodes \in [1..Len(NodeSpecs) -> LineNow]
    BY <2>1, NodeSpecsFacts
  <2> HIDE DEF nodes, LineNow, Row
  <2>3. \E k \in Nat : nodes \in [1..k -> LineNow]
    BY <2>2, NodeSpecsFacts
  <2>4. nodes \in Seq(LineNow)
    BY <2>3, SeqDef
  <2> QED
    BY <2>2, <2>4, NodeSpecsFacts, LenProperties
<1>2. edges \in Seq(LineNow) /\ Len(edges) <= 1 /\ Len(edges) \in Nat
  <2>1. edge \in LineNow
    BY DEF Line
  <2> HIDE DEF edge, LineNow
  <2> QED
    BY <2>1
<1>3. <<kpi>> \in Seq(LineNow) /\ Len(<<kpi>>) = 1
  <2>1. kpi \in LineNow
    BY DEF Line
  <2> HIDE DEF kpi, LineNow
  <2> QED
    BY <2>1
<1>4. Lines(s) = nodes \o edges \o <<kpi>>
  BY DEF Lines
<1>5. LineNow \subseteq Line /\ \A l \in LineNow : l.time = now
  OBVIOUS
<1> HIDE DEF nodes, edges, kpi, LineNow
<1>6. Lines(s) \in Seq(LineNow) /\ Len(Lines(s)) <= Len(NodeSpecs) + 2
  <2>1. nodes \o edges \in Seq(LineNow)
        /\ Len(nodes \o edges) = Len(nodes) + Len(edges)
    BY <1>1, <1>2, ConcatProperties
  <2>2. Lines(s) \in Seq(LineNow)
        /\ Len(Lines(s)) = Len(nodes \o edges) + Len(<<kpi>>)
    BY <1>3, <1>4, <2>1, ConcatProperties
  <2> QED
    BY <1>1, <1>2, <1>3, <2>1, <2>2, NodeSpecsFacts
<1>7. Lines(s) \in Seq(Line)
  BY <1>5, <1>6, SeqMonotonic
<1>8. \A i \in 1..Len(Lines(s)) : Lines(s)[i] \in LineNow
  BY <1>6, ElementOfSeq
<1> QED
  BY <1>5, <1>6, <1>7, <1>8

\* A buffer with less than a batch in it takes the lines of a sample whole.
LEMMA AppendFits ==
  ASSUME HistorianServiceAssumption, NEW buffer \in Seq(Line), NEW lines \in Seq(Line),
         Len(buffer) < MaxBatchSize, Len(lines) <= Len(NodeSpecs) + 2
  PROVE  AppendMany(buffer, lines) = [items |-> buffer \o lines, dropped |-> 0]
<1> DEFINE all == buffer \o lines
<1>1. all \in Seq(Line) /\ Len(all) = Len(buffer) + Len(lines)
  BY ConcatProperties
<1>2. ~(Len(all) > MaxBufferSize)
  <2>1. Len(buffer) \in Nat /\ Len(lines) \in Nat
    BY LenProperties
  <2> HIDE DEF all
  <2> QED
    BY <1>1, <2>1, NodeSpecsFacts DEF HistorianServiceAssumption
<1>3. AppendMany(buffer, lines) =
        [items |-> SubSeq(all, 0 + 1, Len(all)), dropped |-> 0]
  BY <1>2 DEF AppendMany
<1>4. SubSeq(all, 0 + 1, Len(all)) = all
  <2> HIDE DEF all
  <2>1. SubSeq(all, 1, Len(all)) = all
    BY <1>1, SubSeqFull
  <2> QED
    BY <2>1
<1> QED
  BY <1>3, <1>4

------------------------------------------------------------------------------
LEMMA HistorianInitIInv == HistorianServiceAssumption /\ HistorianInit => IInv
<1> SUFFICES ASSUME HistorianServiceAssumption, HistorianInit PROVE IInv
  OBVIOUS
<1>1. PlcInvariant
  BY DEF HistorianInit, ServiceInit, PlcInvariant
<1>2. BufferInvariant
  BY DEF HistorianInit, ServiceInit, BufferInvariant, HistorianServiceAssumption
<1> QED
  BY <1>1, <1>2 DEF IInv

LEMMA PlcStep ==
  ASSUME HistorianServiceAssumption, HistorianCellAssumption, IInv, Plc \/ Tick
  PROVE  IInv'
<1>1. PlcInvariant /\ BufferInvariant /\ SensorFields \subseteq Nodes
  BY DEF IInv, HistorianServiceAssumption
<1>2. UNCHANGED <<serviceVars, historyVars, stored>> => BufferInvariant'
  BY <1>1 DEF BufferInvariant, serviceVars, historyVars
<1>3. ASSUME NEW n \in Nodes, NEW v \in Nat, n \in SensorFields => v \in {0, 1},
             node' = [node EXCEPT ![n] = v],
             UNCHANGED <<serviceVars, historyVars, clock, stored>>
      PROVE  IInv'
  <2>1. node' \in [Nodes -> Nat] /\ \A m \in SensorFields : node'[m] \in {0, 1}
    BY <1>1, <1>3 DEF PlcInvariant
  <2> QED
    BY <1>1, <1>2, <1>3, <2>1 DEF IInv, PlcInvariant, serviceVars
<1>4. ASSUME NEW n \in Counters, Count(n)
      PROVE  IInv'
  <2>1. n \in Nodes \ SensorFields /\ node[n] + 1 \in Nat
    BY <1>1 DEF HistorianCellAssumption, PlcInvariant
  <2> QED
    BY <1>3, <1>4, <2>1 DEF Count, plcOnly
<1>5. CASE ResetCounters
  <2>1. node' \in [Nodes -> Nat] /\ \A m \in SensorFields : node'[m] = node[m]
    BY <1>1, <1>5 DEF ResetCounters, HistorianCellAssumption, PlcInvariant
  <2> QED
    BY <1>1, <1>2, <1>5, <2>1 DEF ResetCounters, plcOnly, IInv, PlcInvariant, serviceVars
<1>6. ASSUME NEW n \in SensorFields, Toggle(n)
      PROVE  IInv'
  <2>1. n \in Nodes /\ node[n] \in {0, 1}
    BY <1>1, <1>6 DEF PlcInvariant
  <2>2. 1 - node[n] \in {0, 1} /\ 1 - node[n] \in Nat
    BY <2>1
  <2>3. node' = [node EXCEPT ![n] = 1 - node[n]]
        /\ UNCHANGED <<serviceVars, historyVars, clock, stored>>
    BY <1>6 DEF Toggle, plcOnly
  <2> QED
    BY <1>3, <1>6, <2>1, <2>2, <2>3
<1>7. ASSUME NEW n \in Events, LogEvent(n)
      PROVE  IInv'
  <2>1. n \in Nodes \ SensorFields /\ node[n] + 1 \in Nat
    BY <1>1 DEF HistorianCellAssumption, PlcInvariant
  <2> QED
    BY <1>3, <1>7, <2>1 DEF LogEvent, plcOnly
<1>8. CASE Tick
  <2>1. clock' = clock + 1 /\ UNCHANGED <<timestamp, last_flush, node, sample>>
    BY <1>8 DEF Tick, serviceVars, plcVars
  <2>2. PlcInvariant'
    BY <1>1, <2>1 DEF PlcInvariant
  <2> QED
    BY <1>2, <1>8, <2>2 DEF Tick, IInv
<1> QED
  BY <1>4, <1>5, <1>6, <1>7, <1>8 DEF Plc

LEMMA ReadStep ==
  ASSUME HistorianServiceAssumption, IInv, ReadNext
  PROVE  IInv'
<1> USE DEF IInv, PlcInvariant
<1>1. Len(sample) + 1 \in 1..Len(NodeSpecs)
  BY NodeSpecsFacts DEF ReadNext, ReadNode
<1>2. sample' \in Seq(Nat)
  BY <1>1, NodeSpecsFacts DEF ReadNext, ReadNode
<1>3. PlcInvariant'
  BY <1>2 DEF ReadNext, ReadNode, plcVars
<1>4. BufferInvariant'
  BY DEF ReadNext, ReadNode, BufferInvariant
<1> QED
  BY <1>3, <1>4

LEMMA IngestStep ==
  ASSUME HistorianServiceAssumption, IInv, IngestSample
  PROVE  IInv'
<1> DEFINE s == TelemetrySample(clock)
           lines == Lines(s)
<1>1. clock \in Nat /\ timestamp' = clock /\ last_flush' = last_flush
      /\ last_flush \in 0..clock /\ stored' = stored /\ process = "reading"
  BY DEF IInv, PlcInvariant, IngestSample, Ingest
<1>2. lines \in Seq(Line) /\ Len(lines) <= Len(NodeSpecs) + 2
      /\ \A i \in 1..Len(lines) : lines[i].time = clock
  <2>1. sample \in Seq(Nat) /\ Len(sample) = Len(NodeSpecs)
    BY DEF IInv, PlcInvariant, IngestSample, Ingest
  <2> QED
    BY <1>1, <2>1, SampleValues, SampleLines
<1>3. /\ items \in Seq(Line) /\ ledger \in Seq(Line) /\ Len(items) <= Len(ledger)
      /\ Len(items) < MaxBatchSize /\ dropped_records = 0
      /\ \A i \in 1..Len(items) : /\ items[i] = ledger[Len(ledger) - Len(items) + i]
                                  /\ items[i].time >= last_flush
      /\ \A i \in 1..Len(ledger) - Len(items) : ledger[i] \in stored
  BY <1>1 DEF IInv, BufferInvariant
<1>4. items' = items \o lines /\ ledger' = ledger \o lines /\ dropped_records' = 0
  <2>1. AppendMany(items, lines) = [items |-> items \o lines, dropped |-> 0]
    BY <1>2, <1>3, AppendFits
  <2> HIDE DEF lines
  <2>2. items' = AppendMany(items, lines).items
        /\ dropped_records' = dropped_records + AppendMany(items, lines).dropped
        /\ ledger' = ledger \o lines
    BY DEF IngestSample, Ingest, lines
  <2> QED
    BY <1>3, <2>1, <2>2
<1>5. process' = IF ShouldFlush(clock) THEN "flushing" ELSE "sleeping"
  BY DEF IngestSample, Ingest
<1> HIDE DEF lines
<1>6. /\ items' \in Seq(Line) /\ Len(items') = Len(items) + Len(lines)
      /\ ledger' \in Seq(Line) /\ Len(ledger') = Len(ledger) + Len(lines)
      /\ \A i \in 1..Len(items) + Len(lines) :
           items'[i] = IF i <= Len(items) THEN items[i] ELSE lines[i - Len(items)]
      /\ \A i \in 1..Len(ledger) + Len(lines) :
           ledger'[i] = IF i <= Len(ledger) THEN ledger[i] ELSE lines[i - Len(ledger)]
  <2>1. /\ items' \in Seq(Line) /\ Len(items') = Len(items) + Len(lines)
        /\ \A i \in 1..Len(items) + Len(lines) :
             items'[i] = IF i <= Len(items) THEN items[i] ELSE lines[i - Len(items)]
    BY <1>2, <1>3, <1>4, ConcatProperties
  <2>2. /\ ledger' \in Seq(Line) /\ Len(ledger') = Len(ledger) + Len(lines)
        /\ \A i \in 1..Len(ledger) + Len(lines) :
             ledger'[i] = IF i <= Len(ledger) THEN ledger[i] ELSE lines[i - Len(ledger)]
    BY <1>2, <1>3, <1>4, ConcatProperties
  <2> QED
    BY <2>1, <2>2
<1>7. Len(items) \in Nat /\ Len(ledger) \in Nat /\ Len(lines) \in Nat
  BY <1>2, <1>3, LenProperties
<1>8. ASSUME NEW i \in 1..Len(items')
      PROVE  /\ items'[i] = ledger'[Len(ledger') - Len(items') + i]
             /\ items'[i].time >= last_flush'
  <2> DEFINE j == Len(ledger) - Len(items) + i
  <2>1. /\ i \in 1..Len(items) + Len(lines) /\ j \in 1..Len(ledger) + Len(lines)
        /\ i <= Len(items) <=> j <= Len(ledger)
        /\ i - Len(items) = j - Len(ledger)
        /\ Len(ledger') - Len(items') + i = j
    BY <1>3, <1>6, <1>7
  <2> HIDE DEF j
  <2>2. CASE i <= Len(items)
    <3>0. i \in 1..Len(items) /\ j <= Len(ledger)
      BY <1>7, <2>1, <2>2
    <3>1. items'[i] = items[i] /\ ledger'[j] = ledger[j]
      BY <1>6, <2>1, <2>2, <3>0
    <3>2. items[i] = ledger[j] /\ items[i].time >= last_flush
      BY <1>3, <3>0 DEF j
    <3> QED
      BY <1>1, <2>1, <3>1, <3>2
  <2>3. CASE ~(i <= Len(items))
    <3>0. i - Len(items) \in 1..Len(lines) /\ ~(j <= Len(ledger))
      BY <1>7, <2>1, <2>3
    <3>1. items'[i] = lines[i - Len(items)] /\ ledger'[j] = lines[i - Len(items)]
      BY <1>6, <2>1, <2>3, <3>0
    <3>2. items'[i].time = clock
      BY <1>2, <3>0, <3>1
    <3> QED
      BY <1>1, <2>1, <3>1, <3>2
  <2> QED
    BY <2>2, <2>3
<1>9. ASSUME NEW i \in 1..Len(ledger') - Len(items')
      PROVE  ledger'[i] \in stored'
  <2>1. i \in 1..Len(ledger) - Len(items) /\ i <= Len(ledger)
        /\ i \in 1..Len(ledger) + Len(lines)
    BY <1>3, <1>6, <1>7
  <2> QED
    BY <1>1, <1>3, <1>6, <2>1
<1>10. /\ process' # "flushing" => Len(items') < MaxBatchSize
       /\ process' # "flushing" => timestamp' - last_flush' < FlushInterval
       /\ process' # "down"
  <2>1. MaxBatchSize \in Nat /\ FlushInterval \in Nat
    BY DEF HistorianServiceAssumption
  <2> QED BY <1>1, <1>5, <1>6, <1>7, <2>1 DEF ShouldFlush
<1>11. Len(items') <= Len(ledger')
  BY <1>3, <1>6, <1>7
<1>12. BufferInvariant'
  BY <1>4, <1>6, <1>8, <1>9, <1>10, <1>11 DEF BufferInvariant
<1>13. PlcInvariant'
  BY <1>1 DEF IInv, PlcInvariant, IngestSample, Ingest, plcVars
<1> QED
  BY <1>12, <1>13 DEF IInv

LEMMA WriteStep ==
  ASSUME HistorianServiceAssumption, IInv, WriteLines
  PROVE  IInv'
<1>1. /\ items \in Seq(Line) /\ ledger \in Seq(Line) /\ Len(items) <= Len(ledger)
      /\ dropped_records = 0
      /\ \A i \in 1..Len(items) : /\ items[i] = ledger[Len(ledger) - Len(items) + i]
                                  /\ items[i].time >= last_flush
      /\ \A i \in 1..Len(ledger) - Len(items) : ledger[i] \in stored
  BY DEF IInv, BufferInvariant
<1>2. /\ process = "flushing" /\ process' = process /\ dropped_records' = dropped_records
      /\ items' = SubSeq(items, BatchLength + 1, Len(items))
      /\ stored' = stored \cup {Batch[i] : i \in DOMAIN Batch}
      /\ UNCHANGED <<last_flush, ledger>>
  BY DEF WriteLines, WriteBatch, historyVars
<1>3. Len(items) \in Nat /\ Len(ledger) \in Nat /\ BatchLength \in 0..Len(items)
  BY <1>1, LenProperties DEF BatchLength, HistorianServiceAssumption
<1>4. \A i \in 1..Len(items) : items[i] \in Line
  BY <1>1, ElementOfSeq
<1>5. /\ Batch \in Seq(Line) /\ Len(Batch) = BatchLength
      /\ \A i \in 1..BatchLength : Batch[i] = items[i]
  BY <1>3, <1>4, SubSeqProperties DEF Batch
<1>6. /\ items' \in Seq(Line) /\ Len(items') = Len(items) - BatchLength
      /\ \A i \in 1..Len(items) - BatchLength : items'[i] = items[BatchLength + i]
  <2> DEFINE m == BatchLength + 1
             n == Len(items)
  <2>1. m \in Int /\ n \in Int /\ \A i \in m..n : items[i] \in Line
    BY <1>3, <1>4
  <2>2. n - m + 1 = Len(items) - BatchLength /\ (IF m <= n THEN n - m + 1 ELSE 0) = n - m + 1
        /\ \A i \in 1..n - m + 1 : m + i - 1 = BatchLength + i
    BY <1>3
  <2>3. items' = SubSeq(items, m, n)
    BY <1>2
  <2> HIDE DEF m, n
  <2>4. /\ SubSeq(items, m, n) \in Seq(Line)
        /\ Len(SubSeq(items, m, n)) = n - m + 1
        /\ \A i \in 1..n - m + 1 : SubSeq(items, m, n)[i] = items[m + i - 1]
    BY <2>1, <2>2, SubSeqProperties
  <2> QED
    BY <2>2, <2>3, <2>4
<1>7. \A i \in 1..BatchLength : items[i] \in stored'
  BY <1>2, <1>5, LenProperties
<1>8. ASSUME NEW i \in 1..Len(ledger') - Len(items')
      PROVE  ledger'[i] \in stored'
  <2>1. CASE i <= Len(ledger) - Len(items)
    BY <1>1, <1>2, <1>3, <1>6, <1>8, <2>1
  <2>2. CASE ~(i <= Len(ledger) - Len(items))
    <3> DEFINE k == i - (Len(ledger) - Len(items))
    <3>1. k \in 1..BatchLength /\ i = Len(ledger) - Len(items) + k
      BY <1>2, <1>3, <1>6, <1>8, <2>2
    <3> HIDE DEF k
    <3>2. items[k] = ledger[i]
      BY <1>1, <1>3, <3>1
    <3> QED
      BY <1>2, <1>7, <3>1, <3>2
  <2> QED
    BY <2>1, <2>2
<1>9. ASSUME NEW i \in 1..Len(items')
      PROVE  /\ items'[i] = ledger'[Len(ledger') - Len(items') + i]
             /\ items'[i].time >= last_flush'
  <2> DEFINE k == BatchLength + i
  <2>1. /\ k \in 1..Len(items) /\ i \in 1..Len(items) - BatchLength
        /\ Len(ledger') - Len(items') + i = Len(ledger) - Len(items) + k
    <3>1. Len(items') = Len(items) - BatchLength /\ Len(ledger') = Len(ledger)
      BY <1>2, <1>6
    <3>2. {Len(items), Len(ledger), BatchLength} \subseteq Nat /\ i \in 1..Len(items')
      BY <1>3
    <3> QED
      BY <1>3, <3>1, <3>2
  <2>2. items'[i] = items[k]
    BY <1>6, <2>1
  <2> HIDE DEF k
  <2> QED
    BY <1>1, <1>2, <2>1, <2>2
<1>10. Len(items') <= Len(ledger') /\ process' = "flushing" /\ dropped_records' = 0
  BY <1>1, <1>2, <1>3, <1>6
<1>11. BufferInvariant'
  BY <1>1, <1>2, <1>6, <1>8, <1>9, <1>10 DEF BufferInvariant
<1>12. PlcInvariant'
  BY DEF IInv, PlcInvariant, WriteLines, WriteBatch, plcVars
<1> QED
  BY <1>11, <1>12 DEF IInv

LEMMA OtherSteps ==
  ASSUME HistorianServiceAssumption, IInv, Proceed \/ Crash \/ Start
  PROVE  IInv'
<1> USE DEF IInv, PlcInvariant, BufferInvariant
<1>0. MaxBatchSize \in Nat \ {0}
  BY DEF HistorianServiceAssumption
<1>1. CASE FlushDone(clock) /\ Proceed
  BY <1>0, <1>1 DEF FlushDone, Proceed, plcVars, historyVars
<1>2. CASE NextSample(clock) /\ Proceed
  BY <1>2 DEF NextSample, Proceed, plcVars, historyVars
<1>3. CASE Crash
  BY <1>0, <1>3 DEF Crash, Fails, plcVars
<1>4. CASE Start
  BY <1>4 DEF Start, Restart, plcVars
<1> QED
  BY <1>1, <1>2, <1>3, <1>4 DEF Proceed

LEMMA HistorianStepIInv ==
  ASSUME HistorianServiceAssumption, HistorianCellAssumption, IInv,
         [HistorianNext]_cellVars
  PROVE  IInv'
<1>1. CASE UNCHANGED cellVars
  BY <1>1 DEF IInv, PlcInvariant, BufferInvariant, cellVars, serviceVars, plcVars,
              historyVars
<1> QED
  BY <1>1, PlcStep, ReadStep, IngestStep, WriteStep, OtherSteps
     DEF HistorianNext, Historian

\* The buffer, the ledger and InfluxDB fit together at every moment.
THEOREM BufferCorrect == HistorianSpec => []IInv
<1>1. HistorianInit => IInv
  BY HistorianInitIInv, HistorianServiceAssumption
<1>2. IInv /\ [HistorianNext]_cellVars => IInv'
  BY HistorianStepIInv, HistorianServiceAssumption, HistorianCellAssumption
<1> QED
  BY <1>1, <1>2, PTL DEF HistorianSpec

\* Whenever a batch less one and a sample fit into the buffer, the historian
\* drops no line, however samples, flushes, failures and restarts fall.
THEOREM NothingDroppedCorrect == HistorianSpec => []NothingDropped
<1>1. IInv => NothingDropped
  BY DEF IInv, BufferInvariant, NothingDropped
<1> QED
  BY <1>1, BufferCorrect, PTL

\* What a process has ingested is stored up to a place and buffered from there.
THEOREM LedgerCorrect == HistorianSpec => []LedgerKept
<1>1. ASSUME IInv PROVE LedgerKept
  <2> DEFINE written == Len(ledger) - Len(items)
             rest == SubSeq(ledger, written + 1, Len(ledger))
  <2>1. /\ items \in Seq(Line) /\ ledger \in Seq(Line) /\ Len(items) <= Len(ledger)
        /\ \A i \in 1..Len(items) : items[i] = ledger[written + i]
        /\ \A i \in 1..written : ledger[i] \in stored
    BY <1>1 DEF IInv, BufferInvariant
  <2>2. Len(items) \in Nat /\ Len(ledger) \in Nat /\ written \in 0..Len(ledger)
    BY <2>1, LenProperties
  <2>3. \A i \in 1..Len(ledger) : ledger[i] \in Line
    BY <2>1, ElementOfSeq
  <2>4. rest \in Seq(Line) /\ Len(rest) = Len(items)
        /\ \A i \in 1..Len(items) : rest[i] = ledger[written + i]
    BY <2>2, <2>3, SubSeqProperties
  <2>5. items = rest
    <3> HIDE DEF rest, written
    <3> QED
      BY <2>1, <2>4, SeqEqual
  <2> QED
    BY <2>1, <2>5 DEF LedgerKept
<1> QED
  BY <1>1, BufferCorrect, PTL

\* Between samples no line is older than the flush interval.
THEOREM BufferIsFreshCorrect == HistorianSpec => []BufferIsFresh
<1>1. ASSUME IInv PROVE BufferIsFresh
  <2> SUFFICES ASSUME process = "sleeping", items # << >>
               PROVE  timestamp - items[1].time < FlushInterval
    BY DEF BufferIsFresh
  <2>1. items \in Seq(Line) /\ Len(items) \in Nat \ {0}
    BY <1>1, EmptySeq DEF IInv, BufferInvariant
  <2>2. items[1] \in Line /\ items[1].time >= last_flush
    BY <1>1, <2>1, ElementOfSeq DEF IInv, BufferInvariant
  <2>3. timestamp - last_flush < FlushInterval
    BY <1>1 DEF IInv, BufferInvariant
  <2>4. items[1].time \in Nat /\ {timestamp, last_flush} \subseteq Nat
        /\ FlushInterval \in Nat
    BY <1>1, <2>2, HistorianServiceAssumption
       DEF IInv, PlcInvariant, Line, HistorianServiceAssumption
  <2> QED
    BY <2>2, <2>3, <2>4
<1> QED
  BY <1>1, BufferCorrect, PTL

------------------------------------------------------------------------------
(* No edge is invented.  A level is on its way from the node over the sample *)
(* that is being read to last_state; the edges that are still on their way   *)
(* and those counted are never more than there were.                         *)

\* Where the sample has the value of a node, and whether it is there already.
Place(n) == CHOOSE i \in DOMAIN NodeSpecs : NodeSpecs[i] = n
Seen(n) == process = "reading" /\ Place(n) \in 1..Len(sample)

Edge(before, after) == IF after /\ ~before THEN 1 ELSE 0

EdgeTypes ==
  /\ counts \in [SensorFields -> Nat] /\ rises \in [SensorFields -> Nat]
  /\ last_state \in [SensorFields -> BOOLEAN]

EdgeInvariant(n) ==
  /\ node[n] = 1 => rises[n] >= 1
  /\ process = "down" => counts[n] = 0 /\ ~last_state[n] /\ Len(sample) = 0
  /\ ~Seen(n) => counts[n] + Edge(last_state[n], node[n] = 1) <= rises[n]
  /\ Seen(n) =>
       /\ sample[Place(n)] \in {0, 1}
       /\ counts[n] + Edge(last_state[n], sample[Place(n)] = 1)
            + Edge(sample[Place(n)] = 1, node[n] = 1) <= rises[n]

EInv == IInv /\ EdgeTypes /\ \A n \in SensorFields : EdgeInvariant(n)

LEMMA PlaceOf ==
  ASSUME HistorianServiceAssumption, NEW n \in SensorFields
  PROVE  Place(n) \in 1..Len(NodeSpecs) /\ NodeSpecs[Place(n)] = n
<1>1. \E i \in DOMAIN NodeSpecs : NodeSpecs[i] = n
  BY DEF HistorianServiceAssumption, Nodes
<1> QED BY <1>1, NodeSpecsFacts DEF Place

LEMMA OneMore ==
  ASSUME NEW c \in Nat, NEW a \in {0, 1}, NEW b \in {0, 1}, NEW r \in Nat, c + a <= r
  PROVE  c + a + b <= r + 1
  OBVIOUS

\* The PLC: a level that rises is a rise more.
LEMMA PlcEdges ==
  ASSUME HistorianServiceAssumption, HistorianCellAssumption, EInv, Plc \/ Tick
  PROVE  EdgeTypes' /\ \A n \in SensorFields : EdgeInvariant(n)'
<1>1. /\ EdgeTypes /\ PlcInvariant /\ UNCHANGED serviceVars
      /\ \A n \in SensorFields : EdgeInvariant(n)
  BY DEF EInv, IInv, Plc, Tick, Count, ResetCounters, Toggle, LogEvent, plcOnly
<1>2. UNCHANGED <<process, sample, counts, last_state>>
  BY <1>1 DEF serviceVars
<1>3. ASSUME NEW n \in SensorFields, node'[n] = node[n], rises'[n] = rises[n]
      PROVE  EdgeInvariant(n)'
  BY <1>1, <1>2, <1>3 DEF EdgeInvariant, Seen, Place
<1>4. ASSUME NEW m \in Nodes \ SensorFields, NEW v, node' = [node EXCEPT ![m] = v],
             UNCHANGED rises
      PROVE  EdgeTypes' /\ \A n \in SensorFields : EdgeInvariant(n)'
  <2>1. \A n \in SensorFields : node'[n] = node[n] /\ rises'[n] = rises[n]
    BY <1>1, <1>4 DEF PlcInvariant, HistorianServiceAssumption
  <2> QED BY <1>1, <1>2, <1>3, <1>4, <2>1 DEF EdgeTypes
<1>5. ASSUME NEW m \in Counters, Count(m)
      PROVE  EdgeTypes' /\ \A n \in SensorFields : EdgeInvariant(n)'
  BY <1>4, <1>5 DEF Count, HistorianCellAssumption
<1>6. ASSUME NEW m \in Events, LogEvent(m)
      PROVE  EdgeTypes' /\ \A n \in SensorFields : EdgeInvariant(n)'
  BY <1>4, <1>6 DEF LogEvent, HistorianCellAssumption
<1>7. CASE ResetCounters
  <2>1. \A n \in SensorFields : node'[n] = node[n] /\ rises'[n] = rises[n]
    BY <1>1, <1>7 DEF ResetCounters, HistorianCellAssumption, HistorianServiceAssumption
  <2> QED BY <1>1, <1>2, <1>3, <1>7, <2>1 DEF EdgeTypes, ResetCounters
<1>8. CASE Tick
  <2>1. \A n \in SensorFields : node'[n] = node[n] /\ rises'[n] = rises[n]
    BY <1>8 DEF Tick, plcVars
  <2> QED BY <1>1, <1>2, <1>3, <1>8, <2>1 DEF EdgeTypes, Tick
<1>9. ASSUME NEW m \in SensorFields, Toggle(m)
      PROVE  EdgeTypes' /\ \A n \in SensorFields : EdgeInvariant(n)'
  <2>1. /\ node[m] \in {0, 1} /\ m \in Nodes
        /\ node' = [node EXCEPT ![m] = 1 - node[m]]
        /\ rises' = [rises EXCEPT ![m] = rises[m] + 1 - node[m]]
    BY <1>1, <1>9 DEF Toggle, PlcInvariant, HistorianServiceAssumption
  <2>2. /\ node'[m] = 1 - node[m] /\ rises'[m] = rises[m] + 1 - node[m]
        /\ \A n \in SensorFields \ {m} : node'[n] = node[n] /\ rises'[n] = rises[n]
    BY <1>1, <2>1 DEF PlcInvariant, EdgeTypes, HistorianServiceAssumption
  <2>3. rises[m] \in Nat /\ counts[m] \in Nat
    BY <1>1 DEF EdgeTypes
  <2>4. EdgeTypes'
    <3>1. rises[m] + 1 - node[m] \in Nat
      BY <2>1, <2>3
    <3> QED BY <1>1, <1>2, <2>1, <3>1 DEF EdgeTypes
  <2>5. EdgeInvariant(m)'
    <3>1. EdgeInvariant(m) /\ (Seen(m)' <=> Seen(m)) /\ Place(m)' = Place(m)
      BY <1>1, <1>2 DEF Seen, Place
    <3>3. CASE node[m] = 0
      <4>1. node'[m] = 1 /\ rises'[m] = rises[m] + 1
        BY <2>2, <2>3, <3>3
      <4>2. /\ ~Seen(m) => counts[m] <= rises[m]
            /\ Seen(m) => /\ sample[Place(m)] \in {0, 1}
                          /\ counts[m] + Edge(last_state[m], sample[Place(m)] = 1) <= rises[m]
        BY <2>3, <3>1, <3>3 DEF EdgeInvariant, Edge
      <4>3. CASE Seen(m)
        <5> DEFINE a == Edge(last_state[m], sample[Place(m)] = 1)
                   b == Edge(sample[Place(m)] = 1, node'[m] = 1)
        <5>1. a \in {0, 1} /\ b \in {0, 1}
          BY DEF Edge
        <5>2. counts[m] + a <= rises[m]
          BY <4>2, <4>3
        <5>3. counts[m] + a + b <= rises'[m]
          <6> HIDE DEF a, b
          <6>1. counts[m] + a + b <= rises[m] + 1
            BY <2>3, <5>1, <5>2, OneMore
          <6> QED BY <4>1, <6>1
        <5> QED BY <1>2, <2>3, <3>1, <4>1, <4>2, <4>3, <5>3 DEF EdgeInvariant
      <4>4. CASE ~Seen(m)
        <5> DEFINE e == Edge(last_state[m], node'[m] = 1)
        <5>1. e \in Nat /\ e <= 1 /\ counts[m] <= rises[m]
          BY <4>2, <4>4 DEF Edge
        <5>2. counts[m] + e <= rises'[m] /\ rises'[m] >= 1
          <6> HIDE DEF e
          <6> DEFINE c == counts[m]  r == rises[m]
          <6>0. c \in Nat /\ r \in Nat /\ c <= r /\ e \in Nat /\ e <= 1
            BY <2>3, <5>1
          <6> HIDE DEF c, r
          <6>1. c + e <= r + 1
            BY <6>0
          <6>2. rises[m] + 1 >= 1
            BY <2>3
          <6> QED BY <4>1, <6>1, <6>2 DEF c, r
        <5> QED BY <1>2, <3>1, <4>1, <4>4, <5>2 DEF EdgeInvariant
      <4> QED BY <4>3, <4>4
    <3>4. CASE node[m] = 1
      <4>1. node'[m] = 0 /\ rises'[m] = rises[m]
        BY <2>2, <2>3, <3>4
      <4>2. CASE Seen(m)
        BY <1>2, <2>3, <3>1, <4>1, <4>2 DEF EdgeInvariant, Edge
      <4>3. CASE ~Seen(m)
        BY <1>2, <2>3, <3>1, <4>1, <4>3 DEF EdgeInvariant, Edge
      <4> QED BY <4>2, <4>3
    <3> QED BY <2>1, <3>3, <3>4
  <2> QED BY <1>3, <2>2, <2>4, <2>5
<1> QED BY <1>5, <1>6, <1>7, <1>8, <1>9 DEF Plc

\* The reading of a node: its level is now on the way.
LEMMA ReadEdges ==
  ASSUME HistorianServiceAssumption, EInv, ReadNext
  PROVE  EdgeTypes' /\ \A n \in SensorFields : EdgeInvariant(n)'
<1>1. /\ EdgeTypes /\ PlcInvariant /\ \A n \in SensorFields : EdgeInvariant(n)
      /\ process = "reading" /\ Len(sample) < Len(NodeSpecs)
      /\ sample' = Append(sample, node[NodeSpecs[Len(sample) + 1]])
      /\ UNCHANGED <<process, counts, last_state, node, rises>>
  BY DEF EInv, IInv, ReadNext, ReadNode, plcVars
<1>2. EdgeTypes'
  BY <1>1 DEF EdgeTypes
<1>3. ASSUME NEW n \in SensorFields
      PROVE  EdgeInvariant(n)'
  <2>1. EdgeInvariant(n) /\ Place(n) \in 1..Len(NodeSpecs) /\ NodeSpecs[Place(n)] = n
    BY <1>1, PlaceOf
  <2>2. Place(n)' = Place(n)
    BY DEF Place
  <2>3. Len(sample) \in Nat /\ Len(sample') = Len(sample) + 1
        /\ \A i \in 1..Len(sample) : sample'[i] = sample[i]
        /\ sample'[Len(sample) + 1] = node[NodeSpecs[Len(sample) + 1]]
    <3>1. sample \in Seq(Nat)
      BY <1>1 DEF PlcInvariant
    <3> QED BY <1>1, <3>1
  <2>4. node[n] \in {0, 1} /\ counts[n] \in Nat /\ rises[n] \in Nat
    BY <1>1 DEF PlcInvariant, EdgeTypes
  <2>5. CASE Place(n) \in 1..Len(sample)
    <3>1. Seen(n) /\ Seen(n)' /\ sample'[Place(n)] = sample[Place(n)]
      BY <1>1, <2>2, <2>3, <2>5 DEF Seen
    <3> QED BY <1>1, <2>1, <2>2, <3>1 DEF EdgeInvariant
  <2>6. CASE Place(n) = Len(sample) + 1
    <3>1. ~Seen(n) /\ Seen(n)' /\ sample'[Place(n)] = node[n]
      BY <1>1, <2>1, <2>2, <2>3, <2>6 DEF Seen
    <3> QED BY <1>1, <2>1, <2>2, <2>4, <3>1 DEF EdgeInvariant, Edge
  <2>7. CASE Place(n) \notin 1..Len(sample) /\ Place(n) # Len(sample) + 1
    <3>1. ~Seen(n) /\ ~Seen(n)'
      BY <1>1, <2>1, <2>2, <2>3, <2>7 DEF Seen
    <3> QED BY <1>1, <2>1, <3>1 DEF EdgeInvariant
  <2> QED BY <2>5, <2>6, <2>7
<1> QED BY <1>2, <1>3

\* The sample is complete: what was on its way is counted, or noted as a level.
LEMMA IngestEdges ==
  ASSUME HistorianServiceAssumption, EInv, IngestSample
  PROVE  EdgeTypes' /\ \A n \in SensorFields : EdgeInvariant(n)'
<1> DEFINE s == TelemetrySample(clock)
<1>1. /\ EdgeTypes /\ PlcInvariant /\ \A n \in SensorFields : EdgeInvariant(n)
      /\ process = "reading" /\ Len(sample) = Len(NodeSpecs) /\ SensorUpdate(s)
      /\ process' \in {"flushing", "sleeping"} /\ UNCHANGED <<sample, node, rises>>
  BY DEF EInv, IInv, IngestSample, Ingest, plcVars
<1>2. ASSUME NEW n \in SensorFields
      PROVE  Blocked(n, s) <=> sample[Place(n)] # 0
  BY <1>2 DEF Blocked, TelemetrySample, Place, HistorianServiceAssumption
<1> HIDE DEF s
<1>3. /\ counts' = [n \in SensorFields |-> IF n \in Rises(s) THEN counts[n] + 1 ELSE counts[n]]
      /\ last_state' = [n \in SensorFields |-> Blocked(n, s)]
  BY <1>1 DEF SensorUpdate
<1>4. EdgeTypes'
  <2>1. \A n \in SensorFields : Blocked(n, s) \in BOOLEAN
    BY DEF Blocked
  <2> QED BY <1>1, <1>3, <2>1 DEF EdgeTypes
<1>5. ASSUME NEW n \in SensorFields
      PROVE  EdgeInvariant(n)'
  <2>1. Seen(n) /\ ~Seen(n)'
    BY <1>1, PlaceOf DEF Seen
  <2>2. /\ sample[Place(n)] \in {0, 1} /\ (node[n] = 1 => rises[n] >= 1)
        /\ counts[n] + Edge(last_state[n], sample[Place(n)] = 1)
             + Edge(sample[Place(n)] = 1, node[n] = 1) <= rises[n]
    BY <1>1, <2>1 DEF EdgeInvariant
  <2>3. counts'[n] = counts[n] + Edge(last_state[n], sample[Place(n)] = 1)
        /\ (last_state'[n] <=> sample[Place(n)] = 1)
    <3>1. last_state'[n] <=> sample[Place(n)] = 1
      BY <1>2, <1>3, <2>2
    <3>2. counts[n] \in Nat
      BY <1>1 DEF EdgeTypes
    <3>3. n \in Rises(s) <=> sample[Place(n)] = 1 /\ ~last_state[n]
      BY <1>2, <2>2 DEF Rises
    <3> QED BY <1>3, <3>1, <3>2, <3>3 DEF Edge
  <2>4. Edge(last_state'[n], node[n] = 1) = Edge(sample[Place(n)] = 1, node[n] = 1)
    BY <2>3 DEF Edge
  <2> QED BY <1>1, <2>1, <2>2, <2>3, <2>4 DEF EdgeInvariant
<1> QED BY <1>4, <1>5

\* The other steps of the process count nothing, and a new one starts with the
\* level of the moment among its rises.
LEMMA OtherEdges ==
  ASSUME HistorianServiceAssumption, EInv, WriteLines \/ Proceed \/ Crash \/ Start
  PROVE  EdgeTypes' /\ \A n \in SensorFields : EdgeInvariant(n)'
<1>1. EdgeTypes /\ PlcInvariant /\ \A n \in SensorFields : EdgeInvariant(n)
  BY DEF EInv, IInv
<1>2. ASSUME NEW n \in SensorFields
      PROVE  /\ node[n] \in {0, 1} /\ counts[n] \in Nat /\ rises[n] \in Nat
             /\ EdgeInvariant(n) /\ Place(n)' = Place(n) /\ Place(n) \in Nat \ {0}
  <2>1. Place(n) \in Nat \ {0}
    BY PlaceOf, NodeSpecsFacts
  <2>2. Place(n)' = Place(n)
    BY DEF Place
  <2> QED BY <1>1, <2>1, <2>2 DEF PlcInvariant, EdgeTypes
<1>3. CASE WriteLines
  <2>1. UNCHANGED <<process, sample, counts, last_state, node, rises>>
    BY <1>3 DEF WriteLines, WriteBatch, plcVars
  <2> QED BY <1>1, <1>2, <2>1 DEF EdgeTypes, EdgeInvariant, Seen
<1>4. CASE Proceed /\ FlushDone(clock)
  <2>1. UNCHANGED <<sample, counts, last_state, node, rises>>
        /\ process = "flushing" /\ process' = "sleeping"
    BY <1>4 DEF Proceed, FlushDone, plcVars
  <2> QED BY <1>1, <1>2, <2>1 DEF EdgeTypes, EdgeInvariant, Seen
<1>5. CASE Proceed /\ NextSample(clock)
  <2>1. UNCHANGED <<counts, last_state, node, rises>>
        /\ process = "sleeping" /\ process' = "reading" /\ Len(sample') = 0
    BY <1>5 DEF Proceed, NextSample, plcVars
  <2> QED BY <1>1, <1>2, <2>1 DEF EdgeTypes, EdgeInvariant, Seen
<1>6. CASE Crash
  <2>1. /\ last_state' = [n \in SensorFields |-> FALSE]
        /\ counts' = [n \in SensorFields |-> 0]
        /\ process' = "down" /\ Len(sample') = 0 /\ UNCHANGED <<node, rises>>
    BY <1>6 DEF Crash, Fails, plcVars
  <2>2. EdgeTypes'
    BY <1>1, <2>1 DEF EdgeTypes
  <2> QED BY <1>1, <1>2, <2>1, <2>2 DEF EdgeInvariant, Seen, Edge
<1>7. CASE Start
  <2>1. /\ process = "down" /\ process' = "reading"
        /\ UNCHANGED <<sample, counts, last_state, node>>
        /\ rises' = [n \in SensorFields |-> Level(n)]
    BY <1>7 DEF Start, Restart, plcVars
  <2>2. EdgeTypes'
    BY <1>1, <2>1 DEF EdgeTypes, Level
  <2>3. ASSUME NEW n \in SensorFields
        PROVE  EdgeInvariant(n)'
    <3>1. counts[n] = 0 /\ ~last_state[n] /\ rises'[n] = node[n] /\ Len(sample) = 0
      BY <1>2, <2>1 DEF EdgeInvariant, Level
    <3>2. ~Seen(n)'
      BY <1>2, <2>1, <3>1 DEF Seen
    <3> QED BY <1>2, <2>1, <3>1, <3>2 DEF EdgeInvariant, Edge
  <2> QED BY <2>2, <2>3
<1> QED BY <1>3, <1>4, <1>5, <1>6, <1>7 DEF Proceed

LEMMA EdgesInit ==
  ASSUME HistorianServiceAssumption, HistorianInit PROVE EInv
<1>1. IInv
  BY HistorianInitIInv
<1>2. EdgeTypes
  BY DEF HistorianInit, ServiceInit, EdgeTypes
<1>3. ASSUME NEW n \in SensorFields
      PROVE  EdgeInvariant(n)
  <2>1. /\ node[n] = 0 /\ rises[n] = 0 /\ counts[n] = 0 /\ process = "reading"
        /\ Len(sample) = 0
    BY DEF HistorianInit, ServiceInit, HistorianServiceAssumption
  <2>2. ~Seen(n)
    BY <2>1, PlaceOf, NodeSpecsFacts DEF Seen
  <2> QED BY <2>1, <2>2 DEF EdgeInvariant, Edge
<1> QED BY <1>1, <1>2, <1>3 DEF EInv

LEMMA EdgesStep ==
  ASSUME HistorianServiceAssumption, HistorianCellAssumption, EInv,
         [HistorianNext]_cellVars
  PROVE  EInv'
<1>1. IInv'
  BY HistorianStepIInv DEF EInv
<1>2. EdgeTypes' /\ \A n \in SensorFields : EdgeInvariant(n)'
  <2>1. CASE UNCHANGED cellVars
    <3>1. UNCHANGED <<process, sample, counts, last_state, node, rises>>
      BY <2>1 DEF cellVars, serviceVars, plcVars
    <3> QED BY <3>1 DEF EInv, EdgeTypes, EdgeInvariant, Seen, Place
  <2> QED BY <2>1, PlcEdges, ReadEdges, IngestEdges, OtherEdges
             DEF HistorianNext, Historian
<1> QED BY <1>1, <1>2 DEF EInv

\* However slowly the historian samples and however often it is restarted: the
\* edges of a sensor it has counted are no more than there were.
THEOREM EdgesCorrect == HistorianSpec => []EdgesNotInvented
<1>1. HistorianInit => EInv
  BY EdgesInit, HistorianServiceAssumption
<1>2. EInv /\ [HistorianNext]_cellVars => EInv'
  BY EdgesStep, HistorianServiceAssumption, HistorianCellAssumption
<1>3. ASSUME EInv PROVE EdgesNotInvented
  <2>1. ASSUME NEW n \in SensorFields PROVE counts[n] <= rises[n]
    <3>1. counts[n] \in Nat /\ rises[n] \in Nat /\ EdgeInvariant(n)
      BY <1>3 DEF EInv, EdgeTypes
    <3> QED BY <3>1 DEF EdgeInvariant, Edge
  <2> QED BY <2>1 DEF EdgesNotInvented
<1> QED
  BY <1>1, <1>2, <1>3, PTL DEF HistorianSpec

------------------------------------------------------------------------------
(* The increments of a counter in a list of samples: the recursive functions of *)
(* IncrementTimes, by induction over the place in the list.                  *)

\* A set of natural numbers has a least element.
LEMMA LeastExists ==
  ASSUME NEW S, S \subseteq Nat, S # {}
  PROVE  \E i \in S : \A j \in S : i <= j
<1>1. PICK i \in S : \A j \in S : ~(<<j, i>> \in OpToRel(<, Nat))
  BY NatLessThanWellFounded, WFMin, Zenon
<1>2. ASSUME NEW j \in S PROVE i <= j
  <2>1. i \in Nat /\ j \in Nat
    OBVIOUS
  <2>2. ~(j < i)
    BY <1>1, <2>1 DEF OpToRel
  <2> QED
    BY <2>1, <2>2
<1> QED
  BY <1>2

\* Induction, for a set of natural numbers.
LEMMA InductionOverNat ==
  ASSUME NEW S, 0 \in S, \A m \in Nat : m \in S => m + 1 \in S
  PROVE  Nat \subseteq S
<1> SUFFICES ASSUME Nat \ S # {} PROVE FALSE
  OBVIOUS
<1>1. PICK i \in Nat \ S : \A j \in Nat \ S : i <= j
  BY LeastExists
<1>2. i \in Nat /\ i # 0 /\ i \notin S
  BY <1>1
<1>3. i - 1 \in Nat /\ i - 1 + 1 = i /\ ~(i <= i - 1)
  BY <1>2
<1>4. i - 1 \in S
  BY <1>1, <1>3
<1> QED
  BY <1>2, <1>3, <1>4

\* f is start carried through the steps up to n.
CarriedBy(step, start, n, f) ==
  \A i \in 1..n : f[i] = step[i][IF i = 1 THEN start ELSE f[i - 1]]

\* A value can be carried along a sequence: step says what becomes of it.
LEMMA Carried ==
  ASSUME NEW V, NEW start \in V, NEW n \in Nat,
         NEW step \in [1..n -> [V -> V]]
  PROVE  \E f \in [1..n -> V] : CarriedBy(step, start, n, f)
<1> DEFINE Before(f, i) == IF i = 1 THEN start ELSE f[i - 1]
           Good(f, m) == f \in [1..m -> V] /\ \A i \in 1..m : f[i] = step[i][Before(f, i)]
           S == {m \in Nat : m <= n => \E f : Good(f, m)}
<1>1. 0 \in S
  <2>1. Good([i \in 1..0 |-> start], 0)
    OBVIOUS
  <2> HIDE DEF Good
  <2> QED BY <2>1
<1>2. ASSUME NEW m \in Nat, m \in S, m + 1 <= n
      PROVE  \E f : Good(f, m + 1)
  <2>1. PICK f : Good(f, m)
    <3> HIDE DEF Good
    <3> QED BY <1>2
  <2> DEFINE g == [i \in 1..m + 1 |-> IF i = m + 1 THEN step[i][Before(f, i)] ELSE f[i]]
  <2>2. \A i \in 1..m : g[i] = f[i] /\ i # m + 1
    OBVIOUS
  <2>3. \A i \in 1..m + 1 : i = 1 \/ i - 1 \in 1..m
    OBVIOUS
  <2>4. \A i \in 1..m + 1 : Before(g, i) = Before(f, i)
    <3>1. \A i \in 1..m + 1 : i # 1 => g[i - 1] = f[i - 1]
      BY <2>2, <2>3
    <3> HIDE DEF g
    <3> QED BY <3>1
  <2>5. \A i \in 1..m + 1 : Before(f, i) \in V
    BY <2>1, <2>3
  <2>6. \A i \in 1..m + 1 : i = m + 1 \/ i \in 1..m
    OBVIOUS
  <2> HIDE DEF Before
  <2>8. \A i \in 1..m + 1 : step[i][Before(f, i)] \in V
    <3>1. \A i \in 1..m + 1 : i \in 1..n
      BY <1>2
    <3> QED BY <2>5, <3>1
  <2>7. g \in [1..m + 1 -> V]
    BY <2>1, <2>8, <2>6
  <2>9. ASSUME NEW i \in 1..m + 1 PROVE g[i] = step[i][Before(g, i)]
    <3>1. CASE i = m + 1
      BY <2>4, <3>1
    <3>2. CASE i \in 1..m
      BY <2>1, <2>2, <2>4, <3>2
    <3> QED BY <2>6, <3>1, <3>2
  <2> QED BY <2>7, <2>9
<1>3. n \in S
  <2> HIDE DEF Good
  <2>1. \A m \in Nat : m \in S => m + 1 \in S
    BY <1>2
  <2> HIDE DEF S
  <2> QED BY <1>1, <2>1, InductionOverNat
<1> QED
  BY <1>3 DEF CarriedBy

\* What the two recursive functions of IncrementTimes are: the counter as of
\* each sample, and the increments up to it.
Previous(samples, n, f) ==
  /\ f \in [1..Len(samples) -> Nat]
  /\ \A i \in 1..Len(samples) :
       f[i] = Value(samples[i], n, IF i = 1 THEN 0 ELSE f[i - 1])

Added(samples, f, i) == [k \in 1..(f[i] - f[i - 1]) |-> samples[i].time]

Increments(samples, f, g) ==
  /\ g \in [1..Len(samples) -> Seq(Nat)]
  /\ \A i \in 1..Len(samples) :
       g[i] = IF i = 1 THEN << >> ELSE g[i - 1] \o Added(samples, f, i)

Countable(samples, n) ==
  /\ Len(samples) \in Nat \ {0}
  /\ \A i \in 1..Len(samples) :
       samples[i].time \in Nat /\ \A x \in Nat : Value(samples[i], n, x) \in Nat

LEMMA PreviousExists ==
  ASSUME NEW samples, NEW n, Countable(samples, n)
  PROVE  Previous(samples, n,
           CHOOSE previous : previous = [i \in 1..Len(samples) |->
             Value(samples[i], n, IF i = 1 THEN 0 ELSE previous[i - 1])])
<1> DEFINE m == Len(samples)
           Body(f) == [i \in 1..m |-> Value(samples[i], n, IF i = 1 THEN 0 ELSE f[i - 1])]
           step == [i \in 1..m |-> [x \in Nat |-> Value(samples[i], n, x)]]
           previous == CHOOSE f : f = Body(f)
<1>1. m \in Nat \ {0} /\ \A i \in 1..m, x \in Nat : Value(samples[i], n, x) \in Nat
  BY DEF Countable
<1>2. \A i \in 1..m, x \in Nat : step[i][x] = Value(samples[i], n, x)
  OBVIOUS
<1>3. \E f \in [1..m -> Nat] : CarriedBy(step, 0, m, f)
  <2>1. step \in [1..m -> [Nat -> Nat]]
    BY <1>1
  <2>2. m \in Nat /\ 0 \in Nat
    BY <1>1
  <2> HIDE DEF step, m
  <2> QED BY <2>1, <2>2, Carried
<1>4. PICK f \in [1..m -> Nat] :
        \A i \in 1..m : f[i] = step[i][IF i = 1 THEN 0 ELSE f[i - 1]]
  BY <1>3 DEF CarriedBy
<1>5. \A i \in 1..m : i # 1 => i - 1 \in 1..m
  BY <1>1
<1> HIDE DEF step
<1>6. f = Body(f)
  <2>1. \A i \in 1..m : (IF i = 1 THEN 0 ELSE f[i - 1]) \in Nat
    BY <1>5
  <2> QED BY <1>2, <1>4, <2>1
<1>7. previous = Body(previous)
  BY <1>6
<1> HIDE DEF previous
<1>8. \A i \in 1..m : previous[i] = Value(samples[i], n, IF i = 1 THEN 0 ELSE previous[i - 1])
  BY <1>7
<1>9. \A i \in 1..m : previous[i] \in Nat
  <2> DEFINE S == {i \in Nat : i \in 1..m => previous[i] \in Nat}
  <2>1. 0 \in S
    OBVIOUS
  <2>2. ASSUME NEW i \in Nat, i \in S PROVE i + 1 \in S
    <3> SUFFICES ASSUME i + 1 \in 1..m PROVE previous[i + 1] \in Nat
      OBVIOUS
    <3>1. i = 0 \/ i \in 1..m
      BY <1>1
    <3> DEFINE x == IF i + 1 = 1 THEN 0 ELSE previous[i + 1 - 1]
    <3>2. x \in Nat
      BY <2>2, <3>1
    <3>3. previous[i + 1] = Value(samples[i + 1], n, x)
      BY <1>8
    <3> HIDE DEF x
    <3> QED BY <1>1, <3>2, <3>3
  <2> HIDE DEF S
  <2>3. Nat \subseteq S
    BY <2>1, <2>2, InductionOverNat
  <2> QED BY <2>3 DEF S
<1>10. previous \in [1..m -> Nat]
  BY <1>7, <1>9
<1> QED
  BY <1>8, <1>10 DEF Previous, previous

LEMMA AddedFacts ==
  ASSUME NEW samples, NEW f \in [1..Len(samples) -> Nat], Len(samples) \in Nat,
         NEW i \in 1..Len(samples), i # 1, samples[i].time \in Nat
  PROVE  /\ Added(samples, f, i) \in Seq(Nat)
         /\ Len(Added(samples, f, i)) \in Nat
         /\ Len(Added(samples, f, i)) = IF f[i] >= f[i - 1] THEN f[i] - f[i - 1] ELSE 0
<1>1. i - 1 \in 1..Len(samples)
  OBVIOUS
<1>2. f[i] \in Nat /\ f[i - 1] \in Nat
  BY <1>1
<1> DEFINE d == IF f[i] >= f[i - 1] THEN f[i] - f[i - 1] ELSE 0
           a == Added(samples, f, i)
<1>3. d \in Nat /\ 1..(f[i] - f[i - 1]) = 1..d
  BY <1>2
<1>4. a = [k \in 1..d |-> samples[i].time]
  BY <1>3 DEF Added
<1> HIDE DEF d
<1>5. a \in [1..d -> Nat]
  BY <1>4
<1> HIDE DEF a
<1>6. a \in Seq(Nat)
  BY <1>3, <1>5, SeqDef
<1>7. Len(a) = d
  BY <1>3, <1>5, <1>6, LenProperties
<1> QED
  BY <1>3, <1>6, <1>7 DEF d, a

LEMMA IncrementsExist ==
  ASSUME NEW samples, NEW n, Countable(samples, n)
  PROVE  \E f, g : /\ Previous(samples, n, f) /\ Increments(samples, f, g)
                   /\ IncrementTimes(samples, n) = g[Len(samples)]
<1> DEFINE m == Len(samples)
           previous == CHOOSE previous : previous = [i \in 1..m |->
             Value(samples[i], n, IF i = 1 THEN 0 ELSE previous[i - 1])]
           Body(g) == [i \in 1..m |-> IF i = 1 THEN << >>
                                       ELSE g[i - 1] \o Added(samples, previous, i)]
           increments == CHOOSE increments : increments = Body(increments)
           step == [i \in 1..m |-> [s \in Seq(Nat) |->
                     IF i = 1 THEN << >> ELSE s \o Added(samples, previous, i)]]
<1>1. Previous(samples, n, previous)
  BY PreviousExists
<1>2. IncrementTimes(samples, n) = increments[m]
  BY DEF IncrementTimes, Added
<1> HIDE DEF previous
<1>3. /\ m \in Nat \ {0} /\ << >> \in Seq(Nat)
      /\ \A i \in 1..m : i # 1 => i - 1 \in 1..m /\ Added(samples, previous, i) \in Seq(Nat)
  <2>1. m \in Nat \ {0} /\ previous \in [1..m -> Nat] /\ << >> \in Seq(Nat)
    BY <1>1, EmptySeq DEF Previous, Countable
  <2>2. \A i \in 1..m : i # 1 => i - 1 \in 1..m
    BY <2>1
  <2>3. \A i \in 1..m : i # 1 => Added(samples, previous, i) \in Seq(Nat)
    BY <2>1, AddedFacts DEF Countable
  <2> QED BY <2>1, <2>2, <2>3
<1>4. \A i \in 1..m, s \in Seq(Nat) :
        /\ step[i][s] = IF i = 1 THEN << >> ELSE s \o Added(samples, previous, i)
        /\ step[i][s] \in Seq(Nat)
  BY <1>3, ConcatProperties
<1>a. step \in [1..m -> [Seq(Nat) -> Seq(Nat)]]
  BY <1>4
<1> HIDE DEF step
<1>5. PICK g \in [1..m -> Seq(Nat)] :
        \A i \in 1..m : g[i] = step[i][IF i = 1 THEN << >> ELSE g[i - 1]]
  <2>1. m \in Nat /\ << >> \in Seq(Nat)
    BY <1>3
  <2>2. \E g \in [1..m -> Seq(Nat)] : CarriedBy(step, << >>, m, g)
    <3> HIDE DEF m
    <3> QED BY <1>a, <2>1, Carried
  <2> QED BY <2>2 DEF CarriedBy
<1>6. g = Body(g)
  <2>1. \A i \in 1..m : (IF i = 1 THEN << >> ELSE g[i - 1]) \in Seq(Nat)
    BY <1>3
  <2>2. \A i \in 1..m : g[i] = IF i = 1 THEN << >> ELSE g[i - 1] \o Added(samples, previous, i)
    BY <1>4, <1>5, <2>1
  <2> QED BY <2>2
<1>7. increments = Body(increments)
  BY <1>6
<1> HIDE DEF increments
<1>8. \A i \in 1..m : increments[i] =
        IF i = 1 THEN << >> ELSE increments[i - 1] \o Added(samples, previous, i)
  BY <1>7
<1>b. ASSUME NEW i \in 1..m, i = 1 \/ increments[i - 1] \in Seq(Nat)
      PROVE  increments[i] \in Seq(Nat)
<2>1. CASE i = 1
  BY <1>3, <1>8, <2>1
<2>2. CASE i # 1
  <3>1. increments[i] = increments[i - 1] \o Added(samples, previous, i)
    BY <1>8, <2>2
  <3>2. increments[i - 1] \in Seq(Nat) /\ Added(samples, previous, i) \in Seq(Nat)
    BY <1>3, <1>b, <2>2
  <3> QED BY <3>1, <3>2, ConcatProperties
<2> QED BY <2>1, <2>2
<1>9. \A i \in 1..m : increments[i] \in Seq(Nat)
  <2> DEFINE S == {i \in Nat : i \in 1..m => increments[i] \in Seq(Nat)}
  <2>1. 0 \in S
    OBVIOUS
  <2>2. ASSUME NEW i \in Nat, i \in S PROVE i + 1 \in S
    <3> SUFFICES ASSUME i + 1 \in 1..m PROVE increments[i + 1] \in Seq(Nat)
      OBVIOUS
    <3>1. i + 1 = 1 \/ i \in 1..m
      BY <1>3
    <3>2. i + 1 = 1 \/ increments[i + 1 - 1] \in Seq(Nat)
      BY <2>2, <3>1
    <3> QED BY <1>b, <3>2
  <2> HIDE DEF S
  <2>3. Nat \subseteq S
    BY <2>1, <2>2, InductionOverNat
  <2> QED BY <2>3 DEF S
<1>10. increments \in [1..m -> Seq(Nat)]
  BY <1>7, <1>9
<1>11. Increments(samples, previous, increments)
  BY <1>8, <1>10 DEF Increments
<1> QED
  BY <1>1, <1>2, <1>11

\* In a list of samples, T says how much the PLC had counted when a sample was
\* taken; a counter never gains more than that between two samples.
Bounded(samples, n, T) ==
  /\ T \in [1..Len(samples) -> Nat]
  /\ \A i, j \in 1..Len(samples) : i <= j => T[i] <= T[j]
  /\ \A i, j \in 1..Len(samples) :
       i < j /\ n \in DOMAIN samples[i].values /\ n \in DOMAIN samples[j].values
       => samples[j].values[n] - samples[i].values[n] <= T[j] - T[i]

\* As of sample i, the counter is as sample j showed it.
Shown(samples, n, T, f, g, i, j) ==
  /\ n \in DOMAIN samples[j].values /\ f[i] = samples[j].values[n]
  /\ Len(g[i]) \in Nat /\ Len(g[i]) <= T[j] - T[1] /\ f[i] - f[1] <= Len(g[i])

LEMMA ShownStep ==
  ASSUME NEW samples, NEW n, NEW T, NEW f, NEW g, Countable(samples, n),
         Bounded(samples, n, T), Previous(samples, n, f), Increments(samples, f, g),
         NEW i \in 1..Len(samples), i # 1, NEW j \in 1..(i - 1),
         Shown(samples, n, T, f, g, i - 1, j)
  PROVE  \E k \in 1..i : Shown(samples, n, T, f, g, i, k)
<1> DEFINE d == Added(samples, f, i)
<1>1. /\ Len(samples) \in Nat \ {0} /\ i - 1 \in 1..Len(samples)
      /\ 1 \in 1..Len(samples) /\ j \in 1..Len(samples) /\ j < i
  <2>1. Len(samples) \in Nat \ {0}
    BY DEF Countable
  <2> QED BY <2>1
<1>2. f[i] \in Nat /\ f[i - 1] \in Nat /\ f[1] \in Nat
  BY <1>1 DEF Previous
<1>3. Len(d) \in Nat /\ Len(d) = IF f[i] >= f[i - 1] THEN f[i] - f[i - 1] ELSE 0
  <2>1. f \in [1..Len(samples) -> Nat] /\ samples[i].time \in Nat /\ Len(samples) \in Nat
    BY <1>1 DEF Previous, Countable
  <2> HIDE DEF d
  <2>2. /\ Len(Added(samples, f, i)) \in Nat
        /\ Len(Added(samples, f, i)) = IF f[i] >= f[i - 1] THEN f[i] - f[i - 1] ELSE 0
    BY <2>1, AddedFacts
  <2> QED BY <2>2, Zenon DEF d
<1>a. d \in Seq(Nat)
  BY <1>1, AddedFacts DEF Previous, Countable
<1> HIDE DEF d
<1>4. g[i - 1] \in Seq(Nat) /\ g[i] = g[i - 1] \o d
  BY <1>1 DEF Increments, d
<1>5. Len(g[i]) = Len(g[i - 1]) + Len(d)
  BY <1>a, <1>4, ConcatProperties
<1>6. T[i] \in Nat /\ T[j] \in Nat /\ T[1] \in Nat /\ T[j] <= T[i]
  <2>1. j <= i
    BY <1>1
  <2> QED BY <1>1, <2>1 DEF Bounded
<1>7. f[i] = Value(samples[i], n, f[i - 1])
  BY <1>1 DEF Previous
<1>8. CASE n \in DOMAIN samples[i].values
  <2>1. f[i] = samples[i].values[n]
    BY <1>7, <1>8 DEF Value
  <2>2. f[i] - f[i - 1] <= T[i] - T[j]
    BY <1>1, <1>8, <2>1 DEF Shown, Bounded
  <2>3. Len(g[i]) \in Nat /\ Len(g[i]) <= T[i] - T[1] /\ f[i] - f[1] <= Len(g[i])
    <3>1. Len(g[i - 1]) \in Nat /\ Len(g[i - 1]) <= T[j] - T[1]
          /\ f[i - 1] - f[1] <= Len(g[i - 1])
      BY DEF Shown
    <3>2. Len(g[i - 1]) + Len(d) <= T[i] - T[1] /\ f[i] - f[1] <= Len(g[i - 1]) + Len(d)
      <4> DEFINE l == Len(g[i - 1])  e == Len(d)
      <4>1. /\ l \in Nat /\ l <= T[j] - T[1] /\ f[i - 1] - f[1] <= l
            /\ e = IF f[i] >= f[i - 1] THEN f[i] - f[i - 1] ELSE 0
        BY <1>3, <3>1
      <4> DEFINE a == f[i]  b == f[i - 1]  c == f[1]  t == T[j]  u == T[i]  w == T[1]
      <4>2. /\ a \in Nat /\ b \in Nat /\ c \in Nat /\ l \in Nat /\ e \in Nat
            /\ t \in Nat /\ u \in Nat /\ w \in Nat /\ t <= u /\ a - b <= u - t
            /\ l <= t - w /\ b - c <= l /\ e = IF a >= b THEN a - b ELSE 0
        BY <1>2, <1>3, <1>6, <2>2, <4>1
      <4> HIDE DEF l, e, a, b, c, t, u, w
      <4>3. l + e <= u - w /\ a - c <= l + e
        BY <4>2
      <4> QED BY <4>3 DEF l, e, a, c, u, w
    <3>3. Len(g[i - 1]) + Len(d) \in Nat
      BY <1>3, <3>1
    <3> QED BY <1>5, <3>2, <3>3
  <2>4. Shown(samples, n, T, f, g, i, i)
    BY <1>8, <2>1, <2>3 DEF Shown
  <2> QED BY <1>1, <2>4
<1>9. CASE n \notin DOMAIN samples[i].values
  <2>1. f[i] = f[i - 1]
    BY <1>7, <1>9 DEF Value
  <2>2. Len(d) = 0
    BY <1>2, <1>3, <2>1
  <2>3. Len(g[i]) = Len(g[i - 1])
    BY <1>5, <2>2 DEF Shown
  <2>4. Shown(samples, n, T, f, g, i, j) /\ j \in 1..i
    BY <1>1, <2>1, <2>3 DEF Shown
  <2> QED BY <2>4
<1> QED
  BY <1>8, <1>9

\* Neither the difference of the ends nor the increments exceed the count.
LEMMA IncrementsBounded ==
  ASSUME NEW samples, NEW n, NEW T, Countable(samples, n), Bounded(samples, n, T),
         n \in DOMAIN samples[1].values
  PROVE  LET last == samples[Len(samples)]
             delta == CounterDelta(samples[1].values[n], Value(last, n, 0))
             increments == Len(IncrementTimes(samples, n))
         IN delta <= increments /\ increments <= T[Len(samples)] - T[1]
<1> DEFINE m == Len(samples)
<1>1. m \in Nat \ {0} /\ 1 \in 1..m /\ m \in 1..m
  BY DEF Countable
<1>2. PICK f, g : /\ Previous(samples, n, f) /\ Increments(samples, f, g)
                  /\ IncrementTimes(samples, n) = g[m]
  BY IncrementsExist
<1>3. f[1] = samples[1].values[n] /\ f[1] \in Nat
  BY <1>1, <1>2 DEF Previous, Value
<1>4. Shown(samples, n, T, f, g, 1, 1)
  <2>1. g[1] = << >> /\ Len(g[1]) = 0
    BY <1>1, <1>2 DEF Increments
  <2>2. T[1] \in Nat
    BY <1>1 DEF Bounded
  <2> QED BY <1>3, <2>1, <2>2 DEF Shown
<1>5. \E j \in 1..m : Shown(samples, n, T, f, g, m, j)
  <2> DEFINE P(i) == i \in 1..m => \E j \in 1..i : Shown(samples, n, T, f, g, i, j)
             S == {i \in Nat : P(i)}
  <2>1. 0 \in S
    OBVIOUS
  <2>2. ASSUME NEW i \in Nat, i \in S PROVE P(i + 1)
    <3>1. CASE i = 0
      <4>1. 1 \in 1..(i + 1) /\ i + 1 = 1
        BY <3>1
      <4> QED BY <1>4, <4>1
    <3>2. CASE i # 0 /\ i + 1 \in 1..m
      <4>1. i \in 1..m /\ i + 1 # 1 /\ i + 1 - 1 = i
        BY <1>1, <3>2
      <4>2. PICK j \in 1..i : Shown(samples, n, T, f, g, i, j)
        BY <2>2, <4>1
      <4> DEFINE k == i + 1
      <4>3. k \in 1..Len(samples) /\ k # 1 /\ j \in 1..(k - 1)
            /\ Shown(samples, n, T, f, g, k - 1, j)
        BY <3>2, <4>1, <4>2
      <4> HIDE DEF k
      <4>4. \E l \in 1..k : Shown(samples, n, T, f, g, k, l)
        BY <1>2, <4>3, ShownStep
      <4> QED BY <4>4 DEF k
    <3> QED BY <3>1, <3>2
  <2>3. \A i \in Nat : i \in S => i + 1 \in S
    BY <2>2
  <2> HIDE DEF S
  <2>4. Nat \subseteq S
    BY <2>1, <2>3, InductionOverNat
  <2>5. P(m)
    BY <1>1, <2>4 DEF S
  <2> QED BY <1>1, <2>5
<1>6. PICK j \in 1..m : Shown(samples, n, T, f, g, m, j)
  BY <1>5
<1> DEFINE l == Len(g[m])
           v == Value(samples[m], n, 0)
<1>7. l \in Nat /\ l <= T[j] - T[1] /\ f[m] - f[1] <= l /\ f[m] \in Nat
  BY <1>1, <1>2, <1>6 DEF Shown, Previous
<1>8. T[j] <= T[m] /\ T[j] \in Nat /\ T[m] \in Nat /\ T[1] \in Nat
  BY <1>1 DEF Bounded
<1>9. v = f[m] \/ v = 0
  <2>1. f[m] = Value(samples[m], n, IF m = 1 THEN 0 ELSE f[m - 1])
    BY <1>1, <1>2 DEF Previous
  <2> QED BY <2>1 DEF Value
<1> HIDE DEF l, v, m
<1>10. l <= T[m] - T[1]
  BY <1>7, <1>8
<1>11. CounterDelta(f[1], v) <= l
  BY <1>3, <1>7, <1>9 DEF CounterDelta
<1>12. l = Len(IncrementTimes(samples, n))
  BY <1>2 DEF l
<1> QED
  BY <1>3, <1>10, <1>11, <1>12 DEF v, m

------------------------------------------------------------------------------
(* Sorting, and the samples that the API reads from the lines.               *)

\* The places that come before place i in the order of the keys.
Smaller(D, key, i) ==
  {j \in D : key[j] < key[i] \/ (key[j] = key[i] /\ j < i)}

Rank(D, key, i) == Cardinality(Smaller(D, key, i))

LEMMA RankBound ==
  ASSUME NEW m \in Nat, NEW D, D = 1..m, NEW key, NEW i \in 1..m, key[i] \in Int
  PROVE  Rank(D, key, i) \in 0..(m - 1)
<1> DEFINE B == Smaller(D, key, i)
<1>1. B \subseteq 1..m /\ i \notin B
  BY DEF Smaller
<1>2. IsFiniteSet(1..m) /\ Cardinality(1..m) = m
  BY FS_Interval
<1> HIDE DEF B
<1>3. IsFiniteSet(B) /\ Cardinality(B) \in Nat /\ Cardinality(B) <= m
      /\ (Cardinality(B) = m => B = 1..m)
  BY <1>1, <1>2, FS_Subset, FS_CardinalityType
<1> QED
  BY <1>1, <1>3 DEF Rank, B

LEMMA RankLess ==
  ASSUME NEW m \in Nat, NEW D, D = 1..m, NEW key, \A k \in 1..m : key[k] \in Int,
         NEW i \in 1..m, NEW j \in 1..m,
         key[j] < key[i] \/ (key[j] = key[i] /\ j < i)
  PROVE  Rank(D, key, j) < Rank(D, key, i)
<1> DEFINE B == Smaller(D, key, i)  C == Smaller(D, key, j)
<1>1. C \subseteq B /\ j \in B /\ j \notin C
  BY DEF Smaller
<1>2. B \subseteq 1..m /\ IsFiniteSet(1..m)
  <2>1. IsFiniteSet(1..m)
    BY FS_Interval
  <2> QED BY <2>1 DEF Smaller
<1> HIDE DEF B, C
<1>3. IsFiniteSet(B) /\ IsFiniteSet(C) /\ Cardinality(B) \in Nat /\ Cardinality(C) \in Nat
      /\ Cardinality(C) <= Cardinality(B) /\ (Cardinality(B) = Cardinality(C) => B = C)
  BY <1>1, <1>2, FS_Subset, FS_CardinalityType
<1> QED
  BY <1>1, <1>3 DEF Rank, B, C

\* sorted: a rearrangement by which no key comes before a smaller one.
Arranges(m, key, p) ==
  /\ p \in [1..m -> 1..m]
  /\ \A i, j \in 1..m : i < j => key[p[i]] <= key[p[j]]
  /\ \A i, j \in 1..m : p[i] = p[j] => i = j
  /\ \A i \in 1..m : \E k \in 1..m : p[k] = i

Chosen(D, key, k) == CHOOSE i \in D : Rank(D, key, i) = k - 1

LEMMA ChosenArranges ==
  ASSUME NEW m \in Nat, NEW D, D = 1..m, NEW key, \A k \in 1..m : key[k] \in Int
  PROVE  Arranges(m, key, [k \in D |-> Chosen(D, key, k)])
<1> DEFINE R(i) == Rank(D, key, i)
           p == [k \in D |-> CHOOSE i \in D : R(i) = k - 1]
           r == [i \in 1..m |-> R(i) + 1]
<1>1. \A i \in 1..m : R(i) \in 0..(m - 1)
  BY RankBound
<1>2. \A i, j \in 1..m : i # j => R(i) < R(j) \/ R(j) < R(i)
  <2>1. ASSUME NEW i \in 1..m, NEW j \in 1..m, i # j
        PROVE  R(i) < R(j) \/ R(j) < R(i)
    <3>1. key[i] \in Int /\ key[j] \in Int
      OBVIOUS
    <3>2. \/ key[j] < key[i] \/ (key[j] = key[i] /\ j < i)
          \/ key[i] < key[j] \/ (key[i] = key[j] /\ i < j)
      BY <2>1, <3>1
    <3> QED BY <3>2, RankLess
  <2> QED BY <2>1
<1>3. \A i, j \in 1..m : key[j] < key[i] => R(j) < R(i)
  BY RankLess
<1> HIDE DEF R
<1>5. \A i, j \in 1..m : R(i) = R(j) => i = j
  BY <1>1, <1>2
<1>6. \A k \in 1..m : \E i \in 1..m : R(i) = k - 1
  <2>1. r \in Injection(1..m, 1..m)
    <3>1. \A i \in 1..m : R(i) + 1 \in 1..m
      BY <1>1
    <3>2. r \in [1..m -> 1..m]
      BY <3>1
    <3>3. \A i, j \in 1..m : r[i] = r[j] => i = j
      BY <1>1, <1>5
    <3> QED BY <3>2, <3>3 DEF Injection, IsInjective
  <2>2. IsFiniteSet(1..m)
    BY FS_Interval
  <2> HIDE DEF r
  <2>3. r \in Surjection(1..m, 1..m)
    BY <2>1, <2>2, FS_Injection
  <2>4. \A k \in 1..m : \E i \in 1..m : r[i] = k
    BY <2>3 DEF Surjection
  <2>5. \A i \in 1..m : r[i] = R(i) + 1 /\ R(i) \in Nat
    BY <1>1 DEF r
  <2>6. ASSUME NEW k \in 1..m PROVE \E i \in 1..m : R(i) = k - 1
    <3>1. PICK i \in 1..m : r[i] = k
      BY <2>4
    <3>2. r[i] = R(i) + 1 /\ R(i) \in Nat
      BY <2>5
    <3>3. R(i) = k - 1
      BY <3>1, <3>2
    <3> QED BY <3>3
  <2> QED BY <2>6
<1>7. \A k \in 1..m : p[k] \in 1..m /\ R(p[k]) = k - 1
  BY <1>6
<1>8. p \in [1..m -> 1..m]
  BY <1>7
<1> HIDE DEF p
<1>9. ASSUME NEW i \in 1..m, NEW j \in 1..m, i < j PROVE key[p[i]] <= key[p[j]]
  <2>1. ~(R(p[j]) < R(p[i]))
    BY <1>7, <1>9
  <2>2. ~(key[p[j]] < key[p[i]])
    BY <1>3, <1>7, <2>1
  <2> QED BY <1>7, <2>2
<1>10. \A i, j \in 1..m : p[i] = p[j] => i = j
  <2>1. ASSUME NEW i \in 1..m, NEW j \in 1..m, p[i] = p[j] PROVE i = j
    <3>1. i - 1 = j - 1
      BY <1>7, <2>1
    <3> QED BY <3>1
  <2> QED BY <2>1
<1>11. ASSUME NEW i \in 1..m PROVE \E k \in 1..m : p[k] = i
  <2> DEFINE k == R(i) + 1
  <2>1. k \in 1..m /\ k - 1 = R(i)
    BY <1>1
  <2>2. R(p[k]) = R(i) /\ p[k] \in 1..m
    BY <1>7, <2>1
  <2>3. p[k] = i
    BY <1>5, <2>2
  <2> QED BY <2>1, <2>3
<1>12. Arranges(m, key, p)
  BY <1>8, <1>9, <1>10, <1>11 DEF Arranges
<1> QED
  BY <1>12 DEF Chosen, p, R

LEMMA Sorted ==
  ASSUME NEW s, NEW m \in Nat, DOMAIN s = 1..m, NEW key, \A k \in 1..m : key[k] \in Int
  PROVE  \E p : Arranges(m, key, p) /\ SortedBy(s, key) = [k \in 1..m |-> s[p[k]]]
<1> DEFINE D == DOMAIN s
           p == [k \in D |-> Chosen(D, key, k)]
<1>1. SortedBy(s, key) = [k \in D |-> s[Chosen(D, key, k)]]
  BY DEF SortedBy, Chosen, Rank, Smaller
<1>2. SortedBy(s, key) = [k \in 1..m |-> s[p[k]]]
  BY <1>1
<1>3. Arranges(m, key, p)
  <2> HIDE DEF D
  <2>1. D = 1..m
    BY DEF D
  <2> QED BY <2>1, ChosenArranges
<1> QED
  BY <1>2, <1>3

\* A finite set as a sequence without repetition.
LEMMA SetAsSequence ==
  ASSUME NEW T, IsFiniteSet(T)
  PROVE  /\ Cardinality(T) \in Nat
         /\ SetToSeq(T) \in [1..Cardinality(T) -> T]
         /\ \A i, j \in 1..Cardinality(T) : SetToSeq(T)[i] = SetToSeq(T)[j] => i = j
         /\ \A x \in T : \E i \in 1..Cardinality(T) : SetToSeq(T)[i] = x
<1> DEFINE c == Cardinality(T)
           f == SetToSeq(T)
<1>1. c \in Nat /\ ExistsBijection(1..c, T)
  BY FS_CardinalityType
<1>2. \E g \in [1..c -> T] : IsInjective(g)
  BY <1>1 DEF ExistsBijection, Bijection, Injection
<1>3. f \in [1..c -> T] /\ IsInjective(f)
  BY <1>2 DEF SetToSeq
<1>4. IsFiniteSet(1..c) /\ Cardinality(1..c) = c
  <2> HIDE DEF c
  <2> QED BY <1>1, FS_Interval
<1> HIDE DEF f
<1>5. f \in Injection(1..c, T)
  BY <1>3 DEF Injection
<1>6. f \in Surjection(1..c, T)
  BY <1>4, <1>5, FS_Injection
<1>7. \A i, j \in 1..c : f[i] = f[j] => i = j
  BY <1>3 DEF IsInjective
<1>8. \A x \in T : \E i \in 1..c : f[i] = x
  BY <1>6 DEF Surjection
<1> QED
  BY <1>1, <1>3, <1>7, <1>8 DEF f

\* The elements of a set of numbers, each once, in ascending order.
Ascending(T, times) ==
  /\ times \in [1..Cardinality(T) -> T]
  /\ \A i, j \in 1..Cardinality(T) : i < j => times[i] < times[j]
  /\ \A t \in T : \E i \in 1..Cardinality(T) : times[i] = t

LEMMA SortedTimes ==
  ASSUME NEW T, IsFiniteSet(T), T \subseteq Nat
  PROVE  Ascending(T, SortedBy(SetToSeq(T), SetToSeq(T)))
<1> DEFINE c == Cardinality(T)
           f == SetToSeq(T)
           s == SortedBy(f, f)
<1>1. /\ c \in Nat /\ f \in [1..c -> T] /\ \A i, j \in 1..c : f[i] = f[j] => i = j
      /\ \A x \in T : \E i \in 1..c : f[i] = x
  BY SetAsSequence
<1> HIDE DEF f, c
<1>2. \A k \in 1..c : f[k] \in Int
  <2>1. \A k \in 1..c : f[k] \in T
    BY <1>1
  <2>2. T \subseteq Int
    OBVIOUS
  <2> QED BY <2>1, <2>2
<1>3. PICK p : Arranges(c, f, p) /\ s = [k \in 1..c |-> f[p[k]]]
  <2>1. DOMAIN f = 1..c
    BY <1>1
  <2> QED BY <1>1, <1>2, <2>1, Sorted
<1> HIDE DEF s
<1>4. s \in [1..c -> T]
  BY <1>1, <1>3 DEF Arranges
<1>5. ASSUME NEW i \in 1..c, NEW j \in 1..c, i < j PROVE s[i] < s[j]
  <2>1. /\ f[p[i]] <= f[p[j]] /\ p[i] # p[j] /\ p[i] \in 1..c /\ p[j] \in 1..c
        /\ s[i] = f[p[i]] /\ s[j] = f[p[j]]
    <3>1. i # j
      BY <1>5
    <3> QED BY <1>3, <1>5, <3>1 DEF Arranges
  <2>2. f[p[i]] # f[p[j]] /\ f[p[i]] \in Int /\ f[p[j]] \in Int
    BY <1>1, <1>2, <2>1
  <2> QED BY <2>1, <2>2
<1>6. ASSUME NEW t \in T PROVE \E k \in 1..c : s[k] = t
  <2>1. PICK i \in 1..c : f[i] = t
    BY <1>1
  <2>2. PICK k \in 1..c : p[k] = i
    BY <1>3 DEF Arranges
  <2> QED BY <1>3, <2>1, <2>2
<1> QED
  BY <1>4, <1>5, <1>6 DEF Ascending, c, s, f

LEMMA LengthOf ==
  ASSUME NEW c \in Nat, NEW S, NEW f \in [1..c -> S]
  PROVE  Len(f) = c /\ f \in Seq(S)
<1>1. f \in Seq(S)
  BY SeqDef
<1> QED BY <1>1, LenProperties

\* What the API reads: a sample per time, in ascending order, with the values
\* of lines of that time.
ReadFrom(lines, now, w, samples) ==
  LET records == InRange(lines, now, w)
      T == {l.time : l \in records}
  IN /\ Len(samples) = Cardinality(T) /\ Cardinality(T) \in Nat
     /\ DOMAIN samples = 1..Cardinality(T)
     /\ Ascending(T, [i \in 1..Cardinality(T) |-> samples[i].time])
     /\ \A i \in 1..Cardinality(T) :
          /\ DOMAIN samples[i].values = {l.node : l \in {r \in records : r.time = samples[i].time}}
          /\ \A n \in DOMAIN samples[i].values :
               \E l \in records : /\ l.time = samples[i].time /\ l.node = n
                                  /\ samples[i].values[n] = l.value

LEMMA SamplesRead ==
  ASSUME NEW lines, NEW now \in Nat, NEW w, \A l \in lines : l.time \in 0..now
  PROVE  ReadFrom(lines, now, w, ReadSamples(lines, now, w))
<1> DEFINE records == InRange(lines, now, w)
           Grouped(t) == {l \in records : l.time = t}
           T == {l.time : l \in records}
           c == Cardinality(T)
           times == SortedBy(SetToSeq(T), SetToSeq(T))
           Sample(i) ==
             [time |-> times[i],
              values |-> [n \in {l.node : l \in Grouped(times[i])} |->
                            (CHOOSE l \in Grouped(times[i]) : l.node = n).value]]
           samples == ReadSamples(lines, now, w)
<1>1. records \subseteq lines
  BY DEF InRange
<1>2. T \subseteq Nat /\ IsFiniteSet(T)
  <2>1. T \subseteq 0..now
    BY <1>1
  <2>2. IsFiniteSet(0..now)
    BY FS_Interval
  <2> HIDE DEF T
  <2>3. T \in SUBSET (0..now)
    BY <2>1
  <2>4. IsFiniteSet(T)
    BY <2>2, <2>3, FS_Subset
  <2> QED BY <2>1, <2>4
<1>3. samples = [i \in DOMAIN times |-> Sample(i)]
  BY DEF ReadSamples
<1> HIDE DEF records, samples
<1>4. c \in Nat /\ Ascending(T, times)
  <2> HIDE DEF T
  <2> QED BY <1>2, SortedTimes, SetAsSequence
<1> HIDE DEF T, times
<1>5. times \in [1..c -> T] /\ DOMAIN times = 1..c
  BY <1>4 DEF Ascending
<1> HIDE DEF c
<1>6. Len(samples) = c /\ DOMAIN samples = 1..c
  <2> DEFINE S == {Sample(i) : i \in 1..c}
  <2>1. samples \in [1..c -> S]
    BY <1>3, <1>5
  <2>2. DOMAIN samples = 1..c
    BY <1>3, <1>5
  <2> HIDE DEF S
  <2> QED BY <1>4, <2>1, <2>2, LengthOf
<1>7. \A i \in 1..c : samples[i] = Sample(i)
  BY <1>3, <1>5
<1>8. ASSUME NEW i \in 1..c PROVE samples[i].time = times[i]
  <2>1. Sample(i).time = times[i]
    BY Zenon
  <2> QED BY <1>7, <2>1
<1>9. times = [i \in 1..c |-> samples[i].time]
  BY <1>5, <1>8
<1>10. ASSUME NEW i \in 1..c
       PROVE  /\ DOMAIN samples[i].values = {l.node : l \in Grouped(samples[i].time)}
              /\ \A n \in DOMAIN samples[i].values :
                   \E l \in records : /\ l.time = samples[i].time /\ l.node = n
                                      /\ samples[i].values[n] = l.value
  <2> DEFINE t == times[i]
             G == {l \in records : l.time = t}
             v == samples[i].values
  <2>1. v = [n \in {l.node : l \in G} |-> (CHOOSE l \in G : l.node = n).value]
    <3>1. samples[i] = Sample(i)
      BY <1>7
    <3>2. Sample(i).values = [n \in {l.node : l \in Grouped(times[i])} |->
                                (CHOOSE l \in Grouped(times[i]) : l.node = n).value]
      BY Zenon
    <3> HIDE DEF Sample
    <3> QED BY <3>1, <3>2
  <2>2. ASSUME NEW n \in {l.node : l \in G}
        PROVE  \E l \in records : l.time = t /\ l.node = n /\ v[n] = l.value
    <3> DEFINE l == CHOOSE l \in G : l.node = n
    <3>1. l \in G /\ l.node = n
      OBVIOUS
    <3>2. v[n] = l.value
      BY <2>1
    <3> QED BY <3>1, <3>2
  <2>3. samples[i].time = t
    BY <1>8
  <2>4. DOMAIN v = {l.node : l \in G} /\ G = Grouped(samples[i].time)
    BY <2>1, <2>3
  <2> HIDE DEF v, G, t
  <2>5. \A n \in DOMAIN v : \E l \in records : l.time = t /\ l.node = n /\ v[n] = l.value
    BY <2>2, <2>4
  <2> QED BY <2>3, <2>4, <2>5 DEF v
<1> QED
  BY <1>4, <1>6, <1>9, <1>10 DEF ReadFrom, T, c, records, samples

------------------------------------------------------------------------------
(* What the samples claim of a counter, and what the PLC counted.  The oldest *)
(* lines may belong to processes that have failed.                           *)

\* The lines that are stored or buffered, the times of samples of which
\* something is left, and, for a counter, what is left of its values.
Kept == stored \cup {items[i] : i \in DOMAIN items}
Times == {l.time : l \in Kept} \cup {window[i].time : i \in DOMAIN window}
Points(n) ==
  {<<l.time, l.value>> : l \in {k \in Kept : k.node = n}}
  \cup {<<window[i].time, window[i].values[n]>> : i \in DOMAIN window}

Sample == [time : Nat, values : [Nodes -> Nat]]

WindowInvariant ==
  /\ window \in Seq(Sample) /\ stored \subseteq Line
  /\ \A i, j \in 1..Len(window) : i < j => window[i].time < window[j].time
  /\ process = "down" => window = << >> /\ Len(sample) = 0

\* A sample that is being read is later than all of them.
TimeInvariant ==
  /\ timestamp <= clock
  /\ \A t \in Times : /\ t \in DOMAIN truth /\ t \in Nat /\ t <= clock
                      /\ process = "reading" => t < clock
                      /\ process \in {"sleeping", "flushing"} => t <= timestamp

\* What a counter lacks of the count never gets less: from one sample to the
\* next, from there to the value in the sample that is being read, and from
\* there to the node.
CounterInvariant(n) ==
  /\ made[n] \in Nat /\ read[n] \in Nat /\ read[n] <= made[n]
  /\ \A t \in Times : truth[t][n] \in Nat /\ truth[t][n] <= read[n]
  /\ \A t, u \in Times : t < u => truth[t][n] <= truth[u][n]
  /\ \A p \in Points(n) : /\ p[1] \in Times /\ p[2] \in Nat
                          /\ node[n] - p[2] <= made[n] - truth[p[1]][n]
  /\ \A p, q \in Points(n) :
       p[1] < q[1] => q[2] - p[2] <= truth[q[1]][n] - truth[p[1]][n]
  /\ Seen(n) =>
       /\ sample[Place(n)] \in Nat
       /\ node[n] - sample[Place(n)] <= made[n] - read[n]
       /\ \A p \in Points(n) : sample[Place(n)] - p[2] <= read[n] - truth[p[1]][n]

CountTypes ==
  /\ made \in [Counters -> Nat] /\ read \in [Counters -> Nat]
  /\ \A t \in DOMAIN truth : truth[t] \in [Counters -> Nat]

KInv == /\ IInv /\ WindowInvariant /\ TimeInvariant /\ CountTypes
        /\ \A n \in Counters : CounterInvariant(n)

\* At first there are no samples.
LEMMA KInit == HistorianServiceAssumption /\ HistorianCellAssumption /\ HistorianInit => KInv
<1> SUFFICES ASSUME HistorianServiceAssumption, HistorianCellAssumption, HistorianInit
             PROVE  KInv
  OBVIOUS
<1>1. IInv
  BY HistorianInitIInv
<1>2. /\ window = << >> /\ stored = {} /\ items = << >> /\ sample = << >> /\ process = "reading"
      /\ timestamp = 0 /\ clock = 0 /\ made = [n \in Counters |-> 0] /\ read = made
      /\ truth = << >>
  BY DEF HistorianInit, ServiceInit
<1>3. Times = {} /\ \A n \in Counters : Points(n) = {}
  BY <1>2 DEF Times, Points, Kept
<1>4. WindowInvariant /\ TimeInvariant
  BY <1>2, <1>3 DEF WindowInvariant, TimeInvariant
<1>5. CountTypes
  BY <1>2 DEF CountTypes
<1>6. ASSUME NEW n \in Counters PROVE CounterInvariant(n)
  <2>1. made[n] = 0 /\ read[n] = 0
    BY <1>2
  <2>2. ~Seen(n)
    <3>1. Len(sample) = 0
      BY <1>2
    <3> QED BY <3>1 DEF Seen
  <2> QED BY <1>3, <2>1, <2>2 DEF CounterInvariant
<1> QED
  BY <1>1, <1>4, <1>5, <1>6 DEF KInv

\* Whoever forgets samples, or counts and shows it, does no harm.
LEMMA CounterStays ==
  ASSUME NEW n \in Counters, CounterInvariant(n), node[n] \in Nat, node'[n] \in Nat,
         Times' \subseteq Times, Points(n)' \subseteq Points(n),
         \A p \in Points(n)' : p[1] \in Times',
         \A t \in Times' : truth'[t][n] = truth[t][n],
         read'[n] = read[n], made'[n] \in Nat, made[n] <= made'[n],
         node'[n] - node[n] <= made'[n] - made[n],
         Seen(n)' => Seen(n) /\ sample'[Place(n)] = sample[Place(n)]
  PROVE  CounterInvariant(n)'
<1>1. Place(n)' = Place(n)
  BY DEF Place
<1>2. made'[n] \in Nat /\ read'[n] \in Nat /\ read'[n] <= made'[n]
  BY DEF CounterInvariant
<1>3. \A t \in Times' : truth'[t][n] \in Nat /\ truth'[t][n] <= read'[n]
  BY DEF CounterInvariant
<1>4. \A t, u \in Times' : t < u => truth'[t][n] <= truth'[u][n]
  BY DEF CounterInvariant
<1>5. ASSUME NEW p \in Points(n)'
      PROVE  p[1] \in Times' /\ p[2] \in Nat /\ node'[n] - p[2] <= made'[n] - truth'[p[1]][n]
  <2> DEFINE a == node[n]  b == node'[n]  c == made[n]  d == made'[n]
             v == p[2]  t == truth[p[1]][n]
  <2>1. /\ a \in Nat /\ b \in Nat /\ c \in Nat /\ d \in Nat /\ v \in Nat /\ t \in Nat
        /\ a - v <= c - t /\ b - a <= d - c
        /\ p[1] \in Times' /\ truth'[p[1]][n] = t
    BY <1>5 DEF CounterInvariant
  <2> HIDE DEF a, b, c, d, v, t
  <2>2. b - v <= d - t
    BY <2>1
  <2> QED BY <2>1, <2>2 DEF b, v, d
<1>6. \A p, q \in Points(n)' :
        p[1] < q[1] => q[2] - p[2] <= truth'[q[1]][n] - truth'[p[1]][n]
  BY DEF CounterInvariant
<1>7. Seen(n)' => /\ sample'[Place(n)] \in Nat
                  /\ node'[n] - sample'[Place(n)] <= made'[n] - read'[n]
                  /\ \A p \in Points(n)' : sample'[Place(n)] - p[2] <= read'[n] - truth'[p[1]][n]
  <2> SUFFICES ASSUME Seen(n)'
               PROVE /\ sample'[Place(n)] \in Nat
                     /\ node'[n] - sample'[Place(n)] <= made'[n] - read'[n]
                     /\ \A p \in Points(n)' : sample'[Place(n)] - p[2] <= read'[n] - truth'[p[1]][n]
    OBVIOUS
  <2> DEFINE a == node[n]  b == node'[n]  c == made[n]  d == made'[n]
             v == sample[Place(n)]  r == read[n]
  <2>1. /\ a \in Nat /\ b \in Nat /\ c \in Nat /\ d \in Nat /\ v \in Nat /\ r \in Nat
        /\ a - v <= c - r /\ b - a <= d - c /\ sample'[Place(n)] = v /\ read'[n] = r
    BY DEF CounterInvariant
  <2>2. \A p \in Points(n)' : v - p[2] <= r - truth'[p[1]][n]
    BY DEF CounterInvariant
  <2> HIDE DEF a, b, c, d, v, r
  <2>3. b - v <= d - r
    BY <2>1
  <2> QED BY <2>1, <2>2, <2>3 DEF b, d
<1> QED
  BY <1>1, <1>2, <1>3, <1>4, <1>5, <1>6, <1>7 DEF CounterInvariant

\* Steps that leave the lines and the window alone.
LEMMA SamePoints ==
  ASSUME UNCHANGED <<stored, items, window>>
  PROVE  Times' = Times /\ \A n : Points(n)' = Points(n)
BY DEF Times, Points, Kept

\* A node has one place in the order of reading.
LEMMA PlaceOfNode ==
  ASSUME HistorianServiceAssumption, NEW n \in Nodes
  PROVE  /\ Place(n) \in 1..Len(NodeSpecs) /\ NodeSpecs[Place(n)] = n
         /\ \A i \in 1..Len(NodeSpecs) : NodeSpecs[i] = n => i = Place(n)
<1>1. \E i \in DOMAIN NodeSpecs : NodeSpecs[i] = n
  BY DEF Nodes
<1>2. Place(n) \in 1..Len(NodeSpecs) /\ NodeSpecs[Place(n)] = n
  BY <1>1, NodeSpecsFacts DEF Place
<1> QED BY <1>2, NodeSpecsFacts DEF HistorianServiceAssumption

\* The PLC counts, and a reset takes away from what a node shows only.
LEMMA PlcCounters ==
  ASSUME HistorianServiceAssumption, HistorianCellAssumption, KInv, Plc \/ Tick
  PROVE  KInv'
<1>1. /\ IInv /\ WindowInvariant /\ TimeInvariant /\ CountTypes
      /\ \A n \in Counters : CounterInvariant(n)
  BY DEF KInv
<1>2. IInv'
  BY <1>1, PlcStep
<1>3. /\ UNCHANGED <<stored, items, window, process, sample, timestamp, truth, read>>
      /\ clock \in Nat /\ clock' \in Nat /\ clock <= clock'
  <2>1. clock \in Nat
    BY <1>1 DEF IInv, PlcInvariant
  <2>2. UNCHANGED <<serviceVars, historyVars, stored>> /\ (clock' = clock \/ clock' = clock + 1)
    BY DEF Plc, Tick, Count, ResetCounters, Toggle, LogEvent, plcOnly
  <2>3. UNCHANGED <<stored, items, window, process, sample, timestamp, truth, read>>
    BY <2>2 DEF serviceVars, historyVars
  <2> QED BY <2>1, <2>2, <2>3
<1>4. Times' = Times /\ \A n : Points(n)' = Points(n)
  BY <1>3, SamePoints
<1>5. WindowInvariant'
  BY <1>1, <1>3 DEF WindowInvariant
<1>6. TimeInvariant'
  <2>1. timestamp \in Nat
    BY <1>1 DEF IInv, PlcInvariant
  <2> QED BY <1>1, <1>3, <1>4, <2>1 DEF TimeInvariant
<1>7. node \in [Nodes -> Nat] /\ node' \in [Nodes -> Nat] /\ Counters \subseteq Nodes \ SensorFields
      /\ Events \cap Counters = {} /\ Events \subseteq Nodes /\ SensorFields \subseteq Nodes
  BY <1>1, <1>2 DEF IInv, PlcInvariant, HistorianCellAssumption, HistorianServiceAssumption
<1>8. /\ made' \in [Counters -> Nat]
      /\ \A n \in Counters : /\ made[n] <= made'[n]
                             /\ node'[n] - node[n] <= made'[n] - made[n]
  <2>0. made \in [Counters -> Nat]
    BY <1>1 DEF CountTypes
  <2>1. ASSUME NEW m \in Counters, Count(m)
        PROVE  /\ made' \in [Counters -> Nat]
               /\ \A n \in Counters : /\ made[n] <= made'[n]
                                      /\ node'[n] - node[n] <= made'[n] - made[n]
    <3>1. /\ made' = [made EXCEPT ![m] = made[m] + 1] /\ node' = [node EXCEPT ![m] = node[m] + 1]
          /\ made[m] \in Nat /\ node[m] \in Nat
      BY <1>7, <2>0, <2>1 DEF Count
    <3>2. made' \in [Counters -> Nat]
      BY <2>0, <3>1
    <3>3. ASSUME NEW n \in Counters
          PROVE  made[n] <= made'[n] /\ node'[n] - node[n] <= made'[n] - made[n]
      <4>1. made[n] \in Nat /\ node[n] \in Nat
        BY <1>7, <2>0
      <4>2. CASE n = m
        <5>1. made'[n] = made[n] + 1 /\ node'[n] = node[n] + 1
          BY <1>7, <2>0, <3>1, <4>2
        <5> DEFINE a == node[n]  c == made[n]
        <5>2. (a + 1) - a = 1 /\ (c + 1) - c = 1 /\ c <= c + 1 /\ 1 <= 1
          <6>1. a \in Nat /\ c \in Nat
            BY <4>1
          <6> HIDE DEF a, c
          <6> QED BY <6>1
        <5> QED BY <5>1, <5>2
      <4>3. CASE n # m
        <5>1. made'[n] = made[n] /\ node'[n] = node[n]
          BY <1>7, <2>0, <3>1, <4>3
        <5>2. node[n] - node[n] = 0 /\ made[n] - made[n] = 0 /\ made[n] <= made[n]
          BY <4>1
        <5> QED BY <5>1, <5>2
      <4> QED BY <4>2, <4>3
    <3> QED BY <3>2, <3>3
  <2>2. ASSUME UNCHANGED made, \A n \in Counters : node'[n] = node[n] \/ node'[n] = 0
        PROVE  /\ made' \in [Counters -> Nat]
               /\ \A n \in Counters : /\ made[n] <= made'[n]
                                      /\ node'[n] - node[n] <= made'[n] - made[n]
    <3>1. ASSUME NEW n \in Counters
          PROVE  made[n] <= made'[n] /\ node'[n] - node[n] <= made'[n] - made[n]
      <4>1. made[n] \in Nat /\ node[n] \in Nat /\ node'[n] \in Nat /\ made'[n] = made[n]
        BY <1>7, <2>0, <2>2
      <4>3. node'[n] = node[n] \/ node'[n] = 0
        BY <2>2
      <4> DEFINE a == node[n]  b == node'[n]  c == made[n]
      <4>2. c - c = 0 /\ c <= c /\ b - a <= 0
        <5>1. a \in Nat /\ b \in Nat /\ c \in Nat /\ (b = a \/ b = 0)
          BY <4>1, <4>3
        <5> HIDE DEF a, b, c
        <5> QED BY <5>1
      <4> QED BY <4>1, <4>2
    <3> QED BY <2>0, <2>2, <3>1
  <2>3. CASE ResetCounters
    <3>1. UNCHANGED made /\ \A n \in Counters : node'[n] = 0
      BY <1>7, <2>3 DEF ResetCounters
    <3> QED BY <2>2, <3>1
  <2>4. ASSUME NEW m \in SensorFields, Toggle(m)
        PROVE  UNCHANGED made /\ \A n \in Counters : node'[n] = node[n]
    <3>1. \A n \in Counters : n # m
      BY <1>7
    <3> QED BY <1>7, <2>4, <3>1 DEF Toggle
  <2>5. ASSUME NEW m \in Events, LogEvent(m)
        PROVE  UNCHANGED made /\ \A n \in Counters : node'[n] = node[n]
    <3>1. \A n \in Counters : n # m
      BY <1>7
    <3> QED BY <1>7, <2>5, <3>1 DEF LogEvent
  <2>6. CASE Tick
    BY <2>2, <2>6 DEF Tick, plcVars
  <2> QED BY <2>1, <2>2, <2>3, <2>4, <2>5, <2>6 DEF Plc
<1>9. CountTypes'
  BY <1>1, <1>3, <1>8 DEF CountTypes
<1>10. ASSUME NEW n \in Counters PROVE CounterInvariant(n)'
  <2>1. CounterInvariant(n) /\ node[n] \in Nat /\ node'[n] \in Nat
    BY <1>1, <1>7
  <2>2. \A p \in Points(n)' : p[1] \in Times'
    BY <1>4, <2>1 DEF CounterInvariant
  <2>3. Seen(n)' => Seen(n) /\ sample'[Place(n)] = sample[Place(n)]
    BY <1>3 DEF Seen, Place
  <2>4. \A t \in Times' : truth'[t][n] = truth[t][n]
    BY <1>3
  <2>5. read'[n] = read[n] /\ made'[n] \in Nat
    BY <1>3, <1>8
  <2> QED BY <1>4, <1>8, <2>1, <2>2, <2>3, <2>4, <2>5, CounterStays
<1> QED
  BY <1>2, <1>5, <1>6, <1>9, <1>10 DEF KInv

\* The reading of a counter: its value is that of all it counted so far.
LEMMA ReadCounters ==
  ASSUME HistorianServiceAssumption, HistorianCellAssumption, KInv, ReadNext
  PROVE  KInv'
<1>1. /\ IInv /\ WindowInvariant /\ TimeInvariant /\ CountTypes
      /\ \A n \in Counters : CounterInvariant(n)
  BY DEF KInv
<1>2. IInv'
  BY <1>1, ReadStep
<1> DEFINE m == NodeSpecs[Len(sample) + 1]
<1>3. /\ UNCHANGED <<stored, items, window, process, timestamp, clock, truth, node, made>>
      /\ process = "reading" /\ Len(sample) < Len(NodeSpecs)
      /\ sample' = Append(sample, node[m])
      /\ read' = IF m \in Counters THEN [read EXCEPT ![m] = made[m]] ELSE read
  BY DEF ReadNext, ReadNode, plcVars
<1>4. Times' = Times /\ \A n : Points(n)' = Points(n)
  BY <1>3, SamePoints
<1>5. WindowInvariant'
  BY <1>1, <1>3 DEF WindowInvariant
<1>6. TimeInvariant'
  BY <1>1, <1>3, <1>4 DEF TimeInvariant
<1>7. Len(sample) \in Nat /\ Len(sample') = Len(sample) + 1
      /\ \A i \in 1..Len(sample) : sample'[i] = sample[i]
      /\ sample'[Len(sample) + 1] = node[m]
  <2>1. sample \in Seq(Nat)
    BY <1>1 DEF IInv, PlcInvariant
  <2> QED BY <1>3, <2>1
<1>8. m \in Nodes /\ Len(sample) + 1 \in 1..Len(NodeSpecs)
  BY <1>3, <1>7, NodeSpecsFacts
<1> HIDE DEF m
<1>9. CountTypes'
  BY <1>1, <1>3 DEF CountTypes
<1>10. node \in [Nodes -> Nat] /\ Counters \subseteq Nodes
  BY <1>1 DEF IInv, PlcInvariant, HistorianCellAssumption
<1>11. ASSUME NEW n \in Counters PROVE CounterInvariant(n)'
  <2>1. CounterInvariant(n) /\ node[n] \in Nat /\ Place(n)' = Place(n)
        /\ Place(n) \in 1..Len(NodeSpecs) /\ NodeSpecs[Place(n)] = n
        /\ (m = n <=> Place(n) = Len(sample) + 1)
    BY <1>1, <1>8, <1>10, PlaceOfNode DEF Place, m
  <2>2. CASE m = n
    <3>1. sample'[Place(n)] = node[n] /\ read'[n] = made[n]
      BY <1>1, <1>3, <1>7, <2>1, <2>2 DEF CountTypes
    <3>2. made'[n] \in Nat /\ read'[n] \in Nat /\ read'[n] <= made'[n]
      BY <1>3, <2>1, <3>1 DEF CounterInvariant
    <3>3. ASSUME NEW t \in Times' PROVE truth'[t][n] \in Nat /\ truth'[t][n] <= read'[n]
      <4> DEFINE v == truth[t][n]  r == read[n]  c == made[n]
      <4>1. v \in Nat /\ r \in Nat /\ c \in Nat /\ v <= r /\ r <= c
        BY <1>4, <2>1, <3>3 DEF CounterInvariant
      <4>2. truth'[t][n] = v /\ read'[n] = c
        BY <1>3, <3>1
      <4> HIDE DEF v, r, c
      <4>3. v <= c
        BY <4>1
      <4> QED BY <4>1, <4>2, <4>3
    <3>4. ASSUME NEW p \in Points(n)'
          PROVE  sample'[Place(n)] - p[2] <= read'[n] - truth'[p[1]][n]
      <4>1. node[n] - p[2] <= made[n] - truth[p[1]][n]
        BY <1>4, <2>1, <3>4 DEF CounterInvariant
      <4>2. truth' = truth
        BY <1>3
      <4> QED BY <3>1, <4>1, <4>2
    <3>5. sample'[Place(n)] \in Nat /\ node'[n] - sample'[Place(n)] <= made'[n] - read'[n]
      <4>1. node[n] \in Nat /\ made[n] \in Nat /\ node'[n] = node[n] /\ made'[n] = made[n]
        BY <1>3, <2>1, <3>2
      <4>2. node[n] - node[n] = 0 /\ made[n] - made[n] = 0 /\ 0 <= 0
        BY <4>1
      <4> QED BY <3>1, <4>1, <4>2
    <3>6. /\ \A t, u \in Times' : t < u => truth'[t][n] <= truth'[u][n]
          /\ \A p \in Points(n)' : /\ p[1] \in Times' /\ p[2] \in Nat
                                   /\ node'[n] - p[2] <= made'[n] - truth'[p[1]][n]
          /\ \A p, q \in Points(n)' :
               p[1] < q[1] => q[2] - p[2] <= truth'[q[1]][n] - truth'[p[1]][n]
      BY <1>3, <1>4, <2>1 DEF CounterInvariant
    <3> QED BY <2>1, <3>2, <3>3, <3>4, <3>5, <3>6 DEF CounterInvariant
  <2>3. CASE m # n
    <3>1. Seen(n)' => Seen(n) /\ sample'[Place(n)] = sample[Place(n)]
      BY <1>3, <1>7, <2>1, <2>3 DEF Seen
    <3>2. read'[n] = read[n]
      BY <1>1, <1>3, <2>3 DEF CountTypes
    <3>3. /\ node'[n] = node[n] /\ made'[n] = made[n] /\ made[n] \in Nat
          /\ \A p \in Points(n)' : p[1] \in Times'
          /\ \A t \in Times' : truth'[t][n] = truth[t][n]
      BY <1>3, <1>4, <2>1 DEF CounterInvariant
    <3>4. made[n] <= made'[n] /\ node'[n] - node[n] <= made'[n] - made[n] /\ node'[n] \in Nat
      <4>1. node[n] \in Nat /\ made[n] \in Nat /\ node'[n] = node[n] /\ made'[n] = made[n]
        BY <2>1, <3>3
      <4>2. node[n] - node[n] = 0 /\ made[n] - made[n] = 0 /\ made[n] <= made[n] /\ 0 <= 0
        BY <4>1
      <4> QED BY <4>1, <4>2
    <3> QED BY <1>4, <2>1, <3>1, <3>2, <3>3, <3>4, CounterStays
  <2> QED BY <2>2, <2>3
<1> QED
  BY <1>2, <1>5, <1>6, <1>9, <1>11 DEF KInv

\* What is kept of the samples starts with the oldest that is not too old.
LEMMA TrimPlace ==
  ASSUME NEW all, NEW m \in Nat \ {0}, DOMAIN all = 1..m, Len(all) = m, NEW now \in Nat,
         all[m].time = now, KpiWindow \in Nat
  PROVE  \E k \in 1..m : /\ TrimWindow(all, now) = SubSeq(all, k, m)
                         /\ now - all[k].time <= KpiWindow
                         /\ \A j \in 1..m : now - all[j].time <= KpiWindow => k <= j
<1> DEFINE kept == {i \in DOMAIN all : now - all[i].time <= KpiWindow}
           k == CHOOSE i \in kept : \A j \in kept : i <= j
<1>1. m \in kept /\ kept \subseteq 1..m /\ kept \subseteq Nat
  OBVIOUS
<1>2. TrimWindow(all, now) = SubSeq(all, k, m)
  BY DEF TrimWindow
<1>3. k \in kept /\ \A j \in kept : k <= j
  <2> HIDE DEF kept
  <2>1. \E i \in kept : \A j \in kept : i <= j
    BY <1>1, LeastExists
  <2> QED BY <2>1
<1> HIDE DEF k
<1> QED
  BY <1>1, <1>2, <1>3

\* Appending a sample and trimming: the new sample is the last, the order is
\* kept, and exactly what is too old has gone.
Trims(W, s, now, w) ==
  /\ w \in Seq(Sample) /\ Len(w) \in Nat \ {0} /\ w[Len(w)] = s
  /\ \A i, j \in 1..Len(w) : i < j => w[i].time < w[j].time
  /\ \A i \in 1..Len(w) : w[i] = s \/ \E j \in 1..Len(W) : w[i] = W[j]
  /\ \A i \in 1..Len(w) : now - w[i].time <= KpiWindow
  /\ \A j \in 1..Len(W) : now - W[j].time <= KpiWindow => \E i \in 1..Len(w) : w[i] = W[j]

LEMMA Trimming ==
  ASSUME HistorianServiceAssumption, NEW W \in Seq(Sample), NEW s \in Sample,
         NEW now \in Nat, s.time = now, \A i \in 1..Len(W) : W[i].time < now,
         \A i, j \in 1..Len(W) : i < j => W[i].time < W[j].time
  PROVE  Trims(W, s, now, TrimWindow(Append(W, s), now))
<1> DEFINE all == Append(W, s)
           l == Len(W)
           m == l + 1
           w == TrimWindow(all, now)
<1>1. l \in Nat /\ KpiWindow \in Nat
  BY LenProperties DEF HistorianServiceAssumption
<1>2. /\ all \in Seq(Sample) /\ Len(all) = m /\ DOMAIN all = 1..m
      /\ all[m] = s /\ \A i \in 1..l : all[i] = W[i]
  BY LenProperties
<1>3. \A i \in 1..m : all[i] \in Sample
  BY <1>2, ElementOfSeq
<1>a. \A i \in 1..m : all[i].time \in Nat
  BY <1>3 DEF Sample
<1> HIDE DEF all
<1>4. m \in Nat \ {0}
  BY <1>1
<1>5. \A i \in 1..m : i \in 1..l \/ i = m
  BY <1>1
<1>6. PICK k \in 1..m : /\ w = SubSeq(all, k, m) /\ now - all[k].time <= KpiWindow
                        /\ \A j \in 1..m : now - all[j].time <= KpiWindow => k <= j
  <2> HIDE DEF m
  <2> QED BY <1>1, <1>2, <1>4, TrimPlace
<1> HIDE DEF l, w
<1>7. \A i, j \in 1..m : i < j => all[i].time < all[j].time
  <2>1. ASSUME NEW i \in 1..m, NEW j \in 1..m, i < j PROVE all[i].time < all[j].time
    <3>1. i \in 1..l /\ all[i] = W[i]
      BY <1>1, <1>2, <2>1
    <3>2. CASE j = m
      BY <1>2, <3>1, <3>2 DEF l
    <3>3. CASE j \in 1..l
      <4>1. all[j] = W[j]
        BY <1>2, <3>3
      <4> QED BY <2>1, <3>1, <3>3, <4>1 DEF l
    <3> QED BY <1>5, <3>2, <3>3
  <2> QED BY <2>1
<1>8. /\ w \in Seq(Sample) /\ Len(w) = m - k + 1
      /\ \A i \in 1..(m - k + 1) : w[i] = all[k + i - 1]
  <2>1. m \in Int /\ k \in Int /\ k <= m /\ \A i \in k..m : all[i] \in Sample
    BY <1>1, <1>3
  <2> HIDE DEF m
  <2> QED BY <1>6, <2>1, SubSeqProperties
<1>9. /\ Len(w) \in Nat \ {0} /\ k + Len(w) - 1 = m /\ Len(w) \in 1..(m - k + 1)
      /\ \A i \in 1..Len(w) : i \in 1..(m - k + 1) /\ k + i - 1 \in 1..m /\ k + i - 1 >= k
  <2>1. Len(w) = m - k + 1
    BY <1>8
  <2> QED BY <1>1, <2>1
<1>10. \A i \in 1..Len(w) : w[i] = all[k + i - 1]
  BY <1>8, <1>9
<1>11. w[Len(w)] = s
  <2>1. Len(w) \in 1..Len(w)
    BY <1>9
  <2>2. w[Len(w)] = all[k + Len(w) - 1]
    BY <1>10, <2>1
  <2> QED BY <1>2, <1>9, <2>2
<1>12. ASSUME NEW i \in 1..Len(w), NEW j \in 1..Len(w), i < j PROVE w[i].time < w[j].time
  <2>1. k + i - 1 < k + j - 1
    BY <1>9, <1>12
  <2> QED BY <1>7, <1>9, <1>10, <2>1
<1>13. ASSUME NEW i \in 1..Len(w)
       PROVE  /\ w[i] = s \/ \E j \in 1..Len(W) : w[i] = W[j]
              /\ now - w[i].time <= KpiWindow
  <2> DEFINE j == k + i - 1
  <2>1. j \in 1..m /\ j >= k /\ w[i] = all[j]
    BY <1>9, <1>10
  <2> HIDE DEF j
  <2>2. w[i] = s \/ \E h \in 1..Len(W) : w[i] = W[h]
    BY <1>2, <1>5, <2>1 DEF l
  <2>3. all[k].time <= all[j].time /\ all[k].time \in Nat /\ all[j].time \in Nat
    <3>1. CASE j = k
      <4>1. all[k].time <= all[k].time /\ all[k].time \in Nat
        BY <1>a
      <4> QED BY <3>1, <4>1
    <3>2. CASE j # k
      <4>1. k < j
        BY <1>1, <2>1, <3>2
      <4> DEFINE a == all[k].time  b == all[j].time
      <4>2. a \in Nat /\ b \in Nat /\ a < b
        BY <1>7, <1>a, <2>1, <4>1
      <4> HIDE DEF a, b
      <4>3. a <= b /\ a \in Nat /\ b \in Nat
        BY <4>2
      <4> QED BY <4>3 DEF a, b
    <3> QED BY <3>1, <3>2
  <2>4. now - all[j].time <= KpiWindow
    <3> DEFINE a == all[k].time  b == all[j].time
    <3>1. a \in Nat /\ b \in Nat /\ a <= b /\ now - a <= KpiWindow /\ KpiWindow \in Nat
      BY <1>1, <1>6, <2>3
    <3> HIDE DEF a, b
    <3>2. now - b <= KpiWindow
      BY <3>1
    <3> QED BY <3>2 DEF b
  <2> QED BY <2>1, <2>2, <2>4
<1>14. ASSUME NEW j \in 1..Len(W), now - W[j].time <= KpiWindow
       PROVE  \E i \in 1..Len(w) : w[i] = W[j]
  <2>1. j \in 1..l /\ j \in 1..m /\ all[j] = W[j]
    BY <1>1, <1>2 DEF l
  <2>2. k <= j
    BY <1>6, <1>14, <2>1
  <2> DEFINE i == j - k + 1
  <2>3. i \in 1..(m - k + 1) /\ k + i - 1 = j
    BY <1>1, <2>1, <2>2
  <2>4. i \in 1..Len(w) /\ w[i] = all[k + i - 1]
    BY <1>8, <2>3
  <2> QED BY <2>1, <2>3, <2>4
<1> QED
  BY <1>8, <1>9, <1>11, <1>12, <1>13, <1>14 DEF Trims, w, all

\* The elements of a sequence and of what is appended to it.
JoinOf(S, a, b, c) ==
  /\ c \in Seq(S) /\ Len(c) \in Nat /\ Len(c) = Len(a) + Len(b)
  /\ Len(a) \in Nat /\ Len(b) \in Nat /\ DOMAIN a = 1..Len(a) /\ DOMAIN b = 1..Len(b)
  /\ DOMAIN c = 1..Len(c)
  /\ \A i \in 1..Len(a) : i \in 1..Len(c) /\ c[i] = a[i]
  /\ \A i \in 1..Len(b) : Len(a) + i \in 1..Len(c) /\ c[Len(a) + i] = b[i]
  /\ \A i \in 1..Len(c) : (\E j \in 1..Len(a) : c[i] = a[j]) \/ \E j \in 1..Len(b) : c[i] = b[j]

LEMMA Joined ==
  ASSUME NEW S, NEW a \in Seq(S), NEW b \in Seq(S)
  PROVE  JoinOf(S, a, b, a \o b)
<1> DEFINE c == a \o b  k == Len(a)  m == Len(b)
<1>1. k \in Nat /\ m \in Nat /\ DOMAIN a = 1..k /\ DOMAIN b = 1..m
  BY LenProperties
<1>2. /\ c \in Seq(S) /\ Len(c) = k + m
      /\ \A i \in 1..(k + m) : c[i] = IF i <= k THEN a[i] ELSE b[i - k]
  BY ConcatProperties
<1> HIDE DEF c, k, m
<1>3. Len(c) \in Nat /\ DOMAIN c = 1..Len(c)
  BY <1>2, LenProperties
<1>4. ASSUME NEW i \in 1..k PROVE i \in 1..Len(c) /\ c[i] = a[i]
  <2>1. i \in 1..(k + m) /\ i <= k
    BY <1>1
  <2> QED BY <1>2, <2>1
<1>5. ASSUME NEW i \in 1..m PROVE k + i \in 1..Len(c) /\ c[k + i] = b[i]
  <2>1. k + i \in 1..(k + m) /\ ~(k + i <= k) /\ (k + i) - k = i
    BY <1>1
  <2> QED BY <1>2, <2>1
<1>6. ASSUME NEW i \in 1..Len(c)
      PROVE  (\E j \in 1..k : c[i] = a[j]) \/ \E j \in 1..m : c[i] = b[j]
  <2>1. CASE i <= k
    <3>1. i \in 1..k
      BY <1>1, <1>2, <2>1
    <3> QED BY <1>4, <3>1
  <2>2. CASE ~(i <= k)
    <3>1. i - k \in 1..m /\ i \in 1..(k + m)
      BY <1>1, <1>2, <2>2
    <3> QED BY <1>2, <2>2, <3>1
  <2> QED BY <2>1, <2>2
<1>7. /\ c \in Seq(S) /\ Len(c) \in Nat /\ Len(c) = k + m /\ k \in Nat /\ m \in Nat
      /\ DOMAIN a = 1..k /\ DOMAIN b = 1..m /\ DOMAIN c = 1..Len(c)
  BY <1>1, <1>2, <1>3
<1>8. /\ \A i \in 1..k : i \in 1..Len(c) /\ c[i] = a[i]
      /\ \A i \in 1..m : k + i \in 1..Len(c) /\ c[k + i] = b[i]
      /\ \A i \in 1..Len(c) : (\E j \in 1..k : c[i] = a[j]) \/ \E j \in 1..m : c[i] = b[j]
  BY <1>4, <1>5, <1>6
<1> QED
  BY <1>7, <1>8 DEF JoinOf, c, k, m

\* The lines of a sample that are about a node have the sample's value of it,
\* and there is one for every node.
LinesOf(lines, s) ==
  /\ \A i \in 1..Len(lines) :
       lines[i].node \in Nodes => lines[i].value = s.values[lines[i].node]
  /\ \A n \in Nodes : \E i \in 1..Len(lines) :
       lines[i] = [time |-> s.time, node |-> n, value |-> s.values[n]]

LEMMA LinesOfSample ==
  ASSUME HistorianServiceAssumption, HistorianCellAssumption, NEW s \in Sample
  PROVE  LinesOf(Lines(s), s)
<1> DEFINE L == Len(NodeSpecs)
           Row(i) == [time |-> s.time, node |-> NodeSpecs[i],
                      value |-> s.values[NodeSpecs[i]]]
           nodes == [i \in 1..L |-> Row(i)]
           edge == [time |-> s.time, node |-> "sensor_counts", value |-> 0]
           edges == IF Rises(s) = {} THEN << >> ELSE <<edge>>
           kpi == [time |-> s.time, node |-> "computed_kpis", value |-> 0]
           LineShape == {Row(i) : i \in 1..L} \cup {edge, kpi}
           lines == Lines(s)
<1>1. L \in Nat /\ DOMAIN NodeSpecs = 1..L
  BY NodeSpecsFacts
<1>2. lines = nodes \o edges \o <<kpi>>
  BY <1>1 DEF Lines
<1>3. nodes \in Seq(LineShape) /\ Len(nodes) = L
  <2>1. nodes \in [1..L -> LineShape]
    OBVIOUS
  <2> HIDE DEF nodes, LineShape
  <2> QED BY <1>1, <2>1, LengthOf
<1>4. edges \in Seq(LineShape) /\ <<kpi>> \in Seq(LineShape)
  <2>1. edge \in LineShape /\ kpi \in LineShape
    OBVIOUS
  <2> HIDE DEF edge, kpi, LineShape
  <2> QED BY <2>1
<1>5. \A a \in LineShape : a.node \in Nodes => \E i \in 1..L : a = Row(i)
  <2>1. edge.node \notin Nodes /\ kpi.node \notin Nodes
    BY DEF HistorianCellAssumption
  <2> QED BY <2>1
<1>6. \A i \in 1..L : nodes[i] = Row(i)
  OBVIOUS
<1> HIDE DEF nodes, edges, kpi, LineShape, lines, edge
<1>7. /\ lines \in Seq(LineShape) /\ Len(lines) \in Nat /\ L <= Len(lines)
      /\ \A i \in 1..L : lines[i] = nodes[i]
  <2> DEFINE front == nodes \o edges
  <2>1. /\ front \in Seq(LineShape) /\ Len(front) = L + Len(edges) /\ Len(edges) \in Nat
        /\ \A i \in 1..L : i \in 1..Len(front) /\ front[i] = nodes[i]
    <3>1. JoinOf(LineShape, nodes, edges, front)
      BY <1>3, <1>4, Joined
    <3> HIDE DEF front
    <3> QED BY <1>3, <3>1 DEF JoinOf
  <2>2. lines = front \o <<kpi>>
    BY <1>2
  <2> HIDE DEF front
  <2>3. /\ lines \in Seq(LineShape) /\ Len(lines) = Len(front) + Len(<<kpi>>)
        /\ Len(lines) \in Nat /\ Len(<<kpi>>) \in Nat
        /\ \A i \in 1..Len(front) : lines[i] = front[i]
    <3>1. JoinOf(LineShape, front, <<kpi>>, lines)
      BY <1>4, <2>1, <2>2, Joined
    <3> QED BY <3>1 DEF JoinOf
  <2>4. L <= Len(lines)
    BY <1>1, <2>1, <2>3
  <2> QED BY <2>1, <2>3, <2>4
<1>8. ASSUME NEW i \in 1..Len(lines), lines[i].node \in Nodes
      PROVE  lines[i].value = s.values[lines[i].node]
  <2>1. lines[i] \in LineShape
    BY <1>7, ElementOfSeq
  <2>2. PICK j \in 1..L : lines[i] = Row(j)
    BY <1>5, <1>8, <2>1
  <2> QED BY <2>2
<1>9. ASSUME NEW n \in Nodes
      PROVE  \E i \in 1..Len(lines) :
               lines[i] = [time |-> s.time, node |-> n, value |-> s.values[n]]
  <2>1. PICK i \in 1..L : NodeSpecs[i] = n
    BY <1>1 DEF Nodes
  <2>2. i \in 1..Len(lines)
    BY <1>1, <1>7
  <2>3. lines[i] = Row(i)
    BY <1>6, <1>7
  <2> QED BY <2>1, <2>2, <2>3
<1> QED
  BY <1>8, <1>9 DEF LinesOf, lines

\* What the ingestion of a sample does.
LEMMA Ingested ==
  ASSUME HistorianServiceAssumption, HistorianCellAssumption, IInv, IngestSample
  PROVE  LET s == TelemetrySample(clock) IN
         /\ s \in Sample /\ s.time = clock
         /\ \A n \in Nodes : s.values[n] = sample[Place(n)]
         /\ Lines(s) \in Seq(Line) /\ \A i \in 1..Len(Lines(s)) : Lines(s)[i].time = clock
         /\ LinesOf(Lines(s), s)
         /\ items' = items \o Lines(s) /\ ledger' = ledger \o Lines(s)
         /\ window' = TrimWindow(Append(window, s), clock)
<1> DEFINE s == TelemetrySample(clock)
           lines == Lines(s)
<1>1. clock \in Nat /\ sample \in Seq(Nat) /\ Len(sample) = Len(NodeSpecs)
  BY DEF IInv, PlcInvariant, IngestSample, Ingest
<1>2. s \in Sample /\ s.time = clock
  <2>1. s.time = clock /\ s.values \in [Nodes -> Nat]
    BY <1>1, SampleValues
  <2>2. s = [time |-> clock, values |-> s.values]
    BY DEF TelemetrySample
  <2> HIDE DEF s
  <2> QED BY <1>1, <2>1, <2>2 DEF Sample
<1>3. \A n \in Nodes : s.values[n] = sample[Place(n)]
  BY DEF TelemetrySample, Place
<1> HIDE DEF s
<1>4. s.values \in [Nodes -> Nat]
  BY <1>2 DEF Sample
<1>5. /\ lines \in Seq(Line) /\ Len(lines) <= Len(NodeSpecs) + 2
      /\ \A i \in 1..Len(lines) : lines[i].time = clock
  BY <1>1, <1>2, <1>4, SampleLines
<1>6. LinesOf(lines, s)
  BY <1>2, LinesOfSample
<1>7. items \in Seq(Line) /\ Len(items) < MaxBatchSize
  BY DEF IInv, BufferInvariant, IngestSample, Ingest
<1>8. items' = items \o lines
  <2>1. AppendMany(items, lines) = [items |-> items \o lines, dropped |-> 0]
    BY <1>5, <1>7, AppendFits
  <2>2. items' = AppendMany(items, lines).items
    BY DEF IngestSample, Ingest, s
  <2> QED BY <2>1, <2>2
<1>9. ledger' = ledger \o lines /\ window' = TrimWindow(Append(window, s), clock)
  BY DEF IngestSample, Ingest, s
<1> QED
  BY <1>2, <1>3, <1>5, <1>6, <1>8, <1>9 DEF s

\* The samples it leaves, and their values of a counter: there is one more.
LEMMA IngestPoints ==
  ASSUME HistorianServiceAssumption, HistorianCellAssumption, KInv, IngestSample
  PROVE  /\ Trims(window, TelemetrySample(clock), clock, window')
         /\ clock \in Times' /\ Times' \subseteq Times \cup {clock}
         /\ \A n \in Nodes : Points(n)' \subseteq Points(n) \cup {<<clock, sample[Place(n)]>>}
<1> DEFINE s == TelemetrySample(clock)
           lines == Lines(s)
<1>1. /\ s \in Sample /\ s.time = clock /\ \A n \in Nodes : s.values[n] = sample[Place(n)]
      /\ lines \in Seq(Line) /\ \A i \in 1..Len(lines) : lines[i].time = clock
      /\ LinesOf(lines, s) /\ items' = items \o lines
      /\ window' = TrimWindow(Append(window, s), clock)
  BY Ingested DEF KInv
<1>2. process = "reading" /\ stored' = stored
  BY DEF IngestSample, Ingest
<1> HIDE DEF s, lines
<1>3. /\ window \in Seq(Sample) /\ clock \in Nat /\ items \in Seq(Line)
      /\ \A i, j \in 1..Len(window) : i < j => window[i].time < window[j].time
  BY DEF KInv, IInv, PlcInvariant, BufferInvariant, WindowInvariant
<1>4. \A i \in 1..Len(window) : window[i].time < clock
  <2>1. ASSUME NEW i \in 1..Len(window) PROVE window[i].time < clock
    <3>1. window[i].time \in Times
      BY <1>3 DEF Times
    <3> QED BY <1>2, <3>1 DEF KInv, TimeInvariant
  <2> QED BY <2>1
<1>5. Trims(window, s, clock, window')
  BY <1>1, <1>3, <1>4, Trimming
<1>6. /\ window' \in Seq(Sample) /\ DOMAIN window' = 1..Len(window')
      /\ DOMAIN window = 1..Len(window)
      /\ \A i \in DOMAIN window' : window'[i] = s \/ \E j \in DOMAIN window : window'[i] = window[j]
      /\ \E i \in DOMAIN window' : window'[i] = s
  <2>1. DOMAIN window' = 1..Len(window') /\ DOMAIN window = 1..Len(window)
    BY <1>3, <1>5 DEF Trims
  <2>2. Len(window') \in 1..Len(window')
    BY <1>5 DEF Trims
  <2> QED BY <1>5, <2>1, <2>2 DEF Trims
<1>7. ASSUME NEW l \in Kept' PROVE l \in Kept \/ \E i \in 1..Len(lines) : l = lines[i]
  <2>1. CASE l \in stored
    BY <2>1 DEF Kept
  <2>2. CASE \E i \in DOMAIN items' : l = items'[i]
    <3>1. PICK i \in DOMAIN items' : l = items'[i]
      BY <2>2
    <3>2. JoinOf(Line, items, lines, items')
      BY <1>1, <1>3, Joined
    <3>3. (\E j \in DOMAIN items : items'[i] = items[j])
          \/ \E j \in 1..Len(lines) : items'[i] = lines[j]
      BY <3>1, <3>2 DEF JoinOf
    <3>4. CASE \E j \in DOMAIN items : items'[i] = items[j]
      BY <3>1, <3>4 DEF Kept
    <3> QED BY <3>1, <3>3, <3>4
  <2> QED BY <1>2, <2>1, <2>2 DEF Kept
<1>8. ASSUME NEW t \in Times' PROVE t \in Times \cup {clock}
  <2>1. CASE \E l \in Kept' : t = l.time
    <3>1. PICK l \in Kept' : t = l.time
      BY <2>1
    <3> QED BY <1>1, <1>7, <3>1 DEF Times
  <2>2. CASE \E i \in DOMAIN window' : t = window'[i].time
    <3>1. PICK i \in DOMAIN window' : t = window'[i].time
      BY <2>2
    <3> QED BY <1>1, <1>6, <3>1 DEF Times
  <2> QED BY <2>1, <2>2 DEF Times
<1>9. clock \in Times'
  BY <1>1, <1>6 DEF Times
<1>10. ASSUME NEW n \in Nodes, NEW p \in Points(n)'
       PROVE  p \in Points(n) \cup {<<clock, sample[Place(n)]>>}
  <2>1. CASE \E l \in Kept' : l.node = n /\ p = <<l.time, l.value>>
    <3>1. PICK l \in Kept' : l.node = n /\ p = <<l.time, l.value>>
      BY <2>1
    <3>2. CASE l \in Kept
      BY <3>1, <3>2 DEF Points
    <3>3. CASE \E i \in 1..Len(lines) : l = lines[i]
      <4>1. PICK i \in 1..Len(lines) : l = lines[i]
        BY <3>3
      <4>2. l.value = s.values[n] /\ l.time = clock
        BY <1>1, <3>1, <4>1 DEF LinesOf
      <4> QED BY <1>1, <3>1, <4>2
    <3> QED BY <1>7, <3>2, <3>3
  <2>2. CASE \E i \in DOMAIN window' : p = <<window'[i].time, window'[i].values[n]>>
    <3>1. PICK i \in DOMAIN window' : p = <<window'[i].time, window'[i].values[n]>>
      BY <2>2
    <3>2. CASE window'[i] = s
      BY <1>1, <3>1, <3>2
    <3>3. CASE \E j \in DOMAIN window : window'[i] = window[j]
      BY <3>1, <3>3 DEF Points
    <3> QED BY <1>6, <3>1, <3>2, <3>3
  <2> QED BY <2>1, <2>2 DEF Points
<1> QED
  BY <1>5, <1>8, <1>9, <1>10 DEF s

\* The new sample is the latest, and behind every other of its counter.
LEMMA IngestCounters ==
  ASSUME HistorianServiceAssumption, HistorianCellAssumption, KInv, IngestSample
  PROVE  KInv'
<1> DEFINE s == TelemetrySample(clock)
<1>1. /\ IInv /\ WindowInvariant /\ TimeInvariant /\ CountTypes
      /\ \A n \in Counters : CounterInvariant(n)
  BY DEF KInv
<1>2. IInv'
  BY <1>1, IngestStep
<1>3. /\ process = "reading" /\ Len(sample) = Len(NodeSpecs) /\ timestamp' = clock
      /\ process' \in {"flushing", "sleeping"} /\ clock \in Nat
      /\ UNCHANGED <<node, made, clock, stored, read>>
      /\ truth' = [t \in DOMAIN truth \cup {clock} |-> IF t = clock THEN read ELSE truth[t]]
  BY <1>1 DEF IngestSample, Ingest, plcVars, IInv, PlcInvariant
<1>4. /\ Trims(window, s, clock, window') /\ Times' \subseteq Times \cup {clock}
      /\ \A n \in Nodes : Points(n)' \subseteq Points(n) \cup {<<clock, sample[Place(n)]>>}
      /\ clock \in Times'
  BY IngestPoints
<1> HIDE DEF s
<1>5. /\ truth'[clock] = read
      /\ \A t \in Times : /\ t \in DOMAIN truth /\ t \in Nat /\ t < clock
                          /\ truth'[t] = truth[t] /\ t \in DOMAIN truth'
  BY <1>1, <1>3 DEF TimeInvariant
<1>6. WindowInvariant'
  BY <1>1, <1>3, <1>4 DEF WindowInvariant, Trims
<1>7. TimeInvariant'
  <2>1. \A t \in Times' : t \in DOMAIN truth' /\ t \in Nat /\ t <= clock
    <3>1. ASSUME NEW t \in Times'
          PROVE  t \in DOMAIN truth' /\ t \in Nat /\ t <= clock
      <4>1. CASE t = clock
        <5>1. clock <= clock
          BY <1>3
        <5> QED BY <1>3, <4>1, <5>1
      <4>2. CASE t \in Times
        <5>1. t \in DOMAIN truth' /\ t \in Nat /\ t < clock
          BY <1>5, <4>2
        <5> QED BY <1>3, <5>1
      <4> QED BY <1>4, <4>1, <4>2
    <3> QED BY <3>1
  <2>2. clock <= clock
    BY <1>3
  <2> QED BY <1>3, <2>1, <2>2 DEF TimeInvariant
<1>8. CountTypes'
  BY <1>1, <1>3 DEF CountTypes
<1>9. ASSUME NEW n \in Counters PROVE CounterInvariant(n)'
  <2> DEFINE v == sample[Place(n)]  r == read[n]
  <2>1. CounterInvariant(n) /\ Place(n) \in 1..Len(NodeSpecs) /\ n \in Nodes
    BY <1>1, PlaceOfNode DEF HistorianCellAssumption
  <2>2. Seen(n) /\ ~Seen(n)'
    BY <1>3, <2>1 DEF Seen
  <2>3. /\ made[n] \in Nat /\ r \in Nat /\ r <= made[n] /\ v \in Nat
        /\ node[n] - v <= made[n] - r
        /\ \A p \in Points(n) : v - p[2] <= r - truth[p[1]][n]
    BY <2>1, <2>2 DEF CounterInvariant
  <2>4. truth'[clock][n] = r /\ \A t \in Times : truth'[t][n] = truth[t][n]
    BY <1>5
  <2>5. \A p \in Points(n)' : p \in Points(n) \/ p = <<clock, v>>
    BY <1>4, <2>1
  <2>6. \A p \in Points(n) : p[1] \in Times /\ p[1] < clock /\ truth'[p[1]][n] = truth[p[1]][n]
    BY <1>5, <2>1 DEF CounterInvariant
  <2> HIDE DEF v, r
  <2>7. \A t \in Times' : t \in Times \/ t = clock
    BY <1>4
  <2>8. r <= r /\ r - r = 0 /\ v - v = 0 /\ 0 <= 0
    BY <2>3
  <2>9. \A t \in Times' : truth'[t][n] \in Nat /\ truth'[t][n] <= read'[n]
    <3>1. \A t \in Times : truth[t][n] \in Nat /\ truth[t][n] <= read[n]
      BY <2>1 DEF CounterInvariant
    <3> QED BY <1>3, <2>3, <2>4, <2>7, <2>8, <3>1 DEF r
  <2>10. \A t, u \in Times' : t < u => truth'[t][n] <= truth'[u][n]
    <3>1. ASSUME NEW t \in Times', NEW u \in Times', t < u
          PROVE  truth'[t][n] <= truth'[u][n]
      <4>1. CASE t \in Times /\ u \in Times
        BY <2>1, <2>4, <3>1, <4>1 DEF CounterInvariant
      <4>2. CASE t \in Times /\ u = clock
        BY <2>1, <2>4, <4>2 DEF CounterInvariant, r
      <4>3. CASE t = clock
        <5>1. u = clock \/ (u \in Nat /\ u < clock)
          BY <1>5, <2>7
        <5> QED BY <1>3, <3>1, <4>3, <5>1
      <4> QED BY <2>7, <4>1, <4>2, <4>3
    <3> QED BY <3>1
  <2>11. ASSUME NEW p \in Points(n)'
         PROVE  /\ p[1] \in Times' /\ p[2] \in Nat
                /\ node'[n] - p[2] <= made'[n] - truth'[p[1]][n]
    <3>1. CASE p \in Points(n)
      <4>1. p[1] \in Times'
        BY <2>11 DEF Points, Times
      <4> QED BY <1>3, <2>1, <2>6, <3>1, <4>1 DEF CounterInvariant
    <3>2. CASE p = <<clock, v>>
      BY <1>3, <1>4, <2>3, <2>4, <3>2
    <3> QED BY <2>5, <3>1, <3>2
  <2>12. ASSUME NEW p \in Points(n)', NEW q \in Points(n)', p[1] < q[1]
         PROVE  q[2] - p[2] <= truth'[q[1]][n] - truth'[p[1]][n]
    <3>1. CASE p \in Points(n) /\ q \in Points(n)
      BY <2>1, <2>6, <2>12, <3>1 DEF CounterInvariant
    <3>2. CASE p \in Points(n) /\ q = <<clock, v>>
      BY <2>3, <2>4, <2>6, <3>2
    <3>3. CASE p = <<clock, v>>
      <4>1. q[1] = clock \/ (q[1] \in Nat /\ q[1] < clock)
        BY <1>5, <2>5, <2>6
      <4> QED BY <1>3, <2>12, <3>3, <4>1
    <3> QED BY <2>5, <3>1, <3>2, <3>3
  <2>13. made'[n] \in Nat /\ read'[n] \in Nat /\ read'[n] <= made'[n]
    BY <1>3, <2>3 DEF r
  <2> QED BY <2>2, <2>9, <2>10, <2>11, <2>12, <2>13 DEF CounterInvariant
<1> QED
  BY <1>2, <1>6, <1>7, <1>8, <1>9 DEF KInv

\* A batch moves from the buffer to InfluxDB.
LEMMA Written ==
  ASSUME HistorianServiceAssumption, IInv, WriteLines
  PROVE  Kept' = Kept /\ stored \subseteq stored' /\ \A l \in stored' \ stored : l \in Line
<1> DEFINE b == BatchLength
           m == Len(items)
<1>1. /\ stored' = stored \cup {Batch[i] : i \in DOMAIN Batch}
      /\ items' = SubSeq(items, b + 1, m)
  BY DEF WriteLines, WriteBatch
<1>2. /\ items \in Seq(Line) /\ DOMAIN items = 1..m /\ m \in Nat /\ b \in 0..m
      /\ \A i \in 1..m : items[i] \in Line
  <2>1. items \in Seq(Line) /\ DOMAIN items = 1..m /\ m \in Nat
    BY LenProperties DEF IInv, BufferInvariant
  <2>2. b \in 0..m
    BY <2>1 DEF BatchLength, HistorianServiceAssumption
  <2> QED BY <2>1, <2>2, ElementOfSeq
<1> HIDE DEF b, m
<1>3. DOMAIN Batch = 1..b /\ \A i \in 1..b : Batch[i] = items[i]
  <2>0. 1 \in Int /\ b \in Int /\ \A i \in 1..b : items[i] \in Line
    BY <1>2
  <2>1. /\ Batch \in Seq(Line) /\ Len(Batch) = b
        /\ \A i \in 1..b : Batch[i] = items[1 + i - 1]
    BY <1>2, <2>0, SubSeqProperties DEF Batch, b
  <2>2. \A i \in 1..b : 1 + i - 1 = i
    BY <1>2
  <2> QED BY <2>1, <2>2, LenProperties
<1>4. DOMAIN items' = 1..(m - b) /\ \A i \in 1..(m - b) : items'[i] = items[b + i]
  <2> DEFINE k == b + 1
  <2>1. k \in Int /\ m \in Int /\ (\A i \in k..m : items[i] \in Line) /\ m - k + 1 = m - b
        /\ (IF k <= m THEN m - k + 1 ELSE 0) = m - b
        /\ \A i \in 1..(m - b) : k + i - 1 = b + i
    BY <1>2
  <2> HIDE DEF k
  <2>2. items' = SubSeq(items, k, m)
    BY <1>1 DEF k
  <2>3. /\ SubSeq(items, k, m) \in Seq(Line) /\ Len(SubSeq(items, k, m)) = m - b
        /\ \A i \in 1..(m - b) : SubSeq(items, k, m)[i] = items[k + i - 1]
    BY <2>1, SubSeqProperties
  <2> QED BY <2>1, <2>2, <2>3, LenProperties
<1>5. \A i \in 1..b : i \in 1..m
  BY <1>2
<1>6. \A i \in 1..(m - b) : b + i \in 1..m
  BY <1>2
<1>7. \A i \in 1..m : i \in 1..b \/ (i - b \in 1..(m - b) /\ b + (i - b) = i)
  BY <1>2
<1>8. ASSUME NEW l \in Kept' PROVE l \in Kept
  <2>1. CASE l \in stored'
    <3>1. CASE \E i \in DOMAIN Batch : l = Batch[i]
      BY <1>2, <1>3, <1>5, <3>1 DEF Kept
    <3>2. CASE l \in stored
      BY <3>2 DEF Kept
    <3> QED BY <1>1, <2>1, <3>1, <3>2
  <2>2. CASE \E i \in DOMAIN items' : l = items'[i]
    <3>1. PICK i \in DOMAIN items' : l = items'[i]
      BY <2>2
    <3>2. b + i \in DOMAIN items /\ l = items[b + i]
      BY <1>2, <1>4, <1>6, <3>1
    <3> QED BY <3>2 DEF Kept
  <2> QED BY <2>1, <2>2 DEF Kept
<1>9. ASSUME NEW l \in Kept PROVE l \in Kept'
  <2>1. CASE l \in stored
    BY <1>1, <2>1 DEF Kept
  <2>2. CASE \E i \in DOMAIN items : l = items[i]
    <3>1. PICK i \in 1..m : l = items[i]
      BY <1>2, <2>2
    <3>2. CASE i \in 1..b
      BY <1>1, <1>3, <3>1, <3>2 DEF Kept
    <3>3. CASE i - b \in 1..(m - b) /\ b + (i - b) = i
      <4>1. items'[i - b] = l /\ i - b \in DOMAIN items'
        BY <1>4, <3>1, <3>3
      <4> QED BY <4>1 DEF Kept
    <3> QED BY <1>7, <3>2, <3>3
  <2> QED BY <2>1, <2>2 DEF Kept
<1>10. \A l \in stored' \ stored : l \in Line
  BY <1>1, <1>2, <1>3, <1>5
<1> QED
  BY <1>1, <1>8, <1>9, <1>10

\* Steps by which the samples become no more and nothing is counted or read.
LEMMA NothingNew ==
  ASSUME HistorianServiceAssumption, HistorianCellAssumption, KInv, IInv',
         UNCHANGED <<node, made, read, truth>>,
         Kept' \subseteq Kept, window' = window \/ window' = << >>,
         \A n \in Counters : Seen(n)' => Seen(n) /\ sample' = sample
  PROVE  /\ Times' \subseteq Times /\ CountTypes'
         /\ \A n \in Counters : CounterInvariant(n)'
<1>1. Times' \subseteq Times
  BY DEF Times
<1>2. CountTypes'
  BY DEF KInv, CountTypes
<1>3. ASSUME NEW n \in Counters PROVE CounterInvariant(n)'
  <2>1. Points(n)' \subseteq Points(n)
    BY DEF Points
  <2>2. \A p \in Points(n)' : p[1] \in Times'
    BY DEF Points, Times
  <2>3. CounterInvariant(n) /\ node[n] \in Nat /\ node'[n] = node[n]
    BY DEF KInv, IInv, PlcInvariant, HistorianCellAssumption
  <2>4. made[n] \in Nat /\ made'[n] = made[n]
    BY <2>3 DEF CounterInvariant
  <2>5. made[n] <= made'[n] /\ node'[n] - node[n] <= made'[n] - made[n]
    <3>1. node[n] - node[n] = 0 /\ made[n] - made[n] = 0 /\ made[n] <= made[n] /\ 0 <= 0
      BY <2>3, <2>4
    <3> QED BY <2>3, <2>4, <3>1
  <2>6. Seen(n)' => Seen(n) /\ sample'[Place(n)] = sample[Place(n)]
    OBVIOUS
  <2>7. node'[n] \in Nat /\ made'[n] \in Nat /\ read'[n] = read[n]
        /\ \A t \in Times' : truth'[t][n] = truth[t][n]
    BY <2>3, <2>4
  <2> QED BY <1>1, <2>1, <2>2, <2>3, <2>4, <2>5, <2>6, <2>7, CounterStays
<1> QED
  BY <1>1, <1>2, <1>3

\* Writing, pausing, a failure and a restart.
LEMMA OtherCounters ==
  ASSUME HistorianServiceAssumption, HistorianCellAssumption, KInv,
         WriteLines \/ Proceed \/ Crash \/ Start
  PROVE  KInv'
<1>1. IInv /\ WindowInvariant /\ TimeInvariant
  BY DEF KInv
<1>2. IInv'
  BY <1>1, WriteStep, OtherSteps
<1>3. clock \in Nat /\ timestamp \in Nat /\ timestamp <= clock
  BY <1>1 DEF IInv, PlcInvariant, TimeInvariant
<1>4. CASE WriteLines
  <2>1. /\ UNCHANGED <<node, made, read, truth, window, sample, process, timestamp, clock>>
    BY <1>4 DEF WriteLines, WriteBatch, plcVars, historyVars
  <2>2. Kept' = Kept /\ stored' \subseteq Line
    BY <1>1, <1>4, Written DEF WindowInvariant
  <2>3. /\ Times' \subseteq Times /\ CountTypes' /\ \A n \in Counters : CounterInvariant(n)'
    BY <1>2, <2>1, <2>2, NothingNew DEF Seen, Place
  <2>4. WindowInvariant'
    BY <1>1, <2>1, <2>2 DEF WindowInvariant
  <2>5. TimeInvariant'
    BY <1>1, <2>1, <2>3 DEF TimeInvariant
  <2> QED BY <1>2, <2>3, <2>4, <2>5 DEF KInv
<1>5. CASE Proceed
  <2>1. /\ UNCHANGED <<node, made, read, truth, window, stored, items, timestamp, clock>>
        /\ process' # "down"
        /\ \/ process = "flushing" /\ process' = "sleeping"
           \/ process = "sleeping" /\ process' = "reading" /\ sample' = << >> /\ clock > timestamp
    BY <1>5 DEF Proceed, FlushDone, NextSample, plcVars, historyVars
  <2>2. Kept' = Kept
    BY <2>1 DEF Kept
  <2>3. \A n \in Counters : ~Seen(n)'
    <3>1. ASSUME NEW n \in Counters PROVE ~Seen(n)'
      <4>1. process' = "reading" => Len(sample') = 0
        BY <2>1
      <4> QED BY <4>1 DEF Seen
    <3> QED BY <3>1
  <2>4. /\ Times' \subseteq Times /\ CountTypes' /\ \A n \in Counters : CounterInvariant(n)'
    BY <1>2, <2>1, <2>2, <2>3, NothingNew
  <2>5. WindowInvariant'
    BY <1>1, <2>1 DEF WindowInvariant
  <2>6. TimeInvariant'
    <3>1. ASSUME NEW t \in Times'
          PROVE  /\ t \in DOMAIN truth' /\ t \in Nat /\ t <= clock'
                 /\ process' = "reading" => t < clock'
                 /\ process' \in {"sleeping", "flushing"} => t <= timestamp'
      <4>1. t \in Times /\ t \in DOMAIN truth /\ t \in Nat /\ t <= clock /\ t <= timestamp
        BY <1>1, <2>1, <2>4 DEF TimeInvariant
      <4>2. clock > timestamp => t < clock
        BY <1>3, <4>1
      <4> QED BY <2>1, <4>1, <4>2
    <3> QED BY <1>1, <2>1, <3>1 DEF TimeInvariant
  <2> QED BY <1>2, <2>4, <2>5, <2>6 DEF KInv
<1>6. CASE Crash
  <2>1. /\ UNCHANGED <<node, made, read, truth, stored, timestamp, clock>>
        /\ window' = << >> /\ items' = << >> /\ sample' = << >> /\ process' = "down"
    BY <1>6 DEF Crash, Fails, plcVars
  <2>2. Kept' \subseteq Kept
    BY <2>1 DEF Kept
  <2>3. \A n \in Counters : ~Seen(n)'
    BY <2>1 DEF Seen
  <2>4. /\ Times' \subseteq Times /\ CountTypes' /\ \A n \in Counters : CounterInvariant(n)'
    BY <1>2, <2>1, <2>2, <2>3, NothingNew
  <2>5. WindowInvariant'
    <3>1. << >> \in Seq(Sample) /\ Len(<< >>) = 0
      OBVIOUS
    <3> QED BY <1>1, <2>1, <3>1 DEF WindowInvariant
  <2>6. TimeInvariant'
    BY <1>1, <2>1, <2>4 DEF TimeInvariant
  <2> QED BY <1>2, <2>4, <2>5, <2>6 DEF KInv
<1>7. CASE Start
  <2>1. /\ UNCHANGED <<node, made, read, truth, window, stored, items, sample, timestamp, clock>>
        /\ process = "down" /\ process' = "reading" /\ \A l \in stored : l.time < clock
    BY <1>7 DEF Start, Restart, plcVars
  <2>2. Kept' = Kept /\ window = << >> /\ items = << >> /\ Len(sample) = 0
    BY <1>1, <2>1 DEF Kept, WindowInvariant, IInv, BufferInvariant
  <2>3. \A n \in Counters : ~Seen(n)'
    BY <2>1, <2>2 DEF Seen
  <2>4. /\ Times' \subseteq Times /\ CountTypes' /\ \A n \in Counters : CounterInvariant(n)'
    BY <1>2, <2>1, <2>2, <2>3, NothingNew
  <2>5. WindowInvariant'
    BY <1>1, <2>1 DEF WindowInvariant
  <2>6. TimeInvariant'
    <3>1. \A t \in Times' : t < clock
      BY <2>1, <2>2 DEF Times, Kept
    <3> QED BY <1>1, <2>1, <2>4, <3>1 DEF TimeInvariant
  <2> QED BY <1>2, <2>4, <2>5, <2>6 DEF KInv
<1> QED
  BY <1>4, <1>5, <1>6, <1>7

\* What the samples claim of the counters stays true.
LEMMA KStep ==
  ASSUME HistorianServiceAssumption, HistorianCellAssumption, KInv,
         [HistorianNext]_cellVars
  PROVE  KInv'
<1>1. CASE UNCHANGED cellVars
  <2>1. UNCHANGED <<stored, items, window, process, sample, timestamp, clock, truth, node,
                    made, read>>
    BY <1>1 DEF cellVars, serviceVars, plcVars, historyVars
  <2>2. IInv'
    BY <1>1, HistorianStepIInv DEF KInv
  <2>3. Times' = Times /\ Kept' = Kept /\ \A n : Seen(n)' = Seen(n)
    BY <2>1, SamePoints DEF Kept, Seen, Place
  <2>4. CountTypes' /\ \A n \in Counters : CounterInvariant(n)'
    BY <2>1, <2>2, <2>3, NothingNew
  <2>5. WindowInvariant' /\ TimeInvariant'
    BY <2>1, <2>3 DEF KInv, WindowInvariant, TimeInvariant
  <2> QED BY <2>2, <2>4, <2>5 DEF KInv
<1> QED
  BY <1>1, PlcCounters, ReadCounters, IngestCounters, OtherCounters
     DEF HistorianNext, Historian

\* Samples in ascending order, the points of which are points of the counter.
LEMMA Honest ==
  ASSUME KInv, NEW n \in Counters, NEW samples, NEW T,
         T = [i \in 1..Len(samples) |-> truth[samples[i].time][n]],
         Len(samples) \in Nat \ {0}, n \in DOMAIN samples[1].values,
         \A i, j \in 1..Len(samples) : i < j => samples[i].time < samples[j].time,
         \A i \in 1..Len(samples) :
           /\ samples[i].time \in Times
           /\ n \in DOMAIN samples[i].values =>
                <<samples[i].time, samples[i].values[n]>> \in Points(n)
  PROVE  Countable(samples, n) /\ Bounded(samples, n, T)
<1>1. TimeInvariant /\ CounterInvariant(n)
  BY DEF KInv
<1>2. ASSUME NEW i \in 1..Len(samples)
      PROVE  /\ samples[i].time \in Nat /\ T[i] \in Nat
             /\ n \in DOMAIN samples[i].values => samples[i].values[n] \in Nat
  <2>1. samples[i].time \in Nat /\ T[i] \in Nat
    BY <1>1, <1>2 DEF TimeInvariant, CounterInvariant
  <2>2. ASSUME n \in DOMAIN samples[i].values PROVE samples[i].values[n] \in Nat
    <3> DEFINE p == <<samples[i].time, samples[i].values[n]>>
    <3>1. p \in Points(n)
      BY <2>2
    <3> HIDE DEF p
    <3>2. p[2] \in Nat
      BY <1>1, <3>1 DEF CounterInvariant
    <3> QED BY <3>2 DEF p
  <2> QED BY <2>1, <2>2
<1>3. Countable(samples, n)
  BY <1>2 DEF Countable, Value
<1>4. ASSUME NEW i \in 1..Len(samples), NEW j \in 1..Len(samples), i < j
      PROVE  /\ T[i] <= T[j]
             /\ n \in DOMAIN samples[i].values /\ n \in DOMAIN samples[j].values =>
                  samples[j].values[n] - samples[i].values[n] <= T[j] - T[i]
  <2>1. samples[i].time < samples[j].time /\ samples[i].time \in Times /\ samples[j].time \in Times
        /\ T[i] = truth[samples[i].time][n] /\ T[j] = truth[samples[j].time][n]
    BY <1>4
  <2>2. T[i] <= T[j]
    BY <1>1, <2>1 DEF CounterInvariant
  <2>3. ASSUME n \in DOMAIN samples[i].values, n \in DOMAIN samples[j].values
        PROVE  samples[j].values[n] - samples[i].values[n] <= T[j] - T[i]
    <3> DEFINE p == <<samples[i].time, samples[i].values[n]>>
               q == <<samples[j].time, samples[j].values[n]>>
    <3>1. p \in Points(n) /\ q \in Points(n) /\ p[1] < q[1]
      BY <2>1, <2>3
    <3> HIDE DEF p, q
    <3>2. q[2] - p[2] <= truth[q[1]][n] - truth[p[1]][n]
      BY <1>1, <3>1 DEF CounterInvariant
    <3> QED BY <2>1, <3>2 DEF p, q
  <2> QED BY <2>2, <2>3
<1>5. T \in [1..Len(samples) -> Nat]
  BY <1>2
<1>6. ASSUME NEW i \in 1..Len(samples), NEW j \in 1..Len(samples), i <= j PROVE T[i] <= T[j]
  <2>1. CASE i = j
    <3>1. T[i] \in Nat
      BY <1>2
    <3>2. T[i] <= T[i]
      BY <3>1
    <3> QED BY <2>1, <3>2
  <2>2. CASE i < j
    BY <1>4, <2>2
  <2> QED BY <1>6, <2>1, <2>2
<1> QED
  BY <1>3, <1>4, <1>5, <1>6 DEF Bounded

\* No sample in the window, in the buffer or in InfluxDB claims of a counter
\* more than the PLC counted between it and another one.
THEOREM CountersCorrect == HistorianSpec => []KInv
<1>1. HistorianInit => KInv
  BY KInit, HistorianServiceAssumption, HistorianCellAssumption
<1>2. KInv /\ [HistorianNext]_cellVars => KInv'
  BY KStep, HistorianServiceAssumption, HistorianCellAssumption
<1> QED
  BY <1>1, <1>2, PTL DEF HistorianSpec

\* Such samples report no more than was counted.
LEMMA HonestReport ==
  ASSUME KInv, NEW samples, Len(samples) \in Nat,
         \A i, j \in 1..Len(samples) : i < j => samples[i].time < samples[j].time,
         \A i \in 1..Len(samples) :
           /\ samples[i].time \in Times
           /\ \A n \in Counters \cap DOMAIN samples[i].values :
                <<samples[i].time, samples[i].values[n]>> \in Points(n)
  PROVE  NotOverReported(samples)
<1> SUFFICES ASSUME Len(samples) >= 2, NEW n \in Counters, n \in DOMAIN samples[1].values
             PROVE  LET first == samples[1]  last == samples[Len(samples)]
                        delta == CounterDelta(first.values[n], Value(last, n, 0))
                    IN /\ delta <= Len(IncrementTimes(samples, n))
                       /\ Len(IncrementTimes(samples, n))
                            <= truth[last.time][n] - truth[first.time][n]
  BY DEF NotOverReported
<1> DEFINE m == Len(samples)
           T == [i \in 1..m |-> truth[samples[i].time][n]]
<1>1. m \in Nat \ {0} /\ 1 \in 1..m /\ m \in 1..m
  OBVIOUS
<1>2. T[1] = truth[samples[1].time][n] /\ T[m] = truth[samples[m].time][n]
  BY <1>1
<1>3. Countable(samples, n) /\ Bounded(samples, n, T)
  BY <1>1, Honest
<1> HIDE DEF T
<1>4. LET last == samples[m]
          delta == CounterDelta(samples[1].values[n], Value(last, n, 0))
          increments == Len(IncrementTimes(samples, n))
      IN delta <= increments /\ increments <= T[m] - T[1]
  BY <1>3, IncrementsBounded
<1> QED
  BY <1>2, <1>4

\* The window of the collector.
LEMMA WindowReport ==
  ASSUME HistorianServiceAssumption, HistorianCellAssumption, KInv
  PROVE  NotOverReported(window)
<1>1. /\ window \in Seq(Sample) /\ Len(window) \in Nat /\ DOMAIN window = 1..Len(window)
      /\ \A i, j \in 1..Len(window) : i < j => window[i].time < window[j].time
  BY LenProperties DEF KInv, WindowInvariant
<1>2. ASSUME NEW i \in 1..Len(window)
      PROVE  /\ window[i].time \in Times
             /\ \A n \in Counters \cap DOMAIN window[i].values :
                  <<window[i].time, window[i].values[n]>> \in Points(n)
  BY <1>1 DEF Times, Points
<1> QED
  BY <1>1, <1>2, HonestReport

\* What the API reads from InfluxDB.
LEMMA ApiReport ==
  ASSUME HistorianServiceAssumption, HistorianCellAssumption, KInv, NEW w
  PROVE  NotOverReported(ReadSamples(stored, clock, w))
<1> DEFINE samples == ReadSamples(stored, clock, w)
           records == InRange(stored, clock, w)
           c == Cardinality({l.time : l \in records})
           times == [i \in 1..c |-> samples[i].time]
<1>1. clock \in Nat /\ stored \subseteq Kept
  BY DEF KInv, IInv, PlcInvariant, Kept
<1>2. \A l \in stored : l.time \in Times /\ l.time \in 0..clock
  BY <1>1 DEF KInv, TimeInvariant, Times
<1>3. ReadFrom(stored, clock, w, samples)
  BY <1>1, <1>2, SamplesRead
<1>4. records \subseteq stored
  BY DEF InRange
<1> HIDE DEF samples, records
<1>5. /\ Len(samples) = c /\ c \in Nat /\ times \in [1..c -> {l.time : l \in records}]
      /\ \A i, j \in 1..c : i < j => times[i] < times[j]
      /\ \A i \in 1..c : \A n \in DOMAIN samples[i].values :
           \E l \in records : /\ l.time = samples[i].time /\ l.node = n
                              /\ samples[i].values[n] = l.value
  BY <1>3 DEF ReadFrom, Ascending, records
<1> HIDE DEF c
<1>6. \A i \in 1..c : times[i] = samples[i].time
  OBVIOUS
<1> HIDE DEF times
<1>7. ASSUME NEW i \in 1..c
      PROVE  /\ samples[i].time \in Times
             /\ \A n \in Counters \cap DOMAIN samples[i].values :
                  <<samples[i].time, samples[i].values[n]>> \in Points(n)
  <2>1. times[i] \in {l.time : l \in records}
    BY <1>5
  <2>2. samples[i].time \in Times
    BY <1>2, <1>4, <1>6, <2>1
  <2>3. ASSUME NEW n \in Counters \cap DOMAIN samples[i].values
        PROVE  <<samples[i].time, samples[i].values[n]>> \in Points(n)
    <3>1. PICK l \in records : l.time = samples[i].time /\ l.node = n
                               /\ samples[i].values[n] = l.value
      BY <1>5
    <3>2. l \in Kept
      BY <1>1, <1>4
    <3> QED BY <3>1, <3>2 DEF Points
  <2> QED BY <2>2, <2>3
<1>8. \A i, j \in 1..Len(samples) : i < j => samples[i].time < samples[j].time
  BY <1>5, <1>6
<1>9. NotOverReported(samples)
  BY <1>5, <1>7, <1>8, HonestReport
<1> QED
  BY <1>9 DEF samples

\* No KPI of the collector or of the API claims packages or jams that were not
\* there, over resets, trimmed windows, restarts and half-written samples.
THEOREM KpisNotOverReportedCorrect == HistorianSpec => []KpisNotOverReported
<1>1. KInv => KpisNotOverReported
  BY WindowReport, ApiReport, HistorianServiceAssumption, HistorianCellAssumption
     DEF KpisNotOverReported
<1> QED
  BY <1>1, CountersCorrect, PTL

------------------------------------------------------------------------------
(* The collector's window and InfluxDB agree.                                *)

\* The line of InfluxDB about a node in a sample.
SampleLine(s, n) == [time |-> s.time, node |-> n, value |-> s.values[n]]

\* Window and lines agree: of every sample of the window there is a line for
\* each node, and a line of this process is of a sample of the window, unless
\* it is older than the window.
WindowKept == \A i \in 1..Len(window) :
  /\ timestamp - window[i].time <= KpiWindow
  /\ \A n \in Nodes : SampleLine(window[i], n) \in Kept

Current(l) ==
  \/ timestamp - l.time > KpiWindow
  \/ \E i \in 1..Len(window) : l.time = window[i].time /\ l.value = window[i].values[l.node]

LinesCurrent ==
  process # "down" => \A l \in Kept : l.node \in Nodes /\ l.time >= born => Current(l)

LifeInvariant ==
  /\ summary = ComputeKpis(window) /\ IsFiniteSet(stored)
  /\ born \in Nat /\ born <= clock /\ failures \in Nat
  /\ failures = 0 => born = 0 /\ process # "down"
  /\ process \in {"flushing", "sleeping"} =>
       /\ born <= timestamp /\ Len(window) \in Nat \ {0}
       /\ window[Len(window)].time = timestamp

AInv == KInv /\ WindowKept /\ LinesCurrent /\ LifeInvariant

\* At first there is nothing to agree on.
LEMMA AInit ==
  ASSUME HistorianServiceAssumption, HistorianCellAssumption, HistorianInit
  PROVE  AInv
<1>1. /\ window = << >> /\ stored = {} /\ items = << >> /\ process = "reading"
      /\ clock = 0 /\ born = 0 /\ failures = 0 /\ summary = ComputeKpis(<< >>)
  BY DEF HistorianInit, ServiceInit
<1>2. Len(window) = 0 /\ Kept = {}
  BY <1>1 DEF Kept
<1>3. LifeInvariant
  BY <1>1, FS_EmptySet DEF LifeInvariant
<1> QED
  BY <1>2, <1>3, KInit DEF AInv, WindowKept, LinesCurrent

\* Steps that change neither the window nor the lines.
LEMMA SameLines ==
  ASSUME AInv, Kept' = Kept, UNCHANGED <<window, timestamp, born, summary, failures>>,
         IsFiniteSet(stored'), clock \in Nat, clock' \in Nat, clock <= clock',
         process' = process \/ (process = "flushing" /\ process' = "sleeping")
           \/ (process = "sleeping" /\ process' = "reading")
  PROVE  WindowKept' /\ LinesCurrent' /\ LifeInvariant'
<1>1. WindowKept'
  BY DEF AInv, WindowKept, SampleLine
<1>2. LinesCurrent'
  BY DEF AInv, LinesCurrent, Current
<1>3. born' \in Nat /\ born' <= clock'
  BY DEF AInv, LifeInvariant
<1>4. LifeInvariant'
  BY <1>3 DEF AInv, LifeInvariant
<1> QED
  BY <1>1, <1>2, <1>4

\* A sample enters the window and, line by line, the buffer.
LEMMA IngestLines ==
  ASSUME HistorianServiceAssumption, HistorianCellAssumption, AInv, IngestSample
  PROVE  WindowKept' /\ LinesCurrent' /\ LifeInvariant'
<1> DEFINE s == TelemetrySample(clock)
           lines == Lines(s)
<1>1. KInv /\ IInv /\ WindowKept /\ LinesCurrent /\ LifeInvariant
  BY DEF AInv, KInv
<1>2. /\ s \in Sample /\ s.time = clock /\ LinesOf(lines, s) /\ lines \in Seq(Line)
      /\ \A i \in 1..Len(lines) : lines[i].time = clock
      /\ items' = items \o lines
  BY <1>1, Ingested
<1>3. Trims(window, s, clock, window')
  BY <1>1, IngestPoints
<1>4. /\ process = "reading" /\ process' \in {"flushing", "sleeping"} /\ timestamp' = clock
      /\ UNCHANGED <<stored, born, failures, clock>> /\ summary' = ComputeKpis(window')
  BY DEF IngestSample, Ingest
<1> HIDE DEF s, lines
<1>5. /\ Len(window') \in Nat \ {0} /\ window'[Len(window')] = s
      /\ \A i \in 1..Len(window') : /\ clock - window'[i].time <= KpiWindow
                                    /\ window'[i] = s \/ \E j \in 1..Len(window) : window'[i] = window[j]
      /\ \A j \in 1..Len(window) : clock - window[j].time <= KpiWindow
                                   => \E i \in 1..Len(window') : window'[i] = window[j]
  BY <1>3 DEF Trims
<1>6. /\ clock \in Nat /\ timestamp \in Nat /\ timestamp <= clock /\ KpiWindow \in Nat
      /\ items \in Seq(Line) /\ stored \subseteq Line
      /\ window \in Seq(Sample)
  BY <1>1 DEF KInv, IInv, PlcInvariant, TimeInvariant, BufferInvariant, WindowInvariant,
              HistorianServiceAssumption
<1>7. JoinOf(Line, items, lines, items')
  BY <1>2, <1>6, Joined
<1>8. /\ \A l \in Kept : l \in Kept'
      /\ \A i \in 1..Len(lines) : lines[i] \in Kept'
      /\ \A l \in Kept' : l \in Kept \/ \E i \in 1..Len(lines) : l = lines[i]
  <2>1. /\ DOMAIN items' = 1..Len(items') /\ DOMAIN items = 1..Len(items)
        /\ \A i \in 1..Len(items) : i \in 1..Len(items') /\ items'[i] = items[i]
    BY <1>7 DEF JoinOf
  <2>2. ASSUME NEW i \in 1..Len(lines) PROVE lines[i] \in Kept'
    <3>1. Len(items) + i \in 1..Len(items') /\ items'[Len(items) + i] = lines[i]
      BY <1>7 DEF JoinOf
    <3> QED BY <2>1, <3>1 DEF Kept
  <2>3. ASSUME NEW l \in Kept PROVE l \in Kept'
    BY <1>4, <2>1 DEF Kept
  <2>4. ASSUME NEW l \in Kept' PROVE l \in Kept \/ \E i \in 1..Len(lines) : l = lines[i]
    <3>1. CASE l \in stored
      BY <3>1 DEF Kept
    <3>2. CASE \E i \in DOMAIN items' : l = items'[i]
      <4>1. PICK i \in 1..Len(items') : l = items'[i]
        BY <2>1, <3>2
      <4>2. (\E j \in 1..Len(items) : items'[i] = items[j])
            \/ \E j \in 1..Len(lines) : items'[i] = lines[j]
        BY <1>7 DEF JoinOf
      <4>3. CASE \E j \in 1..Len(items) : items'[i] = items[j]
        BY <2>1, <4>1, <4>3 DEF Kept
      <4> QED BY <4>1, <4>2, <4>3
    <3> QED BY <1>4, <3>1, <3>2 DEF Kept
  <2> QED BY <2>2, <2>3, <2>4
<1>9. WindowKept'
  <2>1. ASSUME NEW i \in 1..Len(window')
        PROVE  /\ timestamp' - window'[i].time <= KpiWindow
               /\ \A n \in Nodes : SampleLine(window'[i], n) \in Kept'
    <3>1. timestamp' - window'[i].time <= KpiWindow
      BY <1>4, <1>5
    <3>2. ASSUME NEW n \in Nodes PROVE SampleLine(window'[i], n) \in Kept'
      <4>1. CASE window'[i] = s
        <5>1. PICK k \in 1..Len(lines) : lines[k] = SampleLine(s, n)
          BY <1>2 DEF LinesOf, SampleLine
        <5>2. lines[k] \in Kept'
          BY <1>8
        <5> QED BY <4>1, <5>1, <5>2
      <4>2. CASE \E j \in 1..Len(window) : window'[i] = window[j]
        BY <1>1, <1>8, <4>2 DEF WindowKept
      <4> QED BY <1>5, <4>1, <4>2
    <3> QED BY <3>1, <3>2
  <2> QED BY <2>1 DEF WindowKept, SampleLine
<1>10. LinesCurrent'
  <2>1. ASSUME NEW l \in Kept', l.node \in Nodes, l.time >= born'
        PROVE  Current(l)'
    <3>1. CASE \E i \in 1..Len(lines) : l = lines[i]
      <4>1. l.time = s.time /\ l.value = s.values[l.node]
        BY <1>2, <2>1, <3>1 DEF LinesOf
      <4>2. Len(window') \in 1..Len(window')
        BY <1>5
      <4> QED BY <1>5, <4>1, <4>2 DEF Current
    <3>2. CASE l \in Kept
      <4>1. Current(l)
        BY <1>1, <1>4, <2>1, <3>2 DEF LinesCurrent
      <4>2. CASE timestamp - l.time > KpiWindow
        <5>1. l.time \in Nat
          <6>1. \A j \in DOMAIN items : items[j] \in Line
            BY <1>6, LenProperties, ElementOfSeq
          <6>2. l \in Line
            BY <1>6, <3>2, <6>1 DEF Kept
          <6> QED BY <6>2 DEF Line
        <5>2. clock - l.time > KpiWindow
          <6> DEFINE t == l.time
          <6>1. t \in Nat /\ timestamp \in Nat /\ clock \in Nat /\ KpiWindow \in Nat
                /\ timestamp <= clock /\ timestamp - t > KpiWindow
            BY <1>6, <4>2, <5>1
          <6> HIDE DEF t
          <6>2. clock - t > KpiWindow
            BY <6>1
          <6> QED BY <6>2 DEF t
        <5> QED BY <1>4, <5>2 DEF Current
      <4>3. CASE \E j \in 1..Len(window) : l.time = window[j].time
                                           /\ l.value = window[j].values[l.node]
        <5>1. PICK j \in 1..Len(window) : l.time = window[j].time
                                          /\ l.value = window[j].values[l.node]
          BY <4>3
        <5>2. CASE clock - window[j].time <= KpiWindow
          <6>1. PICK i \in 1..Len(window') : window'[i] = window[j]
            BY <1>5, <5>2
          <6> QED BY <5>1, <6>1 DEF Current
        <5>3. CASE ~(clock - window[j].time <= KpiWindow)
          <6>1. window[j].time \in Nat
            <7>1. window[j] \in Sample
              BY <1>6, ElementOfSeq
            <7> QED BY <7>1 DEF Sample
          <6>2. clock - l.time > KpiWindow
            <7> DEFINE t == window[j].time
            <7>1. t \in Nat /\ clock \in Nat /\ KpiWindow \in Nat /\ ~(clock - t <= KpiWindow)
              BY <1>6, <5>3, <6>1
            <7> HIDE DEF t
            <7>2. clock - t > KpiWindow
              BY <7>1
            <7> QED BY <5>1, <7>2 DEF t
          <6> QED BY <1>4, <6>2 DEF Current
        <5> QED BY <5>2, <5>3
      <4> QED BY <4>1, <4>2, <4>3 DEF Current
    <3> QED BY <1>8, <3>1, <3>2
  <2> QED BY <2>1 DEF LinesCurrent
<1>11. LifeInvariant'
  <2>1. born' <= timestamp' /\ window'[Len(window')].time = timestamp'
    BY <1>1, <1>2, <1>4, <1>5 DEF LifeInvariant
  <2> QED BY <1>1, <1>4, <1>5, <2>1 DEF LifeInvariant
<1> QED
  BY <1>9, <1>10, <1>11

\* Window and lines go on to agree.
LEMMA AStep ==
  ASSUME HistorianServiceAssumption, HistorianCellAssumption, AInv,
         [HistorianNext]_cellVars
  PROVE  AInv'
<1>1. KInv' /\ KInv /\ IInv /\ WindowInvariant /\ LifeInvariant
  BY KStep DEF AInv, KInv
<1>2. clock \in Nat /\ clock <= clock /\ IsFiniteSet(stored)
  BY <1>1 DEF IInv, PlcInvariant, LifeInvariant
<1>3. CASE UNCHANGED cellVars
  <2>1. Kept' = Kept /\ UNCHANGED <<window, timestamp, born, summary, failures, stored, clock, process>>
    BY <1>3 DEF cellVars, serviceVars, historyVars, Kept
  <2>2. IsFiniteSet(stored') /\ clock' \in Nat /\ clock <= clock'
    BY <1>2, <2>1
  <2> QED BY <1>1, <1>2, <2>1, <2>2, SameLines DEF AInv
<1>4. CASE Plc \/ Tick
  <2>1. UNCHANGED <<serviceVars, historyVars, stored, failures>> /\ (clock' = clock \/ clock' = clock + 1)
    BY <1>4 DEF Plc, Tick, Count, ResetCounters, Toggle, LogEvent, plcOnly
  <2>2. Kept' = Kept /\ UNCHANGED <<window, timestamp, born, summary, failures, stored, process>>
    BY <2>1 DEF serviceVars, historyVars, Kept
  <2>3. IsFiniteSet(stored') /\ clock' \in Nat /\ clock <= clock'
    BY <1>2, <2>1
  <2> QED BY <1>1, <1>2, <2>2, <2>3, SameLines DEF AInv
<1>5. CASE ReadNext
  <2>1. UNCHANGED <<window, timestamp, born, summary, failures, stored, items, clock, process>>
    BY <1>5 DEF ReadNext, ReadNode
  <2>2. Kept' = Kept /\ IsFiniteSet(stored') /\ clock' \in Nat /\ clock <= clock'
    BY <1>2, <2>1 DEF Kept
  <2> QED BY <1>1, <1>2, <2>1, <2>2, SameLines DEF AInv
<1>6. CASE IngestSample
  BY <1>1, <1>6, IngestLines DEF AInv
<1>7. CASE WriteLines
  <2>1. UNCHANGED <<window, timestamp, born, summary, failures, clock, process>>
        /\ stored' = stored \cup {Batch[i] : i \in DOMAIN Batch}
    BY <1>7 DEF WriteLines, WriteBatch, historyVars
  <2>2. Kept' = Kept
    BY <1>1, <1>7, Written
  <2>3. IsFiniteSet(stored')
    <3>1. Kept = stored \cup {items[i] : i \in 1..Len(items)} /\ Len(items) \in Nat
      BY <1>1, LenProperties DEF IInv, BufferInvariant, Kept
    <3>2. IsFiniteSet({items[i] : i \in 1..Len(items)})
      <4> DEFINE D == 1..Len(items)
                 S == {items[i] : i \in D}
                 f == [i \in D |-> items[i]]
      <4>1. IsFiniteSet(D)
        BY <3>1, FS_Interval
      <4>2. f \in Surjection(D, S)
        BY DEF Surjection
      <4> HIDE DEF D, S, f
      <4>3. IsFiniteSet(S)
        BY <4>1, <4>2, FS_Surjection
      <4> QED BY <4>3 DEF S, D
    <3>3. IsFiniteSet(Kept)
      BY <1>2, <3>1, <3>2, FS_Union
    <3>4. stored' \in SUBSET Kept
      BY <2>2 DEF Kept
    <3> QED BY <3>3, <3>4, FS_Subset
  <2>4. clock' \in Nat /\ clock <= clock'
    BY <1>2, <2>1
  <2> QED BY <1>1, <1>2, <2>1, <2>2, <2>3, <2>4, SameLines DEF AInv
<1>8. CASE Proceed
  <2>1. /\ UNCHANGED <<window, timestamp, born, summary, failures, stored, items, clock>>
        /\ \/ process = "flushing" /\ process' = "sleeping"
           \/ process = "sleeping" /\ process' = "reading"
    BY <1>8 DEF Proceed, FlushDone, NextSample, historyVars
  <2>2. Kept' = Kept /\ IsFiniteSet(stored') /\ clock' \in Nat /\ clock <= clock'
    BY <1>2, <2>1 DEF Kept
  <2> QED BY <1>1, <1>2, <2>1, <2>2, SameLines DEF AInv
<1>9. CASE Crash
  <2>1. /\ UNCHANGED <<timestamp, born, stored, clock>> /\ failures' = failures + 1
        /\ process' = "down" /\ window' = << >> /\ summary' = ComputeKpis(<< >>)
    BY <1>9 DEF Crash, Fails
  <2>2. WindowKept' /\ LinesCurrent'
    BY <2>1 DEF WindowKept, LinesCurrent
  <2>3. LifeInvariant'
    <3>1. failures' \in Nat /\ failures' # 0
      BY <1>1, <2>1 DEF LifeInvariant
    <3> QED BY <1>1, <2>1, <3>1 DEF LifeInvariant
  <2> QED BY <1>1, <2>2, <2>3 DEF AInv
<1>10. CASE Start
  <2>1. /\ UNCHANGED <<window, timestamp, summary, stored, items, clock, failures>>
        /\ process = "down" /\ process' = "reading" /\ born' = clock
        /\ \A l \in stored : l.time < clock
    BY <1>10 DEF Start, Restart
  <2>2. window = << >> /\ items = << >>
    BY <1>1, <2>1 DEF WindowInvariant, IInv, BufferInvariant
  <2>3. WindowKept'
    BY <2>1, <2>2 DEF WindowKept
  <2>4. LinesCurrent'
    <3>1. ASSUME NEW l \in Kept', l.time >= born' PROVE FALSE
      <4>1. l \in stored /\ l.time < clock /\ l.time >= clock
        BY <2>1, <2>2, <3>1 DEF Kept
      <4>2. l.time \in Nat
        BY <1>1, <4>1 DEF WindowInvariant, Line
      <4> QED BY <1>2, <4>1, <4>2
    <3> QED BY <3>1 DEF LinesCurrent
  <2>5. LifeInvariant'
    BY <1>1, <1>2, <2>1 DEF LifeInvariant
  <2> QED BY <1>1, <2>3, <2>4, <2>5 DEF AInv
<1> QED
  BY <1>3, <1>4, <1>5, <1>6, <1>7, <1>8, <1>9, <1>10 DEF HistorianNext, Historian

\* The collector and InfluxDB agree at every moment, over failures and restarts.
THEOREM AgreementCorrect == HistorianSpec => []AInv
<1>1. HistorianInit => AInv
  BY AInit, HistorianServiceAssumption, HistorianCellAssumption
<1>2. AInv /\ [HistorianNext]_cellVars => AInv'
  BY AStep, HistorianServiceAssumption, HistorianCellAssumption
<1> QED
  BY <1>1, <1>2, PTL DEF HistorianSpec

------------------------------------------------------------------------------
(* The newest events.                                                        *)

\* The Min and Max by which the limit is bounded.
LEMMA MinMaxOfTwo ==
  ASSUME NEW a \in Nat, NEW b \in Nat
  PROVE  /\ Min({a, b}) = IF a <= b THEN a ELSE b
         /\ Max({a, b}) = IF a >= b THEN a ELSE b
<1>1. \E x \in {a, b} : \A y \in {a, b} : x <= y
  OBVIOUS
<1>2. \E x \in {a, b} : \A y \in {a, b} : x >= y
  OBVIOUS
<1>3. Min({a, b}) \in {a, b} /\ \A y \in {a, b} : Min({a, b}) <= y
  BY <1>1 DEF Min
<1>4. Max({a, b}) \in {a, b} /\ \A y \in {a, b} : Max({a, b}) >= y
  BY <1>2 DEF Max
<1> QED BY <1>3, <1>4

\* The k newest rows, newest first, each once.
Latest(rows, k, r) ==
  /\ r \in Seq(rows) /\ Len(r) = k /\ k \in Nat /\ DOMAIN r = 1..k
  /\ \A i, j \in 1..k : i < j => r[j].time <= r[i].time
  /\ \A i \in 1..k : \A l \in rows \ ToSet(r) : l.time <= r[i].time
  /\ ToSet(r) \subseteq rows /\ IsFiniteSet(ToSet(r)) /\ Cardinality(ToSet(r)) = k

\* sort(desc: true) and limit give the newest rows.
LEMMA NewestRows ==
  ASSUME NEW rows, IsFiniteSet(rows), \A l \in rows : l.time \in Nat, NEW limit \in Nat
  PROVE  /\ Cardinality(rows) \in Nat
         /\ Latest(rows, IF limit <= Cardinality(rows) THEN limit ELSE Cardinality(rows),
                   Newest(rows, limit))
<1> DEFINE c == Cardinality(rows)
           f == SetToSeq(rows)
           key == [i \in DOMAIN f |-> -f[i].time]
           s == SortedBy(f, key)
           k == IF limit <= c THEN limit ELSE c
           r == Newest(rows, limit)
<1>1. /\ c \in Nat /\ f \in [1..c -> rows] /\ \A i, j \in 1..c : f[i] = f[j] => i = j
      /\ \A x \in rows : \E i \in 1..c : f[i] = x
  BY SetAsSequence
<1>2. r = SubSeq(s, 1, Min({limit, Len(f)}))
  BY DEF Newest
<1> HIDE DEF f, c, r
<1>3. Len(f) = c
  BY <1>1, LengthOf
<1>4. Min({limit, Len(f)}) = k /\ k \in Nat /\ k <= c /\ \A i \in 1..k : i \in 1..c
  BY <1>1, <1>3, MinMaxOfTwo
<1>5. \A i \in 1..c : f[i] \in rows /\ f[i].time \in Nat
  BY <1>1
<1>6. \A i \in 1..c : key[i] = -f[i].time /\ key[i] \in Int
  <2>1. ASSUME NEW i \in 1..c PROVE key[i] = -f[i].time /\ key[i] \in Int
    <3>1. key[i] = -f[i].time
      BY <1>1
    <3> DEFINE t == f[i].time
    <3>2. t \in Nat
      BY <1>5
    <3> HIDE DEF t
    <3>3. -t \in Int
      BY <3>2
    <3> QED BY <3>1, <3>3 DEF t
  <2> QED BY <2>1
<1> HIDE DEF key, k
<1>7. PICK p : Arranges(c, key, p) /\ s = [i \in 1..c |-> f[p[i]]]
  <2>1. DOMAIN f = 1..c /\ c \in Nat
    BY <1>1
  <2>2. \A i \in 1..c : key[i] \in Int
    BY <1>6
  <2>3. \E p : Arranges(c, key, p) /\ SortedBy(f, key) = [i \in 1..c |-> f[p[i]]]
    BY <2>1, <2>2, Sorted
  <2> QED BY <2>3
<1> HIDE DEF s
<1>8. s \in [1..c -> rows] /\ \A i \in 1..c : p[i] \in 1..c /\ s[i] = f[p[i]]
  BY <1>1, <1>7 DEF Arranges
<1>9. /\ r \in Seq(rows) /\ Len(r) = k /\ DOMAIN r = 1..k
      /\ \A i \in 1..k : r[i] = f[p[i]] /\ p[i] \in 1..c
  <2>1. 1 \in Int /\ k \in Int /\ \A i \in 1..k : s[i] \in rows
    BY <1>4, <1>8
  <2>2. r = SubSeq(s, 1, k)
    BY <1>2, <1>4
  <2>3. /\ r \in Seq(rows) /\ Len(r) = (IF 1 <= k THEN k - 1 + 1 ELSE 0)
        /\ \A i \in 1..(k - 1 + 1) : r[i] = s[1 + i - 1]
    BY <2>1, <2>2, SubSeqProperties
  <2>4. (IF 1 <= k THEN k - 1 + 1 ELSE 0) = k /\ k - 1 + 1 = k /\ \A i \in 1..k : 1 + i - 1 = i
    BY <1>4
  <2> QED BY <1>4, <1>8, <2>3, <2>4, LenProperties
<1>10. ASSUME NEW i \in 1..c, NEW j \in 1..c, i < j
       PROVE  f[p[j]].time <= f[p[i]].time
  <2> DEFINE a == f[p[i]].time  b == f[p[j]].time
  <2>1. a \in Nat /\ b \in Nat /\ key[p[i]] = -a /\ key[p[j]] = -b
    BY <1>5, <1>6, <1>8
  <2>2. key[p[i]] <= key[p[j]]
    BY <1>7, <1>10 DEF Arranges
  <2> HIDE DEF a, b
  <2>3. b <= a
    BY <2>1, <2>2
  <2> QED BY <2>3 DEF a, b
<1>11. ASSUME NEW i \in 1..k, NEW j \in 1..k, i < j PROVE r[j].time <= r[i].time
  BY <1>4, <1>9, <1>10, <1>11
<1>12. ASSUME NEW i \in 1..k, NEW l \in rows \ ToSet(r) PROVE l.time <= r[i].time
  <2>1. PICK q \in 1..c : f[q] = l
    BY <1>1
  <2>2. PICK j \in 1..c : p[j] = q
    BY <1>7 DEF Arranges
  <2>3. j \notin 1..k
    <3>1. ASSUME j \in 1..k PROVE FALSE
      <4>1. r[j] = l
        BY <1>9, <2>1, <2>2, <3>1
      <4> QED BY <1>9, <3>1, <4>1 DEF ToSet
    <3> QED BY <3>1
  <2>4. i < j /\ i \in 1..c
    BY <1>4, <2>3
  <2> QED BY <1>9, <1>10, <2>1, <2>2, <2>4
<1>13. \A i, j \in 1..k : r[i] = r[j] => i = j
  <2>1. ASSUME NEW i \in 1..k, NEW j \in 1..k, r[i] = r[j] PROVE i = j
    <3>1. p[i] = p[j] /\ i \in 1..c /\ j \in 1..c
      BY <1>1, <1>4, <1>9, <2>1
    <3> QED BY <1>7, <3>1 DEF Arranges
  <2> QED BY <2>1
<1>14. /\ ToSet(r) \subseteq rows /\ IsFiniteSet(ToSet(r)) /\ Cardinality(ToSet(r)) = k
  <2> DEFINE S == ToSet(r)  D == 1..k
  <2>1. IsFiniteSet(D) /\ Cardinality(D) = k
    BY <1>4, FS_Interval
  <2>2. r \in [D -> S] /\ \A x \in S : \E i \in D : r[i] = x
    BY <1>9, SeqDef DEF ToSet
  <2>3. r \in Surjection(D, S) /\ r \in Injection(D, S)
    BY <1>13, <2>2 DEF Surjection, Injection, IsInjective
  <2>5. S \subseteq rows
    BY <1>1, <1>9 DEF ToSet
  <2> HIDE DEF S, D
  <2>4. IsFiniteSet(S) /\ Cardinality(S) = Cardinality(D)
    BY <2>1, <2>3, FS_Surjection
  <2> QED BY <2>1, <2>4, <2>5 DEF S
<1>15. Latest(rows, k, r)
  BY <1>4, <1>9, <1>11, <1>12, <1>14 DEF Latest
<1> QED
  BY <1>1, <1>15 DEF c, k, r

\* The table of a node, that is its rows, limited.
TableOf(events, n, b) == Newest({l \in events : l.node = n}, b)

\* The limited tables of all nodes together.
Merged(events, b) == UNION {ToSet(TableOf(events, l.node, b)) : l \in events}

\* A row that its table leaves out: the table is full, with rows that are not older.
LEMMA LeftOut ==
  ASSUME NEW events, IsFiniteSet(events), \A l \in events : l.time \in Nat,
         NEW b \in Nat \ {0}, NEW l \in events \ Merged(events, b)
  PROVE  \E T \in SUBSET Merged(events, b) :
           /\ IsFiniteSet(T) /\ Cardinality(T) = b /\ \A x \in T : l.time <= x.time
<1> DEFINE rows == {k \in events : k.node = l.node}
           r == TableOf(events, l.node, b)
           T == ToSet(r)
           c == Cardinality(rows)
           m == IF b <= c THEN b ELSE c
<1>1. IsFiniteSet(rows) /\ \A k \in rows : k.time \in Nat
  <2>1. rows \in SUBSET events
    OBVIOUS
  <2> QED BY <2>1, FS_Subset
<1>2. c \in Nat /\ Latest(rows, m, r)
  <2>1. r = Newest(rows, b)
    BY DEF TableOf
  <2> HIDE DEF rows, r
  <2> QED BY <1>1, <2>1, NewestRows
<1>3. T \subseteq Merged(events, b)
  BY DEF Merged
<1>4. l \in rows \ T
  BY <1>3
<1> HIDE DEF rows, r
<1>5. /\ T \subseteq rows /\ IsFiniteSet(T) /\ Cardinality(T) = m /\ m \in Nat
      /\ DOMAIN r = 1..m /\ \A i \in 1..m : l.time <= r[i].time
  BY <1>2, <1>4 DEF Latest
<1>6. m = b
  <2>1. Cardinality(T) # c
    <3>1. T \in SUBSET rows
      BY <1>5
    <3>2. Cardinality(rows) = Cardinality(T) => rows = T
      BY <1>1, <3>1, FS_Subset
    <3> QED BY <1>4, <3>2
  <2> QED BY <1>5, <2>1
<1>7. \A x \in T : l.time <= x.time
  BY <1>5 DEF ToSet
<1> HIDE DEF T, m
<1> QED
  BY <1>3, <1>5, <1>6, <1>7

\* Limiting the tables before they are merged loses nothing.
LEMMA NewestOfMerged ==
  ASSUME NEW events, IsFiniteSet(events), \A l \in events : l.time \in Nat, NEW b \in Nat \ {0}
  PROVE  /\ Cardinality(events) \in Nat
         /\ Latest(events, IF b <= Cardinality(events) THEN b ELSE Cardinality(events),
                   Newest(Merged(events, b), b))
<1> DEFINE U == Merged(events, b)
           c == Cardinality(events)
           d == Cardinality(U)
           k == IF b <= d THEN b ELSE d
           r == Newest(U, b)
           S == ToSet(r)
<1>1. U \subseteq events
  <2>1. ASSUME NEW n PROVE ToSet(TableOf(events, n, b)) \subseteq events
    <3> DEFINE rows == {l \in events : l.node = n}
    <3>1. IsFiniteSet(rows) /\ \A l \in rows : l.time \in Nat
      <4>1. rows \in SUBSET events
        OBVIOUS
      <4> QED BY <4>1, FS_Subset
    <3>2. TableOf(events, n, b) = Newest(rows, b) /\ rows \subseteq events
      BY DEF TableOf
    <3> HIDE DEF rows
    <3>3. \E m : Latest(rows, m, Newest(rows, b))
      BY <3>1, NewestRows
    <3> QED BY <3>2, <3>3 DEF Latest
  <2> QED BY <2>1 DEF Merged
<1> HIDE DEF U
<1>2. /\ IsFiniteSet(U) /\ d <= c /\ (d = c => U = events) /\ c \in Nat /\ d \in Nat
      /\ \A l \in U : l.time \in Nat
  <2>1. U \in SUBSET events
    BY <1>1
  <2> QED BY <1>1, <2>1, FS_Subset, FS_CardinalityType
<1>3. Latest(U, k, r)
  BY <1>2, NewestRows
<1>4. \A l \in events \ U : \E T \in SUBSET U :
        IsFiniteSet(T) /\ Cardinality(T) = b /\ \A x \in T : l.time <= x.time
  BY LeftOut DEF U
<1> HIDE DEF r
<1>5. k = IF b <= c THEN b ELSE c
  <2>1. CASE U = events
    BY <2>1
  <2>2. CASE U # events
    <3>1. PICK l \in events \ U : TRUE
      BY <1>1, <2>2
    <3>2. PICK T \in SUBSET U : IsFiniteSet(T) /\ Cardinality(T) = b
      BY <1>4, <3>1
    <3>3. b <= d
      BY <1>2, <3>2, FS_Subset
    <3> QED BY <1>2, <3>3
  <2> QED BY <2>1, <2>2
<1> HIDE DEF c, d
<1>6. /\ r \in Seq(U) /\ Len(r) = k /\ k \in Nat /\ DOMAIN r = 1..k
      /\ \A i, j \in 1..k : i < j => r[j].time <= r[i].time
      /\ \A i \in 1..k : \A l \in U \ S : l.time <= r[i].time
      /\ S \subseteq U /\ IsFiniteSet(S) /\ Cardinality(S) = k
  BY <1>3 DEF Latest
<1>7. r \in Seq(events)
  BY <1>1, <1>6, SeqMonotonic
<1>8. ASSUME NEW i \in 1..k, NEW l \in events \ S PROVE l.time <= r[i].time
  <2>1. CASE l \in U
    BY <1>6, <1>8, <2>1
  <2>2. CASE l \notin U
    <3> SUFFICES ASSUME ~(l.time <= r[i].time) PROVE FALSE
      OBVIOUS
    <3>1. PICK T \in SUBSET U : /\ IsFiniteSet(T) /\ Cardinality(T) = b
                                /\ \A x \in T : l.time <= x.time
      BY <1>4, <2>2
    <3>2. r[i] \in S /\ r[i] \in U
      BY <1>6 DEF ToSet
    <3>3. \A x \in T : ~(x.time <= r[i].time)
      <4>1. ASSUME NEW x \in T PROVE ~(x.time <= r[i].time)
        <5> DEFINE a == l.time  e == r[i].time  g == x.time
        <5>1. a \in Nat /\ e \in Nat /\ g \in Nat /\ ~(a <= e) /\ a <= g
          BY <1>1, <1>2, <3>1, <3>2
        <5> HIDE DEF a, e, g
        <5>2. ~(g <= e)
          BY <5>1
        <5> QED BY <5>2 DEF e, g
      <4> QED BY <4>1
    <3>4. T \subseteq S \ {r[i]}
      <4>1. ASSUME NEW x \in T PROVE x \in S \ {r[i]}
        <5>1. ~(x.time <= r[i].time) /\ x \in U
          BY <3>1, <3>3
        <5>2. x \in S
          BY <1>6, <5>1
        <5>3. x # r[i]
          <6> DEFINE e == r[i].time
          <6>1. e \in Nat
            BY <1>2, <3>2
          <6> HIDE DEF e
          <6>2. e <= e
            BY <6>1
          <6> QED BY <5>1, <6>2 DEF e
        <5> QED BY <5>2, <5>3
      <4> QED BY <4>1
    <3>5. Cardinality(T) <= Cardinality(S \ {r[i]}) /\ Cardinality(S \ {r[i]}) = k - 1
      <4>1. IsFiniteSet(S \ {r[i]}) /\ Cardinality(S \ {r[i]}) = k - 1
        BY <1>6, <3>2, FS_RemoveElement
      <4>2. T \in SUBSET (S \ {r[i]})
        BY <3>4
      <4> QED BY <4>1, <4>2, FS_Subset
    <3>6. k <= b
      BY <1>2
    <3> QED BY <1>6, <3>1, <3>5, <3>6
  <2> QED BY <2>1, <2>2
<1>9. S \subseteq events
  BY <1>1, <1>6
<1> HIDE DEF k
<1>10. Latest(events, k, r)
  BY <1>6, <1>7, <1>8, <1>9 DEF Latest
<1> QED
  BY <1>2, <1>5, <1>10 DEF c, r, U

\* After a flush the API lists the newest events.
LEMMA NewestEvents ==
  ASSUME HistorianServiceAssumption, HistorianCellAssumption, AInv,
         process = "sleeping", items = << >>, NEW w, NEW limit \in Limits
  PROVE  LET answer == GetRecentEvents(stored, clock, w, limit)
             rows == {l \in stored : l.node \in Events /\ clock - l.time <= w}
         IN /\ ToSet(answer) \subseteq rows
            /\ Len(answer) = Min({Max({1, Min({limit, 500})}), Cardinality(rows)})
            /\ \A i \in DOMAIN answer, l \in rows \ ToSet(answer) :
                 l.time <= answer[i].time
            /\ clock - timestamp <= w /\ Events # {} =>
                 /\ answer[1].time = timestamp
                 /\ answer[1].value = window[Len(window)].values[answer[1].node]
<1> DEFINE answer == GetRecentEvents(stored, clock, w, limit)
           rows == {l \in stored : l.node \in Events /\ clock - l.time <= w}
           b == Max({1, Min({limit, 500})})
           k == IF b <= Cardinality(rows) THEN b ELSE Cardinality(rows)
<1>1. KInv /\ WindowKept /\ LinesCurrent /\ LifeInvariant /\ WindowInvariant /\ TimeInvariant
      /\ clock \in Nat /\ timestamp \in Nat /\ KpiWindow \in Nat
  BY DEF AInv, KInv, IInv, PlcInvariant, HistorianServiceAssumption
<1>2. b \in Nat \ {0}
  <2>1. limit \in Nat
    BY DEF HistorianCellAssumption
  <2> DEFINE m == Min({limit, 500})
  <2>2. m \in Nat
    <3>1. 500 \in Nat
      OBVIOUS
    <3>2. m = IF limit <= 500 THEN limit ELSE 500
      BY <2>1, <3>1, MinMaxOfTwo
    <3> HIDE DEF m
    <3> QED BY <2>1, <3>2
  <2> HIDE DEF m
  <2>3. Max({1, m}) = IF 1 >= m THEN 1 ELSE m
    <3>1. 1 \in Nat
      OBVIOUS
    <3> QED BY <2>2, <3>1, MinMaxOfTwo
  <2>4. Max({1, m}) \in Nat \ {0}
    BY <2>2, <2>3
  <2> QED BY <2>4 DEF m
<1>3. stored \subseteq Line /\ IsFiniteSet(stored) /\ Kept = stored
  BY <1>1 DEF WindowInvariant, LifeInvariant, Kept
<1>4. answer = Newest(Merged(rows, b), b)
  <2> DEFINE events == {l \in stored : /\ clock - l.time <= w
                                       /\ l.node \in DOMAIN Measurement
                                       /\ Measurement[l.node] \in EventMeasurements}
  <2>1. rows = events
    BY DEF HistorianCellAssumption
  <2>2. answer = Newest(Merged(events, b), b)
    BY DEF GetRecentEvents, Merged, TableOf
  <2> HIDE DEF events, rows, b, answer
  <2> QED BY <2>1, <2>2
<1>5. IsFiniteSet(rows) /\ \A l \in rows : l.time \in Nat
  <2>1. rows \in SUBSET stored
    OBVIOUS
  <2> QED BY <1>3, <2>1, FS_Subset DEF Line
<1> HIDE DEF answer, b
<1>6. Cardinality(rows) \in Nat /\ Latest(rows, k, answer)
  <2> HIDE DEF rows
  <2> QED BY <1>2, <1>4, <1>5, NewestOfMerged
<1>7. Min({b, Cardinality(rows)}) = k
  <2> HIDE DEF rows
  <2> QED BY <1>2, <1>6, MinMaxOfTwo
<1>8. /\ answer \in Seq(rows) /\ Len(answer) = k /\ k \in Nat /\ DOMAIN answer = 1..k
      /\ \A i, j \in 1..k : i < j => answer[j].time <= answer[i].time
      /\ \A i \in 1..k : \A l \in rows \ ToSet(answer) : l.time <= answer[i].time
      /\ ToSet(answer) \subseteq rows
  <2> HIDE DEF rows, k
  <2> QED BY <1>6 DEF Latest
<1>9. ASSUME clock - timestamp <= w, Events # {}
      PROVE  /\ answer[1].time = timestamp
             /\ answer[1].value = window[Len(window)].values[answer[1].node]
  <2> DEFINE L == Len(window)
  <2>1. /\ L \in Nat \ {0} /\ window[L].time = timestamp /\ born <= timestamp /\ born \in Nat
    BY <1>1 DEF LifeInvariant
  <2>2. PICK n \in Events : TRUE
    BY <1>9
  <2> DEFINE l0 == SampleLine(window[L], n)
  <2>3. l0 \in rows /\ l0.time = timestamp
    <3>1. n \in Nodes
      BY DEF HistorianCellAssumption
    <3>2. l0 \in stored
      <4>1. L \in 1..L
        BY <2>1
      <4> QED BY <1>1, <1>3, <3>1, <4>1 DEF WindowKept
    <3> QED BY <1>9, <2>1, <3>2 DEF SampleLine
  <2> HIDE DEF l0, L
  <2>4. 1 \in 1..k
    <3>1. Cardinality(rows) # 0
      <4> HIDE DEF rows
      <4> QED BY <1>5, <2>3, FS_EmptySet
    <3> HIDE DEF rows
    <3> QED BY <1>2, <1>6, <3>1
  <2> HIDE DEF k
  <2>5. answer[1] \in rows
    BY <1>8, <2>4 DEF ToSet
  <2>6. timestamp <= answer[1].time
    <3>1. CASE l0 \in ToSet(answer)
      <4>1. PICK i \in 1..k : answer[i] = l0
        BY <1>8, <3>1 DEF ToSet
      <4>2. CASE i = 1
        <5>1. timestamp <= timestamp
          BY <1>1
        <5> QED BY <2>3, <4>1, <4>2, <5>1
      <4>3. CASE i # 1
        <5>1. 1 < i
          BY <4>3
        <5> QED BY <1>8, <2>3, <2>4, <4>1, <5>1
      <4> QED BY <4>2, <4>3
    <3>2. CASE l0 \notin ToSet(answer)
      BY <1>8, <2>3, <2>4, <3>2
    <3> QED BY <3>1, <3>2
  <2>7. answer[1].time \in Nat /\ answer[1].time <= timestamp
    <3>1. answer[1] \in stored
      BY <2>5
    <3>2. answer[1].time \in Times
      BY <1>3, <3>1 DEF Times
    <3> QED BY <1>1, <3>2 DEF TimeInvariant
  <2>8. answer[1].time = timestamp
    <3> DEFINE t == answer[1].time
    <3>1. t \in Nat /\ timestamp \in Nat /\ t <= timestamp /\ timestamp <= t
      BY <1>1, <2>6, <2>7
    <3> HIDE DEF t
    <3>2. t = timestamp
      BY <3>1
    <3> QED BY <3>2 DEF t
  <2>9. Current(answer[1])
    <3>1. answer[1] \in Kept /\ answer[1].node \in Nodes
      BY <1>3, <2>5 DEF HistorianCellAssumption
    <3>2. timestamp >= born
      BY <1>1, <2>1
    <3> QED BY <1>1, <2>8, <3>1, <3>2 DEF LinesCurrent
  <2>10. ~(timestamp - timestamp > KpiWindow)
    BY <1>1
  <2>11. PICK i \in 1..L : timestamp = window[i].time
                           /\ answer[1].value = window[i].values[answer[1].node]
    BY <2>8, <2>9, <2>10 DEF Current, L
  <2>12. i = L
    <3>1. i < L => window[i].time < window[L].time
      <4>1. L \in 1..Len(window) /\ i \in 1..Len(window)
        BY <2>1 DEF L
      <4> QED BY <1>1, <4>1 DEF WindowInvariant
    <3>2. ~(timestamp < timestamp)
      BY <1>1
    <3>3. ~(i < L)
      BY <2>1, <2>11, <3>1, <3>2
    <3> QED BY <2>1, <3>3
  <2> QED BY <2>8, <2>11, <2>12 DEF L
<1> HIDE DEF rows, k
<1> QED
  BY <1>7, <1>8, <1>9 DEF answer, b, rows

\* Once the buffer is written the API lists the newest events, whatever the
\* limit, and the one the collector read last before all others.
THEOREM EventsAreNewestCorrect == HistorianSpec => []EventsAreNewest
<1>1. AInv => EventsAreNewest
  BY NewestEvents, HistorianServiceAssumption, HistorianCellAssumption DEF EventsAreNewest
<1> QED
  BY <1>1, AgreementCorrect, PTL

------------------------------------------------------------------------------
(* The KPIs of the API are those of the collector.                           *)

\* Lists of samples that do not differ in their times and in the counters.
Alike(a, b) ==
  /\ Len(a) \in Nat /\ Len(b) = Len(a) /\ DOMAIN a = 1..Len(a) /\ DOMAIN b = 1..Len(a)
  /\ \A i \in 1..Len(a) :
       /\ a[i].time = b[i].time /\ a[i].time \in Nat
       /\ \A n \in Counters, x \in Nat : /\ Value(a[i], n, x) = Value(b[i], n, x)
                                         /\ Value(a[i], n, x) \in Nat

\* sorted, by the times of the samples
InOrder(s) == SortedBy(s, [i \in DOMAIN s |-> s[i].time])

\* Lists that are alike are rearranged alike.
LEMMA AlikeInOrder ==
  ASSUME NEW a, NEW b, Alike(a, b)
  PROVE  Alike(InOrder(a), InOrder(b)) /\ Len(InOrder(a)) = Len(a)
<1> DEFINE m == Len(a)
           D == DOMAIN a
           key == [i \in D |-> a[i].time]
           p == [k \in D |-> Chosen(D, key, k)]
           sa == InOrder(a)
           sb == InOrder(b)
<1>1. m \in Nat /\ D = 1..m /\ DOMAIN b = D /\ \A i \in 1..m : key[i] \in Int
  BY DEF Alike
<1>2. sa = [k \in D |-> a[Chosen(D, key, k)]]
  BY DEF InOrder, SortedBy, Chosen, Rank, Smaller
<1>3. sb = [k \in D |-> b[Chosen(D, key, k)]]
  <2> DEFINE E == DOMAIN b
             key2 == [i \in E |-> b[i].time]
  <2>1. sb = [k \in E |-> b[Chosen(E, key2, k)]]
    BY DEF InOrder, SortedBy, Chosen, Rank, Smaller
  <2>2. E = D
    BY <1>1
  <2>3. key2 = key
    BY <1>1 DEF Alike
  <2> HIDE DEF E, D, key, key2
  <2> QED BY <2>1, <2>2, <2>3
<1> HIDE DEF m, D, key, sa, sb
<1>4. \A k \in 1..m : Chosen(D, key, k) \in 1..m
  <2>1. Arranges(m, key, p)
    BY <1>1, ChosenArranges
  <2> QED BY <1>1, <2>1 DEF Arranges
<1>5. /\ DOMAIN sa = 1..m /\ DOMAIN sb = 1..m
      /\ \A k \in 1..m : sa[k] = a[Chosen(D, key, k)] /\ sb[k] = b[Chosen(D, key, k)]
  BY <1>1, <1>2, <1>3
<1>6. Len(sa) = m /\ Len(sb) = m
  <2> DEFINE SA == {sa[k] : k \in 1..m}  SB == {sb[k] : k \in 1..m}
  <2>1. sa \in [1..m -> SA] /\ sb \in [1..m -> SB]
    BY <1>1, <1>2, <1>3, <1>5
  <2> HIDE DEF SA, SB
  <2> QED BY <1>1, <2>1, LengthOf
<1>7. ASSUME NEW k \in 1..m
      PROVE  /\ sa[k].time = sb[k].time /\ sa[k].time \in Nat
             /\ \A n \in Counters, x \in Nat : /\ Value(sa[k], n, x) = Value(sb[k], n, x)
                                               /\ Value(sa[k], n, x) \in Nat
  <2> DEFINE j == Chosen(D, key, k)
  <2>1. j \in 1..m /\ sa[k] = a[j] /\ sb[k] = b[j]
    BY <1>4, <1>5
  <2> HIDE DEF j
  <2> QED BY <2>1 DEF Alike, m
<1> QED
  BY <1>1, <1>5, <1>6, <1>7 DEF Alike, m, sa, sb

\* Lists that are alike have the same increments ...
LEMMA SameIncrements ==
  ASSUME NEW a, NEW b, Alike(a, b), Len(a) # 0, NEW n \in Counters
  PROVE  IncrementTimes(a, n) = IncrementTimes(b, n)
<1> DEFINE m == Len(a)
<1>1. m \in Nat \ {0} /\ Len(b) = m /\ 1 \in 1..m /\ m \in 1..m
  BY DEF Alike
<1>2. Countable(a, n) /\ Countable(b, n)
  BY <1>1 DEF Alike, Countable
<1>3. PICK f, g : /\ Previous(a, n, f) /\ Increments(a, f, g)
                  /\ IncrementTimes(a, n) = g[m]
  BY <1>2, IncrementsExist
<1>4. PICK f2, g2 : /\ Previous(b, n, f2) /\ Increments(b, f2, g2)
                    /\ IncrementTimes(b, n) = g2[m]
  <2>1. \E f2, g2 : /\ Previous(b, n, f2) /\ Increments(b, f2, g2)
                    /\ IncrementTimes(b, n) = g2[Len(b)]
    BY <1>2, IncrementsExist
  <2> QED BY <1>1, <2>1
<1>5. /\ f \in [1..m -> Nat] /\ f2 \in [1..m -> Nat]
      /\ \A i \in 1..m : /\ f[i] = Value(a[i], n, IF i = 1 THEN 0 ELSE f[i - 1])
                         /\ f2[i] = Value(b[i], n, IF i = 1 THEN 0 ELSE f2[i - 1])
  BY <1>1, <1>3, <1>4 DEF Previous
<1>6. \A i \in 1..m : /\ g[i] = IF i = 1 THEN << >> ELSE g[i - 1] \o Added(a, f, i)
                      /\ g2[i] = IF i = 1 THEN << >> ELSE g2[i - 1] \o Added(b, f2, i)
  BY <1>1, <1>3, <1>4 DEF Increments
<1>7. /\ \A i \in 1..m : a[i].time = b[i].time
      /\ \A i \in 1..m, x \in Nat : Value(a[i], n, x) = Value(b[i], n, x)
  BY DEF Alike
<1> HIDE DEF m
<1>8. ASSUME NEW i \in 1..m, \A j \in 1..m : j < i => f[j] = f2[j] PROVE f[i] = f2[i]
  <2>1. CASE i = 1
    <3>1. f[1] = Value(a[1], n, 0) /\ f2[1] = Value(b[1], n, 0)
      BY <1>1, <1>5
    <3> QED BY <1>1, <1>7, <2>1, <3>1
  <2>2. CASE i # 1
    <3>1. i - 1 \in 1..m /\ i - 1 < i
      BY <1>1, <2>2
    <3>2. f[i - 1] = f2[i - 1] /\ f[i - 1] \in Nat
      BY <1>5, <1>8, <3>1
    <3>3. f[i] = Value(a[i], n, f[i - 1]) /\ f2[i] = Value(b[i], n, f2[i - 1])
      BY <1>5, <2>2
    <3> QED BY <1>7, <3>2, <3>3
  <2> QED BY <2>1, <2>2
<1>9. \A i \in 1..m : f[i] = f2[i]
  <2> DEFINE S == {i \in 1..m : f[i] # f2[i]}
  <2> SUFFICES ASSUME S # {} PROVE FALSE
    OBVIOUS
  <2>1. S \subseteq Nat
    OBVIOUS
  <2>2. PICK i \in S : \A j \in S : i <= j
    <3> HIDE DEF S
    <3> QED BY <2>1, LeastExists
  <2>3. ASSUME NEW j \in 1..m, j < i PROVE f[j] = f2[j]
    BY <2>2, <2>3
  <2> QED BY <1>8, <2>2, <2>3
<1>10. ASSUME NEW i \in 1..m, i # 1 PROVE Added(a, f, i) = Added(b, f2, i)
  <2>1. i - 1 \in 1..m
    BY <1>1, <1>10
  <2>2. f[i] = f2[i] /\ f[i - 1] = f2[i - 1] /\ a[i].time = b[i].time
    BY <1>7, <1>9, <2>1
  <2> QED BY <2>2 DEF Added
<1>11. \A i \in 1..m : g[i] = g2[i]
  <2> DEFINE S == {i \in 1..m : g[i] # g2[i]}
  <2> SUFFICES ASSUME S # {} PROVE FALSE
    OBVIOUS
  <2>1. S \subseteq Nat
    OBVIOUS
  <2>2. PICK i \in S : \A j \in S : i <= j
    <3> HIDE DEF S
    <3> QED BY <2>1, LeastExists
  <2>3. CASE i = 1
    <3>1. g[1] = << >> /\ g2[1] = << >>
      BY <1>1, <1>6
    <3> QED BY <2>2, <2>3, <3>1
  <2>4. CASE i # 1
    <3>1. i - 1 \in 1..m /\ ~(i <= i - 1)
      BY <1>1, <2>2, <2>4
    <3>2. g[i - 1] = g2[i - 1]
      BY <2>2, <3>1
    <3> QED BY <1>6, <1>10, <2>2, <2>4, <3>2
  <2> QED BY <2>3, <2>4
<1> QED BY <1>1, <1>3, <1>4, <1>11

\* The KPIs as a function of what they are computed from.
Report(window_s, total, jams, cycle, between) ==
  [window_s |-> window_s, total_packages_delta |-> total, jam_delta |-> jams,
   throughput_per_min |-> IF window_s > 0 THEN <<total, window_s>> ELSE <<0, 0>>,
   average_cycle_time_s |->
     IF cycle = <<0, 0>> /\ total > 0 /\ window_s > 0 THEN <<window_s, total>> ELSE cycle,
   mean_time_between_jams_s |-> between]

\* What ComputeKpis takes from two or more samples.
LEMMA KpiReport ==
  ASSUME NEW s, ~(Len(s) < 2)
  PROVE  LET first == InOrder(s)[1]
             last == InOrder(s)[Len(InOrder(s))]
         IN ComputeKpis(s) =
              Report(last.time - first.time,
                     CounterDelta(Value(first, TOTAL_NODE, 0), Value(last, TOTAL_NODE, 0)),
                     CounterDelta(Value(first, JAM_NODE, 0), Value(last, JAM_NODE, 0)),
                     AverageDelta(IncrementTimes(InOrder(s), TOTAL_NODE)),
                     AverageDelta(IncrementTimes(InOrder(s), JAM_NODE)))
BY DEF ComputeKpis, Report, InOrder

\* ... and the same KPIs.
LEMMA SameKpis ==
  ASSUME NEW a, NEW b, Alike(a, b)
  PROVE  ComputeKpis(a) = ComputeKpis(b)
<1>1. Len(b) = Len(a) /\ Len(a) \in Nat
  BY DEF Alike
<1>2. CASE Len(a) < 2
  BY <1>1, <1>2 DEF ComputeKpis
<1>3. CASE ~(Len(a) < 2)
  <2> DEFINE sa == InOrder(a)
             sb == InOrder(b)
             m == Len(sa)
  <2>1. Alike(sa, sb) /\ m = Len(a)
    BY AlikeInOrder
  <2> HIDE DEF sa, sb
  <2>2. m # 0 /\ 1 \in 1..m /\ m \in 1..m /\ Len(sb) = m
    BY <1>1, <1>3, <2>1 DEF Alike
  <2>3. TOTAL_NODE \in Counters /\ JAM_NODE \in Counters
    BY DEF Counters
  <2>4. \A n \in Counters : IncrementTimes(sa, n) = IncrementTimes(sb, n)
    BY <2>1, <2>2, SameIncrements
  <2>5. /\ sa[1].time = sb[1].time /\ sa[m].time = sb[m].time
        /\ \A n \in Counters : /\ Value(sa[1], n, 0) = Value(sb[1], n, 0)
                               /\ Value(sa[m], n, 0) = Value(sb[m], n, 0)
    BY <2>1, <2>2 DEF Alike
  <2>6. ComputeKpis(a) =
          Report(sa[m].time - sa[1].time,
                 CounterDelta(Value(sa[1], TOTAL_NODE, 0), Value(sa[m], TOTAL_NODE, 0)),
                 CounterDelta(Value(sa[1], JAM_NODE, 0), Value(sa[m], JAM_NODE, 0)),
                 AverageDelta(IncrementTimes(sa, TOTAL_NODE)),
                 AverageDelta(IncrementTimes(sa, JAM_NODE)))
    BY <1>3, KpiReport DEF sa
  <2>7. ComputeKpis(b) =
          Report(sb[m].time - sb[1].time,
                 CounterDelta(Value(sb[1], TOTAL_NODE, 0), Value(sb[m], TOTAL_NODE, 0)),
                 CounterDelta(Value(sb[1], JAM_NODE, 0), Value(sb[m], JAM_NODE, 0)),
                 AverageDelta(IncrementTimes(sb, TOTAL_NODE)),
                 AverageDelta(IncrementTimes(sb, JAM_NODE)))
    <3>1. ~(Len(b) < 2)
      BY <1>1, <1>3
    <3>2. LET first == sb[1]
              last == sb[Len(sb)]
          IN ComputeKpis(b) =
               Report(last.time - first.time,
                      CounterDelta(Value(first, TOTAL_NODE, 0), Value(last, TOTAL_NODE, 0)),
                      CounterDelta(Value(first, JAM_NODE, 0), Value(last, JAM_NODE, 0)),
                      AverageDelta(IncrementTimes(sb, TOTAL_NODE)),
                      AverageDelta(IncrementTimes(sb, JAM_NODE)))
      BY <3>1, KpiReport DEF sb
    <3> QED BY <2>2, <3>2
  <2> QED BY <2>3, <2>4, <2>5, <2>6, <2>7
<1> QED BY <1>2, <1>3

\* g lists T in ascending order, with m elements.
Listed(T, m, g) ==
  /\ g \in [1..m -> T] /\ \A i, j \in 1..m : i < j => g[i] < g[j]
  /\ \A t \in T : \E i \in 1..m : g[i] = t

\* f and g both list the numbers T in ascending order, g with m elements.
BothList(T, f, m, g) ==
  T \subseteq Nat /\ IsFiniteSet(T) /\ Ascending(T, f) /\ m \in Nat /\ Listed(T, m, g)

\* There is one way to list numbers in ascending order.
LEMMA SameTimes ==
  ASSUME NEW T, NEW f, NEW m, NEW g, BothList(T, f, m, g)
  PROVE  Cardinality(T) = m /\ \A i \in 1..m : f[i] = g[i]
<1> T \subseteq Nat /\ IsFiniteSet(T) /\ Ascending(T, f) /\ m \in Nat /\ Listed(T, m, g)
  BY DEF BothList
<1>0. /\ g \in [1..m -> T] /\ \A i, j \in 1..m : i < j => g[i] < g[j]
      /\ \A t \in T : \E i \in 1..m : g[i] = t
  BY DEF Listed
<1>1. \A i \in 1..m : g[i] \in Nat
  BY <1>0
<1>2. \A i, j \in 1..m : g[i] = g[j] => i = j
  <2>1. ASSUME NEW i \in 1..m, NEW j \in 1..m, g[i] = g[j] PROVE i = j
    <3>1. g[i] \in Nat /\ ~(g[i] < g[i])
      BY <1>1
    <3>2. ~(i < j) /\ ~(j < i)
      BY <1>0, <2>1, <3>1
    <3> QED BY <3>2
  <2> QED BY <2>1
<1>3. Cardinality(T) = m
  <2>1. g \in Surjection(1..m, T) /\ g \in Injection(1..m, T)
    BY <1>0, <1>2 DEF Surjection, Injection, IsInjective
  <2>2. IsFiniteSet(1..m) /\ Cardinality(1..m) = m
    BY FS_Interval
  <2> QED BY <2>1, <2>2, FS_Surjection
<1>4. /\ f \in [1..m -> T] /\ \A i, j \in 1..m : i < j => f[i] < f[j]
      /\ \A t \in T : \E i \in 1..m : f[i] = t
  BY <1>3 DEF Ascending
<1>5. \A i \in 1..m : f[i] \in Nat /\ f[i] \in T /\ g[i] \in T
  BY <1>0, <1>4
<1> DEFINE S == {i \in 1..m : f[i] # g[i]}
<1>6. ASSUME S # {} PROVE FALSE
  <2>1. S \subseteq Nat
    OBVIOUS
  <2>2. PICK i \in S : \A j \in S : i <= j
    <3> HIDE DEF S
    <3> QED BY <1>6, <2>1, LeastExists
  <2>3. \A j \in 1..m : j < i => f[j] = g[j]
    <3>1. ASSUME NEW j \in 1..m, j < i PROVE f[j] = g[j]
      <4>1. ~(i <= j)
        BY <2>2, <3>1
      <4> QED BY <2>2, <4>1
    <3> QED BY <3>1
  <2>4. i \in 1..m /\ f[i] # g[i] /\ f[i] \in Nat /\ g[i] \in Nat
    BY <1>1, <1>5, <2>2
  <2>5. CASE f[i] < g[i]
    <3>1. PICK j \in 1..m : g[j] = f[i]
      BY <1>0, <1>5, <2>4
    <3>2. ~(i < j) /\ j # i
      <4>1. i < j => g[i] < g[j]
        BY <1>0, <2>4
      <4>2. ~(g[i] < f[i])
        BY <2>4, <2>5
      <4> QED BY <2>4, <3>1, <4>1, <4>2
    <3>3. j < i
      BY <2>4, <3>2
    <3>4. f[j] < f[i] /\ f[j] = g[j]
      BY <1>4, <2>3, <2>4, <3>3
    <3>5. ~(f[i] < f[i])
      BY <2>4
    <3> QED BY <3>1, <3>4, <3>5
  <2>6. CASE g[i] < f[i]
    <3>1. PICK j \in 1..m : f[j] = g[i]
      BY <1>4, <1>5, <2>4
    <3>2. ~(i < j) /\ j # i
      <4>1. i < j => f[i] < f[j]
        BY <1>4, <2>4
      <4>2. ~(f[i] < g[i])
        BY <2>4, <2>6
      <4> QED BY <2>4, <3>1, <4>1, <4>2
    <3>3. j < i
      BY <2>4, <3>2
    <3>4. g[j] < g[i] /\ f[j] = g[j]
      BY <1>0, <2>3, <2>4, <3>3
    <3>5. ~(g[i] < g[i])
      BY <2>4
    <3> QED BY <3>1, <3>4, <3>5
  <2> QED BY <2>4, <2>5, <2>6
<1> QED BY <1>3, <1>6

\* After a flush InfluxDB holds the samples of the window, as far as the KPIs
\* need them, and nothing else from the time of the window.
LEMMA ReadBack ==
  ASSUME HistorianServiceAssumption, HistorianCellAssumption, AInv,
         process = "sleeping", items = << >>, timestamp = clock,
         failures = 0 \/ born <= clock - KpiWindow
  PROVE  Alike(ReadSamples(stored, clock, KpiWindow), window)
<1> DEFINE samples == ReadSamples(stored, clock, KpiWindow)
           records == InRange(stored, clock, KpiWindow)
           T == {l.time : l \in records}
           c == Cardinality(T)
           f == [i \in 1..c |-> samples[i].time]
           m == Len(window)
           g == [i \in 1..m |-> window[i].time]
<1>1. /\ KInv /\ WindowKept /\ LinesCurrent /\ LifeInvariant /\ WindowInvariant /\ TimeInvariant
      /\ clock \in Nat /\ KpiWindow \in Nat /\ Kept = stored
  BY DEF AInv, KInv, IInv, PlcInvariant, HistorianServiceAssumption, Kept
<1>2. /\ stored \subseteq Line /\ window \in Seq(Sample) /\ m \in Nat /\ DOMAIN window = 1..m
      /\ \A i, j \in 1..m : i < j => window[i].time < window[j].time
      /\ \A i \in 1..m : window[i] \in Sample
  <2>1. window \in Seq(Sample)
    BY <1>1 DEF WindowInvariant
  <2> QED BY <1>1, <2>1, LenProperties, ElementOfSeq DEF WindowInvariant
<1>3. \A l \in stored : l.time \in 0..clock
  <2>1. ASSUME NEW l \in stored PROVE l.time \in 0..clock
    <3>1. l.time \in Times
      BY <1>1, <2>1 DEF Times
    <3> QED BY <1>1, <3>1 DEF TimeInvariant
  <2> QED BY <2>1
<1>4. ReadFrom(stored, clock, KpiWindow, samples)
  BY <1>1, <1>3, SamplesRead
<1>5. /\ \A l \in records : /\ l \in stored /\ clock - l.time <= KpiWindow /\ l.node \in Nodes
                            /\ Measurement[l.node] \in KpiMeasurements
      /\ \A l \in stored : clock - l.time <= KpiWindow /\ l.node \in Counters => l \in records
  BY DEF InRange, HistorianCellAssumption
<1> HIDE DEF samples, records
<1>6. /\ Len(samples) = c /\ DOMAIN samples = 1..c /\ c \in Nat /\ Ascending(T, f)
      /\ \A i \in 1..c :
           /\ DOMAIN samples[i].values = {l.node : l \in {r \in records : r.time = samples[i].time}}
           /\ \A n \in DOMAIN samples[i].values :
                \E l \in records : /\ l.time = samples[i].time /\ l.node = n
                                   /\ samples[i].values[n] = l.value
  BY <1>4 DEF ReadFrom, records
\* a line in range is of a sample of the window
<1>7. ASSUME NEW l \in records
      PROVE  \E i \in 1..m : l.time = window[i].time /\ l.value = window[i].values[l.node]
  <2>1. l \in stored /\ l.node \in Nodes /\ l.time \in Nat /\ clock - l.time <= KpiWindow
    BY <1>3, <1>5
  <2>2. l.time >= born
    <3> DEFINE t == l.time
    <3>1. t \in Nat /\ clock - t <= KpiWindow
      BY <2>1
    <3>2. born \in Nat /\ (born = 0 \/ born <= clock - KpiWindow)
      BY <1>1 DEF LifeInvariant
    <3> HIDE DEF t
    <3>3. clock \in Nat /\ KpiWindow \in Nat
      BY <1>1
    <3>4. t >= born
      BY <3>1, <3>2, <3>3
    <3> QED BY <3>4 DEF t
  <2>3. Current(l)
    BY <1>1, <2>1, <2>2 DEF LinesCurrent
  <2>4. ~(timestamp - l.time > KpiWindow)
    <3> DEFINE t == l.time
    <3>1. t \in Nat /\ clock - t <= KpiWindow /\ timestamp = clock
      BY <2>1
    <3> HIDE DEF t
    <3>2. ~(timestamp - t > KpiWindow)
      BY <1>1, <3>1
    <3> QED BY <3>2 DEF t
  <2> QED BY <2>3, <2>4 DEF Current
\* and a sample of the window has a line for each counter
<1>8. ASSUME NEW i \in 1..m, NEW n \in Counters
      PROVE  \E l \in records : l.time = window[i].time /\ l.node = n
  <2> DEFINE l == SampleLine(window[i], n)
  <2>1. l \in stored /\ l.time = window[i].time /\ l.node = n
    BY <1>1 DEF WindowKept, SampleLine, HistorianCellAssumption
  <2>2. clock - window[i].time <= KpiWindow
    BY <1>1 DEF WindowKept
  <2> HIDE DEF l
  <2> QED BY <1>5, <2>1, <2>2
<1>9. T \subseteq Nat /\ IsFiniteSet(T)
  <2>1. T \subseteq 0..clock
    BY <1>3, <1>5
  <2>2. IsFiniteSet(0..clock)
    BY <1>1, FS_Interval
  <2> HIDE DEF T
  <2>3. T \in SUBSET (0..clock)
    BY <2>1
  <2>4. IsFiniteSet(T)
    BY <2>2, <2>3, FS_Subset
  <2> QED BY <2>1, <2>4
<1>10. Listed(T, m, g)
  <2>1. \A i \in 1..m : window[i].time \in T
    <3>1. ASSUME NEW i \in 1..m PROVE window[i].time \in T
      <4>1. TOTAL_NODE \in Counters
        BY DEF Counters
      <4>2. \E l \in records : l.time = window[i].time
        BY <1>8, <4>1
      <4> QED BY <4>2
    <3> QED BY <3>1
  <2>2. \A i \in 1..m : g[i] = window[i].time
    OBVIOUS
  <2>3. \A t \in T : \E i \in 1..m : window[i].time = t
    <3>1. ASSUME NEW t \in T PROVE \E i \in 1..m : window[i].time = t
      <4>1. PICK l \in records : l.time = t
        OBVIOUS
      <4> QED BY <1>7, <4>1
    <3> QED BY <3>1
  <2>4. g \in [1..m -> T]
    BY <2>1
  <2> HIDE DEF g, T
  <2> QED BY <1>2, <2>2, <2>3, <2>4 DEF Listed
<1> HIDE DEF m, T
<1>11. c = m /\ \A i \in 1..m : f[i] = g[i]
  <2> HIDE DEF f, g
  <2>1. m \in Nat
    BY <1>2
  <2>2. Ascending(T, f)
    BY <1>6
  <2>3. Cardinality(T) = m /\ \A i \in 1..m : f[i] = g[i]
    <3>1. BothList(T, f, m, g)
      BY <1>9, <1>10, <2>1, <2>2 DEF BothList
    <3> QED BY <3>1, SameTimes
  <2> QED BY <2>3
<1>12. \A i \in 1..m : f[i] = samples[i].time /\ g[i] = window[i].time
  BY <1>11
<1> HIDE DEF f, g, c
<1>13. \A i \in 1..m : samples[i].time = window[i].time /\ window[i].time \in Nat
  BY <1>2, <1>11, <1>12 DEF Sample
<1>14. ASSUME NEW i \in 1..m, NEW n \in Counters
       PROVE  /\ n \in DOMAIN samples[i].values /\ n \in DOMAIN window[i].values
              /\ samples[i].values[n] = window[i].values[n] /\ window[i].values[n] \in Nat
  <2>1. n \in Nodes /\ n \in DOMAIN window[i].values /\ window[i].values[n] \in Nat
    BY <1>2 DEF Sample, HistorianCellAssumption
  <2>2. n \in DOMAIN samples[i].values
    <3>1. PICK l \in records : l.time = samples[i].time /\ l.node = n
      BY <1>8, <1>13
    <3>2. n \in {k.node : k \in {r \in records : r.time = samples[i].time}}
      BY <3>1
    <3> QED BY <1>6, <1>11, <3>2
  <2>3. PICK l \in records : /\ l.time = samples[i].time /\ l.node = n
                             /\ samples[i].values[n] = l.value
    BY <1>6, <1>11, <2>2
  <2>4. PICK j \in 1..m : l.time = window[j].time /\ l.value = window[j].values[n]
    BY <1>7, <2>3
  <2>5. j = i
    <3>1. window[j].time = window[i].time /\ window[i].time \in Nat
      BY <1>13, <2>3, <2>4
    <3>2. ~(window[i].time < window[i].time)
      BY <3>1
    <3>3. ~(i < j) /\ ~(j < i)
      BY <1>2, <3>1, <3>2
    <3>4. i \in Nat /\ j \in Nat
      BY <1>2
    <3> QED BY <3>3, <3>4
  <2> QED BY <2>1, <2>2, <2>3, <2>4, <2>5
<1>15. \A i \in 1..m : \A n \in Counters, x \in Nat :
         Value(samples[i], n, x) = Value(window[i], n, x) /\ Value(samples[i], n, x) \in Nat
  BY <1>14 DEF Value
<1>16. DOMAIN samples = 1..m /\ DOMAIN window = 1..m
  BY <1>2, <1>6, <1>11
<1> QED
  BY <1>2, <1>6, <1>11, <1>13, <1>15, <1>16 DEF Alike, samples, m

\* Once the buffer is written, the API computes over the KPI window what the
\* collector did, unless samples of an earlier process are in the window.
THEOREM ApiAgreesCorrect == HistorianSpec => []ApiAgrees
<1>1. ASSUME AInv PROVE ApiAgrees
  <2> SUFFICES ASSUME process = "sleeping", items = << >>, timestamp = clock,
                      failures = 0 \/ born <= clock - KpiWindow
               PROVE  GetKpis(stored, clock, KpiWindow) = summary
    BY DEF ApiAgrees
  <2>1. Alike(ReadSamples(stored, clock, KpiWindow), window)
    BY <1>1, ReadBack, HistorianServiceAssumption, HistorianCellAssumption
  <2>2. summary = ComputeKpis(window)
    BY <1>1 DEF AInv, LifeInvariant
  <2> QED BY <2>1, <2>2, SameKpis DEF GetKpis
<1> QED
  BY <1>1, AgreementCorrect, PTL
===============================================================================
