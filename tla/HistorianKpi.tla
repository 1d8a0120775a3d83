------------------------------ MODULE HistorianKpi ------------------------------
(* historian_service/kpi.py: the KPIs of a list of timestamped samples.  A   *)
(* sample has a time and the values of the nodes it contains.  A mean is the *)
(* pair of its sum and its count; <<0, 0>> is the None of the code.          *)
EXTENDS Integers, Sequences, FiniteSets, SequencesExt, TLC

TOTAL_NODE == "ThroughputTotal"
JAM_NODE == "TotalJams"
Counters == {TOTAL_NODE, JAM_NODE}

\* TelemetrySample.value
Value(sample, n, default) ==
  IF n \in DOMAIN sample.values THEN sample.values[n] ELSE default

CounterDeltaBug(first, last) == \* takes a reset for a wrap
  IF last >= first THEN last - first ELSE last + first

CounterDelta(first, last) == IF last >= first THEN last - first ELSE 0

\* _counter_increment_times: the time of a sample once per unit it adds
IncrementTimes(samples, n) ==
  LET previous[i \in 1..Len(samples)] == \* the counter as of sample i
        Value(samples[i], n, IF i = 1 THEN 0 ELSE previous[i - 1])
      increments[i \in 1..Len(samples)] ==
        IF i = 1 THEN << >>
        ELSE increments[i - 1]
             \o [k \in 1..(previous[i] - previous[i - 1]) |-> samples[i].time]
  IN increments[Len(samples)]

AverageDelta(times) ==
  IF Len(times) < 2 THEN <<0, 0>>
  ELSE <<FoldLeft(+, 0, [i \in 1..Len(times) - 1 |-> times[i + 1] - times[i]]),
         Len(times) - 1>>

\* sorted, which keeps the order of equal keys: as many elements come before
\* the k-th as there are smaller keys and equal ones to the left of its own
SortedBy(seq, key) ==
  LET Before(i) ==
        {j \in DOMAIN seq : key[j] < key[i] \/ (key[j] = key[i] /\ j < i)}
  IN [k \in DOMAIN seq |->
        seq[CHOOSE i \in DOMAIN seq : Cardinality(Before(i)) = k - 1]]

ComputeKpis(samples) ==
  IF Len(samples) < 2
    THEN [window_s |-> 0, total_packages_delta |-> 0, jam_delta |-> 0,
          throughput_per_min |-> <<0, 0>>, average_cycle_time_s |-> <<0, 0>>,
          mean_time_between_jams_s |-> <<0, 0>>]
    ELSE
      LET ordered == SortedBy(samples, [i \in DOMAIN samples |-> samples[i].time])
          first == ordered[1]
          last == ordered[Len(ordered)]
          window == last.time - first.time
          Delta(n) == CounterDelta(Value(first, n, 0), Value(last, n, 0))
          total == Delta(TOTAL_NODE)
          cycle == AverageDelta(IncrementTimes(ordered, TOTAL_NODE))
      IN [window_s |-> window,
          total_packages_delta |-> total, jam_delta |-> Delta(JAM_NODE),
          throughput_per_min |-> IF window > 0 THEN <<total, window>> ELSE <<0, 0>>,
          average_cycle_time_s |->
            IF cycle = <<0, 0>> /\ total > 0 /\ window > 0 THEN <<window, total>>
            ELSE cycle,
          mean_time_between_jams_s |-> AverageDelta(IncrementTimes(ordered, JAM_NODE))]
==============================================================================
