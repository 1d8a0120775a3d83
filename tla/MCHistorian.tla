------------------------------ MODULE MCHistorian ------------------------------
(* HistorianCell with a sensor, the two counters and the number of the last  *)
(* event.  A sample gives five or six lines and a batch has eleven, so that  *)
(* a batch may end within a sample, and full batches as well as the flush    *)
(* interval make the process flush.                                          *)
EXTENDS HistorianCell

MCNodeSpecs == <<"PE1_Blocked", "ThroughputTotal", "TotalJams", "LastSequence">>
MCMeasurement == [PE1_Blocked |-> "conveyor_telemetry",
                  ThroughputTotal |-> "cell_kpis", TotalJams |-> "cell_kpis",
                  LastSequence |-> "event_timeline"]
==============================================================================
