------------------------------ MODULE KPIService ------------------------------
(* plc/FB_KPIService.st: package and scan counters, and the execute and      *)
(* scheduled times that the OEE is computed from.  The ratios themselves     *)
(* (availability, quality, OEE) are functions of this state and are left out.*)
EXTENDS Integers, MHMCTypes

CONSTANTS
  xUseRoutePulses,     \* count verified pulses of the routing, or raw PE edges
  TimeCap              \* the accumulated times saturate here

ASSUME KPIAssumption == xUseRoutePulses \in BOOLEAN /\ TimeCap \in Nat

VARIABLES
  kpiCounts,           \* udiTotalPackages, udiLaneAPackages, ...
  kpiTimes,            \* rExecuteTime_s, rFaultDowntime_s, rScheduledTime_s
  kpiLast              \* the *Last memories of the context

kpiVars == <<kpiCounts, kpiTimes, kpiLast>>

KPICounters == {"TOTAL", "LANE_A", "LANE_B", "REJECT", "REGISTERED", "GOOD", "BAD"}

KPISignals == {"PE4", "PE5", "PE6", "laneA", "laneB", "reject", "registered",
               "scanGood", "scanBad"}

KPIInput ==            \* ST_KPIServiceInput
  [signals : [KPISignals -> BOOLEAN], ePackMLState : PackMLStates,
   xFaultDowntime : BOOLEAN, xResetCounters : BOOLEAN]

KPITypeOK ==
  /\ kpiCounts \in [KPICounters -> Nat]
  /\ kpiTimes \in [{"EXECUTE", "FAULT", "SCHEDULED"} -> 0..TimeCap]
  /\ kpiLast \in [KPISignals -> BOOLEAN]

KPIInit ==
  /\ kpiCounts = [c \in KPICounters |-> 0]
  /\ kpiTimes = [t \in {"EXECUTE", "FAULT", "SCHEDULED"} |-> 0]
  /\ kpiLast = [s \in KPISignals |-> FALSE]

KPIRise(in, signal) == in.signals[signal] /\ ~kpiLast[signal]

\* A package in a lane: the verified pulse, or the edge of the exit sensor.
PackageEvent(in, pulse, sensor) ==
  KPIRise(in, IF xUseRoutePulses THEN pulse ELSE sensor)

Tally(event) == IF event THEN 1 ELSE 0

\* Package counters and scan counters after the events of this scan.
Counted(base, in) ==
  LET laneA == Tally(PackageEvent(in, "laneA", "PE4"))
      laneB == Tally(PackageEvent(in, "laneB", "PE5"))
      reject == Tally(PackageEvent(in, "reject", "PE6"))
  IN [base EXCEPT !["LANE_A"] = @ + laneA,
                  !["LANE_B"] = @ + laneB,
                  !["REJECT"] = @ + reject,
                  !["TOTAL"] = @ + laneA + laneB + reject,
                  !["REGISTERED"] = @ + Tally(KPIRise(in, "registered")),
                  !["GOOD"] = @ + Tally(KPIRise(in, "scanGood")),
                  !["BAD"] = @ + Tally(KPIRise(in, "scanBad"))]

Cleared == [c \in KPICounters |-> 0]

\* A faulty variant, used by no specification: the reset comes last.
CountEventsBug(in) ==
  kpiCounts' = IF in.xResetCounters THEN Cleared ELSE Counted(kpiCounts, in)

CountEvents(in) ==
  kpiCounts' = Counted(IF in.xResetCounters THEN Cleared ELSE kpiCounts, in)

Later(time) == IF time < TimeCap THEN time + 1 ELSE TimeCap

AccumulateTimes(in) ==
  LET base == IF in.xResetCounters THEN [t \in DOMAIN kpiTimes |-> 0] ELSE kpiTimes
  IN kpiTimes' =
       IF in.ePackMLState = "EXECUTE"
       THEN [base EXCEPT !["EXECUTE"] = Later(@), !["SCHEDULED"] = Later(@)]
       ELSE IF in.xFaultDowntime \/ in.ePackMLState = "HELD"
       THEN [base EXCEPT !["FAULT"] = Later(@), !["SCHEDULED"] = Later(@)]
       ELSE base

\* F_KPIService_Cyclic, called once per scan.
KPIScan(in) ==
  /\ CountEvents(in)
  /\ AccumulateTimes(in)
  /\ kpiLast' = in.signals
==============================================================================
