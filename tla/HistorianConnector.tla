--------------------------- MODULE HistorianConnector ---------------------------
(* plc/FB_HistorianConnector.st: supervision of the collector's heartbeat    *)
(* and the strobes by which telemetry and events are published.  Times are   *)
(* in scans.                                                                 *)
EXTENDS Integers

CONSTANTS
  SampleScans, HeartbeatScans, MaxMissedHeartbeats,
  UintModulus          \* numbers of a UINT, 2^16 in the code

ASSUME HistorianAssumption ==
  /\ {SampleScans, HeartbeatScans, MaxMissedHeartbeats} \subseteq Nat \ {0}
  /\ UintModulus \in Nat /\ MaxMissedHeartbeats < UintModulus

VARIABLES
  histState,           \* eState
  xHeartbeatLast,
  rSampleElapsed, rHeartbeatElapsed,
  uiMissedHeartbeats,
  udiLastEventSequence,
  published            \* what this scan publishes (the xPublish... strobes)

histVars == <<histState, xHeartbeatLast, rSampleElapsed, rHeartbeatElapsed,
              uiMissedHeartbeats, udiLastEventSequence, published>>

Channels == {"conveyor", "diverter", "kpi", "alarm", "event"}

HistorianInput ==      \* ST_HistorianConnectorInput; lastSequence is 0 without an event
  [xEnable : BOOLEAN, xOpcUaServerReady : BOOLEAN, xCollectorHeartbeat : BOOLEAN,
   xLastWriteOK : BOOLEAN, xActiveAlarm : BOOLEAN, lastSequence : Nat]

HistTypeOK ==
  /\ histState \in {"DISABLED", "CONNECTING", "BACKOFF", "FAULTED", "CONNECTED",
                    "PUBLISHING"}
  /\ xHeartbeatLast \in BOOLEAN
  /\ rSampleElapsed \in 0..SampleScans - 1
  /\ rHeartbeatElapsed \in 0..HeartbeatScans - 1
  /\ uiMissedHeartbeats \in 0..UintModulus - 1
  /\ udiLastEventSequence \in Nat
  /\ published \subseteq Channels

HistorianInit ==
  /\ histState = "DISABLED"
  /\ xHeartbeatLast = FALSE
  /\ rSampleElapsed = 0 /\ rHeartbeatElapsed = 0
  /\ uiMissedHeartbeats = 0
  /\ udiLastEventSequence = 0
  /\ published = {}

------------------------------------------------------------------------------
Subscribed(in) == in.xEnable /\ in.xOpcUaServerReady

HeartbeatEdge(in) == in.xCollectorHeartbeat # xHeartbeatLast

WatchHeartbeatBug(in) ==     \* an edge restarts the time but keeps the misses
  IF ~Subscribed(in)
  THEN rHeartbeatElapsed' = 0 /\ uiMissedHeartbeats' = 0
  ELSE IF HeartbeatEdge(in)
  THEN rHeartbeatElapsed' = 0 /\ UNCHANGED uiMissedHeartbeats
  ELSE IF rHeartbeatElapsed + 1 >= HeartbeatScans
  THEN /\ rHeartbeatElapsed' = 0
       /\ uiMissedHeartbeats' = (uiMissedHeartbeats + 1) % UintModulus
  ELSE rHeartbeatElapsed' = rHeartbeatElapsed + 1 /\ UNCHANGED uiMissedHeartbeats

WatchHeartbeat(in) ==
  IF ~Subscribed(in) \/ HeartbeatEdge(in)
  THEN rHeartbeatElapsed' = 0 /\ uiMissedHeartbeats' = 0
  ELSE IF rHeartbeatElapsed + 1 >= HeartbeatScans
  THEN /\ rHeartbeatElapsed' = 0
       /\ uiMissedHeartbeats' = (uiMissedHeartbeats + 1) % UintModulus
  ELSE rHeartbeatElapsed' = rHeartbeatElapsed + 1 /\ UNCHANGED uiMissedHeartbeats

\* xHistorianHealthy
Healthy(in) ==
  /\ Subscribed(in) /\ uiMissedHeartbeats' < MaxMissedHeartbeats /\ in.xLastWriteOK

SampleDue(in) == Healthy(in) /\ rSampleElapsed + 1 >= SampleScans

NewEvent(in) == in.lastSequence # 0 /\ in.lastSequence # udiLastEventSequence

PublishBug(in) ==            \* takes note of events that it does not publish
  /\ rSampleElapsed' = IF ~Healthy(in) \/ SampleDue(in) THEN 0 ELSE rSampleElapsed + 1
  /\ udiLastEventSequence' = in.lastSequence
  /\ published' = {c \in Channels : c = "event" /\ Healthy(in) /\ NewEvent(in)}

Publish(in) ==
  /\ rSampleElapsed' = IF ~Healthy(in) \/ SampleDue(in) THEN 0 ELSE rSampleElapsed + 1
  /\ udiLastEventSequence' = IF Healthy(in) /\ NewEvent(in) THEN in.lastSequence
                             ELSE udiLastEventSequence
  /\ published' =
       {c \in Channels :
          CASE c = "event" -> Healthy(in) /\ NewEvent(in)
            [] c = "alarm" -> SampleDue(in) /\ in.xActiveAlarm
            [] OTHER -> SampleDue(in)}

Report(in) ==
  histState' = IF ~in.xEnable THEN "DISABLED"
               ELSE IF ~in.xOpcUaServerReady THEN "CONNECTING"
               ELSE IF uiMissedHeartbeats' >= MaxMissedHeartbeats THEN "BACKOFF"
               ELSE IF ~in.xLastWriteOK THEN "FAULTED"
               ELSE IF SampleDue(in) THEN "PUBLISHING"
               ELSE "CONNECTED"

\* F_HistorianConnector_Cyclic, called once per scan.
HistorianScan(in) ==
  /\ WatchHeartbeat(in)
  /\ Publish(in)
  /\ Report(in)
  /\ xHeartbeatLast' = in.xCollectorHeartbeat
==============================================================================
