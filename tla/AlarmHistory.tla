------------------------------ MODULE AlarmHistory ------------------------------
(* Section 5 of plc/Main.st: the alarm manager and, behind it in the same    *)
(* scan, the historian connector that publishes what the manager has logged. *)
(* The alarm inputs are those Main computes (lines 392-405): the drive fault *)
(* and the jam are already the ORs with the conveyor's.                      *)
EXTENDS AlarmManager, HistorianConnector

CONSTANTS
  Scenes,              \* what a scan may meet
  MaxSilence,          \* bound: scans without a heartbeat edge
  MaxPending           \* bound: events since the last published one

Scene ==
  [alarms : SUBSET AlarmCodes, xJamWarning : BOOLEAN,
   ePackMLState : PackMLStates, xAcknowledge : BOOLEAN, xReset : BOOLEAN,
   xEnable : BOOLEAN, xOpcUaServerReady : BOOLEAN, xCollectorHeartbeat : BOOLEAN,
   xLastWriteOK : BOOLEAN]

\* MaxPending stays below what the sequence numbers can tell apart; MaxSilence
\* may go beyond the wrap of the UINT of missed heartbeats.
ASSUME AlarmHistoryAssumption ==
  /\ Scenes \subseteq Scene
  /\ MaxSilence \in Nat
  /\ MaxPending \in Nat /\ MaxPending < SequenceModulus - 1

VARIABLES
  silence,             \* history: scans since the last heartbeat edge
  pending              \* history: events logged since the last published one

historyVars == <<silence, pending>>
alarmHistoryVars == <<alarmVars, histVars, historyVars>>

AlarmHistoryTypeOK ==
  AlarmTypeOK /\ HistTypeOK /\ silence \in 0..MaxSilence /\ pending \in 0..MaxPending

AlarmHistoryInit == AlarmInit /\ HistorianInit /\ silence = 0 /\ pending = 0

------------------------------------------------------------------------------
(* The wiring of Main.st.                                                    *)

AlarmIn(scene) ==
  [alarms |-> scene.alarms, xJamWarning |-> scene.xJamWarning,
   ePackMLState |-> scene.ePackMLState, xAcknowledge |-> scene.xAcknowledge,
   xReset |-> scene.xReset]

HistorianIn(scene) ==
  [xEnable |-> scene.xEnable, xOpcUaServerReady |-> scene.xOpcUaServerReady,
   xCollectorHeartbeat |-> scene.xCollectorHeartbeat,
   xLastWriteOK |-> scene.xLastWriteOK, xActiveAlarm |-> xAnyAlarmActive',
   lastSequence |-> stTimeline'.stLastEvent.udiSequence]

Logged(scene) ==
  Len(StateEvents) + Len(AcknowledgeEvents(AlarmIn(scene)))
    + Len(ResetEvents(AlarmIn(scene)))

Remember(scene) ==
  /\ silence' = IF ~Subscribed(scene) \/ HeartbeatEdge(scene) THEN 0 ELSE silence + 1
  /\ pending' = IF "event" \in published' THEN 0 ELSE pending + Logged(scene)

Scan(scene) ==
  /\ AlarmScan(AlarmIn(scene))
  /\ \E in \in {HistorianIn(scene)} : HistorianScan(in)
  /\ Remember(scene)

AlarmHistoryNext ==
  \E scene \in Scenes :
    Scan(scene) /\ silence' <= MaxSilence /\ pending' <= MaxPending

AlarmHistorySpec == AlarmHistoryInit /\ [][AlarmHistoryNext]_alarmHistoryVars

------------------------------------------------------------------------------
(* Properties.                                                               *)

\* The ring, its write index and its sequence numbers hold exactly the latest
\* events in order, and the manager reports exactly the changes of the alarm
\* it shows, however alarms overlap and whatever the operator presses.
Log == INSTANCE EventLog WITH
  Codes <- AlarmCodes, Length <- Capacity,
  active <- eActiveAlarmCode, log <- Contents(stTimeline)

ImplementsLog == Log!Spec

\* "A held acknowledge must not pre-acknowledge a future alarm": what begins to
\* be shown is unacknowledged, unless the button goes down in that very scan.
AckIsFresh ==
  [][xAnyAlarmActive' /\ ~xAnyUnacked'
       => \/ xAckLast' /\ ~xAckLast
          \/ xAnyAlarmActive /\ eActiveAlarmCode' = eActiveAlarmCode /\ ~xAnyUnacked
    ]_alarmHistoryVars

\* The sounder falls silent only by a press of the acknowledge button or because
\* the alarm it announces has gone or given way to another one.
SounderNotForgotten ==
  [][("SOUNDER" \in stackLights /\ "SOUNDER" \notin stackLights')
       => \/ xAckLast' /\ ~xAckLast
          \/ eActiveAlarmCode' # eActiveAlarmCode]_alarmHistoryVars

Connected == histState \in {"CONNECTED", "PUBLISHING"}

\* The channel backs off exactly after MaxMissedHeartbeats timeouts in silence:
\* no edge, outage of the server or failed write starves or shortens the watch.
\* Nothing caps the UINT that counts the timeouts: each time it wraps, after 91
\* hours of silence, a dead collector passes for a live one until the next
\* MaxMissedHeartbeats timeouts.
BacksOffWhenSilent ==
  histState \notin {"DISABLED", "CONNECTING"} =>
    (histState = "BACKOFF" <=>
       (silence \div HeartbeatScans) % UintModulus >= MaxMissedHeartbeats)

\* While the channel is healthy nothing waits: the last event of an outage is
\* published in the scan in which the collector is back.
NothingWaitsWhenHealthy == Connected => pending = 0
==============================================================================
