------------------------------- MODULE MCAlarms -------------------------------
(* AlarmHistory with overlapping alarms, the operator's buttons and a  *)
(* collector that falls silent, fails to write or loses the server.          *)
EXTENDS AlarmHistory

\* One alarm at a time, two at once, and none.
AlarmSets == {{}, {"AIR_PRESSURE"}, {"ROUTE_FAULT", "AIR_PRESSURE"}, {"ESTOP"}}

Calm ==
  [alarms |-> {}, xJamWarning |-> FALSE, ePackMLState |-> "EXECUTE",
   xAcknowledge |-> FALSE, xReset |-> FALSE, xEnable |-> TRUE,
   xOpcUaServerReady |-> TRUE, xCollectorHeartbeat |-> FALSE,
   xLastWriteOK |-> TRUE]

\* The alarms with any buttons, on either level of the heartbeat.
Operated ==
  {[Calm EXCEPT !.alarms = a, !.xAcknowledge = k, !.xReset = r,
                !.xCollectorHeartbeat = h] :
     a \in AlarmSets, k, r, h \in BOOLEAN}

Warned ==
  {[Calm EXCEPT !.ePackMLState = "HELD"], [Calm EXCEPT !.xJamWarning = TRUE]}

\* The channel fails in one way or another, with or without an alarm.
Outages ==
  UNION {{[Calm EXCEPT !.alarms = a, !.xLastWriteOK = FALSE],
          [Calm EXCEPT !.alarms = a, !.xOpcUaServerReady = FALSE],
          [Calm EXCEPT !.alarms = a, !.xEnable = FALSE]} :
         a \in {{}, {"ESTOP"}}}

MCScenes == Operated \cup Warned \cup Outages
==============================================================================
