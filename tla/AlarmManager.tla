------------------------------ MODULE AlarmManager ------------------------------
(* plc/FB_AlarmManager.st: the highest-priority alarm, its acknowledgement,  *)
(* the stack light and the event log.  An event is the alarm code it reports,*)
(* or "CLEARED", "ACKNOWLEDGED", "RESET".                                     *)
EXTENDS EventTimeline, Sequences, MHMCTypes

CONSTANTS
  FlashScans           \* rFlashPeriod_s in scans

\* The alarms in the order in which the code tests them, with their severity.
Priority == <<"ESTOP", "DIVERTER_1", "DIVERTER_2", "ROUTE_FAULT", "GENERAL_JAM",
              "AIR_PRESSURE", "VFD_FAULT">>

Severities == <<1000, 900, 900, 850, 800, 700, 700>>

AlarmCodes == {Priority[i] : i \in DOMAIN Priority}

AlarmInput ==          \* ST_AlarmManagerInput; alarms holds the inputs in fault
  [alarms : SUBSET AlarmCodes, xJamWarning : BOOLEAN,
   ePackMLState : PackMLStates, xAcknowledge : BOOLEAN, xReset : BOOLEAN]

ASSUME AlarmAssumption == FlashScans \in Nat \ {0}

VARIABLES
  alarmState,          \* eState
  eActiveAlarmCode,    \* at the end of a scan also eLastAlarmCode
  xAnyAlarmActive,     \* and xAlarmActiveLast
  xAckLatched, xAckLast, xAlarmResetLast,
  xFlashState, rFlashElapsed,
  stackLights,         \* the lights and the sounder that are on
  xAnyUnacked,
  stTimeline

alarmVars == <<alarmState, eActiveAlarmCode, xAnyAlarmActive, xAckLatched,
               xAckLast, xAlarmResetLast, xFlashState, rFlashElapsed,
               stackLights, xAnyUnacked, stTimeline>>

AlarmInit ==
  /\ alarmState = "NORMAL" /\ eActiveAlarmCode = "NONE" /\ xAnyAlarmActive = FALSE
  /\ xAckLatched = FALSE /\ xAckLast = FALSE /\ xAlarmResetLast = FALSE
  /\ xFlashState = FALSE /\ rFlashElapsed = 0
  /\ stackLights = {} /\ xAnyUnacked = FALSE
  /\ stTimeline = ClearTimeline

AlarmTypeOK ==
  /\ alarmState \in {"NORMAL", "WARNING", "FAULT", "ABORT"}
  /\ eActiveAlarmCode \in AlarmCodes \cup {"NONE"}
  /\ {xAnyAlarmActive, xAckLatched, xAckLast, xAlarmResetLast, xFlashState,
      xAnyUnacked} \subseteq BOOLEAN
  /\ rFlashElapsed \in 0..FlashScans - 1
  /\ stackLights \subseteq {"GREEN", "YELLOW", "RED", "SOUNDER"}
  /\ stTimeline \in Timeline

------------------------------------------------------------------------------
Raised(in) == {i \in DOMAIN Priority : Priority[i] \in in.alarms}

Highest(in) == CHOOSE i \in Raised(in) : \A j \in Raised(in) : i <= j

Warning(in) == in.xJamWarning \/ in.ePackMLState = "HELD"

Categorise(in) ==
  /\ xAnyAlarmActive' = (in.alarms # {})
  /\ eActiveAlarmCode' = IF in.alarms = {} THEN "NONE" ELSE Priority[Highest(in)]
  /\ alarmState' = IF "ESTOP" \in in.alarms THEN "ABORT"
                   ELSE IF in.alarms # {} THEN "FAULT"
                   ELSE IF Warning(in) THEN "WARNING"
                   ELSE "NORMAL"

Severity(in) ==
  IF in.alarms # {} THEN Severities[Highest(in)] ELSE IF Warning(in) THEN 300 ELSE 0

Flash ==
  IF rFlashElapsed + 1 >= FlashScans
  THEN xFlashState' = ~xFlashState /\ rFlashElapsed' = 0
  ELSE xFlashState' = xFlashState /\ rFlashElapsed' = rFlashElapsed + 1

AckRise(in) == in.xAcknowledge /\ ~xAckLast
ResetRise(in) == in.xReset /\ ~xAlarmResetLast

RaisedOrChanged ==
  xAnyAlarmActive' /\ (eActiveAlarmCode' # eActiveAlarmCode \/ ~xAnyAlarmActive)

AcknowledgeBug(in) ==        \* a held button acknowledges what comes next
  xAckLatched' = IF in.xAcknowledge /\ xAnyAlarmActive' THEN TRUE
                 ELSE IF RaisedOrChanged THEN FALSE
                 ELSE xAckLatched

\* "A held acknowledge must not pre-acknowledge a future alarm."
Acknowledge(in) ==
  xAckLatched' =
    IF AckRise(in) /\ xAnyAlarmActive' THEN TRUE
    ELSE IF RaisedOrChanged \/ (ResetRise(in) /\ ~xAnyAlarmActive') THEN FALSE
    ELSE xAckLatched

IndicateBug(in) ==           \* the sounder flashes with the yellow light
  /\ xAnyUnacked' = (xAnyAlarmActive' /\ ~xAckLatched')
  /\ stackLights' = {light \in {"RED", "SOUNDER"} :
                       /\ alarmState' \in {"FAULT", "ABORT"}
                       /\ light = "SOUNDER" => xFlashState' /\ xAnyUnacked'}

Indicate(in) ==
  /\ xAnyUnacked' = (xAnyAlarmActive' /\ ~xAckLatched')
  /\ stackLights' =
       {light \in {"GREEN", "YELLOW", "RED", "SOUNDER"} :
          CASE light = "GREEN" -> in.ePackMLState = "EXECUTE" /\ ~xAnyAlarmActive'
            [] light = "YELLOW" ->
                 /\ xFlashState'
                 /\ \/ alarmState' = "WARNING"
                    \/ in.xJamWarning \/ "GENERAL_JAM" \in in.alarms
            [] light = "RED" -> alarmState' \in {"FAULT", "ABORT"}
            [] OTHER -> xAnyUnacked' /\ Severity(in) >= 800}

\* The events of a scan, in the order in which they are appended: at most one
\* on the alarm shown, one on each button.
StateEvents ==
  IF RaisedOrChanged THEN <<eActiveAlarmCode'>>
  ELSE IF ~xAnyAlarmActive' /\ xAnyAlarmActive THEN <<"CLEARED">>
  ELSE <<>>

AcknowledgeEvents(in) ==
  IF AckRise(in) /\ xAnyAlarmActive' THEN <<"ACKNOWLEDGED">> ELSE <<>>

ResetEvents(in) == IF ResetRise(in) THEN <<"RESET">> ELSE <<>>

AppendAny(t, events) == IF events = <<>> THEN t ELSE AppendEvent(t, events[1])

LogEvents(in) ==
  LET quiet == [stTimeline EXCEPT !.xNewEvent = FALSE]
      reported == AppendAny(quiet, StateEvents)
      acknowledged == AppendAny(reported, AcknowledgeEvents(in))
  IN stTimeline' = AppendAny(acknowledged, ResetEvents(in))

\* F_AlarmManager_Cyclic, called once per scan.
AlarmScan(in) ==
  /\ Flash
  /\ Categorise(in)
  /\ Acknowledge(in)
  /\ Indicate(in)
  /\ LogEvents(in)
  /\ xAckLast' = in.xAcknowledge
  /\ xAlarmResetLast' = in.xReset
==============================================================================
