------------------------------ MODULE RecoveryCell ------------------------------
(* The command and recovery chain of plc/Main.st (sections 3 and 4): line    *)
(* supervisor, jam detector, station controller and conveyor, called in the  *)
(* order of the program and wired as it wires them.  What a block reads of a *)
(* later one is therefore what that one left behind a scan ago.              *)
(*                                                                           *)
(* The routing is represented by its fault latch, the alarm manager by its   *)
(* summary bit, the field and the operator by the scene each scan meets.     *)
EXTENDS LineSupervisor, JamDetector, ConveyorControl

CONSTANTS
  TransitionScans, DefaultSpeed, MinimumSpeed, MaximumSpeed, ManualMaxSpeed,
  MaintenanceMaxSpeed,         \* of the station controller
  Scenes,                      \* what a scan may meet
  MaxJams                      \* bound: counted jams in a behaviour

VARIABLES
  stationState, ePackMLState, eCurrentMode, rTransitionElapsed, xResetLast,
  xManualScannerLast, stationOut,
  xStationReady,       \* FALSE until the station was called for the first time
  xRouteFault,         \* the routing's latch
  xAnyAlarmActive,     \* the alarm manager's summary
  pushed,              \* history: scans a barrier was covered on a driven belt
  stopGiven,           \* history: a stop was passed on, and no start since
  uncounted,           \* history: the belt was stopped by a jam nobody counted
  helped, pressed      \* history: what the last scene was, see Helping

Station == INSTANCE StationController WITH
  eState <- stationState, StationInputs <- {}

mainVars == <<xStationReady, xRouteFault, xAnyAlarmActive>>
historyVars == <<pushed, stopGiven, uncounted, helped, pressed>>
recoveryVars == <<lineVars, jamVars, conveyorVars, Station!stationVars,
                  mainVars, historyVars>>

Scene ==
  [commands : SUBSET RemoteCommands, xManualResetJam : BOOLEAN,
   uiRecipeSelect : Nat, rRecipeSpeed : Int, blocked : SUBSET BeltSensors,
   xSafetyLoopOK : BOOLEAN, xOpcUaServerReady : BOOLEAN, routeFault : BOOLEAN]

ASSUME RecoveryAssumption ==
  /\ Scenes \subseteq Scene
  /\ Barriers = BeltSensors
  /\ TransitionScans \in Nat
  /\ {DefaultSpeed, MinimumSpeed, MaximumSpeed, ManualMaxSpeed,
      MaintenanceMaxSpeed} \subseteq Nat \ {0}
  /\ MaxJams \in Nat

RecoveryTypeOK ==
  /\ LineTypeOK /\ JamTypeOK /\ ConveyorTypeOK /\ Station!TypeOK
  /\ {xStationReady, xRouteFault, xAnyAlarmActive} \subseteq BOOLEAN
  /\ pushed \in [BeltSensors -> 0..MaximumJamLimit + 1]
  /\ {stopGiven, uncounted, helped, pressed} \subseteq BOOLEAN

RecoveryInit ==
  /\ LineInit /\ JamInit /\ ConveyorInit /\ Station!StationInit
  /\ xStationReady = FALSE /\ xRouteFault = FALSE /\ xAnyAlarmActive = FALSE
  /\ pushed = [s \in BeltSensors |-> 0]
  /\ stopGiven = FALSE /\ uncounted = FALSE
  /\ helped = FALSE /\ pressed = FALSE

------------------------------------------------------------------------------
(* The wiring of Main.st.                                                    *)

ResetJam(scene) == scene.xManualResetJam \/ "reset" \in scene.commands

LineIn(scene) ==
  [commands |-> scene.commands, uiRecipeSelect |-> scene.uiRecipeSelect,
   rRecipeSpeed |-> scene.rRecipeSpeed, xUseRecipePayload |-> FALSE,
   stRecipePayload |-> DefaultRecipe, eModeSelect |-> "AUTO",
   xOpcUaConnected |-> scene.xOpcUaServerReady, xStationReady |-> xStationReady]

JamIn(scene) ==
  [blocked |-> scene.blocked, xConveyorRunning |-> xIsRunning,
   rConveyorSpeed |-> rCurrentSpeed, xResetJam |-> ResetJam(scene),
   xRecoveryRequest |-> "unhold" \in scene.commands,
   xAllowAutoRecovery |-> stationOut.xPermissivesOK,
   ePackMLState |-> ePackMLState]

UnholdRequestBug == "unhold" \in linePulses'   \* forgets the jam detector

UnholdRequest == "unhold" \in linePulses' \/ xResetAcceptedPulse'

StationIn(scene) ==
  [xStart |-> "start" \in linePulses', xStop |-> "stop" \in linePulses',
   xReset |-> "reset" \in linePulses',
   xHold |-> "hold" \in scene.commands \/ xRequestHold' \/ xRouteFault,
   xUnhold |-> UnholdRequest,
   xClear |-> "clear" \in linePulses', eRequestedMode |-> "AUTO",
   stRecipe |-> [rAutoSpeed |-> stActiveRecipe'.rAutoSpeed,
                 rManualMaxSpeed |-> stActiveRecipe'.rManualMaxSpeed,
                 rMaintenanceSpeedLimit |-> stActiveRecipe'.rMaintenanceSpeedLimit],
   stManual |-> [xJogConveyorForward |-> FALSE, rJogSpeed |-> 0,
                 xDiverter1Extend |-> FALSE, xDiverter2Extend |-> FALSE,
                 xScannerTrigger |-> FALSE, xResetJam |-> ResetJam(scene),
                 xMaintenanceKey |-> FALSE],
   rTargetSpeed |-> stActiveRecipe'.rAutoSpeed,
   xSafetyLoopOK |-> scene.xSafetyLoopOK, xAirPressureOK |-> TRUE,
   xVfdReady |-> ~xConveyorJam,
   xDiverter1Faulted |-> FALSE, xDiverter2Faulted |-> FALSE,
   xJamAlarm |-> xJamAlarm' \/ xConveyorJam, xDownstreamBlocked |-> xRouteFault]

\* xConveyorRunCmd
RunCmd ==
  /\ stationOut'.xConveyorRunEnable /\ ~stationOut'.xConveyorQuickStop
  /\ ~xRouteFault /\ ~xJamAlarm' /\ ~xAnyAlarmActive

ConveyorIn(scene) ==
  [xRunCmd |-> RunCmd, rCmdSpeed |-> stationOut'.rConveyorSpeed,
   blocked |-> scene.blocked, xResetAlarms |-> stationOut'.xResetAlarms]

\* The routing clears its latch on a reset and may raise it in an active run.
RouteFaultLatch(scene) ==
  xRouteFault' = \/ xRouteFault /\ ~stationOut'.xResetAlarms
                 \/ scene.routeFault /\ stationOut'.xAutoModeActive

AlarmSummary(scene) ==
  xAnyAlarmActive' =
    (~scene.xSafetyLoopOK \/ xJamAlarm' \/ xConveyorJam' \/ xRouteFault')

------------------------------------------------------------------------------
(* What the checks remember.                                                 *)

JamStop == xJamAlarm \/ xConveyorJam

\* The operator has cleared the belt, wants nothing else, and nothing new fails.
Helping(scene) ==
  /\ scene.blocked = {} /\ scene.commands = {}
  /\ scene.xSafetyLoopOK /\ scene.xOpcUaServerReady /\ ~scene.routeFault

Remember(scene) ==
  /\ pushed' = [s \in BeltSensors |->
                  IF s \notin scene.blocked THEN 0
                  ELSE IF RunCmd /\ ~xConveyorJam THEN pushed[s] + 1 ELSE pushed[s]]
  /\ stopGiven' = \/ "stop" \in linePulses'
                  \/ stopGiven /\ "start" \notin linePulses'
  /\ uncounted' = \/ uncounted
                  \/ ~JamStop /\ JamStop' /\ uiTotalJams' = uiTotalJams
  /\ helped' = Helping(scene)
  /\ pressed' = scene.xManualResetJam

------------------------------------------------------------------------------
Scan(scene) ==
  /\ LineScan(LineIn(scene))
  /\ \E in \in {JamIn(scene)} : JamScan(in)
  /\ \E in \in {StationIn(scene)} : Station!StationScan(in)
  /\ \E in \in {ConveyorIn(scene)} : ConveyorScan(in)
  /\ RouteFaultLatch(scene)
  /\ AlarmSummary(scene)
  /\ xStationReady' = TRUE
  /\ Remember(scene)

RecoveryNext == \E scene \in Scenes : Scan(scene) /\ uiTotalJams' <= MaxJams

RecoverySpec == RecoveryInit /\ [][RecoveryNext]_recoveryVars

------------------------------------------------------------------------------
(* Properties.                                                               *)

\* However often the cell is held, reset and released in between, and at every
\* speed: the drive is not commanded against a covered barrier for longer than
\* the longest jam limit, unless the barrier was free in between.
NeverPushedTooLong == \A s \in BeltSensors : pushed[s] <= MaximumJamLimit

\* A stop the supervisor has passed on is obeyed until a start is: no unhold,
\* no accepted jam reset and no reset of a route fault brings the belt back.
StoppedUntilStarted ==
  stopGiven =>
    ePackMLState \notin {"STARTING", "EXECUTE", "SUSPENDED", "HOLDING", "HELD",
                         "UNHOLDING"}

\* "Sets TotalJams = TotalJams + 1": no jam stops the belt without being counted.
EveryJamCounted == ~uncounted

\* Once the belt is clear and nothing new fails, pressing and releasing ResetJam
\* again and again brings a held cell back into production, whatever latched
\* before.  (That both happen again and again makes the task run for ever.)
PressingRecovers ==
  <>[]helped /\ []<>pressed /\ []<>~pressed =>
    <>[](ePackMLState \notin {"SUSPENDED", "HOLDING", "HELD", "UNHOLDING"})

\* As long as scans keep changing something, no transitional state lasts for
\* ever: its timer is neither restarted nor starved on the way to its timeout,
\* whatever the jam detector, the routing and the operator ask for meanwhile.
TransitionsEnd ==
  []<><<TRUE>>_recoveryVars =>
    \A s \in {"RESETTING", "STARTING", "HOLDING", "UNHOLDING", "STOPPING"} :
      ePackMLState = s ~> ePackMLState # s
==============================================================================
