-------------------------- MODULE StationController --------------------------
(* plc/FB_StationController.st: the PackML sequence of the cell, its mode    *)
(* arbitration and the conveyor/diverter/scanner enables derived from them.  *)
(* One step is one call of the function block by the 50 ms task.             *)
(* Time is counted in scans, speeds in cm/s.                                 *)
EXTENDS Integers, MHMCTypes

CONSTANTS
  TransitionScans,     \* rTransitionTimeout_s in scans
  DefaultSpeed, MinimumSpeed, MaximumSpeed,    \* ST_StationControllerConfig
  ManualMaxSpeed, MaintenanceMaxSpeed,
  StationInputs        \* the inputs a scan may be called with

ManualControl ==       \* ST_ManualControl, without the KPI counter reset
  [xJogConveyorForward : BOOLEAN, rJogSpeed : Int, xDiverter1Extend : BOOLEAN,
   xDiverter2Extend : BOOLEAN, xScannerTrigger : BOOLEAN, xResetJam : BOOLEAN,
   xMaintenanceKey : BOOLEAN]

SpeedRecipe ==         \* the speed fields of ST_SortRecipe
  [rAutoSpeed : Int, rManualMaxSpeed : Int, rMaintenanceSpeedLimit : Int]

StationInput ==        \* ST_StationControllerInput
  [xStart : BOOLEAN, xStop : BOOLEAN, xReset : BOOLEAN, xHold : BOOLEAN,
   xUnhold : BOOLEAN, xClear : BOOLEAN, eRequestedMode : Modes,
   stRecipe : SpeedRecipe, stManual : ManualControl, rTargetSpeed : Int,
   xSafetyLoopOK : BOOLEAN, xAirPressureOK : BOOLEAN, xVfdReady : BOOLEAN,
   xDiverter1Faulted : BOOLEAN, xDiverter2Faulted : BOOLEAN,
   xJamAlarm : BOOLEAN, xDownstreamBlocked : BOOLEAN]

ASSUME StationAssumption ==
  /\ TransitionScans \in Nat \ {0}
  /\ {DefaultSpeed, MinimumSpeed, MaximumSpeed, ManualMaxSpeed,
      MaintenanceMaxSpeed} \subseteq Nat \ {0}
  /\ MinimumSpeed <= DefaultSpeed /\ DefaultSpeed <= MaximumSpeed
  /\ MaintenanceMaxSpeed <= ManualMaxSpeed
  /\ StationInputs \subseteq StationInput

VARIABLES
  eState,              \* the branch the last scan executed
  ePackMLState,
  eCurrentMode,
  rTransitionElapsed,  \* scans in the state, saturating at TransitionScans
  xResetLast,
  xManualScannerLast,
  stationOut           \* stOut

stationVars == <<eState, ePackMLState, eCurrentMode, rTransitionElapsed,
                 xResetLast, xManualScannerLast, stationOut>>

StationOutput ==       \* ST_StationControllerOutput, without its mirrors
  [xPermissivesOK : BOOLEAN, xResetAlarms : BOOLEAN,
   xConveyorRunEnable : BOOLEAN, xConveyorQuickStop : BOOLEAN,
   xScannerEnable : BOOLEAN, xScannerTrigger : BOOLEAN,
   xAutoModeActive : BOOLEAN, xManualModeActive : BOOLEAN,
   xMaintenanceActive : BOOLEAN, xMaintenanceSafe : BOOLEAN,
   xManualDivert1 : BOOLEAN, xManualDivert2 : BOOLEAN,
   rConveyorSpeed : Int, xPowerEnable : BOOLEAN]

TypeOK ==
  /\ eState \in PackMLStates
  /\ ePackMLState \in PackMLStates
  /\ eCurrentMode \in Modes
  /\ rTransitionElapsed \in 0..TransitionScans
  /\ xResetLast \in BOOLEAN
  /\ xManualScannerLast \in BOOLEAN
  /\ stationOut \in StationOutput

\* F_StationController_Init: the mechanical safe state.
StationInit ==
  /\ eState = "STOPPED"
  /\ ePackMLState = "STOPPED"
  /\ eCurrentMode = "AUTO"
  /\ rTransitionElapsed = 0
  /\ xResetLast = FALSE
  /\ xManualScannerLast = FALSE
  /\ stationOut =
       [xPermissivesOK |-> FALSE, xResetAlarms |-> FALSE,
        xConveyorRunEnable |-> FALSE, xConveyorQuickStop |-> TRUE,
        xScannerEnable |-> FALSE, xScannerTrigger |-> FALSE,
        xAutoModeActive |-> FALSE, xManualModeActive |-> FALSE,
        xMaintenanceActive |-> FALSE, xMaintenanceSafe |-> FALSE,
        xManualDivert1 |-> FALSE, xManualDivert2 |-> FALSE,
        rConveyorSpeed |-> 0, xPowerEnable |-> FALSE]

------------------------------------------------------------------------------
(* Conditions evaluated before the sequence.                                 *)

\* Faulty variants (the "...Bug" operators here and below are used by no
\* specification; each stands for a slip in the operator that follows it).
ElapsedUncappedBug == rTransitionElapsed + 1
ElapsedFrozenBug == rTransitionElapsed

Elapsed == IF rTransitionElapsed < TransitionScans
           THEN rTransitionElapsed + 1 ELSE rTransitionElapsed

TransitionComplete == Elapsed >= TransitionScans

PermissivesOK(in) ==
  /\ in.xSafetyLoopOK /\ in.xAirPressureOK /\ in.xVfdReady
  /\ ~in.xDiverter1Faulted /\ ~in.xDiverter2Faulted

HoldRequested(in) ==
  in.xHold \/ in.xJamAlarm \/ in.xDownstreamBlocked \/ ~PermissivesOK(in)

(* The selection and the clamps of the three speed sources.                  *)
FirstPositive(a, b) == IF a > 0 THEN a ELSE b
Clamped(speed, limit) == IF speed > limit THEN limit ELSE speed

\* A recipe without a limit leaves the speed alone.
RecipeClamped(speed, limit) == IF limit > 0 THEN Clamped(speed, limit) ELSE speed

AutoSpeed(in) ==
  LET chosen == FirstPositive(in.stRecipe.rAutoSpeed,
                              FirstPositive(in.rTargetSpeed, DefaultSpeed))
      raised == IF chosen < MinimumSpeed THEN DefaultSpeed ELSE chosen
  IN Clamped(raised, MaximumSpeed)

ManualSpeedBug(in) ==        \* forgets the configured limit
  RecipeClamped(FirstPositive(in.stManual.rJogSpeed, MinimumSpeed),
                in.stRecipe.rManualMaxSpeed)

ManualSpeed(in) ==
  Clamped(RecipeClamped(FirstPositive(in.stManual.rJogSpeed, MinimumSpeed),
                        in.stRecipe.rManualMaxSpeed),
          ManualMaxSpeed)

MaintenanceSpeed(in) ==
  Clamped(RecipeClamped(ManualSpeed(in), in.stRecipe.rMaintenanceSpeedLimit),
          MaintenanceMaxSpeed)

------------------------------------------------------------------------------
(* The PackML sequence: one action per CASE branch, in the code's order of   *)
(* tests.  A broken safety loop overrides every branch.                      *)

Enter(s) == ePackMLState' = s /\ rTransitionElapsed' = 0
Stay == ePackMLState' = ePackMLState /\ rTransitionElapsed' = Elapsed

Branch(in, s) ==
  in.xSafetyLoopOK /\ ePackMLState = s /\ eState' = s

Abort(in) ==
  /\ ~in.xSafetyLoopOK
  /\ eState' = "ABORTED"
  /\ Enter("ABORTED")

Stopped(in) ==
  /\ Branch(in, "STOPPED")
  /\ IF in.xReset THEN Enter("RESETTING") ELSE Stay

Resetting(in) ==
  /\ Branch(in, "RESETTING")
  /\ IF TransitionComplete THEN Enter("IDLE") ELSE Stay

Idle(in) ==
  /\ Branch(in, "IDLE")
  /\ IF in.xStop THEN Enter("STOPPING")
     ELSE IF in.xStart /\ PermissivesOK(in) /\ eCurrentMode = "AUTO"
     THEN Enter("STARTING")
     ELSE Stay

Starting(in) ==
  /\ Branch(in, "STARTING")
  /\ IF in.xStop THEN Enter("STOPPING")
     ELSE IF HoldRequested(in) THEN Enter("HOLDING")
     ELSE IF TransitionComplete /\ PermissivesOK(in) /\ eCurrentMode = "AUTO"
     THEN Enter("EXECUTE")
     ELSE Stay

Execute(in) ==
  /\ Branch(in, "EXECUTE")
  /\ IF in.xStop THEN Enter("STOPPING")
     ELSE IF HoldRequested(in) /\ ~in.xDownstreamBlocked THEN Enter("HOLDING")
     ELSE IF in.xDownstreamBlocked THEN Enter("SUSPENDED")
     ELSE Stay

SuspendedBug(in) ==          \* resumes without looking at the permissives
  /\ Branch(in, "SUSPENDED")
  /\ IF in.xStop THEN Enter("STOPPING")
     ELSE IF in.xJamAlarm \/ in.xHold THEN Enter("HOLDING")
     ELSE IF ~in.xDownstreamBlocked THEN Enter("EXECUTE")
     ELSE Stay

Suspended(in) ==
  /\ Branch(in, "SUSPENDED")
  /\ IF in.xStop THEN Enter("STOPPING")
     ELSE IF in.xJamAlarm \/ in.xHold \/ ~PermissivesOK(in) THEN Enter("HOLDING")
     ELSE IF ~in.xDownstreamBlocked THEN Enter("EXECUTE")
     ELSE Stay

Holding(in) ==
  /\ Branch(in, "HOLDING")
  /\ IF in.xStop THEN Enter("STOPPING")
     ELSE IF TransitionComplete THEN Enter("HELD")
     ELSE Stay

HeldBug(in) ==               \* the unhold wins over a stop
  /\ Branch(in, "HELD")
  /\ IF in.xUnhold /\ PermissivesOK(in) /\ ~in.xJamAlarm
     THEN Enter("UNHOLDING")
     ELSE IF in.xStop THEN Enter("STOPPING")
     ELSE Stay

Held(in) ==
  /\ Branch(in, "HELD")
  /\ IF in.xStop THEN Enter("STOPPING")
     ELSE IF in.xUnhold /\ PermissivesOK(in) /\ ~in.xJamAlarm
     THEN Enter("UNHOLDING")
     ELSE Stay

Unholding(in) ==
  /\ Branch(in, "UNHOLDING")
  /\ IF in.xStop THEN Enter("STOPPING")
     ELSE IF HoldRequested(in) THEN Enter("HOLDING")
     ELSE IF TransitionComplete THEN Enter("EXECUTE")
     ELSE Stay

Stopping(in) ==
  /\ Branch(in, "STOPPING")
  /\ IF TransitionComplete THEN Enter("STOPPED") ELSE Stay

Aborted(in) ==
  /\ Branch(in, "ABORTED")
  /\ IF in.xClear THEN Enter("STOPPED") ELSE Stay

Sequence(in) ==
  \/ Abort(in)
  \/ Stopped(in)
  \/ Resetting(in)
  \/ Idle(in)
  \/ Starting(in)
  \/ Execute(in)
  \/ Suspended(in)
  \/ Holding(in)
  \/ Held(in)
  \/ Unholding(in)
  \/ Stopping(in)
  \/ Aborted(in)

ModeUpdateBug(in) ==         \* lets the operator change the mode while HELD
  eCurrentMode' = IF ePackMLState' \in {"STOPPED", "IDLE", "ABORTED", "HELD"}
                  THEN in.eRequestedMode ELSE eCurrentMode

\* The mode request is taken over once the sequence has moved.
ModeUpdate(in) ==
  eCurrentMode' = IF ePackMLState' \in {"STOPPED", "IDLE", "ABORTED"}
                  THEN in.eRequestedMode ELSE eCurrentMode

------------------------------------------------------------------------------
(* Outputs.  The two "safe" flags are computed from the mode of the previous *)
(* scan, everything else from the new state and the new mode.                *)

ManualModeSafeBug(in) == PermissivesOK(in)   \* forgets the mode

ManualModeSafe(in) == PermissivesOK(in) /\ eCurrentMode = "MANUAL"

MaintenanceModeSafe(in) ==
  PermissivesOK(in) /\ eCurrentMode = "MAINTENANCE" /\ in.stManual.xMaintenanceKey

AutoModeActive == eCurrentMode' = "AUTO" /\ ePackMLState' = "EXECUTE"

ManualModeActive(in) ==
  ManualModeSafe(in) /\ ePackMLState' \in {"IDLE", "HELD", "STOPPED"}

MaintenanceActive(in) ==
  MaintenanceModeSafe(in) /\ ePackMLState' \notin {"ABORTED", "EXECUTE"}

HandControl(in) == ManualModeActive(in) \/ MaintenanceActive(in)

Jogging(in) ==
  HandControl(in) /\ in.stManual.xJogConveyorForward /\ ~in.xJamAlarm

ConveyorRunEnable(in) ==
  \/ ePackMLState' \in {"STARTING", "EXECUTE", "UNHOLDING"} /\ eCurrentMode' = "AUTO"
  \/ Jogging(in)

ConveyorQuickStop(in) ==
  /\ ePackMLState' \in {"HOLDING", "HELD", "ABORTED", "STOPPING"}
  /\ ~Jogging(in)

CommandSpeed(in) ==
  IF eCurrentMode' = "AUTO" /\ ConveyorRunEnable(in) THEN AutoSpeed(in)
  ELSE IF MaintenanceActive(in) /\ in.stManual.xJogConveyorForward
  THEN MaintenanceSpeed(in)
  ELSE IF ManualModeActive(in) /\ in.stManual.xJogConveyorForward
  THEN ManualSpeed(in)
  ELSE 0

ScannerEnable(in) == AutoModeActive \/ HandControl(in)

Outputs(in) ==
  stationOut' =
    [xPermissivesOK |-> PermissivesOK(in),
     xResetAlarms |-> (in.xReset /\ ~xResetLast) \/ in.stManual.xResetJam,
     xConveyorRunEnable |-> ConveyorRunEnable(in),
     xConveyorQuickStop |-> ConveyorQuickStop(in),
     xScannerEnable |-> ScannerEnable(in),
     xScannerTrigger |-> /\ in.stManual.xScannerTrigger
                         /\ ~xManualScannerLast
                         /\ ScannerEnable(in),
     xAutoModeActive |-> AutoModeActive,
     xManualModeActive |-> ManualModeActive(in),
     xMaintenanceActive |-> MaintenanceActive(in),
     xMaintenanceSafe |-> MaintenanceModeSafe(in),
     xManualDivert1 |-> HandControl(in) /\ in.stManual.xDiverter1Extend,
     xManualDivert2 |-> HandControl(in) /\ in.stManual.xDiverter2Extend,
     rConveyorSpeed |-> CommandSpeed(in),
     xPowerEnable |-> PermissivesOK(in) /\ ePackMLState' # "ABORTED"]

\* F_StationController_Cyclic, called once per scan.
StationScan(in) ==
  /\ Sequence(in)
  /\ ModeUpdate(in)
  /\ Outputs(in)
  /\ xResetLast' = in.xReset
  /\ xManualScannerLast' = in.stManual.xScannerTrigger

Next == \E in \in StationInputs : StationScan(in)

Spec == StationInit /\ [][Next]_stationVars

------------------------------------------------------------------------------
(* Properties.                                                               *)

Contract == INSTANCE PackML WITH state <- ePackMLState, mode <- eCurrentMode

\* The CASE statement and the mode update implement the PackML contract: no
\* state is reached by an edge the PackML table lacks, and no mode request
\* takes effect in the middle of a run.
ImplementsPackML == Contract!Spec

\* Start is accepted in AUTO only and the mode is frozen until the run is over,
\* so every run state, HELD included, is in AUTO mode.
RunStatesAreAuto == Contract!RunStatesAreAuto

\* The belt is never enabled while a permissive is missing, nor together with
\* the quick stop: true although SUSPENDED is entered before the permissives
\* are looked at and although jogging withdraws the quick stop.
RunEnableIsPermitted ==
  stationOut.xConveyorRunEnable =>
    stationOut.xPermissivesOK /\ ~stationOut.xConveyorQuickStop

\* Hand-fired diverters: only with healthy permissives and never in a run
\* state, although the hand-control flags look at the mode of the last scan.
HandFireOutsideRuns ==
  stationOut.xManualDivert1 \/ stationOut.xManualDivert2 =>
    /\ stationOut.xPermissivesOK
    /\ ePackMLState \in {"STOPPED", "RESETTING", "IDLE", "STOPPING"}

\* Whatever the recipe and the HMI ask for, the setpoint respects the limit of
\* the mode that is now selected: the drive range for a belt enabled in AUTO,
\* the manual limit in the two hand modes.
SetpointWithinModeLimit ==
  LET speed == stationOut.rConveyorSpeed IN
  /\ eCurrentMode = "AUTO" /\ stationOut.xConveyorRunEnable =>
       speed \in MinimumSpeed..MaximumSpeed
  /\ eCurrentMode # "AUTO" => speed \in 0..ManualMaxSpeed

\* The manual limit applies while the operator jogs.  It is exceeded for the
\* one scan in which the switch leaves MANUAL with the jog button held: the
\* safe flags are those of the old mode, the speed that of the new one.  The
\* overspeed never lasts into a second scan.
JogOverspeed ==
  stationOut.xManualModeActive /\ stationOut.rConveyorSpeed > ManualMaxSpeed
JogOverspeedIsBrief == [][JogOverspeed => ~JogOverspeed']_stationVars
==============================================================================
