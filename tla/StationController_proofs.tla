----------------------- MODULE StationController_proofs -----------------------
(* Proofs about StationController for every timeout, every speed             *)
(* configuration and every set of inputs.                                    *)
EXTENDS StationController, TLAPS

------------------------------------------------------------------------------
(* The speed selection.                                                      *)

\* The automatic setpoint is inside the drive range whatever the recipe and the
\* supervisor's target are, a negative or missing value included.
LEMMA AutoSpeedRange ==
  ASSUME NEW in \in StationInput
  PROVE  AutoSpeed(in) \in MinimumSpeed..MaximumSpeed
  BY StationAssumption
     DEF AutoSpeed, FirstPositive, Clamped, StationInput, SpeedRecipe

\* The jog setpoint is positive and at most the configured manual limit.
LEMMA ManualSpeedRange ==
  ASSUME NEW in \in StationInput
  PROVE  ManualSpeed(in) \in 1..ManualMaxSpeed
<1> DEFINE wanted == FirstPositive(in.stManual.rJogSpeed, MinimumSpeed)
           limited == RecipeClamped(wanted, in.stRecipe.rManualMaxSpeed)
<1>1. in.stManual.rJogSpeed \in Int /\ in.stRecipe.rManualMaxSpeed \in Int
  BY DEF StationInput, SpeedRecipe, ManualControl
<1>2. wanted \in Nat \ {0}
  BY <1>1, StationAssumption DEF FirstPositive
<1>3. limited \in Nat \ {0}
  BY <1>1, <1>2 DEF RecipeClamped, Clamped
<1>4. Clamped(limited, ManualMaxSpeed) \in 1..ManualMaxSpeed
  BY <1>3, StationAssumption DEF Clamped
<1> QED
  BY <1>4 DEF ManualSpeed

\* The maintenance jog is never faster than the manual jog would be, and at
\* most the configured maintenance limit.
LEMMA MaintenanceSpeedRange ==
  ASSUME NEW in \in StationInput
  PROVE  /\ MaintenanceSpeed(in) \in 1..MaintenanceMaxSpeed
         /\ MaintenanceSpeed(in) <= ManualSpeed(in)
<1> DEFINE limited == RecipeClamped(ManualSpeed(in),
                                    in.stRecipe.rMaintenanceSpeedLimit)
<1>1. in.stRecipe.rMaintenanceSpeedLimit \in Int
  BY DEF StationInput, SpeedRecipe
<1>2. ManualSpeed(in) \in 1..ManualMaxSpeed
  BY ManualSpeedRange
<1>3. limited \in Nat \ {0} /\ limited <= ManualSpeed(in)
  BY <1>1, <1>2, StationAssumption DEF RecipeClamped, Clamped
<1>4. /\ Clamped(limited, MaintenanceMaxSpeed) \in 1..MaintenanceMaxSpeed
      /\ Clamped(limited, MaintenanceMaxSpeed) <= limited
  BY <1>3, StationAssumption DEF Clamped
<1>5. MaintenanceSpeed(in) = Clamped(limited, MaintenanceMaxSpeed)
  BY DEF MaintenanceSpeed
<1> QED
  BY <1>2, <1>3, <1>4, <1>5, StationAssumption

------------------------------------------------------------------------------
(* The type invariant.                                                       *)

LEMMA InputType == \A in \in StationInputs : in \in StationInput
  BY StationAssumption

\* Each branch leaves the state, the branch marker and the timer in their types.
LEMMA SequenceType ==
  ASSUME TypeOK, NEW in \in StationInput, Sequence(in)
  PROVE  /\ eState' \in PackMLStates
         /\ ePackMLState' \in PackMLStates
         /\ rTransitionElapsed' \in 0..TransitionScans
<1> USE StationAssumption
    DEF TypeOK, PackMLStates, Enter, Stay, Branch, Elapsed
<1>1. CASE Abort(in)      BY <1>1 DEF Abort
<1>2. CASE Stopped(in)    BY <1>2 DEF Stopped
<1>3. CASE Resetting(in)  BY <1>3 DEF Resetting
<1>4. CASE Idle(in)       BY <1>4 DEF Idle
<1>5. CASE Starting(in)   BY <1>5 DEF Starting
<1>6. CASE Execute(in)    BY <1>6 DEF Execute
<1>7. CASE Suspended(in)  BY <1>7 DEF Suspended
<1>8. CASE Holding(in)    BY <1>8 DEF Holding
<1>9. CASE Held(in)       BY <1>9 DEF Held
<1>10. CASE Unholding(in) BY <1>10 DEF Unholding
<1>11. CASE Stopping(in)  BY <1>11 DEF Stopping
<1>12. CASE Aborted(in)   BY <1>12 DEF Aborted
<1> QED
  BY <1>1, <1>2, <1>3, <1>4, <1>5, <1>6, <1>7, <1>8, <1>9, <1>10, <1>11, <1>12
     DEF Sequence

LEMMA OutputType ==
  ASSUME NEW in \in StationInput, xResetLast \in BOOLEAN,
         xManualScannerLast \in BOOLEAN, Outputs(in)
  PROVE  stationOut' \in StationOutput
<1>1. CommandSpeed(in) \in Int
  BY AutoSpeedRange, ManualSpeedRange, MaintenanceSpeedRange, StationAssumption
     DEF CommandSpeed
<1>2. /\ PermissivesOK(in) \in BOOLEAN
      /\ ConveyorRunEnable(in) \in BOOLEAN
      /\ ConveyorQuickStop(in) \in BOOLEAN
      /\ ScannerEnable(in) \in BOOLEAN
      /\ AutoModeActive \in BOOLEAN
      /\ ManualModeActive(in) \in BOOLEAN
      /\ MaintenanceActive(in) \in BOOLEAN
      /\ MaintenanceModeSafe(in) \in BOOLEAN
      /\ HandControl(in) \in BOOLEAN
  BY DEF PermissivesOK, ConveyorRunEnable, ConveyorQuickStop, ScannerEnable,
         AutoModeActive, ManualModeActive, MaintenanceActive,
         MaintenanceModeSafe, HandControl
<1>3. /\ in.xReset \in BOOLEAN
      /\ in.stManual.xResetJam \in BOOLEAN
      /\ in.stManual.xScannerTrigger \in BOOLEAN
      /\ in.stManual.xDiverter1Extend \in BOOLEAN
      /\ in.stManual.xDiverter2Extend \in BOOLEAN
  BY DEF StationInput, ManualControl
<1> QED
  BY <1>1, <1>2, <1>3 DEF Outputs, StationOutput

LEMMA TypeStep == TypeOK /\ [Next]_stationVars => TypeOK'
<1> SUFFICES ASSUME TypeOK, [Next]_stationVars PROVE TypeOK'
  OBVIOUS
<1>1. CASE UNCHANGED stationVars
  BY <1>1 DEF TypeOK, stationVars
<1>2. ASSUME NEW in \in StationInputs, StationScan(in) PROVE TypeOK'
  <2>1. in \in StationInput
    BY InputType
  <2>2. Sequence(in) /\ ModeUpdate(in) /\ Outputs(in)
    BY <1>2 DEF StationScan
  <2>3. /\ eState' \in PackMLStates
        /\ ePackMLState' \in PackMLStates
        /\ rTransitionElapsed' \in 0..TransitionScans
    BY <2>1, <2>2, SequenceType
  <2>4. eCurrentMode' \in Modes
    BY <2>1, <2>2 DEF ModeUpdate, TypeOK, StationInput
  <2>5. stationOut' \in StationOutput
    BY <2>1, <2>2, OutputType DEF TypeOK
  <2>6. xResetLast' \in BOOLEAN /\ xManualScannerLast' \in BOOLEAN
    BY <1>2, <2>1 DEF StationScan, StationInput, ManualControl
  <2> QED
    BY <2>3, <2>4, <2>5, <2>6 DEF TypeOK
<1> QED
  BY <1>1, <1>2 DEF Next

LEMMA TypeInit == StationInit => TypeOK
<1> SUFFICES ASSUME StationInit PROVE TypeOK
  OBVIOUS
<1>1. stationOut \in StationOutput
  BY DEF StationInit, StationOutput
<1>2. rTransitionElapsed \in 0..TransitionScans
  BY StationAssumption DEF StationInit
<1> QED
  BY <1>1, <1>2 DEF StationInit, TypeOK, PackMLStates, Modes

\* Every variable of the station keeps its type.
THEOREM TypeCorrect == Spec => []TypeOK
<1> QED
  BY TypeInit, TypeStep, PTL DEF Spec

------------------------------------------------------------------------------
(* Refinement of the PackML contract, and the modes of the run states.       *)

LEMMA SequenceIsContractMove ==
  ASSUME TypeOK, NEW in \in StationInput, Sequence(in)
  PROVE  Contract!Move \/ ePackMLState' = ePackMLState
<1> USE DEF TypeOK, PackMLStates, Enter, Stay, Branch, Contract!Move,
            Contract!Transitions, Contract!Stoppable, Contract!PackMLStates
<1>1. CASE Abort(in)      BY <1>1 DEF Abort
<1>2. CASE Stopped(in)    BY <1>2 DEF Stopped
<1>3. CASE Resetting(in)  BY <1>3 DEF Resetting
<1>4. CASE Idle(in)       BY <1>4 DEF Idle
<1>5. CASE Starting(in)   BY <1>5 DEF Starting
<1>6. CASE Execute(in)    BY <1>6 DEF Execute
<1>7. CASE Suspended(in)  BY <1>7 DEF Suspended
<1>8. CASE Holding(in)    BY <1>8 DEF Holding
<1>9. CASE Held(in)       BY <1>9 DEF Held
<1>10. CASE Unholding(in) BY <1>10 DEF Unholding
<1>11. CASE Stopping(in)  BY <1>11 DEF Stopping
<1>12. CASE Aborted(in)   BY <1>12 DEF Aborted
<1> QED
  BY <1>1, <1>2, <1>3, <1>4, <1>5, <1>6, <1>7, <1>8, <1>9, <1>10, <1>11, <1>12
     DEF Sequence

LEMMA ScanIsContractStep ==
  TypeOK /\ [Next]_stationVars => [Contract!Next]_(Contract!vars)
<1> SUFFICES ASSUME TypeOK, [Next]_stationVars
             PROVE  [Contract!Next]_(Contract!vars)
  OBVIOUS
<1>1. CASE UNCHANGED stationVars
  BY <1>1 DEF stationVars, Contract!vars
<1>2. ASSUME NEW in \in StationInputs, StationScan(in) PROVE Contract!Next
  <2>1. in \in StationInput
    BY InputType
  <2>2. Sequence(in) /\ ModeUpdate(in)
    BY <1>2 DEF StationScan
  <2>3. Contract!Move \/ ePackMLState' = ePackMLState
    BY <2>1, <2>2, SequenceIsContractMove
  <2>4. Contract!SelectMode
    BY <2>1, <2>2
       DEF ModeUpdate, TypeOK, StationInput, Modes, Contract!SelectMode,
           Contract!ModeSelectable, Contract!Modes
  <2> QED
    BY <2>3, <2>4 DEF Contract!Next
<1> QED
  BY <1>1, <1>2 DEF Next

\* The station controller implements the PackML contract: its CASE statement
\* has only the contract's edges and takes a mode request over only at rest.
THEOREM Refinement == Spec => ImplementsPackML
<1>1. StationInit => Contract!Init
  BY DEF StationInit, Contract!Init
<1> QED
  BY <1>1, TypeInit, TypeStep, ScanIsContractStep, PTL
     DEF Spec, ImplementsPackML, Contract!Spec

LEMMA RunStatesStep ==
  /\ TypeOK /\ RunStatesAreAuto
  /\ [Next]_stationVars
  => RunStatesAreAuto'
<1> USE DEF RunStatesAreAuto, Contract!RunStatesAreAuto, Contract!RunStates
<1> SUFFICES ASSUME TypeOK, RunStatesAreAuto, [Next]_stationVars
             PROVE  RunStatesAreAuto'
  OBVIOUS
<1>1. [Contract!Next]_(Contract!vars)
  BY ScanIsContractStep
<1>2. CASE UNCHANGED Contract!vars
  BY <1>2 DEF Contract!vars
<1>3. CASE Contract!Move /\ Contract!SelectMode
  BY <1>3 DEF Contract!Move, Contract!SelectMode, Contract!ModeSelectable,
              Contract!Transitions, Contract!Stoppable, PackMLStates
<1>4. CASE ePackMLState' = ePackMLState /\ Contract!SelectMode
  BY <1>4 DEF Contract!SelectMode, Contract!ModeSelectable
<1> QED
  BY <1>1, <1>2, <1>3, <1>4 DEF Contract!Next

LEMMA RunStatesInit == StationInit => RunStatesAreAuto
  BY DEF StationInit, RunStatesAreAuto, Contract!RunStatesAreAuto,
         Contract!RunStates

\* Every state of a run, HELD included, is in AUTO mode.
THEOREM RunsAreAuto == Spec => []RunStatesAreAuto
<1> QED
  BY TypeInit, TypeStep, RunStatesInit, RunStatesStep, PTL DEF Spec

------------------------------------------------------------------------------
(* The outputs.                                                              *)

\* A branch that leads to, or stays in, a state with a driven belt has looked
\* at the permissives on the way.
LEMMA DrivenStatesArePermitted ==
  ASSUME TypeOK, NEW in \in StationInput, Sequence(in),
         ePackMLState' \in {"STARTING", "EXECUTE", "UNHOLDING"}
  PROVE  PermissivesOK(in)
<1> USE DEF Enter, Stay, Branch, HoldRequested
<1>1. CASE Abort(in)      BY <1>1 DEF Abort
<1>2. CASE Stopped(in)    BY <1>2 DEF Stopped
<1>3. CASE Resetting(in)  BY <1>3 DEF Resetting
<1>4. CASE Idle(in)       BY <1>4 DEF Idle
<1>5. CASE Starting(in)   BY <1>5 DEF Starting
<1>6. CASE Execute(in)    BY <1>6 DEF Execute
<1>7. CASE Suspended(in)  BY <1>7 DEF Suspended
<1>8. CASE Holding(in)    BY <1>8 DEF Holding
<1>9. CASE Held(in)       BY <1>9 DEF Held
<1>10. CASE Unholding(in) BY <1>10 DEF Unholding
<1>11. CASE Stopping(in)  BY <1>11 DEF Stopping
<1>12. CASE Aborted(in)   BY <1>12 DEF Aborted
<1> QED
  BY <1>1, <1>2, <1>3, <1>4, <1>5, <1>6, <1>7, <1>8, <1>9, <1>10, <1>11, <1>12
     DEF Sequence

LEMMA RunEnableStep ==
  ASSUME TypeOK, NEW in \in StationInput, Sequence(in), Outputs(in)
  PROVE  RunEnableIsPermitted'
<1>1. ConveyorRunEnable(in) => PermissivesOK(in)
  BY DrivenStatesArePermitted
     DEF ConveyorRunEnable, Jogging, HandControl, ManualModeActive,
         MaintenanceActive, ManualModeSafe, MaintenanceModeSafe
<1>2. ConveyorRunEnable(in) => ~ConveyorQuickStop(in)
  BY DEF ConveyorRunEnable, ConveyorQuickStop
<1>3. /\ stationOut'.xConveyorRunEnable = ConveyorRunEnable(in)
      /\ stationOut'.xConveyorQuickStop = ConveyorQuickStop(in)
      /\ stationOut'.xPermissivesOK = PermissivesOK(in)
  BY DEF Outputs
<1> QED
  BY <1>1, <1>2, <1>3 DEF RunEnableIsPermitted

\* Hand control is out of reach in a run state: the run states are in AUTO, and
\* so is the state a run is started from.
LEMMA HandFireStep ==
  ASSUME TypeOK, RunStatesAreAuto, NEW in \in StationInput, Sequence(in),
         Outputs(in)
  PROVE  HandFireOutsideRuns'
<1>1. ASSUME HandControl(in)
      PROVE  /\ PermissivesOK(in)
             /\ eCurrentMode # "AUTO"
             /\ ePackMLState' # "ABORTED"
  BY <1>1 DEF HandControl, ManualModeActive, MaintenanceActive, ManualModeSafe,
              MaintenanceModeSafe
<1>3. ASSUME eCurrentMode # "AUTO"
      PROVE  ePackMLState' \notin Contract!RunStates
  <2>1. ePackMLState \notin Contract!RunStates
    BY <1>3 DEF RunStatesAreAuto, Contract!RunStatesAreAuto
  <2>2. CASE ePackMLState' = ePackMLState
    BY <2>1, <2>2
  <2>3. CASE Contract!Move
    BY <1>3, <2>1, <2>3
       DEF Contract!Move, Contract!Transitions, Contract!Stoppable,
           Contract!RunStates, Contract!PackMLStates
  <2> QED
    BY <2>2, <2>3, SequenceIsContractMove
<1>4. ePackMLState' \in PackMLStates
  BY SequenceType
<1>5. HandControl(in) =>
        ePackMLState' \in {"STOPPED", "RESETTING", "IDLE", "STOPPING"}
  BY <1>1, <1>3, <1>4 DEF PackMLStates, Contract!RunStates
<1>6. /\ stationOut'.xManualDivert1 \/ stationOut'.xManualDivert2 => HandControl(in)
      /\ stationOut'.xPermissivesOK = PermissivesOK(in)
  BY DEF Outputs
<1> QED
  BY <1>1, <1>5, <1>6 DEF HandFireOutsideRuns

LEMMA SetpointStep ==
  ASSUME NEW in \in StationInput, Outputs(in)
  PROVE  SetpointWithinModeLimit'
<1>1. stationOut'.rConveyorSpeed = CommandSpeed(in)
  BY DEF Outputs
<1>2. AutoSpeed(in) \in MinimumSpeed..MaximumSpeed
  BY AutoSpeedRange
<1>3. ManualSpeed(in) \in 1..ManualMaxSpeed
  BY ManualSpeedRange
<1>4. MaintenanceSpeed(in) \in 1..MaintenanceMaxSpeed
  BY MaintenanceSpeedRange
<1>5. eCurrentMode' # "AUTO" => CommandSpeed(in) \in 0..ManualMaxSpeed
  BY <1>3, <1>4, StationAssumption DEF CommandSpeed
<1>6. eCurrentMode' = "AUTO" /\ ConveyorRunEnable(in)
      => CommandSpeed(in) \in MinimumSpeed..MaximumSpeed
  BY <1>2 DEF CommandSpeed
<1>7. stationOut'.xConveyorRunEnable = ConveyorRunEnable(in)
  BY DEF Outputs
<1> QED
  BY <1>1, <1>5, <1>6, <1>7 DEF SetpointWithinModeLimit

\* The inductive invariant of the outputs.  RunStatesAreAuto is what keeps the
\* hand controls away from a run; the other parts are about one scan.
StationSafety ==
  /\ TypeOK
  /\ RunStatesAreAuto
  /\ RunEnableIsPermitted
  /\ HandFireOutsideRuns
  /\ SetpointWithinModeLimit

LEMMA SafetyInit == StationInit => StationSafety
<1> SUFFICES ASSUME StationInit PROVE StationSafety
  OBVIOUS
<1>1. TypeOK /\ RunStatesAreAuto
  BY TypeInit, RunStatesInit
<1>2. RunEnableIsPermitted /\ HandFireOutsideRuns
  BY DEF StationInit, RunEnableIsPermitted, HandFireOutsideRuns
<1>3. SetpointWithinModeLimit
  BY StationAssumption DEF StationInit, SetpointWithinModeLimit
<1> QED
  BY <1>1, <1>2, <1>3 DEF StationSafety

LEMMA SafetyStep == StationSafety /\ [Next]_stationVars => StationSafety'
<1> SUFFICES ASSUME StationSafety, [Next]_stationVars PROVE StationSafety'
  OBVIOUS
<1>1. TypeOK' /\ RunStatesAreAuto'
  BY TypeStep, RunStatesStep DEF StationSafety
<1>2. CASE UNCHANGED stationVars
  BY <1>1, <1>2
     DEF StationSafety, stationVars, RunEnableIsPermitted, HandFireOutsideRuns,
         SetpointWithinModeLimit
<1>3. ASSUME NEW in \in StationInputs, StationScan(in) PROVE StationSafety'
  <2>1. in \in StationInput /\ Sequence(in) /\ Outputs(in)
    BY <1>3, InputType DEF StationScan
  <2>2. RunEnableIsPermitted'
    BY <2>1, RunEnableStep DEF StationSafety
  <2>3. HandFireOutsideRuns'
    BY <2>1, HandFireStep DEF StationSafety
  <2>4. SetpointWithinModeLimit'
    BY <2>1, SetpointStep
  <2> QED
    BY <1>1, <2>2, <2>3, <2>4 DEF StationSafety
<1> QED
  BY <1>2, <1>3 DEF Next

\* The belt is enabled with healthy permissives and no quick stop only.
THEOREM RunEnableCorrect == Spec => []RunEnableIsPermitted
<1>1. StationSafety => RunEnableIsPermitted
  BY DEF StationSafety
<1> QED
  BY <1>1, SafetyInit, SafetyStep, PTL DEF Spec

\* A hand-fired diverter never meets a run.
THEOREM HandFireCorrect == Spec => []HandFireOutsideRuns
<1>1. StationSafety => HandFireOutsideRuns
  BY DEF StationSafety
<1> QED
  BY <1>1, SafetyInit, SafetyStep, PTL DEF Spec

\* The setpoint respects the limit of the selected mode.
THEOREM SetpointCorrect == Spec => []SetpointWithinModeLimit
<1>1. StationSafety => SetpointWithinModeLimit
  BY DEF StationSafety
<1> QED
  BY <1>1, SafetyInit, SafetyStep, PTL DEF Spec

\* An overspeed leaves the mode in AUTO, because the manual limit holds in every
\* other mode, and the jog of the next scan then finds no manual mode.
THEOREM JogBriefCorrect == Spec => JogOverspeedIsBrief
<1>1. StationSafety /\ [Next]_stationVars => [JogOverspeed => ~JogOverspeed']_stationVars
  <2> SUFFICES ASSUME StationSafety, NEW in \in StationInputs, StationScan(in),
                      JogOverspeed
               PROVE  ~JogOverspeed'
    BY DEF Next
  <2>1. eCurrentMode = "AUTO"
    <3>1. in \in StationInput /\ stationOut.rConveyorSpeed \in Int
      BY InputType DEF StationSafety, TypeOK, StationOutput
    <3> QED
      BY <3>1, StationAssumption
         DEF StationSafety, SetpointWithinModeLimit, JogOverspeed
  <2>2. stationOut'.xManualModeActive = ManualModeActive(in)
    BY DEF StationScan, Outputs
  <2> QED
    BY <2>1, <2>2 DEF JogOverspeed, ManualModeActive, ManualModeSafe
<1> QED
  BY <1>1, SafetyInit, SafetyStep, PTL DEF Spec, JogOverspeedIsBrief
==============================================================================
