--------------------------- MODULE RecoveryCell_proofs ---------------------------
(* Proofs about RecoveryCell, for every recipe book, every set of barriers,  *)
(* all times, limits and speeds, and every sequence of scenes.               *)
EXTENDS RecoveryCell, WellFoundedInduction, TLAPS

------------------------------------------------------------------------------
(* Arithmetic.                                                               *)

LEMMA LeastExists ==
  ASSUME NEW T, T \subseteq Nat, T # {}
  PROVE  \E x \in T : \A y \in T : x <= y
<1>1. PICK x \in T : \A y \in T : ~(<<y, x>> \in OpToRel(<, Nat))
  BY NatLessThanWellFounded, WFMin
<1>2. ASSUME NEW y \in T PROVE x <= y
  <2>1. x \in Nat /\ y \in Nat
    OBVIOUS
  <2>2. ~(y < x)
    BY <1>1, <2>1 DEF OpToRel
  <2> QED BY <2>1, <2>2
<1> QED BY <1>2

\* A fraction of n, rounded up, is at most n.
LEMMA FractionBound ==
  ASSUME NEW n \in Nat, NEW k \in Nat \ {0}
  PROVE  (n + k - 1) \div k \in 0..n
<1> DEFINE q == (n + k - 1) \div k
<1>1. q \in Int /\ k * q <= n + k - 1 /\ 0 <= q
  OBVIOUS
<1>2. q <= n
  <2>1. SUFFICES ASSUME q >= n + 1 PROVE FALSE
    BY <1>1
  <2> HIDE DEF q
  <2>2. k * q >= k * (n + 1)
    BY <1>1, <2>1
  <2>3. k * (n + 1) > n + k - 1
    OBVIOUS
  <2>4. k * (n + 1) \in Int /\ k * q \in Int
    BY <1>1
  <2> QED BY <1>1, <2>2, <2>3, <2>4
<1> QED BY <1>1, <1>2

\* A drive that moves by a part of what is missing stays between standstill and
\* the larger of its speeds.
LEMMA PartKeepsSpeed ==
  ASSUME NEW speed \in Nat, NEW command \in Nat, NEW k \in Nat \ {0}
  PROVE  speed + Part(command - speed, k) \in Nat /\ speed - Part(speed, k) \in Nat
<1>1. \A p \in 0..command - speed : command >= speed => speed + p \in Nat
  OBVIOUS
<1>2. \A p \in 0..speed - command : ~(command >= speed) => speed + (-p) \in Nat
  OBVIOUS
<1>3. Part(speed, k) \in 0..speed
  BY FractionBound DEF Part
<1>4. speed - Part(speed, k) \in Nat
  BY <1>3
<1>5. CASE command >= speed
  <2>1. command - speed \in Nat
    BY <1>5
  <2>2. Part(command - speed, k) \in 0..command - speed
    BY <2>1, FractionBound DEF Part
  <2> QED BY <1>1, <1>5, <2>2, <1>4, Zenon
<1>6. CASE ~(command >= speed)
  <2>1. speed - command \in Nat /\ ~(command - speed >= 0)
        /\ k - 1 - (command - speed) = (speed - command) + k - 1
    BY <1>6
  <2>2. Part(command - speed, k) = -((k - 1 - (command - speed)) \div k)
    BY <2>1 DEF Part
  <2>3. ((speed - command) + k - 1) \div k \in 0..speed - command
    BY <2>1, FractionBound
  <2>4. (k - 1 - (command - speed)) \div k \in 0..speed - command
    BY <2>1, <2>3, Zenon
  <2> QED BY <1>2, <1>6, <2>2, <2>4, <1>4, Zenon
<1> QED BY <1>5, <1>6, <1>4

------------------------------------------------------------------------------
(* What the blocks hand on has its type.                                     *)

LEMMA LineStep ==
  ASSUME NEW in \in LineInput, LineTypeOK, LineScan(in)
  PROVE  LineTypeOK'
<1>1. RecipeBook \in Seq(Recipe) /\ DefaultRecipe \in Recipe /\ FallbackSpeed \in Int
  BY LineAssumption
<1>2. ASSUME Matching(in) # {}
      PROVE  RecipeBook[CHOOSE i \in Matching(in) : \A j \in Matching(in) : i <= j] \in Recipe
  <2>1. Matching(in) \subseteq DOMAIN RecipeBook /\ DOMAIN RecipeBook = 1..Len(RecipeBook)
        /\ Len(RecipeBook) \in Nat
    BY <1>1 DEF Matching
  <2>2. Matching(in) \subseteq Nat
    BY <2>1
  <2>3. \E i \in Matching(in) : \A j \in Matching(in) : i <= j
    BY <1>2, <2>2, LeastExists
  <2>4. (CHOOSE i \in Matching(in) : \A j \in Matching(in) : i <= j) \in DOMAIN RecipeBook
    BY <2>1, <2>3
  <2> QED BY <1>1, <2>1, <2>4
<1>3. ChosenRecipe(in) \in Recipe
  BY <1>1, <1>2 DEF ChosenRecipe, LineInput
<1>4. Candidate(in) \in Recipe
  BY <1>1, <1>3 DEF Candidate, Recipe, LineInput
<1>5. lineLast' \in SUBSET RemoteCommands
  BY DEF LineScan, LineInput
<1>6. RecipeAccepted(in) \in BOOLEAN
  BY DEF RecipeAccepted, RecipeFound, LineInput
<1> USE DEF LineTypeOK
<1>7. CASE Disconnected(in)
  BY <1>5, <1>7 DEF Disconnected
<1>8. CASE LoadRecipe(in)
  BY <1>4, <1>5, <1>6, <1>8 DEF LoadRecipe, RemoteCommands
<1>9. CASE Commanding(in)
  BY <1>5, <1>9 DEF Commanding, PassedOn, RemoteCommands
<1>10. CASE WaitingForStation(in)
  BY <1>5, <1>10 DEF WaitingForStation
<1> QED BY <1>7, <1>8, <1>9, <1>10 DEF LineScan

\* The limit never exceeds the longest one, at no speed.
LEMMA LimitRange ==
  ASSUME NEW speed \in Nat
  PROVE  DynamicLimit(speed) \in BaseJamLimit..MaximumJamLimit
<1>1. /\ BaseJamLimit \in Nat /\ MaximumJamLimit \in Nat /\ ReferenceSpeed \in Nat
      /\ BaseJamLimit <= MaximumJamLimit
  BY JamAssumption
<1> DEFINE scaled == IF speed = 0 THEN MaximumJamLimit
                     ELSE Upward(BaseJamLimit * ReferenceSpeed, speed)
<1>2. scaled \in Int
  <2>1. BaseJamLimit * ReferenceSpeed \in Nat
    BY <1>1
  <2> DEFINE product == BaseJamLimit * ReferenceSpeed
  <2>2. product \in Nat
    BY <2>1
  <2> HIDE DEF product
  <2>3. speed # 0 => (product + speed - 1) \div speed \in Int
    BY <2>2
  <2> QED BY <1>1, <2>3 DEF product, Upward
<1>3. DynamicLimit(speed) = IF scaled < BaseJamLimit THEN BaseJamLimit
                            ELSE IF scaled > MaximumJamLimit THEN MaximumJamLimit
                            ELSE scaled
  BY DEF DynamicLimit
<1> HIDE DEF scaled
<1> QED BY <1>1, <1>2, <1>3

LEMMA BlockedTimesRange ==
  ASSUME NEW in \in JamInput, JamTypeOK
  PROVE  /\ BlockedTimes(in) \in [BeltSensors -> 0..MaximumJamLimit]
         /\ \A s \in BeltSensors :
              /\ s \notin in.blocked => BlockedTimes(in)[s] = 0
              /\ s \in in.blocked /\ ~in.xConveyorRunning => BlockedTimes(in)[s] = rBlocked[s]
              /\ s \in in.blocked /\ in.xConveyorRunning
                   => \/ BlockedTimes(in)[s] = rBlocked[s] + 1
                      \/ BlockedTimes(in)[s] = MaximumJamLimit
<1>1. MaximumJamLimit \in Nat /\ rBlocked \in [BeltSensors -> 0..MaximumJamLimit]
  BY JamAssumption DEF JamTypeOK
<1>2. ASSUME NEW s \in BeltSensors
      PROVE  /\ BlockedTimes(in)[s] \in 0..MaximumJamLimit
             /\ s \notin in.blocked => BlockedTimes(in)[s] = 0
             /\ s \in in.blocked /\ ~in.xConveyorRunning => BlockedTimes(in)[s] = rBlocked[s]
             /\ s \in in.blocked /\ in.xConveyorRunning
                  => \/ BlockedTimes(in)[s] = rBlocked[s] + 1
                     \/ BlockedTimes(in)[s] = MaximumJamLimit
  <2>1. rBlocked[s] \in 0..MaximumJamLimit
    BY <1>1
  <2>2. BlockedTimes(in)[s] = IF s \notin in.blocked THEN 0
                              ELSE IF in.xConveyorRunning /\ rBlocked[s] < MaximumJamLimit
                              THEN rBlocked[s] + 1 ELSE rBlocked[s]
    BY DEF BlockedTimes
  <2> QED BY <1>1, <2>1, <2>2
<1>3. BlockedTimes(in) = [s \in BeltSensors |-> BlockedTimes(in)[s]]
  BY DEF BlockedTimes
<1> QED BY <1>2, <1>3

LEMMA JamStep ==
  ASSUME NEW in \in JamInput, JamTypeOK, JamScan(in)
  PROVE  JamTypeOK'
<1> DEFINE jammed == Beyond(rBlocked', DynamicLimit(in.rConveyorSpeed))
           late == Beyond(rBlocked', WarnLimit(in.rConveyorSpeed))
<1>1. rBlocked' \in [BeltSensors -> 0..MaximumJamLimit]
  BY BlockedTimesRange DEF JamScan
<1>2. xResetAcceptedPulse' \in BOOLEAN
  BY DEF JamScan, ResetAllowed, JamInput
<1>3. jammed \subseteq BeltSensors /\ BeltSensors \subseteq Nat
  BY JamAssumption DEF Beyond
<1> USE DEF JamTypeOK
<1>4. CASE Recovering(in)
  BY <1>1, <1>2, <1>4 DEF Recovering
<1>5. CASE Jammed(jammed)
  <2>1. \E s \in jammed : \A t \in jammed : s <= t
    BY <1>3, <1>5, LeastExists DEF Jammed
  <2>2. uiJamSource' \in BeltSensors
    BY <1>3, <1>5, <2>1 DEF Jammed, Latch
  <2>3. uiTotalJams' \in Nat
    BY <1>5 DEF Jammed, Latch
  <2> QED BY <1>1, <1>2, <1>5, <2>2, <2>3 DEF Jammed, Latch
<1>6. CASE Warn(late)
  BY <1>1, <1>2, <1>6 DEF Warn, Unchanging
<1>7. CASE WaitClear(in)
  BY <1>1, <1>2, <1>7 DEF WaitClear, Unchanging
<1>8. CASE Watch(in)
  BY <1>1, <1>2, <1>8 DEF Watch, Unchanging
<1> QED BY <1>4, <1>5, <1>6, <1>7, <1>8 DEF JamScan

LEMMA ConveyorStep ==
  ASSUME NEW in \in ConveyorInput, ConveyorTypeOK, ConveyorScan(in)
  PROVE  ConveyorTypeOK'
<1>1. {RampDivisor, StopDivisor, JamScans} \subseteq Nat \ {0}
  BY ConveyorAssumption
<1>2. in.rCmdSpeed \in Nat /\ rCurrentSpeed \in Nat /\ xIsRunning \in BOOLEAN
      /\ tonJam \in [Barriers -> Off..JamScans] /\ xConveyorJam \in BOOLEAN
  BY DEF ConveyorInput, ConveyorTypeOK
<1>3. rCurrentSpeed' \in Nat /\ xIsRunning' \in BOOLEAN
  <2>1. CASE Driven(in)
    BY <1>1, <1>2, <2>1, PartKeepsSpeed DEF ConveyorScan, Ramp
  <2>2. CASE ~Driven(in)
    BY <1>1, <1>2, <2>2, PartKeepsSpeed DEF ConveyorScan, Ramp
  <2> QED BY <2>1, <2>2
<1>4. Off \in Off..JamScans /\ \A n \in Off..JamScans : n < JamScans => n + 1 \in Off..JamScans
  BY <1>1 DEF Off
<1>5. JamScans \in Off..JamScans
  BY <1>1 DEF Off
<1>6. Timed(in) \in [Barriers -> Off..JamScans]
  <2>1. \A s \in Barriers : tonJam[s] \in Off..JamScans
    BY <1>2
  <2> QED BY <1>4, <1>5, <2>1 DEF Timed
<1>7. tonJam' \in [Barriers -> Off..JamScans] /\ xConveyorJam' \in BOOLEAN
  BY <1>2, <1>4, <1>6 DEF ConveyorScan, Watchdog
<1> QED BY <1>3, <1>7 DEF ConveyorTypeOK

LEMMA SameEnumerations == Station!PackMLStates = PackMLStates /\ Station!Modes = Modes
BY DEF Station!PackMLStates, PackMLStates, Station!Modes, Modes

LEMMA StationSpeed ==
  ASSUME NEW in \in Station!StationInput
  PROVE  Station!CommandSpeed(in) \in Nat
<1>1. {DefaultSpeed, MinimumSpeed, MaximumSpeed, ManualMaxSpeed,
       MaintenanceMaxSpeed} \subseteq Nat \ {0}
  BY RecoveryAssumption
<1>2. /\ {in.stRecipe.rAutoSpeed, in.stRecipe.rManualMaxSpeed,
          in.stRecipe.rMaintenanceSpeedLimit, in.rTargetSpeed,
          in.stManual.rJogSpeed} \subseteq Int
  BY DEF Station!StationInput, Station!SpeedRecipe, Station!ManualControl
<1> USE <1>1, <1>2 DEF Station!FirstPositive, Station!Clamped, Station!RecipeClamped
<1>3. Station!AutoSpeed(in) \in Nat
  BY DEF Station!AutoSpeed
<1>4. Station!ManualSpeed(in) \in Nat
  BY DEF Station!ManualSpeed
<1>5. Station!MaintenanceSpeed(in) \in Nat
  BY <1>4 DEF Station!MaintenanceSpeed
<1> QED BY <1>3, <1>4, <1>5 DEF Station!CommandSpeed

LEMMA StationMoves ==
  ASSUME NEW in \in Station!StationInput, Station!TypeOK, Station!Sequence(in)
  PROVE  stationState' \in PackMLStates /\ ePackMLState' \in PackMLStates
         /\ rTransitionElapsed' \in 0..TransitionScans
<1>1. TransitionScans \in Nat /\ rTransitionElapsed \in 0..TransitionScans
  BY RecoveryAssumption DEF Station!TypeOK
<1>2. 0 \in 0..TransitionScans /\ Station!Elapsed \in 0..TransitionScans
  BY <1>1 DEF Station!Elapsed
<1>3. /\ stationState' \in PackMLStates
      /\ \/ \E s \in PackMLStates : Station!Enter(s)
         \/ Station!Stay
  BY DEF Station!Sequence, Station!Abort, Station!Stopped, Station!Resetting, Station!Idle,
     Station!Starting, Station!Execute, Station!Suspended, Station!Holding, Station!Held,
     Station!Unholding, Station!Stopping, Station!Aborted, Station!Branch, PackMLStates
<1> QED BY <1>2, <1>3, SameEnumerations DEF Station!Enter, Station!Stay, Station!TypeOK

LEMMA StationStep ==
  ASSUME NEW in \in Station!StationInput, Station!TypeOK, Station!StationScan(in)
  PROVE  Station!TypeOK' /\ stationOut'.rConveyorSpeed \in Nat
<1>1. stationState' \in PackMLStates /\ ePackMLState' \in PackMLStates
      /\ rTransitionElapsed' \in 0..TransitionScans
  BY StationMoves DEF Station!StationScan
<1>2. in.xReset \in BOOLEAN /\ in.stManual.xScannerTrigger \in BOOLEAN
      /\ in.eRequestedMode \in Modes /\ in.stManual.xResetJam \in BOOLEAN
      /\ in.stManual \in Station!ManualControl
  BY SameEnumerations DEF Station!StationInput, Station!ManualControl
<1>3. eCurrentMode' \in Modes
  BY <1>2, SameEnumerations DEF Station!StationScan, Station!ModeUpdate, Station!TypeOK
<1>4. Station!CommandSpeed(in) \in Nat
  BY StationSpeed
<1>5. stationOut' \in Station!StationOutput /\ stationOut'.rConveyorSpeed \in Nat
  <2> DEFINE flags ==
        {Station!PermissivesOK(in), (in.xReset /\ ~xResetLast) \/ in.stManual.xResetJam,
         Station!ConveyorRunEnable(in), Station!ConveyorQuickStop(in),
         Station!ScannerEnable(in), Station!AutoModeActive,
         Station!ManualModeActive(in), Station!MaintenanceActive(in),
         Station!MaintenanceModeSafe(in)}
  <2>1. flags \subseteq BOOLEAN
    BY <1>2, Zenon
       DEF Station!PermissivesOK, Station!ConveyorRunEnable, Station!ConveyorQuickStop,
           Station!ScannerEnable, Station!AutoModeActive, Station!ManualModeActive,
           Station!MaintenanceActive, Station!MaintenanceModeSafe
  <2> QED BY <1>4, <2>1 DEF Station!StationScan, Station!Outputs, Station!StationOutput
<1>6. xResetLast' \in BOOLEAN /\ xManualScannerLast' \in BOOLEAN
  BY <1>2 DEF Station!StationScan
<1> QED BY <1>1, <1>3, <1>5, <1>6, SameEnumerations DEF Station!TypeOK

------------------------------------------------------------------------------
(* The inductive invariant: types, the obeyed stop and the bounded push.     *)

StopInv ==
  stopGiven => ePackMLState \in {"STOPPED", "RESETTING", "IDLE", "STOPPING", "ABORTED"}

\* The push a barrier has suffered is what the jam detector has accumulated,
\* but for the scan by which the detector sees the drive late.
PushInv ==
  \A s \in BeltSensors :
    /\ pushed[s] \in 0..MaximumJamLimit
    /\ pushed[s] <= rBlocked[s] + (IF xIsRunning THEN 1 ELSE 0)

IInv == RecoveryTypeOK /\ StopInv /\ PushInv

LEMMA InitInv == RecoveryInit => IInv
<1> SUFFICES ASSUME RecoveryInit PROVE IInv
  OBVIOUS
<1> USE DEF RecoveryInit
<1>1. LineTypeOK
  BY LineAssumption DEF LineInit, LineTypeOK
<1>2. JamTypeOK
  <2>1. 0 \in 0..MaximumJamLimit
    BY JamAssumption
  <2> QED BY <2>1 DEF JamInit, JamTypeOK
<1>3. ConveyorTypeOK
  <2>1. Off \in Off..JamScans
    BY ConveyorAssumption DEF Off
  <2> QED BY <2>1 DEF ConveyorInit, ConveyorTypeOK
<1>4. Station!TypeOK
  <2>1. 0 \in 0..TransitionScans
    BY RecoveryAssumption
  <2>2. stationOut \in Station!StationOutput
    BY DEF Station!StationInit, Station!StationOutput
  <2>3. "STOPPED" \in Station!PackMLStates /\ "AUTO" \in Station!Modes
    BY DEF Station!PackMLStates, Station!Modes
  <2> QED BY <2>1, <2>2, <2>3 DEF Station!StationInit, Station!TypeOK
<1>5. pushed \in [BeltSensors -> 0..MaximumJamLimit + 1]
  BY JamAssumption
<1>6. RecoveryTypeOK
  BY <1>1, <1>2, <1>3, <1>4, <1>5 DEF RecoveryTypeOK
<1>7. StopInv
  BY DEF StopInv
<1>8. PushInv
  BY JamAssumption DEF PushInv, JamInit, ConveyorInit
<1> QED BY <1>6, <1>7, <1>8 DEF IInv

\* What every block is called with has its type.
LEMMA InputTypes ==
  ASSUME RecoveryTypeOK, NEW scene \in Scenes
  PROVE  LineIn(scene) \in LineInput /\ JamIn(scene) \in JamInput /\ scene \in Scene
<1>1. scene \in Scene
  BY RecoveryAssumption
<1>2. LineIn(scene) \in LineInput
  BY <1>1, LineAssumption DEF LineIn, LineInput, Scene, RecoveryTypeOK, Modes
<1>3. ResetJam(scene) \in BOOLEAN
  BY <1>1 DEF ResetJam, Scene
<1>4. stationOut.xPermissivesOK \in BOOLEAN /\ ePackMLState \in PackMLStates
  BY SameEnumerations DEF RecoveryTypeOK, Station!TypeOK, Station!StationOutput
<1>5. xIsRunning \in BOOLEAN /\ rCurrentSpeed \in Nat
  BY DEF RecoveryTypeOK, ConveyorTypeOK
<1>6. JamIn(scene) \in JamInput
  BY <1>1, <1>3, <1>4, <1>5 DEF JamIn, JamInput, Scene
<1> QED BY <1>1, <1>2, <1>6

LEMMA StationInType ==
  ASSUME RecoveryTypeOK, NEW scene \in Scenes, LineTypeOK', JamTypeOK'
  PROVE  StationIn(scene) \in Station!StationInput
<1>1. scene \in Scene
  BY RecoveryAssumption
<1>2. ResetJam(scene) \in BOOLEAN /\ UnholdRequest \in BOOLEAN
      /\ scene.xSafetyLoopOK \in BOOLEAN
  BY <1>1 DEF ResetJam, Scene, UnholdRequest, JamTypeOK
<1>3. /\ stActiveRecipe'.rAutoSpeed \in Int /\ stActiveRecipe'.rManualMaxSpeed \in Int
      /\ stActiveRecipe'.rMaintenanceSpeedLimit \in Int
  BY DEF LineTypeOK, Recipe
<1>4. {xRouteFault, xConveyorJam, xJamAlarm', xRequestHold'} \subseteq BOOLEAN
  BY DEF RecoveryTypeOK, ConveyorTypeOK, JamTypeOK
<1>5. [rAutoSpeed |-> stActiveRecipe'.rAutoSpeed,
       rManualMaxSpeed |-> stActiveRecipe'.rManualMaxSpeed,
       rMaintenanceSpeedLimit |-> stActiveRecipe'.rMaintenanceSpeedLimit]
        \in Station!SpeedRecipe
  BY <1>3 DEF Station!SpeedRecipe
<1>6. [xJogConveyorForward |-> FALSE, rJogSpeed |-> 0,
       xDiverter1Extend |-> FALSE, xDiverter2Extend |-> FALSE,
       xScannerTrigger |-> FALSE, xResetJam |-> ResetJam(scene),
       xMaintenanceKey |-> FALSE] \in Station!ManualControl
  BY <1>2 DEF Station!ManualControl
<1>7. "AUTO" \in Station!Modes
  BY DEF Station!Modes
<1> QED BY <1>2, <1>3, <1>4, <1>5, <1>6, <1>7 DEF StationIn, Station!StationInput

\* Types, and what the steps of the blocks are, for the lemmas below.
LEMMA TypeStep ==
  ASSUME RecoveryTypeOK, NEW scene \in Scenes, Scan(scene),
         pushed' \in [BeltSensors -> 0..MaximumJamLimit + 1]
  PROVE  RecoveryTypeOK'
<1>1. LineIn(scene) \in LineInput /\ JamIn(scene) \in JamInput /\ scene \in Scene
  BY InputTypes
<1>2. LineTypeOK'
  BY <1>1, LineStep DEF Scan, RecoveryTypeOK
<1>3. JamTypeOK'
  BY <1>1, JamStep DEF Scan, RecoveryTypeOK
<1>4. Station!TypeOK' /\ stationOut'.rConveyorSpeed \in Nat
  BY <1>2, <1>3, StationInType, StationStep DEF Scan, RecoveryTypeOK
<1>5. ConveyorIn(scene) \in ConveyorInput
  <2>1. RunCmd \in BOOLEAN
    BY <1>4 DEF RunCmd, Station!TypeOK, Station!StationOutput
  <2>2. stationOut'.xResetAlarms \in BOOLEAN
    BY <1>4 DEF Station!TypeOK, Station!StationOutput
  <2> QED BY <1>1, <1>4, <2>1, <2>2, RecoveryAssumption
          DEF ConveyorIn, ConveyorInput, Scene
<1>6. ConveyorTypeOK'
  BY <1>5, ConveyorStep DEF Scan, RecoveryTypeOK
<1>7. {xStationReady', xRouteFault', xAnyAlarmActive'} \subseteq BOOLEAN
  BY DEF Scan, RouteFaultLatch, AlarmSummary
<1>8. {stopGiven', uncounted', helped', pressed'} \subseteq BOOLEAN
  <2>1. Helping(scene) \in BOOLEAN /\ scene.xManualResetJam \in BOOLEAN
    BY <1>1 DEF Helping, Scene
  <2> QED BY <2>1 DEF Scan, Remember, RecoveryTypeOK
<1> QED BY <1>2, <1>3, <1>4, <1>6, <1>7, <1>8 DEF RecoveryTypeOK

\* A pulse stops every run; only a start, without a stop, leaves IDLE for one.
LEMMA StopStep ==
  ASSUME IInv, NEW scene \in Scenes, Scan(scene)
  PROVE  StopInv'
<1> DEFINE in == StationIn(scene)
<1>1. Station!Sequence(in)
  BY DEF Scan, Station!StationScan
<1>2. /\ in.xStop = ("stop" \in linePulses')
      /\ in.xStart = ("start" \in linePulses')
  BY DEF StationIn
<1>3. stopGiven' = \/ "stop" \in linePulses'
                   \/ stopGiven /\ "start" \notin linePulses'
  BY DEF Scan, Remember
<1>4. stopGiven => ePackMLState \in {"STOPPED", "RESETTING", "IDLE", "STOPPING", "ABORTED"}
  BY DEF IInv, StopInv
<1> HIDE DEF in
<1> QED BY <1>1, <1>2, <1>3, <1>4
        DEF StopInv, Station!Sequence, Station!Abort, Station!Stopped, Station!Resetting,
            Station!Idle, Station!Starting, Station!Execute, Station!Suspended,
            Station!Holding, Station!Held, Station!Unholding, Station!Stopping,
            Station!Aborted, Station!Branch, Station!Enter, Station!Stay

\* A drive that is commanded has met no barrier at its limit.
LEMMA DrivenBelowLimit ==
  ASSUME IInv, NEW scene \in Scenes, Scan(scene), RunCmd, NEW s \in BeltSensors,
         s \in scene.blocked
  PROVE  rBlocked'[s] < MaximumJamLimit
<1> DEFINE in == JamIn(scene)
           limit == DynamicLimit(in.rConveyorSpeed)
           jammed == Beyond(rBlocked', limit)
<1>1. JamScan(in) /\ in.blocked = scene.blocked /\ in \in JamInput
  BY InputTypes DEF Scan, JamIn, IInv
<1>2. ~xJamAlarm'
  BY DEF RunCmd
<1>3. ~ResetAllowed(in)
  BY <1>1 DEF ResetAllowed
<1>4. jammed = {}
  <2>1. \/ Recovering(in)
        \/ ~ResetAllowed(in) /\ Jammed(jammed)
        \/ ~ResetAllowed(in) /\ jammed = {}
    BY <1>1 DEF JamScan
  <2> HIDE DEF jammed, in
  <2> QED BY <1>2, <1>3, <2>1 DEF Recovering, Jammed, Latch
<1>5. ~(rBlocked'[s] >= limit)
  BY <1>4 DEF Beyond
<1>6. limit \in BaseJamLimit..MaximumJamLimit /\ limit \in Int
  BY <1>1, LimitRange, JamAssumption DEF JamInput
<1>7. rBlocked'[s] \in Int
  BY <1>1, BlockedTimesRange, JamAssumption DEF JamScan, IInv, RecoveryTypeOK
<1> HIDE DEF limit
<1> QED BY <1>5, <1>6, <1>7, JamAssumption

LEMMA PushStep ==
  ASSUME IInv, NEW scene \in Scenes, Scan(scene)
  PROVE  /\ PushInv'
         /\ pushed' \in [BeltSensors -> 0..MaximumJamLimit + 1]
<1> DEFINE in == JamIn(scene)
           driven == RunCmd /\ ~xConveyorJam
<1>1. rBlocked' = BlockedTimes(in) /\ in \in JamInput
      /\ in.blocked = scene.blocked /\ in.xConveyorRunning = xIsRunning
  BY InputTypes DEF Scan, JamScan, JamIn, IInv
<1>2. pushed' = [s \in BeltSensors |->
                   IF s \notin scene.blocked THEN 0
                   ELSE IF driven THEN pushed[s] + 1 ELSE pushed[s]]
  BY DEF Scan, Remember
<1>3. driven => xIsRunning'
  BY DEF Scan, ConveyorScan, ConveyorIn, Ramp, Driven
<1>4. xIsRunning \in BOOLEAN /\ MaximumJamLimit \in Nat
  BY JamAssumption DEF IInv, RecoveryTypeOK, ConveyorTypeOK
<1>5. ASSUME NEW s \in BeltSensors
      PROVE  /\ pushed'[s] \in 0..MaximumJamLimit
             /\ pushed'[s] <= rBlocked'[s] + (IF xIsRunning' THEN 1 ELSE 0)
  <2>1. /\ pushed[s] \in 0..MaximumJamLimit
        /\ pushed[s] <= rBlocked[s] + (IF xIsRunning THEN 1 ELSE 0)
        /\ rBlocked[s] \in 0..MaximumJamLimit
    BY DEF IInv, PushInv, RecoveryTypeOK, JamTypeOK
  <2>2. /\ rBlocked'[s] \in 0..MaximumJamLimit
        /\ s \in scene.blocked /\ ~xIsRunning => rBlocked'[s] = rBlocked[s]
        /\ s \in scene.blocked /\ xIsRunning
             => \/ rBlocked'[s] = rBlocked[s] + 1
                \/ rBlocked'[s] = MaximumJamLimit
    BY <1>1, BlockedTimesRange DEF IInv, RecoveryTypeOK
  <2>3. CASE s \notin scene.blocked
    BY <1>2, <1>4, <2>2, <2>3
  <2>4. CASE s \in scene.blocked /\ ~driven
    <3>1. pushed'[s] = pushed[s]
      BY <1>2, <2>4
    <3> QED BY <1>4, <2>1, <2>2, <2>4, <3>1
  <2>5. CASE s \in scene.blocked /\ driven
    <3>1. pushed'[s] = pushed[s] + 1 /\ xIsRunning'
      BY <1>2, <1>3, <2>5
    <3>2. rBlocked'[s] < MaximumJamLimit
      BY <2>5, DrivenBelowLimit
    <3> QED BY <1>4, <2>1, <2>2, <2>5, <3>1, <3>2
  <2> QED BY <2>3, <2>4, <2>5
<1>6. pushed' \in [BeltSensors -> 0..MaximumJamLimit + 1]
  <2>1. \A s \in BeltSensors : pushed'[s] \in 0..MaximumJamLimit + 1
    BY <1>4, <1>5
  <2> QED BY <1>2, <2>1
<1> QED BY <1>5, <1>6 DEF PushInv

LEMMA StepInv == IInv /\ [RecoveryNext]_recoveryVars => IInv'
<1> SUFFICES ASSUME IInv, [RecoveryNext]_recoveryVars PROVE IInv'
  OBVIOUS
<1>1. ASSUME NEW scene \in Scenes, Scan(scene) PROVE IInv'
  <2>1. PushInv' /\ pushed' \in [BeltSensors -> 0..MaximumJamLimit + 1]
    BY <1>1, PushStep
  <2>2. RecoveryTypeOK'
    BY <1>1, <2>1, TypeStep DEF IInv
  <2>3. StopInv'
    BY <1>1, StopStep
  <2> QED BY <2>1, <2>2, <2>3 DEF IInv
<1>2. CASE UNCHANGED recoveryVars
  BY <1>2 DEF recoveryVars, lineVars, jamVars, conveyorVars, Station!stationVars,
     mainVars, historyVars, IInv, RecoveryTypeOK, LineTypeOK, JamTypeOK,
     ConveyorTypeOK, Station!TypeOK, StopInv, PushInv
<1> QED BY <1>1, <1>2 DEF RecoveryNext

\* The typing, the obedience to a stop and the bound on the push hold together
\* in every scan of the program.
THEOREM Invariance == RecoverySpec => []IInv
<1> QED BY InitInv, StepInv, PTL DEF RecoverySpec

------------------------------------------------------------------------------
(* The results.                                                              *)

\* Every variable of the four blocks and of their wiring keeps its type.
THEOREM TypeCorrect == RecoverySpec => []RecoveryTypeOK
<1>1. IInv => RecoveryTypeOK
  BY DEF IInv
<1> QED BY <1>1, Invariance, PTL

\* No scan drives the belt against a barrier beyond the longest jam limit.
THEOREM PushIsBounded == RecoverySpec => []NeverPushedTooLong
<1>1. IInv => NeverPushedTooLong
  BY JamAssumption DEF IInv, PushInv, NeverPushedTooLong
<1> QED BY <1>1, Invariance, PTL

\* Once a stop is passed on, no run begins, waits or resumes until a start.
THEOREM StopIsObeyed == RecoverySpec => []StoppedUntilStarted
<1>1. IInv => StoppedUntilStarted
  BY DEF IInv, StopInv, StoppedUntilStarted
<1> QED BY <1>1, Invariance, PTL
==============================================================================
