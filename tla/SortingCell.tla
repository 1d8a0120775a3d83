------------------------------ MODULE SortingCell ------------------------------
(* The material flow of plc/Main.st (sections 4 and 5): station controller,  *)
(* routing, the two diverters and the KPI service, called in the order of    *)
(* the program and wired as it wires them, around the belt, the cylinders    *)
(* and the light barriers of digital_twin/sim_engine.py.  One step is one    *)
(* scan of the PLC followed by one step of the plant; lengths are in the     *)
(* distance the belt moves in a scan.                                        *)
(*                                                                           *)
(* The supervisor is represented by its command pulses, the drive by an      *)
(* ideal one (the belt runs at full speed or stands), and one deviation from *)
(* the twin is deliberate: its cylinders divert only packages whose own      *)
(* label asks for it, these push whatever stands before them.                *)
EXTENDS RoutingLogic, KPIService, Sequences, FiniteSets

CONSTANTS
  TransitionScans, DefaultSpeed, MinimumSpeed, MaximumSpeed, ManualMaxSpeed,
  MaintenanceMaxSpeed,                         \* of the station controller
  ExtendScans, RetractScans, DwellScans, VerificationScans, ManualHoldScans,
  RequireHomeBeforeFire, RequireVerification, Horizon,   \* of the diverters
  OperatorCommands,    \* which station commands the operator may give
  Layout,              \* where barriers, cylinders and the belt end are
  Stroke,              \* scans for a full stroke of a cylinder
  ExitScans,           \* scans for which a leaving package covers its exit barrier
  Pitches,             \* the distances the infeed leaves between two packages
  MaxPackages,         \* bound: packages fed in a behaviour
  ScannerIsTriggered   \* the scanner reads on the trigger pulse, or on its own

VARIABLES
  stationState, ePackMLState, eCurrentMode, rTransitionElapsed, xResetLast,
  xManualScannerLast, stationOut,
  eState1, xRequestLast1, rStateElapsed1, uiFaultCode1, xVerified1, diverterOut1,
  eState2, xRequestLast2, rStateElapsed2, uiFaultCode2, xVerified2, diverterOut2,
  parcels,             \* the packages fed so far, in order
  cylinder1, cylinder2,
  scannerData,         \* the label last read
  kpiBase,             \* history: routing counts when the KPIs were last reset
  forgotten,           \* history: packages a reset made the routing forget
  mixedUp              \* history: an exit edge was credited to another package

Station == INSTANCE StationController WITH
  eState <- stationState, StationInputs <- {}

D1 == INSTANCE DiverterController WITH
  eState <- eState1, xRequestLast <- xRequestLast1,
  rStateElapsed <- rStateElapsed1, uiFaultCode <- uiFaultCode1,
  xVerified <- xVerified1, diverterOut <- diverterOut1, DiverterInputs <- {}

D2 == INSTANCE DiverterController WITH
  eState <- eState2, xRequestLast <- xRequestLast2,
  rStateElapsed <- rStateElapsed2, uiFaultCode <- uiFaultCode2,
  xVerified <- xVerified2, diverterOut <- diverterOut2, DiverterInputs <- {}

plantVars == <<parcels, cylinder1, cylinder2, scannerData>>
historyVars == <<kpiBase, forgotten, mixedUp>>
cellVars == <<Station!stationVars, routingVars, D1!diverterVars, D2!diverterVars,
              kpiVars, plantVars, historyVars>>

Labels == {"LANE_A", "LANE_B", "NO_READ"}
Lanes == {"LANE_A", "LANE_B", "REJECT"}

\* A package: how far its front has come, where it is, for how many scans it
\* has covered its exit barrier, and the uID it was registered under (0: none).
Parcel == [at : Nat, label : Labels, place : {"BELT", "GONE"} \cup Lanes,
           exitTime : 0..ExitScans, id : Nat]

ASSUME CellAssumption ==
  /\ OperatorCommands \subseteq {"start", "stop", "reset", "hold", "unhold", "kpi"}
  /\ Layout \in [pe1 : Window, pe2 : Window, reach1 : Window, reach2 : Window,
                 beltEnd : Nat]
  /\ {Stroke, ExitScans, MaxPackages} \subseteq Nat \ {0}
  /\ Pitches \subseteq Nat \ {0}
  /\ ScannerIsTriggered \in BOOLEAN

(* What the theorems ask of a layout, beyond CellAssumption.                 *)

\* The infeed puts a package on the belt within the beam of PE1, and only after
\* the package before it has left that beam.
FeedIsSpaced ==
  /\ RegisterPosition \in Nat
  /\ Inside(RegisterPosition, Layout.pe1)
  /\ \A p \in Pitches : RegisterPosition + p > Layout.pe1.to

\* The distance that keeps two packages out of one scanner window.
Gap == DefaultGeometry.scanner.to - DefaultGeometry.scanner.from + 2

\* PE2 lies between the infeed and the cylinders and within the window the
\* routing associates scans in, and two packages never share that window.
ScannerIsPlaced ==
  LET pe2 == Layout.pe2 scanner == DefaultGeometry.scanner IN
  /\ RegisterPosition < pe2.from
  /\ scanner.from <= pe2.from /\ pe2.from < scanner.to
  /\ pe2.from <= pe2.to /\ pe2.to <= scanner.to
  /\ pe2.from < Layout.reach1.from /\ pe2.from < Layout.reach2.from
  /\ pe2.from < Layout.beltEnd
  /\ \A p \in Pitches : p >= Gap

CellTypeOK ==
  /\ TypeOK /\ KPITypeOK /\ Station!TypeOK /\ D1!TypeOK /\ D2!TypeOK
  /\ parcels \in Seq(Parcel) /\ Len(parcels) <= MaxPackages
  /\ {cylinder1, cylinder2} \subseteq 0..Stroke
  /\ scannerData \in Labels
  /\ kpiBase \in [Counters -> Nat]
  /\ forgotten \subseteq DOMAIN parcels
  /\ mixedUp \in BOOLEAN

CellInit ==
  /\ Station!StationInit /\ RoutingInit /\ D1!DiverterInit /\ D2!DiverterInit
  /\ KPIInit
  /\ parcels = <<>>
  /\ cylinder1 = 0 /\ cylinder2 = 0
  /\ scannerData = "NO_READ"
  /\ kpiBase = counts
  /\ forgotten = {}
  /\ mixedUp = FALSE

------------------------------------------------------------------------------
(* What the PLC reads: the barriers and switches after the last plant step.  *)

OnBelt == {n \in DOMAIN parcels : parcels[n].place = "BELT"}

Blocked(window) == \E n \in OnBelt : Inside(parcels[n].at, window)

\* The packages on the exit barrier of a lane.
Leaving(lane) ==
  {n \in DOMAIN parcels : parcels[n].place = lane /\ parcels[n].exitTime > 0}

BarcodeOf(label) == IF label = "NO_READ" THEN {"BAD_SCAN"} ELSE {label}

Destination(label) == IF label = "NO_READ" THEN "REJECT" ELSE label

Faulted1 == uiFaultCode1 # "NONE"
Faulted2 == uiFaultCode2 # "NONE"

IdleHands ==
  [xJogConveyorForward |-> FALSE, rJogSpeed |-> 0, xDiverter1Extend |-> FALSE,
   xDiverter2Extend |-> FALSE, xScannerTrigger |-> FALSE, xResetJam |-> FALSE,
   xMaintenanceKey |-> FALSE]

StationIn(command) ==
  [xStart |-> command = "start", xStop |-> command = "stop",
   xReset |-> command = "reset", xHold |-> command = "hold" \/ xRouteFault,
   xUnhold |-> command = "unhold", xClear |-> FALSE, eRequestedMode |-> "AUTO",
   stRecipe |-> [rAutoSpeed |-> 0, rManualMaxSpeed |-> 0,
                 rMaintenanceSpeedLimit |-> 0],
   stManual |-> IdleHands, rTargetSpeed |-> DefaultSpeed,
   xSafetyLoopOK |-> TRUE, xAirPressureOK |-> TRUE, xVfdReady |-> TRUE,
   xDiverter1Faulted |-> Faulted1, xDiverter2Faulted |-> Faulted2,
   xJamAlarm |-> FALSE, xDownstreamBlocked |-> xRouteFault]

\* xConveyorRunCmd, computed before the routing of this scan.
BeltRuns ==
  /\ stationOut'.xConveyorRunEnable /\ ~stationOut'.xConveyorQuickStop
  /\ ~xRouteFault

RoutingIn ==
  [xConveyorRunning |-> BeltRuns,
   rConveyorSpeed |-> IF BeltRuns THEN 1 ELSE 0,
   sScannerString |-> BarcodeOf(scannerData),
   xScannerReadSuccess |-> scannerData # "NO_READ",
   xRawPE4 |-> Leaving("LANE_A") # {}, xRawPE5 |-> Leaving("LANE_B") # {},
   xRawPE6 |-> Leaving("REJECT") # {},
   xResetAlarms |-> stationOut'.xResetAlarms,
   xPE1 |-> Blocked(Layout.pe1), xPE2 |-> Blocked(Layout.pe2),
   eCurrentMode |-> eCurrentMode', stActiveRecipe |-> DefaultGeometry,
   xManualDiverter1 |-> FALSE, xManualDiverter2 |-> FALSE,
   xManualScanner |-> FALSE, xAutoEnable |-> stationOut'.xAutoModeActive,
   xMaintenanceSafeguardsOK |-> stationOut'.xMaintenanceSafe,
   xDiverter1Ready |-> cylinder1 = 0 /\ ~diverterOut1.xBusy /\ ~Faulted1,
   xDiverter2Ready |-> cylinder2 = 0 /\ ~diverterOut2.xBusy /\ ~Faulted2,
   xDiverter1Done |-> diverterOut1.xDone, xDiverter2Done |-> diverterOut2.xDone,
   xDiverter1Faulted |-> Faulted1, xDiverter2Faulted |-> Faulted2]

DiverterIn(request, hand, cylinder, lane) ==
  [xAutoEnable |-> stationOut'.xAutoModeActive, xExtendRequest |-> request,
   xManualExtend |-> hand, eMode |-> eCurrentMode',
   xManualEnable |-> stationOut'.xManualModeActive,
   xMaintenanceEnable |-> stationOut'.xMaintenanceActive,
   xInterlockOK |-> stationOut'.xPermissivesOK, xInhibit |-> xRouteFault',
   xForceRetract |-> stationOut'.xConveyorQuickStop \/ ~stationOut'.xPermissivesOK,
   xHomeSensor |-> cylinder = 0, xWorkSensor |-> cylinder = Stroke,
   xVerificationSensor |-> Leaving(lane) # {},
   xResetFault |-> stationOut'.xResetAlarms]

KPIIn(command) ==
  [signals |->
     [PE4 |-> Leaving("LANE_A") # {}, PE5 |-> Leaving("LANE_B") # {},
      PE6 |-> Leaving("REJECT") # {}, laneA |-> routingOut'.laneA,
      laneB |-> routingOut'.laneB, reject |-> routingOut'.reject,
      registered |-> routingOut'.registered, scanGood |-> routingOut'.scanGood,
      scanBad |-> routingOut'.scanBad],
   ePackMLState |-> ePackMLState',
   xFaultDowntime |-> xRouteFault' \/ ePackMLState' = "HELD",
   xResetCounters |-> command = "kpi"]

------------------------------------------------------------------------------
(* The plant step, driven by the outputs of the scan.                        *)

Stroked(cylinder, extend) ==
  IF extend THEN IF cylinder < Stroke THEN cylinder + 1 ELSE Stroke
  ELSE IF cylinder > 0 THEN cylinder - 1 ELSE 0

MoveCylinders ==
  /\ cylinder1' = Stroked(cylinder1, diverterOut1'.xCommandExtend)
  /\ cylinder2' = Stroked(cylinder2, diverterOut2'.xCommandExtend)

\* Where a package on the belt is after the step, its front having reached at.
Taken(at) ==
  IF Inside(at, Layout.reach1) /\ cylinder1' = Stroke THEN "LANE_A"
  ELSE IF Inside(at, Layout.reach2) /\ cylinder2' = Stroke THEN "LANE_B"
  ELSE IF at >= Layout.beltEnd THEN "REJECT"
  ELSE "BELT"

Gone(p) == [p EXCEPT !.at = 0, !.place = "GONE", !.exitTime = 0, !.id = 0]

\* The registration of this scan concerns the package that reached PE1 last.
Tagged(n) ==
  IF routingOut'.registered /\ n = Len(parcels)
  THEN [parcels[n] EXCEPT !.id = uiNextPackageID] ELSE parcels[n]

Advanced(p) ==
  CASE p.place = "BELT" ->
         LET at == IF BeltRuns THEN p.at + 1 ELSE p.at
         IN [p EXCEPT !.at = at, !.place = Taken(at)]
    [] p.place \in Lanes /\ p.exitTime < ExitScans ->
         [p EXCEPT !.exitTime = @ + 1]
    [] OTHER -> Gone(p)

Fed(label) ==
  [at |-> RegisterPosition, label |-> label, place |-> "BELT", exitTime |-> 0,
   id |-> 0]

\* The infeed hands over a package while the cell executes, at one of the
\* pitches behind the package before it.
MayFeed(moved) ==
  /\ ePackMLState' = "EXECUTE" /\ BeltRuns
  /\ Len(moved) < MaxPackages
  /\ moved # <<>> =>
       \E p \in Pitches : moved[Len(moved)].at = RegisterPosition + p

MoveParcels ==
  LET moved == [n \in DOMAIN parcels |-> Advanced(Tagged(n))]
  IN \/ parcels' = moved
     \/ \E label \in Labels :
          MayFeed(moved) /\ parcels' = Append(moved, Fed(label))

\* A scanner of its own reads whatever stands at PE2; a triggered one reads
\* when the trigger pulse of this scan arrives.
ReadScanner ==
  LET seen == {n \in DOMAIN parcels' : /\ parcels'[n].place = "BELT"
                                      /\ Inside(parcels'[n].at, Layout.pe2)}
  IN scannerData' =
       IF seen # {} /\ (ScannerIsTriggered => routingOut'.scannerTrigger)
       THEN parcels'[CHOOSE n \in seen : TRUE].label ELSE scannerData

\* An exit edge was credited, and the package on the barrier is still tracked.
MixUp(pulse, lane) ==
  /\ routingOut'[pulse]
  /\ \E s \in Active(arrQueue') : \E n \in Leaving(lane) :
       arrQueue'[s].uID = parcels[n].id

Remember(command) ==
  /\ kpiBase' = IF command = "kpi" THEN counts ELSE kpiBase
  /\ forgotten' =
       IF stationOut'.xResetAlarms
       THEN forgotten \cup {n \in DOMAIN parcels :
              \E s \in Active(arrQueue) : arrQueue[s].uID = parcels[n].id}
       ELSE forgotten
  /\ mixedUp' = \/ mixedUp
                \/ MixUp("laneA", "LANE_A") \/ MixUp("laneB", "LANE_B")
                \/ MixUp("reject", "REJECT")

------------------------------------------------------------------------------

\* One scan of Main.st and one step of the plant.  The inputs of each block are
\* bound by a quantifier over one element, which TLC evaluates once.
CellScan(command) ==
  /\ Station!StationScan(StationIn(command))
  /\ \E in \in {RoutingIn} : RoutingScan(in)
  /\ \E in \in {DiverterIn(routingOut'.extend1, stationOut'.xManualDivert1,
                           cylinder1, "LANE_A")} : D1!DiverterScan(in)
  /\ \E in \in {DiverterIn(routingOut'.extend2, stationOut'.xManualDivert2,
                           cylinder2, "LANE_B")} : D2!DiverterScan(in)
  /\ \E in \in {KPIIn(command)} : KPIScan(in)
  /\ MoveCylinders
  /\ MoveParcels
  /\ ReadScanner
  /\ Remember(command)

\* A reset makes the routing forget every package, wherever it is.  (Bounds: it
\* forgets packages once, and another package is still to come.)
CellNext ==
  \E command \in OperatorCommands \cup {"none"} :
    /\ command = "reset" => forgotten = {} /\ Len(parcels) < MaxPackages
    /\ CellScan(command)

CellSpec == CellInit /\ [][CellNext]_cellVars

------------------------------------------------------------------------------
(* Properties.                                                               *)

\* "Package position updated dynamically": the position the routing integrates
\* is where the package really is, so that windows mean places.
TrackedInStep ==
  \A s \in Active(arrQueue), n \in OnBelt :
    arrQueue[s].uID = parcels[n].id => arrQueue[s].rPosition = parcels[n].at

\* Every package that no reset made the routing forget ends in the lane its
\* label asks for, whatever stands behind it or in front of it when a cylinder
\* strokes.
NoMisroute ==
  \A n \in DOMAIN parcels \ forgotten :
    parcels[n].place \in Lanes => parcels[n].place = Destination(parcels[n].label)

\* A package that was scanned is routed by its own label.
RoutedByOwnLabel ==
  \A s \in Active(arrQueue), n \in DOMAIN parcels :
    arrQueue[s].uID = parcels[n].id /\ arrQueue[s].eRouteTarget # "NONE" =>
      arrQueue[s].eRouteTarget = Destination(parcels[n].label)

\* "Matches package in FIFO": an exit edge is credited to the package that is
\* on the exit barrier.
VerifiedInOrder == ~mixedUp

\* A cell in good order raises no route fault of its own making, except after
\* an exit edge was credited to the wrong package or a reset left packages on
\* the belt that the routing does not know.
FaultsAreExplained == xRouteFault => mixedUp \/ forgotten # {}

\* As long as exit edges are credited correctly, every tracked package is in
\* the cell, and every package that has left the cell has been counted unless a
\* reset had made the routing forget it: the exits of forgotten packages take
\* nothing from the queue.
QueueMatchesCell ==
  mixedUp \/
    /\ \A s \in Active(arrQueue) : \E n \in DOMAIN parcels :
         parcels[n].id = arrQueue[s].uID
    /\ \A lane \in Lanes :
         counts[lane] >= Cardinality({n \in DOMAIN parcels \ forgotten :
           parcels[n].place = "GONE" /\ Destination(parcels[n].label) = lane})

\* The KPI counters, which count the rising edges of one-scan pulses, agree
\* with the counters of the routing since the last KPI reset.
KPIAgrees ==
  \A c \in Counters : kpiCounts[c] = counts[c] - kpiBase[c]
==============================================================================
