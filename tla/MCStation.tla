------------------------------ MODULE MCStation ------------------------------
(* StationController under every mode request, one command at a time or a    *)
(* Stop racing another one, and one disturbance at a time (a lane blocked    *)
(* together with the drive lost is the one double fault).                    *)
EXTENDS StationController, FiniteSets

MCTransitionScans == 2

Quiet ==
  [xStart |-> FALSE, xStop |-> FALSE, xReset |-> FALSE, xHold |-> FALSE,
   xUnhold |-> FALSE, xClear |-> FALSE, eRequestedMode |-> "AUTO",
   stRecipe |-> [rAutoSpeed |-> 50, rManualMaxSpeed |-> 0,
                 rMaintenanceSpeedLimit |-> 0],
   stManual |-> [xJogConveyorForward |-> FALSE, rJogSpeed |-> 0,
                 xDiverter1Extend |-> FALSE, xDiverter2Extend |-> FALSE,
                 xScannerTrigger |-> FALSE, xResetJam |-> FALSE,
                 xMaintenanceKey |-> TRUE],
   rTargetSpeed |-> 50,
   xSafetyLoopOK |-> TRUE, xAirPressureOK |-> TRUE, xVfdReady |-> TRUE,
   xDiverter1Faulted |-> FALSE, xDiverter2Faulted |-> FALSE,
   xJamAlarm |-> FALSE, xDownstreamBlocked |-> FALSE]

\* No command, one command, or a Stop racing another one.
Commands == {"start", "stop", "reset", "hold", "unhold", "clear"}
CommandSets ==
  {{}} \cup {{c} : c \in Commands} \cup {{"stop", "start"}, {"stop", "unhold"}}

\* The health of the cell, one or two conditions lost at a time.
Health ==
  {Quiet,
   [Quiet EXCEPT !.xSafetyLoopOK = FALSE],
   [Quiet EXCEPT !.xAirPressureOK = FALSE],
   [Quiet EXCEPT !.xDiverter2Faulted = TRUE],
   [Quiet EXCEPT !.xJamAlarm = TRUE],
   [Quiet EXCEPT !.xDownstreamBlocked = TRUE],
   [Quiet EXCEPT !.xDownstreamBlocked = TRUE, !.xVfdReady = FALSE]}

\* What the operator's hands do: nothing, jog too fast, jog and fire, test the
\* scanner and reset a jam without the maintenance key.
Hands ==
  {Quiet.stManual,
   [Quiet.stManual EXCEPT !.xJogConveyorForward = TRUE, !.rJogSpeed = 90],
   [Quiet.stManual EXCEPT !.xJogConveyorForward = TRUE, !.rJogSpeed = 20,
                          !.xDiverter1Extend = TRUE],
   [Quiet.stManual EXCEPT !.xScannerTrigger = TRUE, !.xResetJam = TRUE,
                          !.xMaintenanceKey = FALSE]}

\* A recipe whose speeds all have to be corrected comes with the fast jog.
Recipe(hands) ==
  IF hands.rJogSpeed = 90
  THEN [rAutoSpeed |-> 200, rManualMaxSpeed |-> 60, rMaintenanceSpeedLimit |-> 20]
  ELSE Quiet.stRecipe

MCStationInputs ==
  {[h EXCEPT !.xStart = "start" \in c, !.xStop = "stop" \in c,
             !.xReset = "reset" \in c, !.xHold = "hold" \in c,
             !.xUnhold = "unhold" \in c, !.xClear = "clear" \in c,
             !.eRequestedMode = m, !.stManual = u, !.stRecipe = Recipe(u)] :
     h \in Health, c \in CommandSets, m \in Modes, u \in Hands}
==============================================================================
