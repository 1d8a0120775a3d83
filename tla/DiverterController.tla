-------------------------- MODULE DiverterController --------------------------
(* plc/FB_DiverterController.st: the sequence of one pneumatic diverter,     *)
(* home -> extending -> work -> verify -> retracting -> home, with its       *)
(* travel, verification and manual-hold watchdogs.  One step is one call by  *)
(* the 50 ms task; every time is counted in scans.                           *)
EXTENDS Integers, MHMCTypes

CONSTANTS
  ExtendScans, RetractScans, DwellScans,       \* ST_DiverterControllerConfig
  VerificationScans, ManualHoldScans,
  RequireHomeBeforeFire, RequireVerification,
  Horizon,             \* the state timer saturates here, beyond every timeout
  DiverterInputs       \* the inputs a scan may be called with

DiverterInput ==       \* ST_DiverterControllerInput
  [xAutoEnable : BOOLEAN, xExtendRequest : BOOLEAN, xManualExtend : BOOLEAN,
   eMode : Modes, xManualEnable : BOOLEAN, xMaintenanceEnable : BOOLEAN,
   xInterlockOK : BOOLEAN, xInhibit : BOOLEAN, xForceRetract : BOOLEAN,
   xHomeSensor : BOOLEAN, xWorkSensor : BOOLEAN,
   xVerificationSensor : BOOLEAN, xResetFault : BOOLEAN]

ASSUME DiverterAssumption ==
  /\ {ExtendScans, RetractScans, DwellScans, VerificationScans} \subseteq Nat \ {0}
  /\ ManualHoldScans \in Nat
  /\ RequireHomeBeforeFire \in BOOLEAN /\ RequireVerification \in BOOLEAN
  /\ Horizon \in Nat
  /\ \A t \in {ExtendScans, RetractScans, DwellScans, VerificationScans,
               ManualHoldScans} : t <= Horizon
  /\ DiverterInputs \subseteq DiverterInput

VARIABLES
  eState,
  xRequestLast,
  rStateElapsed,
  uiFaultCode,         \* xFaulted is uiFaultCode # "NONE"
  xVerified,
  diverterOut          \* the outputs that the next scan does not read

diverterVars == <<eState, xRequestLast, rStateElapsed, uiFaultCode, xVerified,
                  diverterOut>>

DiverterStates == {"HOME", "EXTENDING", "WORK", "VERIFY", "RETRACTING", "FAULT"}

FaultCodes == {"NONE", "EXTEND", "RETRACT", "VERIFY", "NOT_HOME", "MANUAL_HOLD"}

DiverterOutput ==      \* ST_DiverterControllerOutput
  [xCommandExtend : BOOLEAN, xBusy : BOOLEAN, xDone : BOOLEAN, xHome : BOOLEAN,
   xWork : BOOLEAN, xManualActive : BOOLEAN, xInterlocked : BOOLEAN]

TypeOK ==
  /\ eState \in DiverterStates
  /\ xRequestLast \in BOOLEAN
  /\ rStateElapsed \in 0..Horizon
  /\ uiFaultCode \in FaultCodes
  /\ xVerified \in BOOLEAN
  /\ diverterOut \in DiverterOutput

\* F_DiverterController_Init: valve de-energised, sequence memory cleared.
DiverterInit ==
  /\ eState = "HOME"
  /\ xRequestLast = FALSE
  /\ rStateElapsed = 0
  /\ uiFaultCode = "NONE"
  /\ xVerified = FALSE
  /\ diverterOut = [f \in {"xCommandExtend", "xBusy", "xDone", "xHome", "xWork",
                           "xManualActive", "xInterlocked"} |-> FALSE]

------------------------------------------------------------------------------
(* Requests and the two overrides that precede the sequence.                 *)

Elapsed == IF rStateElapsed < Horizon THEN rStateElapsed + 1 ELSE rStateElapsed

Interlocked(in) == in.xInterlockOK /\ ~in.xInhibit

ManualFireRequest(in) ==
  /\ in.xManualExtend
  /\ \/ in.eMode = "MANUAL" /\ in.xManualEnable
     \/ in.eMode = "MAINTENANCE" /\ in.xMaintenanceEnable

FireRequest(in) ==
  /\ Interlocked(in)
  /\ \/ in.xAutoEnable /\ in.xExtendRequest
     \/ ManualFireRequest(in)

VerificationNeeded(in) == RequireVerification /\ in.eMode = "AUTO"

\* The valve is withdrawn by a forced retraction or a lost interlock ...
Withdrawn(in) == in.xForceRetract \/ ~Interlocked(in)

Interrupted(in) == Withdrawn(in) /\ eState \notin {"HOME", "FAULT"}

\* ... and a reset then declares the diverter home, whatever it was doing.
StateBefore(in) ==
  IF in.xResetFault THEN "HOME"
  ELSE IF Interrupted(in) THEN "RETRACTING" ELSE eState

ElapsedBefore(in) ==
  IF in.xResetFault \/ Interrupted(in) THEN 0 ELSE Elapsed

FaultBefore(in) == IF in.xResetFault THEN "NONE" ELSE uiFaultCode
VerifiedBefore(in) == xVerified /\ ~in.xResetFault

\* The branch of the IF chain that this scan executes.
Branch(in) ==
  IF FaultBefore(in) # "NONE" THEN "LATCHED"
  ELSE IF FireRequest(in) /\ ~xRequestLast /\ StateBefore(in) = "HOME" THEN "FIRE"
  ELSE StateBefore(in)

------------------------------------------------------------------------------
(* The sequence: one action per branch.                                      *)

Become(s, elapsed, code, verified) ==
  /\ eState' = s
  /\ rStateElapsed' = elapsed
  /\ uiFaultCode' = code
  /\ xVerified' = verified

Advance(in, s) == Become(s, 0, "NONE", VerifiedBefore(in))
Wait(in) == Become(StateBefore(in), ElapsedBefore(in), "NONE", VerifiedBefore(in))
\* The code is set in this scan, the state follows in the next one.
Trip(in, code) ==
  Become(StateBefore(in), ElapsedBefore(in), code, VerifiedBefore(in))

Latched(in) ==
  /\ Branch(in) = "LATCHED"
  /\ Become("FAULT", ElapsedBefore(in), FaultBefore(in), VerifiedBefore(in))

\* Faulty variants (the "...Bug" operators are used by no specification; each
\* stands for a slip in the operator that follows it).
FireBug(in) ==               \* does not look at the home switch
  /\ Branch(in) = "FIRE"
  /\ Become("EXTENDING", 0, "NONE", FALSE)

Fire(in) ==
  /\ Branch(in) = "FIRE"
  /\ IF RequireHomeBeforeFire /\ ~in.xHomeSensor THEN Trip(in, "NOT_HOME")
     ELSE Become("EXTENDING", 0, "NONE", FALSE)

ExtendingBug(in) ==          \* no extend watchdog
  /\ Branch(in) = "EXTENDING"
  /\ IF in.xWorkSensor THEN Advance(in, "WORK") ELSE Wait(in)

Extending(in) ==
  /\ Branch(in) = "EXTENDING"
  /\ IF in.xWorkSensor THEN Advance(in, "WORK")
     ELSE IF ElapsedBefore(in) >= ExtendScans THEN Trip(in, "EXTEND")
     ELSE Wait(in)

\* An operator's hand holds the work position up to the manual limit.
Work(in) ==
  /\ Branch(in) = "WORK"
  /\ IF ManualFireRequest(in) /\ ElapsedBefore(in) < ManualHoldScans THEN Wait(in)
     ELSE IF ManualFireRequest(in) /\ ManualHoldScans > 0
     THEN Trip(in, "MANUAL_HOLD")
     ELSE IF ElapsedBefore(in) >= DwellScans THEN Advance(in, "VERIFY")
     ELSE Wait(in)

Verify(in) ==
  /\ Branch(in) = "VERIFY"
  /\ IF ~VerificationNeeded(in) \/ in.xVerificationSensor
     THEN Become("RETRACTING", 0, "NONE", TRUE)
     ELSE IF ElapsedBefore(in) >= VerificationScans THEN Trip(in, "VERIFY")
     ELSE Wait(in)

RetractingBug(in) ==         \* no retract watchdog
  /\ Branch(in) = "RETRACTING"
  /\ IF in.xHomeSensor THEN Advance(in, "HOME") ELSE Wait(in)

Retracting(in) ==
  /\ Branch(in) = "RETRACTING"
  /\ IF in.xHomeSensor THEN Advance(in, "HOME")
     ELSE IF ElapsedBefore(in) >= RetractScans THEN Trip(in, "RETRACT")
     ELSE Wait(in)

Rest(in) ==
  /\ Branch(in) \in {"HOME", "FAULT"}
  /\ Become("HOME", ElapsedBefore(in), "NONE", VerifiedBefore(in))

Sequence(in) ==
  \/ Latched(in)
  \/ Fire(in)
  \/ Extending(in)
  \/ Work(in)
  \/ Verify(in)
  \/ Retracting(in)
  \/ Rest(in)

CommandExtend(in) ==
  /\ eState' \in {"EXTENDING", "WORK", "VERIFY"}
  /\ ~Withdrawn(in)
  /\ uiFaultCode' = "NONE"

Busy == /\ eState' \in {"EXTENDING", "WORK", "VERIFY", "RETRACTING"}
        /\ uiFaultCode' = "NONE"

ManualActive(in) ==
  /\ ManualFireRequest(in)
  /\ \/ Branch(in) = "EXTENDING"
     \/ Branch(in) = "WORK" /\ ElapsedBefore(in) < ManualHoldScans

Outputs(in) ==
  diverterOut' =
    [xCommandExtend |-> CommandExtend(in),
     xBusy |-> Busy,
     xDone |-> Branch(in) = "RETRACTING" /\ in.xHomeSensor,
     xHome |-> in.xHomeSensor,
     xWork |-> in.xWorkSensor,
     xManualActive |-> ManualActive(in),
     xInterlocked |-> Interlocked(in)]

\* F_DiverterController_Cyclic, called once per scan.
DiverterScan(in) ==
  /\ Sequence(in)
  /\ Outputs(in)
  /\ xRequestLast' = FireRequest(in)

Next == \E in \in DiverterInputs : DiverterScan(in)

Spec == DiverterInit /\ [][Next]_diverterVars

------------------------------------------------------------------------------
(* Properties.                                                               *)

\* Every state in which the valve is energised is left before its watchdog time
\* is used up, and the valve is never energised in any other state.
EnergisedWithinTimeouts ==
  diverterOut.xCommandExtend =>
    \/ eState = "EXTENDING" /\ rStateElapsed < ExtendScans
    \/ eState = "WORK" /\ \/ rStateElapsed < DwellScans
                          \/ rStateElapsed < ManualHoldScans
    \/ eState = "VERIFY" /\ rStateElapsed < VerificationScans

\* A stroke begins at the home switch, and a valve that was switched off by an
\* interruption, a fault or a reset is not switched on again half way through
\* the sequence.
StrokesBeginAtHome ==
  [][/\ RequireHomeBeforeFire /\ eState # "EXTENDING" /\ eState' = "EXTENDING"
        => diverterOut'.xHome
     /\ ~diverterOut.xCommandExtend /\ diverterOut'.xCommandExtend
        => "EXTENDING" \in {eState, eState'}]_diverterVars
==============================================================================
