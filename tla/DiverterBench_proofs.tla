-------------------------- MODULE DiverterBench_proofs --------------------------
(* Proofs about the diverter controller, alone and with its cylinder, for   *)
(* every timing configuration, every stroke, every set of inputs (sensor     *)
(* failures included) and any sticking.                                      *)
EXTENDS DiverterBench, TLAPS

------------------------------------------------------------------------------
(* The controller alone.                                                     *)

LEMMA InputType == \A in \in DiverterInputs : in \in DiverterInput
  BY DiverterAssumption

\* The saturating timer stays in its range and below a timeout it is compared
\* with only if it really has not reached it.
LEMMA ElapsedRange ==
  ASSUME TypeOK
  PROVE  Elapsed \in 0..Horizon
  BY DiverterAssumption DEF TypeOK, Elapsed

\* What the overrides hand to the sequence.
LEMMA BeforeType ==
  ASSUME TypeOK, NEW in \in DiverterInput
  PROVE  /\ StateBefore(in) \in DiverterStates
         /\ ElapsedBefore(in) \in 0..Horizon
         /\ FaultBefore(in) \in FaultCodes
         /\ VerifiedBefore(in) \in BOOLEAN
<1>1. ElapsedBefore(in) \in 0..Horizon
  BY ElapsedRange, DiverterAssumption DEF ElapsedBefore
<1> QED
  BY <1>1
     DEF TypeOK, DiverterInput, StateBefore, FaultBefore, VerifiedBefore,
         DiverterStates, FaultCodes

------------------------------------------------------------------------------
(* The type invariant.                                                       *)

LEMMA SequenceType ==
  ASSUME TypeOK, NEW in \in DiverterInput, Sequence(in)
  PROVE  /\ eState' \in DiverterStates
         /\ rStateElapsed' \in 0..Horizon
         /\ uiFaultCode' \in FaultCodes
         /\ xVerified' \in BOOLEAN
<1>1. /\ StateBefore(in) \in DiverterStates
      /\ ElapsedBefore(in) \in 0..Horizon
      /\ FaultBefore(in) \in FaultCodes
      /\ VerifiedBefore(in) \in BOOLEAN
  BY BeforeType
<1>2. 0 \in 0..Horizon
  BY DiverterAssumption
<1> USE <1>1, <1>2 DEF Become, Advance, Wait, Trip, DiverterStates, FaultCodes
<1>3. CASE Latched(in)    BY <1>3 DEF Latched
<1>4. CASE Fire(in)       BY <1>4 DEF Fire
<1>5. CASE Extending(in)  BY <1>5 DEF Extending
<1>6. CASE Work(in)       BY <1>6 DEF Work
<1>7. CASE Verify(in)     BY <1>7 DEF Verify
<1>8. CASE Retracting(in) BY <1>8 DEF Retracting
<1>9. CASE Rest(in)       BY <1>9 DEF Rest
<1> QED
  BY <1>3, <1>4, <1>5, <1>6, <1>7, <1>8, <1>9 DEF Sequence

LEMMA OutputType ==
  ASSUME NEW in \in DiverterInput, Outputs(in)
  PROVE  diverterOut' \in DiverterOutput
<1>1. /\ CommandExtend(in) \in BOOLEAN
      /\ Busy \in BOOLEAN
      /\ (Branch(in) = "RETRACTING" /\ in.xHomeSensor) \in BOOLEAN
      /\ ManualActive(in) \in BOOLEAN
      /\ Interlocked(in) \in BOOLEAN
  BY DEF CommandExtend, Busy, ManualActive, Interlocked
<1>2. in.xHomeSensor \in BOOLEAN /\ in.xWorkSensor \in BOOLEAN
  BY DEF DiverterInput
<1> QED
  BY <1>1, <1>2 DEF Outputs, DiverterOutput

LEMMA TypeStep == TypeOK /\ [Next]_diverterVars => TypeOK'
<1> SUFFICES ASSUME TypeOK, [Next]_diverterVars PROVE TypeOK'
  OBVIOUS
<1>1. CASE UNCHANGED diverterVars
  BY <1>1 DEF TypeOK, diverterVars
<1>2. ASSUME NEW in \in DiverterInputs, DiverterScan(in) PROVE TypeOK'
  <2>1. in \in DiverterInput
    BY InputType
  <2>2. Sequence(in) /\ Outputs(in)
    BY <1>2 DEF DiverterScan
  <2>3. /\ eState' \in DiverterStates
        /\ rStateElapsed' \in 0..Horizon
        /\ uiFaultCode' \in FaultCodes
        /\ xVerified' \in BOOLEAN
    BY <2>1, <2>2, SequenceType
  <2>4. diverterOut' \in DiverterOutput
    BY <2>1, <2>2, OutputType
  <2>5. xRequestLast' \in BOOLEAN
    BY <1>2 DEF DiverterScan, FireRequest
  <2> QED
    BY <2>3, <2>4, <2>5 DEF TypeOK
<1> QED
  BY <1>1, <1>2 DEF Next

LEMMA TypeInit == DiverterInit => TypeOK
<1> SUFFICES ASSUME DiverterInit PROVE TypeOK
  OBVIOUS
<1>1. diverterOut \in DiverterOutput
  BY DEF DiverterInit, DiverterOutput
<1>2. rStateElapsed \in 0..Horizon
  BY DiverterAssumption DEF DiverterInit
<1> QED
  BY <1>1, <1>2 DEF DiverterInit, TypeOK, DiverterStates, FaultCodes

\* Every variable of the diverter keeps its type.
THEOREM TypeCorrect == Spec => []TypeOK
<1> QED
  BY TypeInit, TypeStep, PTL DEF Spec

------------------------------------------------------------------------------
(* The watchdogs.                                                            *)

\* One scan: whatever state the sequence is in, a scan that leaves the valve
\* energised leaves time on the watchdog of that state.
LEMMA WatchdogStep ==
  ASSUME TypeOK, NEW in \in DiverterInput, Sequence(in), CommandExtend(in)
  PROVE  \/ eState' = "EXTENDING" /\ rStateElapsed' < ExtendScans
         \/ eState' = "WORK" /\ \/ rStateElapsed' < DwellScans
                                \/ rStateElapsed' < ManualHoldScans
         \/ eState' = "VERIFY" /\ rStateElapsed' < VerificationScans
<1>1. ElapsedBefore(in) \in Nat
  BY BeforeType, DiverterAssumption
<1>2. /\ ExtendScans \in Nat \ {0} /\ DwellScans \in Nat \ {0}
      /\ VerificationScans \in Nat \ {0} /\ ManualHoldScans \in Nat
  BY DiverterAssumption
<1>3. /\ eState' \in {"EXTENDING", "WORK", "VERIFY"}
      /\ uiFaultCode' = "NONE"
  BY DEF CommandExtend
\* Without the two early branches, the branch is the state.
<1>4. Branch(in) \notin {"LATCHED", "FIRE"} => Branch(in) = StateBefore(in)
  BY DEF Branch
<1> USE <1>1, <1>2, <1>3, <1>4 DEF Become, Advance, Wait, Trip
<1>5. CASE Latched(in)    BY <1>5 DEF Latched
<1>6. CASE Fire(in)       BY <1>6 DEF Fire
<1>7. CASE Extending(in)  BY <1>7 DEF Extending
<1>8. CASE Work(in)       BY <1>8 DEF Work
<1>9. CASE Verify(in)     BY <1>9 DEF Verify
<1>10. CASE Retracting(in) BY <1>10 DEF Retracting
<1>11. CASE Rest(in)      BY <1>11 DEF Rest
<1> QED
  BY <1>5, <1>6, <1>7, <1>8, <1>9, <1>10, <1>11 DEF Sequence

\* The valve is energised only while the watchdog of its state is running.
THEOREM EnergisedCorrect == Spec => []EnergisedWithinTimeouts
<1>1. DiverterInit => EnergisedWithinTimeouts
  BY DEF DiverterInit, EnergisedWithinTimeouts
<1>2. TypeOK /\ EnergisedWithinTimeouts /\ [Next]_diverterVars
      => EnergisedWithinTimeouts'
  <2> SUFFICES ASSUME TypeOK, EnergisedWithinTimeouts, [Next]_diverterVars
               PROVE  EnergisedWithinTimeouts'
    OBVIOUS
  <2>1. CASE UNCHANGED diverterVars
    BY <2>1 DEF EnergisedWithinTimeouts, diverterVars
  <2>2. ASSUME NEW in \in DiverterInputs, DiverterScan(in)
        PROVE  EnergisedWithinTimeouts'
    <3>1. in \in DiverterInput /\ Sequence(in) /\ Outputs(in)
      BY <2>2, InputType DEF DiverterScan
    <3>2. diverterOut'.xCommandExtend = CommandExtend(in)
      BY <3>1 DEF Outputs
    <3> QED
      BY <3>1, <3>2, WatchdogStep DEF EnergisedWithinTimeouts
  <2> QED
    BY <2>1, <2>2 DEF Next
<1> QED
  BY <1>1, <1>2, TypeInit, TypeStep, PTL DEF Spec

------------------------------------------------------------------------------
(* Strokes begin at home.                                                    *)

\* The strengthening: a sequence beyond EXTENDING that carries no fault has its
\* valve energised, so "switched on again half way" would need a step back.
ActiveIsEnergised ==
  eState \in {"WORK", "VERIFY"} /\ uiFaultCode = "NONE" =>
    diverterOut.xCommandExtend

LEMMA ActiveStep ==
  ASSUME TypeOK, NEW in \in DiverterInput, Sequence(in), Outputs(in)
  PROVE  ActiveIsEnergised'
<1>1. diverterOut'.xCommandExtend = CommandExtend(in)
  BY DEF Outputs
<1>2. ASSUME eState' \in {"WORK", "VERIFY"}, uiFaultCode' = "NONE"
      PROVE  ~Withdrawn(in)
  <2>1. Branch(in) \in {"EXTENDING", "WORK", "VERIFY"}
    <3> USE <1>2 DEF Become, Advance, Wait, Trip
    <3>1. CASE Latched(in)    BY <3>1 DEF Latched, Branch
    <3>2. CASE Fire(in)       BY <3>2 DEF Fire, Branch
    <3>3. CASE Extending(in)  BY <3>3 DEF Extending
    <3>4. CASE Work(in)       BY <3>4 DEF Work
    <3>5. CASE Verify(in)     BY <3>5 DEF Verify
    <3>6. CASE Retracting(in) BY <3>6 DEF Retracting, Branch
    <3>7. CASE Rest(in)       BY <3>7 DEF Rest
    <3> QED
      BY <3>1, <3>2, <3>3, <3>4, <3>5, <3>6, <3>7 DEF Sequence
  <2>2. StateBefore(in) \in {"EXTENDING", "WORK", "VERIFY"}
    BY <2>1 DEF Branch
  <2> QED
    BY <2>2 DEF StateBefore, Interrupted
<1> QED
  BY <1>1, <1>2 DEF ActiveIsEnergised, CommandExtend

LEMMA StrokeStep ==
  ASSUME TypeOK, ActiveIsEnergised, NEW in \in DiverterInput, Sequence(in),
         Outputs(in)
  PROVE  /\ RequireHomeBeforeFire /\ eState # "EXTENDING" /\ eState' = "EXTENDING"
              => diverterOut'.xHome
         /\ ~diverterOut.xCommandExtend /\ diverterOut'.xCommandExtend
              => "EXTENDING" \in {eState, eState'}
<1>1. /\ diverterOut'.xCommandExtend = CommandExtend(in)
      /\ diverterOut'.xHome = in.xHomeSensor
  BY DEF Outputs
\* Only the firing branch enters EXTENDING.
<1>2. ASSUME RequireHomeBeforeFire, eState # "EXTENDING", eState' = "EXTENDING"
      PROVE  in.xHomeSensor
  <2>1. StateBefore(in) # "EXTENDING" /\ Branch(in) # "EXTENDING"
    BY <1>2 DEF StateBefore, Branch
  <2> USE <1>2, <2>1 DEF Become, Advance, Wait, Trip
  <2>2. CASE Latched(in)    BY <2>2 DEF Latched
  <2>3. CASE Fire(in)       BY <2>3 DEF Fire
  <2>4. CASE Extending(in)  BY <2>4 DEF Extending
  <2>5. CASE Work(in)       BY <2>5 DEF Work
  <2>6. CASE Verify(in)     BY <2>6 DEF Verify
  <2>7. CASE Retracting(in) BY <2>7 DEF Retracting
  <2>8. CASE Rest(in)       BY <2>8 DEF Rest
  <2> QED
    BY <2>2, <2>3, <2>4, <2>5, <2>6, <2>7, <2>8 DEF Sequence
\* A valve that is off and comes on in WORK or VERIFY came from EXTENDING: from
\* WORK or VERIFY it would have been on, and no other state leads there.
<1>3. ASSUME ~diverterOut.xCommandExtend, CommandExtend(in),
             eState' \in {"WORK", "VERIFY"}
      PROVE  eState = "EXTENDING"
  <2>1. uiFaultCode' = "NONE"
    BY <1>3 DEF CommandExtend
  <2>2. Branch(in) \in {"EXTENDING", "WORK", "VERIFY"}
    <3> USE <1>3, <2>1 DEF Become, Advance, Wait, Trip
    <3>1. CASE Latched(in)    BY <3>1 DEF Latched, Branch
    <3>2. CASE Fire(in)       BY <3>2 DEF Fire, Branch
    <3>3. CASE Extending(in)  BY <3>3 DEF Extending
    <3>4. CASE Work(in)       BY <3>4 DEF Work
    <3>5. CASE Verify(in)     BY <3>5 DEF Verify
    <3>6. CASE Retracting(in) BY <3>6 DEF Retracting, Branch
    <3>7. CASE Rest(in)       BY <3>7 DEF Rest
    <3> QED
      BY <3>1, <3>2, <3>3, <3>4, <3>5, <3>6, <3>7 DEF Sequence
  <2>3. /\ eState = StateBefore(in)
        /\ eState \in {"EXTENDING", "WORK", "VERIFY"}
        /\ uiFaultCode = "NONE"
    BY <2>2 DEF Branch, StateBefore, FaultBefore
  <2> QED
    BY <1>3, <2>3 DEF ActiveIsEnergised
<1> QED
  BY <1>1, <1>2, <1>3 DEF CommandExtend

\* A stroke begins at home and is never resumed half way.
THEOREM StrokeCorrect == Spec => StrokesBeginAtHome
<1>1. DiverterInit => ActiveIsEnergised
  BY DEF DiverterInit, ActiveIsEnergised
<1>2. TypeOK /\ ActiveIsEnergised /\ [Next]_diverterVars => ActiveIsEnergised'
  <2> SUFFICES ASSUME TypeOK, ActiveIsEnergised, [Next]_diverterVars
               PROVE  ActiveIsEnergised'
    OBVIOUS
  <2>1. CASE UNCHANGED diverterVars
    BY <2>1 DEF ActiveIsEnergised, diverterVars
  <2>2. ASSUME NEW in \in DiverterInputs, DiverterScan(in)
        PROVE  ActiveIsEnergised'
    BY <2>2, InputType, ActiveStep DEF DiverterScan
  <2> QED
    BY <2>1, <2>2 DEF Next
<1>3. TypeOK /\ ActiveIsEnergised /\ [Next]_diverterVars =>
        [/\ RequireHomeBeforeFire /\ eState # "EXTENDING" /\ eState' = "EXTENDING"
              => diverterOut'.xHome
         /\ ~diverterOut.xCommandExtend /\ diverterOut'.xCommandExtend
              => "EXTENDING" \in {eState, eState'}]_diverterVars
  <2> SUFFICES ASSUME TypeOK, ActiveIsEnergised, NEW in \in DiverterInputs,
                      DiverterScan(in)
               PROVE  /\ RequireHomeBeforeFire /\ eState # "EXTENDING"
                           /\ eState' = "EXTENDING" => diverterOut'.xHome
                      /\ ~diverterOut.xCommandExtend /\ diverterOut'.xCommandExtend
                           => "EXTENDING" \in {eState, eState'}
    BY DEF Next
  <2> QED
    BY InputType, StrokeStep DEF DiverterScan
<1> QED
  BY <1>1, <1>2, <1>3, TypeInit, TypeStep, PTL DEF Spec, StrokesBeginAtHome

------------------------------------------------------------------------------
(* The controller with its cylinder.                                         *)

HoldScans == IF DwellScans > ManualHoldScans THEN DwellScans ELSE ManualHoldScans

LEMMA Times ==
  /\ {ExtendScans, RetractScans, DwellScans, VerificationScans} \subseteq Nat \ {0}
  /\ ManualHoldScans \in Nat /\ HoldScans \in Nat /\ Horizon \in Nat
  /\ ExtendScans <= Horizon /\ RetractScans <= Horizon
  /\ VerificationScans <= Horizon /\ HoldScans <= Horizon
  /\ DwellScans <= HoldScans /\ ManualHoldScans <= HoldScans
  /\ OnLimit \in Nat /\ AwayLimit \in Nat
<1>1. /\ {ExtendScans, RetractScans, DwellScans, VerificationScans} \subseteq Nat \ {0}
      /\ ManualHoldScans \in Nat /\ Horizon \in Nat
      /\ ExtendScans <= Horizon /\ RetractScans <= Horizon
      /\ VerificationScans <= Horizon /\ DwellScans <= Horizon
      /\ ManualHoldScans <= Horizon
  BY DiverterAssumption
<1> QED
  BY <1>1 DEF HoldScans, OnLimit, AwayLimit

LEMMA SensedType ==
  ASSUME NEW in \in DiverterInputs
  PROVE  Sensed(in) \in DiverterInput
  BY InputType DEF Sensed, DiverterInput

LEMMA CountsUp ==
  ASSUME NEW n \in Nat, NEW limit \in Nat
  PROVE  Count(n, limit) \in Nat /\ Count(n, limit) <= n + 1
  BY DEF Count

\* A timer that has not reached a timeout is not saturated.
LEMMA ElapsedAdvances ==
  ASSUME TypeOK, NEW timeout \in Nat, timeout <= Horizon, rStateElapsed < timeout
  PROVE  Elapsed = rStateElapsed + 1
  BY Times DEF TypeOK, Elapsed

------------------------------------------------------------------------------
(* What a scan does to the state and its timer.                              *)

\* An energised valve: the stroke has just begun at the home switch, the state
\* goes on, or it gives way to the next one of the sequence.
LEMMA EnergisedMoves ==
  ASSUME TypeOK, NEW in \in DiverterInput, Sequence(in), CommandExtend(in)
  PROVE  \/ /\ eState' = "EXTENDING" /\ rStateElapsed' = 0
            /\ RequireHomeBeforeFire => in.xHomeSensor
         \/ eState' = eState /\ rStateElapsed' = Elapsed
         \/ /\ eState = "EXTENDING" /\ eState' = "WORK" /\ rStateElapsed' = 0
         \/ /\ eState = "WORK" /\ eState' = "VERIFY" /\ rStateElapsed' = 0
<1>1. eState' \in {"EXTENDING", "WORK", "VERIFY"} /\ uiFaultCode' = "NONE"
  BY DEF CommandExtend
<1>2. Branch(in) \notin {"LATCHED", "FIRE"} => Branch(in) = StateBefore(in)
  BY DEF Branch
<1>3. StateBefore(in) \in {"EXTENDING", "WORK", "VERIFY"} =>
        StateBefore(in) = eState /\ ElapsedBefore(in) = Elapsed
  BY DEF StateBefore, ElapsedBefore
<1> USE <1>1, <1>2, <1>3 DEF Become, Advance, Wait, Trip
<1>4. CASE Latched(in)
  BY <1>4 DEF Latched
<1>5. CASE Fire(in)
  BY <1>5 DEF Fire
<1>6. CASE Extending(in)
  BY <1>6 DEF Extending
<1>7. CASE Work(in)
  BY <1>7 DEF Work
<1>8. CASE Verify(in)
  BY <1>8 DEF Verify
<1>9. CASE Retracting(in)
  BY <1>9 DEF Retracting
<1>10. CASE Rest(in)
  BY <1>10 DEF Rest
<1> QED
  BY <1>4, <1>5, <1>6, <1>7, <1>8, <1>9, <1>10 DEF Sequence

\* A retraction without a fault: it is an interruption, it has just begun, or
\* it goes on with time left on its watchdog.
LEMMA RetractMoves ==
  ASSUME TypeOK, NEW in \in DiverterInput, Sequence(in),
         eState' = "RETRACTING", uiFaultCode' = "NONE"
  PROVE  /\ rStateElapsed' \in Nat /\ rStateElapsed' < RetractScans
         /\ \/ Interrupted(in)
            \/ eState = "VERIFY" /\ uiFaultCode = "NONE"
            \/ /\ eState = "RETRACTING" /\ uiFaultCode = "NONE"
               /\ rStateElapsed' = Elapsed
<1>1. ElapsedBefore(in) \in Nat /\ RetractScans \in Nat \ {0}
  BY BeforeType, Times
<1>2. Branch(in) \notin {"LATCHED", "FIRE"} =>
        /\ Branch(in) = StateBefore(in) /\ FaultBefore(in) = "NONE"
  BY DEF Branch
<1>3. StateBefore(in) \in {"VERIFY", "RETRACTING"} =>
        /\ ~in.xResetFault /\ FaultBefore(in) = uiFaultCode
        /\ ~Interrupted(in) => StateBefore(in) = eState /\ ElapsedBefore(in) = Elapsed
  BY DEF StateBefore, ElapsedBefore, FaultBefore
<1>4. StateBefore(in) = "VERIFY" => ~Interrupted(in)
  BY DEF StateBefore
<1> USE <1>1, <1>2, <1>3, <1>4 DEF Become, Advance, Wait, Trip
<1>5. CASE Latched(in)
  BY <1>5 DEF Latched
<1>6. CASE Fire(in)
  BY <1>6 DEF Fire
<1>7. CASE Extending(in)
  BY <1>7 DEF Extending
<1>8. CASE Work(in)
  BY <1>8 DEF Work
<1>9. CASE Verify(in)
  BY <1>9 DEF Verify
<1>10. CASE Retracting(in)
  BY <1>10 DEF Retracting
<1>11. CASE Rest(in)
  BY <1>11 DEF Rest
<1> QED
  BY <1>5, <1>6, <1>7, <1>8, <1>9, <1>10, <1>11 DEF Sequence

------------------------------------------------------------------------------
(* The invariant of the bench.                                               *)

\* How long the solenoid has been on follows from the state and its timer; an
\* energised valve has moved the cylinder away from home.
OnTimeInvariant ==
  /\ onTime \in Nat /\ cylinder \in Nat
  /\ ~diverterOut.xCommandExtend => onTime = 0
  /\ diverterOut.xCommandExtend =>
       /\ cylinder # 0
       /\ eState = "EXTENDING" => onTime <= rStateElapsed + 1
       /\ eState = "WORK" => onTime <= ExtendScans + rStateElapsed + 1
       /\ eState = "VERIFY" => onTime <= ExtendScans + HoldScans + rStateElapsed + 1

\* Without a fault the watchdog of the retraction is running and has seen all
\* of the time away from home.
AwayInvariant ==
  /\ awayTime \in Nat
  /\ uiFaultCode = "NONE" =>
       IF eState = "RETRACTING"
       THEN awayTime <= rStateElapsed + 1 /\ rStateElapsed < RetractScans
       ELSE awayTime = 0

BenchInvariant ==
  TypeOK /\ EnergisedWithinTimeouts /\ OnTimeInvariant /\ AwayInvariant

LEMMA BenchInitInvariant == BenchInit => BenchInvariant
<1> SUFFICES ASSUME BenchInit PROVE BenchInvariant
  OBVIOUS
<1>1. TypeOK
  BY TypeInit DEF BenchInit
<1>2. diverterOut.xCommandExtend = FALSE
  BY DEF BenchInit, DiverterInit
<1> QED
  BY <1>1, <1>2
     DEF BenchInit, DiverterInit, BenchInvariant, EnergisedWithinTimeouts,
         OnTimeInvariant, AwayInvariant

\* A scan keeps the type and leaves time on the watchdog of an energised valve.
LEMMA ScanKeepsType ==
  ASSUME TypeOK, NEW in \in DiverterInput, DiverterScan(in)
  PROVE  TypeOK' /\ EnergisedWithinTimeouts'
         /\ diverterOut'.xCommandExtend = CommandExtend(in)
         /\ diverterOut'.xHome = in.xHomeSensor
<1>1. Sequence(in) /\ Outputs(in)
  BY DEF DiverterScan
<1>2. xRequestLast' \in BOOLEAN
  BY DEF DiverterScan, FireRequest
<1>3. TypeOK'
  BY <1>1, <1>2, SequenceType, OutputType DEF TypeOK
<1>4. /\ diverterOut'.xCommandExtend = CommandExtend(in)
      /\ diverterOut'.xHome = in.xHomeSensor
  BY <1>1 DEF Outputs
<1>5. EnergisedWithinTimeouts'
  BY <1>1, <1>4, WatchdogStep DEF EnergisedWithinTimeouts
<1> QED
  BY <1>3, <1>4, <1>5

LEMMA OnTimeStep ==
  ASSUME BenchInvariant, RequireHomeBeforeFire, NEW i \in DiverterInputs,
         DiverterScan(Sensed(i)), Measure(Sensed(i)), MoveCylinder
  PROVE  OnTimeInvariant'
<1> DEFINE in == Sensed(i)
<1>1. TypeOK /\ OnTimeInvariant /\ EnergisedWithinTimeouts
  BY DEF BenchInvariant
<1>2. in \in DiverterInput /\ Sequence(in)
  BY SensedType DEF DiverterScan
<1>3. diverterOut'.xCommandExtend = CommandExtend(in)
  BY <1>1, <1>2, ScanKeepsType
<1>4. cylinder' \in Nat /\ (CommandExtend(in) => cylinder' # 0)
  BY <1>1, <1>3, BenchAssumption DEF MoveCylinder, OnTimeInvariant
<1>5. CASE ~CommandExtend(in)
  BY <1>3, <1>4, <1>5 DEF OnTimeInvariant, Measure
<1>6. CASE CommandExtend(in)
  <2>1. onTime' \in Nat /\ onTime' <= onTime + 1
    BY <1>1, <1>3, <1>6, Times, CountsUp DEF OnTimeInvariant, Measure
  <2>2. rStateElapsed \in Nat
    BY <1>1, Times DEF TypeOK
  <2>3. CASE /\ eState' = "EXTENDING" /\ rStateElapsed' = 0
             /\ RequireHomeBeforeFire => in.xHomeSensor
    <3>1. cylinder = 0
      <4>1. i \in DiverterInput
        BY InputType
      <4>2. in.xHomeSensor = (cylinder = 0 /\ ~forced)
        BY <4>1 DEF Sensed, DiverterInput
      <4> QED
        BY <2>3, <4>2
    <3>2. onTime = 0
      BY <1>1, <3>1 DEF OnTimeInvariant
    <3> QED
      BY <1>3, <1>4, <1>6, <2>1, <2>3, <3>2 DEF OnTimeInvariant
  <2>4. CASE eState' = eState /\ rStateElapsed' = Elapsed
    <3>1. CASE ~diverterOut.xCommandExtend
      <4>1. onTime' <= 1 /\ Elapsed \in Nat
        BY <1>1, <2>1, <3>1, ElapsedRange, Times DEF OnTimeInvariant
      <4> QED
        BY <1>3, <1>4, <1>6, <2>1, <2>4, <4>1, Times DEF OnTimeInvariant
    <3>2. CASE diverterOut.xCommandExtend
      <4>1. \E timeout \in Nat : timeout <= Horizon /\ rStateElapsed < timeout
        BY <1>1, <3>2, Times, DiverterAssumption DEF EnergisedWithinTimeouts
      <4>2. Elapsed = rStateElapsed + 1
        BY <1>1, <4>1, ElapsedAdvances
      <4> QED
        BY <1>1, <1>3, <1>4, <1>6, <2>1, <2>2, <2>4, <3>2, <4>2, Times
           DEF OnTimeInvariant
    <3> QED
      BY <3>1, <3>2
  <2>5. CASE eState = "EXTENDING" /\ eState' = "WORK" /\ rStateElapsed' = 0
    <3>1. onTime <= ExtendScans
      BY <1>1, <2>2, <2>5, Times DEF OnTimeInvariant, EnergisedWithinTimeouts
    <3> QED
      BY <1>1, <1>3, <1>4, <1>6, <2>1, <2>5, <3>1, Times DEF OnTimeInvariant
  <2>6. CASE eState = "WORK" /\ eState' = "VERIFY" /\ rStateElapsed' = 0
    <3>1. diverterOut.xCommandExtend => rStateElapsed < HoldScans
      BY <1>1, <2>2, <2>6, Times DEF EnergisedWithinTimeouts
    <3>2. onTime <= ExtendScans + HoldScans
      BY <1>1, <2>2, <2>6, <3>1, Times DEF OnTimeInvariant
    <3> QED
      BY <1>1, <1>3, <1>4, <1>6, <2>1, <2>6, <3>2, Times DEF OnTimeInvariant
  <2> QED
    BY <1>1, <1>2, <1>6, <2>3, <2>4, <2>5, <2>6, EnergisedMoves
<1> QED
  BY <1>5, <1>6

\* The watch is behind the timer of the code by at most the scan that started it.
LEMMA Behind ==
  ASSUME NEW a, NEW r, NEW limit,
         a \in Nat, r \in Nat, a <= 1, r < limit
  PROVE  a <= r + 1 /\ r < limit
OBVIOUS

LEMMA AwayStep ==
  ASSUME TypeOK, AwayInvariant, NEW in \in DiverterInput,
         DiverterScan(in), Measure(in)
  PROVE  AwayInvariant'
<1>1. Sequence(in)
  BY DEF DiverterScan
<1>2. /\ awayTime' \in Nat /\ awayTime' <= awayTime + 1
      /\ Interrupted(in) => awayTime' = 0
  <2>1. awayTime \in Nat /\ AwayLimit \in Nat
    BY Times DEF AwayInvariant
  <2>2. Count(awayTime, AwayLimit) \in Nat /\ Count(awayTime, AwayLimit) <= awayTime + 1
    BY <2>1, CountsUp
  <2>3. awayTime' = Count(awayTime, AwayLimit) \/ awayTime' = 0
    BY DEF Measure
  <2>4. Interrupted(in) => awayTime' = 0
    BY DEF Measure
  <2> QED
    BY <2>1, <2>2, <2>3, <2>4
<1>3. eState' # "RETRACTING" => awayTime' = 0
  BY DEF Measure
<1>4. ASSUME eState' = "RETRACTING", uiFaultCode' = "NONE"
      PROVE  awayTime' <= rStateElapsed' + 1 /\ rStateElapsed' < RetractScans
  <2>1. rStateElapsed' \in Nat /\ rStateElapsed' < RetractScans
    BY <1>1, <1>4, RetractMoves
  <2>2. CASE Interrupted(in)
    <3>1. awayTime' = 0
      BY <1>2, <2>2
    <3>2. awayTime' \in Nat /\ awayTime' <= 1
      BY <3>1
    <3> QED
      BY <2>1, <3>2, Behind
  <2>3. CASE eState = "VERIFY" /\ uiFaultCode = "NONE"
    <3>1. awayTime = 0
      BY <2>3 DEF AwayInvariant
    <3>2. awayTime' <= 1 /\ awayTime' \in Nat
      BY <1>2, <3>1
    <3> QED
      BY <2>1, <3>2, Behind
  <2>4. CASE eState = "RETRACTING" /\ uiFaultCode = "NONE" /\ rStateElapsed' = Elapsed
    <3>1. awayTime <= rStateElapsed + 1 /\ rStateElapsed < RetractScans
          /\ awayTime \in Nat /\ rStateElapsed \in Nat
      BY <2>4, Times DEF AwayInvariant, TypeOK
    <3>2. Elapsed = rStateElapsed + 1
      BY <3>1, Times, ElapsedAdvances
    <3> QED
      BY <1>2, <2>1, <2>4, <3>1, <3>2
  <2> QED
    BY <1>1, <1>4, <2>2, <2>3, <2>4, RetractMoves
<1> QED
  BY <1>2, <1>3, <1>4 DEF AwayInvariant

LEMMA BenchStep ==
  ASSUME RequireHomeBeforeFire, BenchInvariant, [BenchNext]_benchVars
  PROVE  BenchInvariant'
<1>1. CASE UNCHANGED benchVars
  BY <1>1
     DEF benchVars, diverterVars, BenchInvariant, TypeOK, EnergisedWithinTimeouts,
         OnTimeInvariant, AwayInvariant
<1>2. ASSUME NEW i \in DiverterInputs, DiverterScan(Sensed(i)), Measure(Sensed(i)),
             MoveCylinder
      PROVE  BenchInvariant'
  <2>1. Sensed(i) \in DiverterInput /\ TypeOK /\ AwayInvariant
    BY <1>2, SensedType DEF BenchInvariant
  <2>2. TypeOK' /\ EnergisedWithinTimeouts'
    BY <1>2, <2>1, ScanKeepsType
  <2>3. OnTimeInvariant'
    BY <1>2, OnTimeStep
  <2>4. AwayInvariant'
    BY <1>2, <2>1, AwayStep
  <2> QED
    BY <2>2, <2>3, <2>4 DEF BenchInvariant
<1> QED
  BY <1>1, <1>2 DEF BenchNext

------------------------------------------------------------------------------
(* The theorems.                                                             *)

\* However requests, overrides, resets and sticking are timed, the solenoid is
\* never energised longer than one complete sequence may last, provided that
\* strokes begin at home.
THEOREM SolenoidCorrect ==
  RequireHomeBeforeFire => (BenchSpec => []SolenoidOnTimeBounded)
<1> SUFFICES ASSUME RequireHomeBeforeFire
             PROVE  BenchSpec => []SolenoidOnTimeBounded
  OBVIOUS
<1>1. BenchInvariant => SolenoidOnTimeBounded
  <2> SUFFICES ASSUME BenchInvariant PROVE SolenoidOnTimeBounded
    OBVIOUS
  <2>1. /\ rStateElapsed \in Nat /\ onTime \in Nat
        /\ OnTimeInvariant /\ EnergisedWithinTimeouts
    BY Times DEF BenchInvariant, TypeOK, OnTimeInvariant
  <2>2. onTime <= ExtendScans + VerificationScans + HoldScans
    BY <2>1, Times DEF OnTimeInvariant, EnergisedWithinTimeouts
  <2> QED
    BY <2>2, Times DEF SolenoidOnTimeBounded, HoldScans
<1>2. BenchInvariant /\ [BenchNext]_benchVars => BenchInvariant'
  BY BenchStep
<1> QED
  BY <1>1, <1>2, BenchInitInvariant, PTL DEF BenchSpec

\* A cylinder that does not come home within the retract timeout, counted from
\* the last interruption, is reported as a fault.
THEOREM RetractCorrect ==
  RequireHomeBeforeFire => (BenchSpec => []RetractSupervised)
<1> SUFFICES ASSUME RequireHomeBeforeFire PROVE BenchSpec => []RetractSupervised
  OBVIOUS
<1>1. BenchInvariant => RetractSupervised
  <2> SUFFICES ASSUME BenchInvariant PROVE RetractSupervised
    OBVIOUS
  <2>1. rStateElapsed \in Nat /\ AwayInvariant
    BY Times DEF BenchInvariant, TypeOK
  <2> QED
    BY <2>1, Times DEF AwayInvariant, RetractSupervised
<1>2. BenchInvariant /\ [BenchNext]_benchVars => BenchInvariant'
  BY BenchStep
<1> QED
  BY <1>1, <1>2, BenchInitInvariant, PTL DEF BenchSpec
==============================================================================
