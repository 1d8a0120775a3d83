---------------------------- MODULE ConveyorControl ----------------------------
(* plc/FB_ConveyorControl.st: the speed ramp of the drive and a second jam   *)
(* watchdog with a fixed limit.  Speeds are in units of the smallest speed   *)
(* that is not yet standstill, times in scans.                               *)
EXTENDS Integers

CONSTANTS
  RampDivisor,         \* a running drive covers 1/RampDivisor of what is missing
  StopDivisor,         \* a stopping one loses 1/StopDivisor of its speed
  JamScans,            \* tJamLimit
  Barriers             \* PE1, PE2, PE3

ConveyorInput ==
  [xRunCmd : BOOLEAN, rCmdSpeed : Nat, blocked : SUBSET Barriers,
   xResetAlarms : BOOLEAN]

ASSUME ConveyorAssumption ==
  {RampDivisor, StopDivisor, JamScans} \subseteq Nat \ {0}

VARIABLES
  rCurrentSpeed,
  xIsRunning,
  tonJam,              \* per barrier: elapsed time, or Off
  xConveyorJam         \* xJamAlarm, which is also xFaulted

conveyorVars == <<rCurrentSpeed, xIsRunning, tonJam, xConveyorJam>>

Off == -1              \* a timer whose input is FALSE

ConveyorTypeOK ==
  /\ rCurrentSpeed \in Nat
  /\ xIsRunning \in BOOLEAN
  /\ tonJam \in [Barriers -> Off..JamScans]
  /\ xConveyorJam \in BOOLEAN

ConveyorInit ==
  /\ rCurrentSpeed = 0
  /\ xIsRunning = FALSE
  /\ tonJam = [s \in Barriers |-> Off]
  /\ xConveyorJam = FALSE

------------------------------------------------------------------------------
\* A fraction of a difference, rounded away from zero: the filter of the code
\* converges to its setpoint, and in whole units it has to arrive there.
Part(difference, divisor) ==
  IF difference >= 0 THEN (difference + divisor - 1) \div divisor
  ELSE -((divisor - 1 - difference) \div divisor)

Driven(in) == in.xRunCmd /\ ~xConveyorJam

Ramp(in) ==
  IF Driven(in)
  THEN /\ rCurrentSpeed' = rCurrentSpeed + Part(in.rCmdSpeed - rCurrentSpeed, RampDivisor)
       /\ xIsRunning' = TRUE
  ELSE /\ rCurrentSpeed' = rCurrentSpeed - Part(rCurrentSpeed, StopDivisor)
       /\ xIsRunning' = (xIsRunning /\ rCurrentSpeed' > 0)

\* TON: zero in the scan its input rises, one scan more in each that follows.
Timed(in) ==
  [s \in Barriers |->
     IF ~(s \in in.blocked /\ xIsRunning') THEN Off
     ELSE IF tonJam[s] < JamScans THEN tonJam[s] + 1 ELSE JamScans]

\* A reset clears the alarm whatever the barriers say, and restarts the timers.
Watchdog(in) ==
  IF in.xResetAlarms
  THEN xConveyorJam' = FALSE /\ tonJam' = [s \in Barriers |-> Off]
  ELSE /\ tonJam' = Timed(in)
       /\ xConveyorJam' = (xConveyorJam \/ \E s \in Barriers : tonJam'[s] = JamScans)

ConveyorScan(in) == Ramp(in) /\ Watchdog(in)
==============================================================================
