----------------------------- MODULE DiverterBench -----------------------------
(* The diverter controller driving the cylinder of the digital twin          *)
(* (digital_twin/sim_engine.py, step): the cylinder strokes while the valve  *)
(* is energised, springs back otherwise, and can be stuck half way by the    *)
(* twin's fault injection, which makes neither switch.                       *)
EXTENDS DiverterController

CONSTANTS
  Stroke,              \* scans for a full stroke
  StuckPosition        \* where the injected fault leaves the cylinder

ASSUME BenchAssumption ==
  Stroke \in Nat \ {0} /\ StuckPosition \in 1..(Stroke - 1)

VARIABLES
  cylinder,            \* div1_pos: 0 retracted, Stroke extended
  forced,              \* force_div1_fault
  onTime,              \* history: scans the valve has been energised in a row
  awayTime             \* history: scans retracting without the home switch
                       \* and without an interruption

benchVars == <<diverterVars, cylinder, forced, onTime, awayTime>>

\* The histories saturate; both bounds are beyond what the properties allow.
OnLimit == ExtendScans + DwellScans + ManualHoldScans + VerificationScans + 3
AwayLimit == RetractScans + 3

BenchTypeOK ==
  /\ TypeOK
  /\ cylinder \in 0..Stroke
  /\ forced \in BOOLEAN
  /\ onTime \in 0..OnLimit
  /\ awayTime \in 0..AwayLimit

BenchInit ==
  /\ DiverterInit
  /\ cylinder = 0
  /\ forced = FALSE
  /\ onTime = 0
  /\ awayTime = 0

\* The switches the controller reads are those of the last twin step.
Sensed(in) ==
  [in EXCEPT !.xHomeSensor = cylinder = 0 /\ ~forced,
             !.xWorkSensor = cylinder = Stroke /\ ~forced]

MoveCylinder ==
  cylinder' =
    IF forced' THEN StuckPosition
    ELSE IF diverterOut'.xCommandExtend
    THEN IF cylinder < Stroke THEN cylinder + 1 ELSE Stroke
    ELSE IF cylinder > 0 THEN cylinder - 1 ELSE 0

Count(n, limit) == IF n < limit THEN n + 1 ELSE limit

\* A forced retraction or a lost interlock restarts the retract watchdog in
\* every scan it lasts (Interrupted), and the history with it.
Measure(in) ==
  /\ onTime' = IF diverterOut'.xCommandExtend THEN Count(onTime, OnLimit) ELSE 0
  /\ awayTime' = IF /\ eState' = "RETRACTING" /\ ~diverterOut'.xHome
                    /\ ~Interrupted(in)
                 THEN Count(awayTime, AwayLimit) ELSE 0

BenchNext ==
  /\ \E in \in DiverterInputs : DiverterScan(Sensed(in)) /\ Measure(Sensed(in))
  /\ forced' \in BOOLEAN
  /\ MoveCylinder

BenchSpec == BenchInit /\ [][BenchNext]_benchVars

------------------------------------------------------------------------------
(* Properties of the controller and the cylinder together.                   *)

\* However requests, overrides and resets are timed, the solenoid is never
\* energised longer than one complete sequence may last.
SolenoidOnTimeBounded ==
  onTime <= ExtendScans + VerificationScans
            + (IF DwellScans > ManualHoldScans THEN DwellScans ELSE ManualHoldScans)

\* "Max time to return home": however strokes, faults and resets alternate, a
\* retracting cylinder that has not made the home switch within the retract
\* timeout, counted from the last forced retraction or lost interlock, is
\* reported as a fault.
RetractSupervised == awayTime > RetractScans + 1 => uiFaultCode # "NONE"
==============================================================================
