------------------------------ MODULE JamDetector ------------------------------
(* plc/FB_JamDetector.st: watchdogs on the three belt barriers whose limit   *)
(* grows as the belt slows down, the latched jam alarm and its reset.  Time  *)
(* is in scans.                                                              *)
EXTENDS Integers, MHMCTypes

CONSTANTS
  ReferenceSpeed,      \* the speed at which the base limit applies
  BaseJamLimit, MaximumJamLimit,
  WarningPercent,      \* rWarningRatio
  BeltSensors          \* PE1, PE2, PE3 as 1..3, in the order they are reported

JamInput ==            \* ST_JamDetectorInput; blocked holds the covered barriers
  [blocked : SUBSET BeltSensors, xConveyorRunning : BOOLEAN,
   rConveyorSpeed : Nat, xResetJam : BOOLEAN, xRecoveryRequest : BOOLEAN,
   xAllowAutoRecovery : BOOLEAN, ePackMLState : PackMLStates]

ASSUME JamAssumption ==
  /\ {ReferenceSpeed, BaseJamLimit, MaximumJamLimit} \subseteq Nat \ {0}
  /\ BaseJamLimit <= MaximumJamLimit
  /\ WarningPercent \in 1..99
  /\ BeltSensors \subseteq 1..3

VARIABLES
  jamState,            \* eState
  rBlocked,            \* scans a barrier was covered on a running belt
  xJamAlarm,           \* latched
  xRequestHold, xWarning, xResetAcceptedPulse,
  uiJamSource, uiTotalJams

jamVars == <<jamState, rBlocked, xJamAlarm, xRequestHold, xWarning,
             xResetAcceptedPulse, uiJamSource, uiTotalJams>>

JamTypeOK ==
  /\ jamState \in {"CLEAR", "MONITORING", "WARNING", "WAIT_CLEAR", "RECOVERING",
                   "JAMMED"}
  /\ rBlocked \in [BeltSensors -> 0..MaximumJamLimit]
  /\ {xJamAlarm, xRequestHold, xWarning, xResetAcceptedPulse} \subseteq BOOLEAN
  /\ uiJamSource \in BeltSensors \cup {0}
  /\ uiTotalJams \in Nat

JamInit ==
  /\ jamState = "CLEAR"
  /\ rBlocked = [s \in BeltSensors |-> 0]
  /\ xJamAlarm = FALSE /\ xRequestHold = FALSE /\ xWarning = FALSE
  /\ xResetAcceptedPulse = FALSE
  /\ uiJamSource = 0 /\ uiTotalJams = 0

------------------------------------------------------------------------------
\* Limits are compared with whole scans, so that they may be rounded up.
Upward(a, b) == (a + b - 1) \div b

\* F_JamDetector_DynamicLimit_s
DynamicLimit(speed) ==
  LET scaled == IF speed = 0 THEN MaximumJamLimit
                ELSE Upward(BaseJamLimit * ReferenceSpeed, speed)
  IN IF scaled < BaseJamLimit THEN BaseJamLimit
     ELSE IF scaled > MaximumJamLimit THEN MaximumJamLimit
     ELSE scaled

WarnLimit(speed) == Upward(DynamicLimit(speed) * WarningPercent, 100)

\* Whether or not there is a jam to reset.
ResetAllowed(in) ==
  /\ in.xResetJam /\ in.blocked = {}
  /\ \/ in.xAllowAutoRecovery \/ in.xRecoveryRequest
     \/ in.ePackMLState = "HELD"

\* The accumulators keep their value while the belt stands; MaximumJamLimit
\* stands for every longer time.
BlockedTimesBug(in) ==       \* starts again when the belt stops
  [s \in BeltSensors |->
     IF s \notin in.blocked \/ ~in.xConveyorRunning THEN 0
     ELSE IF rBlocked[s] < MaximumJamLimit THEN rBlocked[s] + 1
     ELSE rBlocked[s]]

BlockedTimes(in) ==
  [s \in BeltSensors |->
     IF s \notin in.blocked THEN 0
     ELSE IF in.xConveyorRunning /\ rBlocked[s] < MaximumJamLimit
     THEN rBlocked[s] + 1
     ELSE rBlocked[s]]

Beyond(times, limit) == {s \in BeltSensors : times[s] >= limit}

\* The alarm is latched, and a fresh one is counted.
Latch(jammed) ==
  /\ xJamAlarm' = TRUE
  /\ uiTotalJams' = IF xJamAlarm THEN uiTotalJams ELSE uiTotalJams + 1
  /\ uiJamSource' = CHOOSE s \in jammed : \A t \in jammed : s <= t

(* The branches of the watchdog, in the code's order of tests.               *)

Recovering(in) ==
  /\ ResetAllowed(in)
  /\ jamState' = "RECOVERING"
  /\ xJamAlarm' = FALSE /\ xRequestHold' = FALSE /\ xWarning' = FALSE
  /\ uiJamSource' = 0
  /\ UNCHANGED uiTotalJams

Jammed(jammed) ==
  /\ jammed # {}
  /\ jamState' = "JAMMED"
  /\ Latch(jammed)
  /\ xRequestHold' = TRUE
  /\ UNCHANGED xWarning

\* A latched alarm keeps requesting the hold in every other branch.
Unchanging ==
  /\ xRequestHold' = xJamAlarm
  /\ UNCHANGED <<xJamAlarm, uiJamSource, uiTotalJams>>

Warn(late) ==
  late # {} /\ jamState' = "WARNING" /\ xWarning' = TRUE /\ Unchanging

WaitClear(in) ==
  /\ xJamAlarm /\ in.blocked = {}
  /\ jamState' = "WAIT_CLEAR" /\ UNCHANGED xWarning /\ Unchanging

Watch(in) ==
  /\ ~(xJamAlarm /\ in.blocked = {})
  /\ jamState' = IF in.blocked # {} /\ in.xConveyorRunning
                 THEN "MONITORING" ELSE "CLEAR"
  /\ xWarning' = FALSE
  /\ Unchanging

\* F_JamDetector_Cyclic, called once per scan.
JamScan(in) ==
  LET jammed == Beyond(rBlocked', DynamicLimit(in.rConveyorSpeed))
      late == Beyond(rBlocked', WarnLimit(in.rConveyorSpeed))
  IN
  /\ rBlocked' = BlockedTimes(in)
  /\ xResetAcceptedPulse' = ResetAllowed(in)
  /\ \/ Recovering(in)
     \/ ~ResetAllowed(in) /\ Jammed(jammed)
     \/ /\ ~ResetAllowed(in) /\ jammed = {}
        /\ \/ Warn(late)
           \/ late = {} /\ (WaitClear(in) \/ Watch(in))
==============================================================================
