------------------------------ MODULE MCDiverter ------------------------------
(* The bench with a two-scan stroke: requests from the routing and from the  *)
(* operator's hand, interlock loss, forced retraction and resets at any time.*)
EXTENDS DiverterBench

\* Idle, automatic and manual requests.
Requests ==
  LET idle == [xAutoEnable |-> TRUE, xExtendRequest |-> FALSE,
               xManualExtend |-> FALSE, eMode |-> "AUTO",
               xManualEnable |-> FALSE, xMaintenanceEnable |-> FALSE,
               xInterlockOK |-> TRUE, xInhibit |-> FALSE,
               xForceRetract |-> FALSE, xHomeSensor |-> FALSE,
               xWorkSensor |-> FALSE, xVerificationSensor |-> FALSE,
               xResetFault |-> FALSE]
  IN {idle,
      [idle EXCEPT !.xExtendRequest = TRUE],
      [idle EXCEPT !.eMode = "MANUAL", !.xManualEnable = TRUE],
      [idle EXCEPT !.eMode = "MANUAL", !.xManualEnable = TRUE,
                   !.xManualExtend = TRUE],
      [idle EXCEPT !.eMode = "MAINTENANCE", !.xManualExtend = TRUE,
                   !.xMaintenanceEnable = TRUE]}

MCDiverterInputs ==
  {[r EXCEPT !.xInterlockOK = k, !.xInhibit = h, !.xForceRetract = f,
             !.xVerificationSensor = v, !.xResetFault = z] :
     r \in Requests, k \in BOOLEAN, h \in BOOLEAN, f \in BOOLEAN,
     v \in BOOLEAN, z \in BOOLEAN}
==============================================================================
