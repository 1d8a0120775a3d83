------------------------------ MODULE MHMCTypes ------------------------------
(* The enumerations of plc/Types.st that every function block shares.        *)

\* E_PackML_State
PackMLStates == {"STOPPED", "RESETTING", "IDLE", "STARTING", "EXECUTE",
                 "SUSPENDED", "HOLDING", "HELD", "UNHOLDING", "STOPPING",
                 "ABORTED"}

\* E_PackML_Mode
Modes == {"AUTO", "MANUAL", "MAINTENANCE"}

\* E_RouteTarget; ROUTE_NONE is an unscanned package
RouteTargets == {"NONE", "LANE_A", "LANE_B", "REJECT"}
==============================================================================
