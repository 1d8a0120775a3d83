------------------------------- MODULE MCServer -------------------------------
(* OpcUaServer with three requests of clients and two events of the PLC.     *)
(* The speeds are the recipe's own, a valid one and one that is too high.    *)
EXTENDS OpcUaServer
==============================================================================
