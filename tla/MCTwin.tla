-------------------------------- MODULE MCTwin --------------------------------
(* DigitalTwin on a belt of twenty units at one unit per tick.  The order of *)
(* the times and places is that of the code: a pusher reaches a package in   *)
(* the middle of its window, the jam is found before the next package comes, *)
(* and after the jam the belt runs past a diverter before it is in service.  *)
EXTENDS DigitalTwin

ASSUME MCLaidOut == PushersReach /\ DemoJamsOne
==============================================================================
