------------------------------ MODULE MCRecovery ------------------------------
(* RecoveryCell with one command, one stuck package, one load or one failure *)
(* at a time.  The unit of speed is a quarter of the reference speed.        *)
EXTENDS RecoveryCell

MCDefaultRecipe ==
  [uiRecipeID |-> 1, xEnabled |-> TRUE, rAutoSpeed |-> 4,
   rManualMaxSpeed |-> 3, rMaintenanceSpeedLimit |-> 1]

\* The default recipe and a slow one.
MCRecipeBook ==
  <<MCDefaultRecipe, [MCDefaultRecipe EXCEPT !.uiRecipeID = 3, !.rAutoSpeed = 2]>>

Calm ==
  [commands |-> {}, xManualResetJam |-> FALSE, uiRecipeSelect |-> 1,
   rRecipeSpeed |-> 0, blocked |-> {}, xSafetyLoopOK |-> TRUE,
   xOpcUaServerReady |-> TRUE, routeFault |-> FALSE]

Stuck == [Calm EXCEPT !.blocked = {2}]

\* Every command on a free belt, and those that matter on a blocked one.
Operated ==
  {[Calm EXCEPT !.commands = {c}] :
     c \in {"start", "stop", "reset", "hold", "unhold", "clear"}}
  \cup {[Stuck EXCEPT !.commands = {c}] : c \in {"reset", "hold", "unhold"}}

Pressed ==
  {[s EXCEPT !.xManualResetJam = TRUE] :
     s \in {Calm, Stuck, [Calm EXCEPT !.commands = {"stop"}]}}

\* The slow recipe, the default one, and one that does not exist.
Loads == {[Calm EXCEPT !.commands = {"load"}, !.uiRecipeSelect = n] : n \in {1, 2, 3}}

Failures ==
  {[Calm EXCEPT !.xSafetyLoopOK = FALSE], [Calm EXCEPT !.routeFault = TRUE],
   [Calm EXCEPT !.commands = {"stop"}, !.xOpcUaServerReady = FALSE],
   [Calm EXCEPT !.commands = {"stop", "start"}]}

MCScenes == {Calm, Stuck} \cup Operated \cup Pressed \cup Loads \cup Failures

\* Nobody holds the cell or resets anything: a package gets stuck, that is all.
MCSlowScenes ==
  {Calm, Stuck} \cup Loads
  \cup {[Calm EXCEPT !.commands = {c}] : c \in {"start", "reset"}}
==============================================================================
