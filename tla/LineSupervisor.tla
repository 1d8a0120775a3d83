---------------------------- MODULE LineSupervisor ----------------------------
(* plc/FB_LineSupervisor.st: turns the command levels of the HMI into        *)
(* one-scan pulses for the station, and loads recipes.  Speeds are in the    *)
(* units of the composition.  Of a recipe only what the station and the      *)
(* checks read is kept: patterns and geometry are carried along unchanged.   *)
EXTENDS Integers, Sequences, MHMCTypes

CONSTANTS
  RecipeBook,          \* the enabled entries of arrRecipeBook are searched in order
  DefaultRecipe,       \* F_LineSupervisor_DefaultRecipe
  FallbackSpeed,       \* replaces a candidate without a speed
  MinimumTargetSpeed, MaximumTargetSpeed

Recipe ==              \* ST_SortRecipe
  [uiRecipeID : Nat, xEnabled : BOOLEAN, rAutoSpeed : Int,
   rManualMaxSpeed : Int, rMaintenanceSpeedLimit : Int]

RemoteCommands == {"start", "stop", "reset", "hold", "unhold", "clear", "load"}

LineInput ==           \* ST_LineSupervisorInput; commands holds those that are TRUE
  [commands : SUBSET RemoteCommands, uiRecipeSelect : Nat, rRecipeSpeed : Int,
   xUseRecipePayload : BOOLEAN, stRecipePayload : Recipe, eModeSelect : Modes,
   xOpcUaConnected : BOOLEAN, xStationReady : BOOLEAN]

ASSUME LineAssumption ==
  /\ RecipeBook \in Seq(Recipe) /\ Len(RecipeBook) <= 8
  /\ DefaultRecipe \in Recipe
  /\ {FallbackSpeed, MinimumTargetSpeed, MaximumTargetSpeed} \subseteq Nat \ {0}
  /\ MinimumTargetSpeed < MaximumTargetSpeed
  /\ DefaultRecipe.rAutoSpeed \in MinimumTargetSpeed..MaximumTargetSpeed

VARIABLES
  lineState,           \* eState
  lineLast,            \* the commands that were TRUE in the last scan (*Last)
  linePulses,          \* the commands passed on in this scan (x...CellPulse)
  stActiveRecipe,
  xRecipeValid,
  xSupervisorHealthy

lineVars == <<lineState, lineLast, linePulses, stActiveRecipe, xRecipeValid,
              xSupervisorHealthy>>

LineTypeOK ==
  /\ lineState \in {"READY", "RECIPE_LOAD", "COMMANDING", "FAULTED"}
  /\ lineLast \in SUBSET RemoteCommands
  /\ linePulses \in SUBSET RemoteCommands
  /\ stActiveRecipe \in Recipe
  /\ xRecipeValid \in BOOLEAN
  /\ xSupervisorHealthy \in BOOLEAN

LineInit ==
  /\ lineState = "READY"
  /\ lineLast = {} /\ linePulses = {}
  /\ stActiveRecipe = DefaultRecipe
  /\ xRecipeValid = TRUE /\ xSupervisorHealthy = TRUE

------------------------------------------------------------------------------
(* The recipe a load command would take.                                     *)

Matching(in) ==
  {i \in DOMAIN RecipeBook : /\ RecipeBook[i].xEnabled
                            /\ RecipeBook[i].uiRecipeID = in.uiRecipeSelect}

RecipeFound(in) ==
  IF in.xUseRecipePayload THEN in.stRecipePayload.xEnabled
  ELSE Matching(in) # {} \/ (RecipeBook = <<>> /\ in.uiRecipeSelect \in {0, 1})

ChosenRecipe(in) ==
  IF in.xUseRecipePayload THEN in.stRecipePayload
  ELSE IF Matching(in) = {} THEN DefaultRecipe
  ELSE RecipeBook[CHOOSE i \in Matching(in) : \A j \in Matching(in) : i <= j]

\* A speed sent along replaces the recipe's.
Candidate(in) ==
  LET speed == IF in.rRecipeSpeed > 0 THEN in.rRecipeSpeed
               ELSE ChosenRecipe(in).rAutoSpeed
  IN [ChosenRecipe(in) EXCEPT !.rAutoSpeed =
        IF speed <= 0 THEN FallbackSpeed ELSE speed]

RecipeAccepted(in) ==
  /\ RecipeFound(in)
  /\ Candidate(in).rAutoSpeed \in MinimumTargetSpeed..MaximumTargetSpeed

------------------------------------------------------------------------------
(* F_LineSupervisor_Cyclic: four branches, tested in this order.  Only one of*)
(* them passes commands on, but every scan overwrites the edge memories.     *)

Rising(in, command) == command \in in.commands \ lineLast

Loading(in) == in.xOpcUaConnected /\ Rising(in, "load")

Disconnected(in) ==
  /\ ~in.xOpcUaConnected
  /\ lineState' = "FAULTED"
  /\ linePulses' = {}
  /\ xSupervisorHealthy' = FALSE
  /\ UNCHANGED <<stActiveRecipe, xRecipeValid>>

LoadRecipe(in) ==
  /\ Loading(in)
  /\ lineState' = IF RecipeAccepted(in) THEN "RECIPE_LOAD" ELSE "FAULTED"
  /\ linePulses' = {"load"}
  /\ xRecipeValid' = RecipeAccepted(in)
  /\ xSupervisorHealthy' = RecipeAccepted(in)
  /\ stActiveRecipe' = IF RecipeAccepted(in) THEN Candidate(in) ELSE stActiveRecipe

\* Start and unhold wait for a valid recipe; hold is passed on as a level by
\* every branch and is not among the pulses.
PassedOn(in) ==
  {c \in {"start", "stop", "reset", "unhold", "clear"} :
     Rising(in, c) /\ (c \in {"start", "unhold"} => xRecipeValid)}

Commanding(in) ==
  /\ in.xOpcUaConnected /\ ~Loading(in) /\ in.xStationReady
  /\ lineState' = "COMMANDING"
  /\ linePulses' = PassedOn(in)
  /\ xSupervisorHealthy' = xRecipeValid
  /\ UNCHANGED <<stActiveRecipe, xRecipeValid>>

WaitingForStation(in) ==
  /\ in.xOpcUaConnected /\ ~Loading(in) /\ ~in.xStationReady
  /\ lineState' = "READY"
  /\ linePulses' = {}
  /\ xSupervisorHealthy' = xRecipeValid
  /\ UNCHANGED <<stActiveRecipe, xRecipeValid>>

LineScan(in) ==
  /\ \/ Disconnected(in)
     \/ LoadRecipe(in)
     \/ Commanding(in)
     \/ WaitingForStation(in)
  /\ lineLast' = in.commands
==============================================================================
