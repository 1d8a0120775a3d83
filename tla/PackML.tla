-------------------------------- MODULE PackML --------------------------------
(* What the station controller promises the rest of the cell about its       *)
(* PackML state and its unit mode: the legal state changes, and when the     *)
(* operator's mode request may take effect.  StationController implements    *)
(* this specification (theorem Refinement in StationController_proofs).      *)
EXTENDS MHMCTypes

VARIABLES state, mode

vars == <<state, mode>>

TypeOK ==
  /\ state \in PackMLStates
  /\ mode \in Modes

\* Rest states: nothing moves under automatic control.
ModeSelectable == {"STOPPED", "IDLE", "ABORTED"}

\* A Stop command is honoured in these states.
Stoppable == {"IDLE", "STARTING", "EXECUTE", "SUSPENDED", "HOLDING", "HELD",
              "UNHOLDING"}

\* The states of an automatic production run, interrupted or not.
RunStates == {"STARTING", "EXECUTE", "SUSPENDED", "HOLDING", "HELD",
              "UNHOLDING"}

Transitions ==
  {<<"STOPPED", "RESETTING">>, <<"RESETTING", "IDLE">>, <<"IDLE", "STARTING">>,
   <<"STARTING", "EXECUTE">>, <<"STARTING", "HOLDING">>,
   <<"EXECUTE", "SUSPENDED">>, <<"EXECUTE", "HOLDING">>,
   <<"SUSPENDED", "EXECUTE">>, <<"SUSPENDED", "HOLDING">>,
   <<"HOLDING", "HELD">>, <<"HELD", "UNHOLDING">>,
   <<"UNHOLDING", "EXECUTE">>, <<"UNHOLDING", "HOLDING">>,
   <<"STOPPING", "STOPPED">>, <<"ABORTED", "STOPPED">>}
  \cup (Stoppable \X {"STOPPING"})
  \cup (PackMLStates \X {"ABORTED"})

Init ==
  /\ state = "STOPPED"
  /\ mode = "AUTO"

\* One transition; a run is started in AUTO only.
Move ==
  /\ <<state, state'>> \in Transitions
  /\ state' = "STARTING" => mode = "AUTO"

\* The requested mode is taken over on arrival in, or while staying in, a
\* rest state, and at no other time.
SelectMode ==
  /\ mode' \in Modes
  /\ state' \notin ModeSelectable => mode' = mode

Next ==
  /\ Move \/ state' = state
  /\ SelectMode

Spec == Init /\ [][Next]_vars

\* An interrupted run is still an automatic run: no operator can change the
\* mode between Start and the return to a rest state.
RunStatesAreAuto == state \in RunStates => mode = "AUTO"
==============================================================================
