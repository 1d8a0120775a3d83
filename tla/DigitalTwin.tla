------------------------------ MODULE DigitalTwin ------------------------------
(* digital_twin/sim_engine.py: the simulated cell behind its own OPC UA      *)
(* server.  One iteration of the loop reads the writable registers, runs the *)
(* control, the physics and the diverter mapping without an await (Tick),    *)
(* and then publishes (Publish).  The methods and the writes of clients come *)
(* between the two.                                                          *)
(*                                                                           *)
(* Time is counted in ticks, positions in units of the belt, and the speed   *)
(* in levels that it changes by one per tick.  Left out because nothing      *)
(* reads them back: motor current, OEE and the times it is computed from,    *)
(* CurrentMode, barcode texts and the nodes that only show the state of the  *)
(* cell; and force_div1_fault, which nothing sets.                           *)
EXTENDS Integers, FiniteSets

CONSTANTS
  TransitionTicks,         \* 1.5 s of STARTING, UNHOLDING and STOPPING
  HoldTicks,               \* 0.5 s of HOLDING
  JamTicks,                \* 2.0 s of PE2 blocked
  ClearTicks,              \* 6.0 s of HELD before the demo operator acts
  SpawnTicks,              \* 3.5 s between packages
  ExitTicks,               \* 0.6 s past an exit sensor
  CylinderTicks,           \* 0.3 s stroke of a pusher
  StartFrom, StartUntil,   \* the demo starts the cell: 2.0 s, 3.0 s
  InjectFrom, InjectUntil, \* the demo jams a package: 18.0 s, 18.1 s
  Width,                   \* width of a package
  PE1_POS, PE2_POS, SCANNER_POS, DIV1_POS, DIV2_POS, PE6_POS,
  ScanReach, DivReach,     \* 0.05 m and 0.15 m to both sides
  NominalSpeed, Speeds,    \* SpeedSetpoint: its default, what clients write
  MaxPackages, MaxCalls    \* bounds: packages supplied, calls of clients

ASSUME DigitalTwinAssumption ==
  /\ {TransitionTicks, HoldTicks, JamTicks, ClearTicks, SpawnTicks, ExitTicks,
      CylinderTicks} \subseteq Nat \ {0}
  /\ {StartFrom, StartUntil, InjectFrom, InjectUntil} \subseteq Nat
  /\ {Width, PE1_POS, PE2_POS, SCANNER_POS, DIV1_POS, DIV2_POS, PE6_POS,
      ScanReach, DivReach} \subseteq Nat
  /\ NominalSpeed \in Nat /\ Speeds \subseteq Nat
  /\ {MaxPackages, MaxCalls} \subseteq Nat

VARIABLES
  pc,               \* where the loop awaits: "sleep" or "publish"
  demo_elapsed,     \* the demo clock; it stands still after InjectUntil
  speed_node, command_node, \* the registers SpeedSetpoint and CommandExtend
  cell,             \* PackML state, belt command, fault and their timers
  speed_fb,
  extend, cylinder, \* per diverter: the command and the pusher's stroke
  packages,         \* the packages in the cell, by number
  package_counter, spawn_timer,
  pe,               \* the blocked sensors
  scanner,          \* trigger, success and the target last read
  total_count, lane_count, \* lane_count by route target, 9 for rejects
  calls,            \* calls and writes of clients so far
  unattended        \* history: packages that passed their diverter while the
                    \* cell did not execute or a client had interfered

cellVars == <<cell, speed_fb, extend, cylinder, packages, package_counter,
              spawn_timer, pe, scanner, total_count, lane_count>>
twinVars == <<pc, demo_elapsed, speed_node, command_node, cellVars, calls,
              unattended>>

STOPPED == 0
STARTING == 1
EXECUTE == 2
HOLDING == 4
HELD == 5
UNHOLDING == 6
STOPPING == 7
IDLE == 9
Diverters == {1, 2}
RejectTarget == 9
Targets == Diverters \cup {RejectTarget}

\* A new cell
CellInit ==
  /\ cell = [state |-> IDLE, running |-> FALSE, faulted |-> FALSE,
             state_timer |-> 0, pe2_block_timer |-> 0, jam_clear_hold |-> 0,
             force_jam_pe2 |-> FALSE, jammed_pkg_id |-> -1, total_jams |-> 0]
  /\ speed_fb = 0
  /\ extend = [d \in Diverters |-> FALSE] /\ cylinder = [d \in Diverters |-> 0]
  /\ packages = << >> /\ package_counter = 1 /\ spawn_timer = 0
  /\ pe = {}
  /\ scanner = [trigger |-> FALSE, success |-> FALSE, barcode |-> 0]
  /\ total_count = 0 /\ lane_count = [t \in Targets |-> 0]

\* The address space is built with the values of a new cell.
NamespaceInit ==
  speed_node = NominalSpeed /\ command_node = [d \in Diverters |-> FALSE]

\* The server is started, and the loop comes to its first await.
LoopInit == pc = "sleep" /\ demo_elapsed = 0

TwinInit ==
  CellInit /\ NamespaceInit /\ LoopInit /\ calls = 0 /\ unattended = {}

------------------------------------------------------------------------------
(* The control part of an iteration, one operator per section.               *)

\* The demo scheduler starts an idle cell.
Scheduled(c, now) ==
  IF c.state = IDLE /\ StartFrom <= now /\ now < StartUntil
    THEN [c EXCEPT !.state = STARTING, !.running = TRUE]
    ELSE c

TransitionedBug(c) ==        \* forgets STOPPING
  IF c.state \notin {STARTING, UNHOLDING} THEN c
  ELSE IF c.state_timer + 1 < TransitionTicks
    THEN [c EXCEPT !.state_timer = @ + 1]
    ELSE [c EXCEPT !.state_timer = 0, !.state = EXECUTE]

\* Automatic transitions after a time in STARTING, UNHOLDING or STOPPING
Transitioned(c) ==
  IF c.state \notin {STARTING, UNHOLDING, STOPPING} THEN c
  ELSE IF c.state_timer + 1 < TransitionTicks
    THEN [c EXCEPT !.state_timer = @ + 1]
    ELSE [c EXCEPT !.state_timer = 0,
                   !.state = IF c.state = STOPPING THEN STOPPED ELSE EXECUTE,
                   !.running = @ /\ c.state # STOPPING]

WatchedBug(c) ==             \* raises the jam again while the fault stands
  IF ~(2 \in pe /\ c.running) THEN [c EXCEPT !.pe2_block_timer = 0]
  ELSE IF c.pe2_block_timer + 1 < JamTicks THEN [c EXCEPT !.pe2_block_timer = @ + 1]
  ELSE [c EXCEPT !.faulted = TRUE, !.state = HOLDING, !.total_jams = @ + 1]

\* Jam watchdog; beyond JamTicks the value of its timer makes no difference.
Watched(c) ==
  LET timer == IF c.pe2_block_timer < JamTicks THEN c.pe2_block_timer + 1
               ELSE JamTicks
  IN CASE ~(2 \in pe /\ c.running) -> [c EXCEPT !.pe2_block_timer = 0]
       [] 2 \in pe /\ c.running /\ timer >= JamTicks /\ ~c.faulted ->
            [c EXCEPT !.pe2_block_timer = timer, !.faulted = TRUE,
                      !.state = HOLDING, !.total_jams = @ + 1]
       [] OTHER -> [c EXCEPT !.pe2_block_timer = timer]

Held(c) ==
  IF c.state # HOLDING THEN c
  ELSE IF c.state_timer + 1 < HoldTicks
    THEN [c EXCEPT !.state_timer = @ + 1]
    ELSE [c EXCEPT !.state_timer = 0, !.state = HELD]

\* The demo jams the package that came last.
Injected(c, now) ==
  IF InjectFrom <= now /\ now < InjectUntil /\ ~c.faulted /\ DOMAIN packages # {}
    THEN [c EXCEPT !.force_jam_pe2 = TRUE,
                   !.jammed_pkg_id =
                     CHOOSE i \in DOMAIN packages : \A j \in DOMAIN packages : j <= i]
    ELSE c

\* After a time in HELD the demo operator takes the jam away.
Cleared(c) ==
  IF c.state # HELD \/ ~c.force_jam_pe2 THEN c
  ELSE IF c.jam_clear_hold + 1 < ClearTicks
    THEN [c EXCEPT !.jam_clear_hold = @ + 1]
    ELSE [c EXCEPT !.jam_clear_hold = 0, !.faulted = FALSE,
                   !.force_jam_pe2 = FALSE, !.state = UNHOLDING, !.state_timer = 0]

ControlledBug(now) ==        \* the watchdog after the demo operator
  Held(Watched(Cleared(Injected(Transitioned(Scheduled(cell, now)), now))))

Controlled(now) ==
  Cleared(Injected(Held(Watched(Transitioned(Scheduled(cell, now)))), now))

------------------------------------------------------------------------------
(* The physics of an iteration (step), for the control state c after it.     *)

Speed(c) ==
  IF c.running /\ ~c.faulted
    THEN CASE speed_fb < speed_node -> speed_fb + 1
           [] speed_fb > speed_node -> speed_fb - 1
           [] OTHER -> speed_fb
    ELSE IF speed_fb > 0 THEN speed_fb - 1 ELSE 0

\* The supply ends after MaxPackages packages.
Supplying(c) ==
  c.state = EXECUTE /\ ~c.faulted /\ package_counter <= MaxPackages
Spawns(c) == Supplying(c) /\ spawn_timer + 1 >= SpawnTicks

\* The packages that this step moves, the new one included
Present(c, target) ==
  [i \in DOMAIN packages \cup (IF Spawns(c) THEN {package_counter} ELSE {}) |->
     IF i \in DOMAIN packages THEN packages[i]
     ELSE [target |-> target, position |-> 0, diverted |-> FALSE, exit_timer |-> 0]]

ExtendingBug(command, d) ==  \* without the stop at the end of the stroke
  IF command[d] THEN cylinder[d] + 1
  ELSE (IF cylinder[d] > 0 THEN cylinder[d] - 1 ELSE 0)

Extending(command, d) ==
  IF command[d] THEN (IF cylinder[d] < CylinderTicks THEN cylinder[d] + 1 ELSE cylinder[d])
  ELSE (IF cylinder[d] > 0 THEN cylinder[d] - 1 ELSE 0)

DivPos == [d \in Diverters |-> IF d = 1 THEN DIV1_POS ELSE DIV2_POS]
InWindow(position, d) ==
  DivPos[d] - DivReach <= position /\ position <= DivPos[d] + DivReach

NewPosition(c, i, p) ==
  IF c.force_jam_pe2 /\ i = c.jammed_pkg_id THEN PE2_POS ELSE p.position + speed_fb'

\* A package off the belt passes an exit sensor; one on the belt moves, and
\* its pusher at work or the end of the belt takes it off.
Moved(c, i, p) ==
  IF p.diverted THEN [p EXCEPT !.exit_timer = @ + 1]
  ELSE LET position == NewPosition(c, i, p)
       IN [p EXCEPT !.position = position,
                    !.diverted = \/ /\ p.target \in Diverters
                                    /\ InWindow(position, p.target)
                                    /\ cylinder'[p.target] = CylinderTicks
                                 \/ position >= PE6_POS]

MovePackagesBug(c, present) == \* without the continue: counted, but kept
  LET moved == [i \in DOMAIN present |-> Moved(c, i, present[i])]
      exited == {i \in DOMAIN present :
                   present[i].diverted /\ moved[i].exit_timer = ExitTicks}
  IN /\ packages' = moved
     /\ total_count' = total_count + Cardinality(exited)
     /\ lane_count' = [t \in Targets |->
          lane_count[t] + Cardinality({i \in exited : present[i].target = t})]

MovePackages(c, present) ==
  LET moved == [i \in DOMAIN present |-> Moved(c, i, present[i])]
      exited == {i \in DOMAIN present :
                   present[i].diverted /\ moved[i].exit_timer >= ExitTicks}
  IN /\ packages' = [i \in DOMAIN present \ exited |-> moved[i]]
     /\ total_count' = total_count + Cardinality(exited)
     /\ lane_count' = [t \in Targets |->
          lane_count[t] + Cardinality({i \in exited : present[i].target = t})]

\* The beams over the belt see a package that was on it before this step, the
\* exit sensors one that was off it, by its target and not by its place.
Beam(position, beam) == position <= beam /\ beam <= position + Width
Blocked(c, present) ==
  LET onBelt == {NewPosition(c, i, present[i]) :
                   i \in {j \in DOMAIN present : ~present[j].diverted}}
      beam == [s \in 1..3 |-> CASE s = 1 -> PE1_POS [] s = 2 -> PE2_POS
                                [] s = 3 -> DIV1_POS]
      leaving == {present[i].target : i \in {j \in DOMAIN present : present[j].diverted}}
  IN {s \in 1..3 : \E position \in onBelt : Beam(position, beam[s])}
     \cup {CASE t = 1 -> 4 [] t = 2 -> 5 [] OTHER -> 6 : t \in leaving}

\* The first package in the scan zone is read once; the read is forgotten as
\* soon as PE2 is clear.
Scan(c, present) ==
  LET zone == {i \in DOMAIN present :
                 /\ ~present[i].diverted
                 /\ NewPosition(c, i, present[i]) \in
                      SCANNER_POS - ScanReach .. SCANNER_POS + ScanReach}
      first == CHOOSE i \in zone : \A j \in zone : i <= j
      reads == ~scanner.trigger /\ zone # {}
      barcode == IF reads THEN present[first].target ELSE scanner.barcode
      success == IF reads THEN barcode # RejectTarget ELSE scanner.success
  IN scanner' = [trigger |-> 2 \in pe' /\ (scanner.trigger \/ reads),
                 success |-> 2 \in pe' /\ success, barcode |-> barcode]

CommandsBug(c) ==            \* fires when the package is in front of the pusher
  [d \in Diverters |->
     /\ c.state = EXECUTE /\ ~c.faulted
     /\ \E i \in DOMAIN packages' :
          packages'[i].target = d /\ packages'[i].position = DivPos[d]]

\* Mapping of divert commands, in place of the PLC
Commands(c) ==
  [d \in Diverters |->
     /\ c.state = EXECUTE /\ ~c.faulted
     /\ \E i \in DOMAIN packages' :
          packages'[i].target = d /\ InWindow(packages'[i].position, d)]

\* history: a package in front of its diverter has been left alone
LeftAlone(c, command, present) ==
  {i \in DOMAIN present :
     /\ ~present[i].diverted /\ present[i].target \in Diverters
     /\ InWindow(NewPosition(c, i, present[i]), present[i].target)
     /\ c.state # EXECUTE \/ c.faulted \/ command # extend \/ speed_fb' # NominalSpeed}

Tick(target) ==
  LET now == IF demo_elapsed < InjectUntil THEN demo_elapsed + 1 ELSE demo_elapsed
      c == Controlled(now)
      present == Present(c, target)
  IN /\ pc = "sleep" /\ pc' = "publish"
     /\ demo_elapsed' = now
     /\ cell' = c
     /\ speed_fb' = Speed(c)
     /\ spawn_timer' = CASE Spawns(c) -> 0
                         [] Supplying(c) /\ ~Spawns(c) -> spawn_timer + 1
                         [] OTHER -> spawn_timer
     /\ package_counter' = IF Spawns(c) THEN package_counter + 1 ELSE package_counter
     /\ cylinder' = [d \in Diverters |-> Extending(command_node, d)]
     /\ MovePackages(c, present)
     /\ pe' = Blocked(c, present)
     /\ Scan(c, present)
     /\ extend' = Commands(c)
     /\ unattended' = unattended \cup LeftAlone(c, command_node, present)
     /\ UNCHANGED <<speed_node, command_node, calls>>

\* Everything is published; of the registers that are read back the loop
\* overwrites CommandExtend.
Publish ==
  /\ pc = "publish" /\ pc' = "sleep"
  /\ command_node' = extend
  /\ UNCHANGED <<demo_elapsed, speed_node, cellVars, calls, unattended>>

------------------------------------------------------------------------------
(* The clients, at any await of the loop                                     *)

Called == calls < MaxCalls /\ calls' = calls + 1
methodVars == <<pc, demo_elapsed, speed_node, command_node, speed_fb, extend,
                cylinder, packages, package_counter, spawn_timer, pe, scanner,
                total_count, lane_count, unattended>>

start_cell ==
  /\ Called /\ cell.state \in {IDLE, STOPPED}
  /\ cell' = [cell EXCEPT !.state = STARTING, !.running = TRUE]
  /\ UNCHANGED methodVars

stop_cell ==
  /\ Called
  /\ cell' = [cell EXCEPT !.state = STOPPING]
  /\ UNCHANGED methodVars

reset_jam ==
  /\ Called /\ cell.faulted
  /\ cell' = [cell EXCEPT !.faulted = FALSE, !.force_jam_pe2 = FALSE,
                          !.state = UNHOLDING]
  /\ UNCHANGED methodVars

WriteSpeed(speed) ==
  /\ Called /\ speed # speed_node /\ speed_node' = speed
  /\ UNCHANGED <<pc, demo_elapsed, command_node, cellVars, unattended>>

WriteCommand(d) ==
  /\ Called /\ command_node' = [command_node EXCEPT ![d] = ~@]
  /\ UNCHANGED <<pc, demo_elapsed, speed_node, cellVars, unattended>>

Client ==
  \/ start_cell \/ stop_cell \/ reset_jam
  \/ \E speed \in Speeds : WriteSpeed(speed)
  \/ \E d \in Diverters : WriteCommand(d)

Loop == (\E target \in Targets : Tick(target)) \/ Publish

TwinNext == Loop \/ Client

\* The event loop runs the coroutine whenever it is ready, so the loop always
\* goes on to its next await; nobody owes the cell a call.  (A step changes pc
\* exactly when it is one of Loop, and Loop is always enabled: the fairness of
\* Loop, in a form that TLC evaluates quickly.)
LoopGoesOn == pc' = IF pc = "sleep" THEN "publish" ELSE "sleep"

TwinSpec == TwinInit /\ [][TwinNext]_twinVars /\ WF_pc(LoopGoesOn)
------------------------------------------------------------------------------
(* What a theorem asks of a layout: at nominal speed the window in front of  *)
(* a pusher takes longer to pass than a stroke, a tick for the command and   *)
(* one for the package to come in; no speed skips a window within a tick;    *)
(* and the jam is before the windows and the end of the belt behind them.    *)
PushersReach ==
  /\ (CylinderTicks + 1) * NominalSpeed <= 2 * DivReach
  /\ \A speed \in Speeds \cup {NominalSpeed} : speed <= 2 * DivReach + 1
  /\ \A d \in Diverters :
       PE2_POS < DivPos[d] - DivReach /\ DivPos[d] + DivReach < PE6_POS

\* ... and of the demo: a gap between two packages; a watchdog that is longer than
\* it takes to reach the speed and pass PE2, with the time of the jam on top; and a
\* jam that comes and is found between the supply of two packages, and is not
\* cleared before its time is over.
DemoStart == IF StartFrom = 0 THEN 1 ELSE StartFrom
ExecuteFrom == DemoStart + TransitionTicks - 1   \* the first tick in EXECUTE

DemoJamsOne ==
  /\ 0 < NominalSpeed /\ NominalSpeed <= TransitionTicks
  /\ PE2_POS <= NominalSpeed * SpawnTicks /\ Width < NominalSpeed * (SpawnTicks - 1)
  /\ Width < NominalSpeed * (JamTicks - NominalSpeed - (InjectUntil - InjectFrom))
  /\ InjectFrom < InjectUntil /\ InjectUntil - InjectFrom < ClearTicks
  /\ \E n \in 0..InjectFrom : /\ ExecuteFrom + n * SpawnTicks <= InjectFrom
                              /\ InjectUntil + JamTicks <= ExecuteFrom + (n + 1) * SpawnTicks

------------------------------------------------------------------------------
(* Properties.                                                               *)

TwinTypeOK ==
  /\ pc \in {"sleep", "publish"} /\ demo_elapsed \in 0..InjectUntil
  /\ speed_node \in Speeds \cup {NominalSpeed} /\ speed_fb \in Nat
  /\ {command_node, extend} \subseteq [Diverters -> BOOLEAN]
  /\ cylinder \in [Diverters -> 0..CylinderTicks]
  /\ cell \in [state : {STOPPED, STARTING, EXECUTE, HOLDING, HELD, UNHOLDING,
                        STOPPING, IDLE},
               running : BOOLEAN, faulted : BOOLEAN, state_timer : Nat,
               pe2_block_timer : 0..JamTicks, jam_clear_hold : 0..ClearTicks,
               force_jam_pe2 : BOOLEAN, jammed_pkg_id : Int, total_jams : Nat]
  /\ DOMAIN packages \subseteq 1..package_counter - 1
  /\ \A i \in DOMAIN packages :
       packages[i] \in [target : Targets, position : Nat, diverted : BOOLEAN,
                       exit_timer : 0..ExitTicks]
  /\ package_counter \in Nat \ {0} /\ spawn_timer \in Nat
  /\ pe \subseteq 1..6
  /\ scanner \in [trigger : BOOLEAN, success : BOOLEAN, barcode : Targets \cup {0}]
  /\ total_count \in Nat /\ lane_count \in [Targets -> Nat]
  /\ calls \in Nat /\ unattended \subseteq Nat

\* Every package is in the cell or has been counted once, and each counted
\* package in exactly one lane, whatever stops, jams and resets it has met.
EachCountedOnce ==
  /\ total_count + Cardinality(DOMAIN packages) = package_counter - 1
  /\ total_count = lane_count[1] + lane_count[2] + lane_count[9]

\* A lane package reaches the end of the belt only if it stood or passed in
\* front of its pusher while the cell did not execute, the belt did not run at
\* the nominal speed or a client had written a command.
MissedOnlyUnattended ==
  \A i \in DOMAIN packages :
    packages[i].target \in Diverters /\ packages[i].position >= PE6_POS
      => i \in unattended

\* A jam is counted once for as long as it lasts: without a call of a client
\* there is one, and each further one takes a call.
JamCountedOnce == cell.total_jams <= 1 + calls

\* The timed states end, although the three timers share one variable and the
\* methods change the state under it.
TransientsEnd ==
  cell.state \in {STARTING, HOLDING, UNHOLDING, STOPPING} ~>
    cell.state \in {STOPPED, EXECUTE, HELD}

\* Unattended, the demo gets over the jam it makes and delivers every package.
UnattendedRecovery ==
  [](calls = 0) => <>[](cell.state = EXECUTE /\ total_count = MaxPackages)

\* ResetJam takes a held cell back to EXECUTE.
\* (docs/documentation_templates/fat_sat_protocol.md:57)
ResetRecovers ==
  cell.state = UNHOLDING ~> cell.state \in {EXECUTE, STOPPING, STOPPED}
==============================================================================
