--------------------------- MODULE DigitalTwin_proofs ---------------------------
(* Proofs about the digital twin, for any times, places and sizes and any    *)
(* number of packages and calls: none is lost or counted twice, none that is *)
(* attended misses its pusher, and a jam is counted once.                    *)
EXTENDS DigitalTwin, FiniteSetTheorems, NaturalsInduction, WellFoundedInduction, TLAPS

Package == [target : Targets, position : Int, diverted : BOOLEAN,
            exit_timer : Int]

\* Numbers in the cell were given out before the next one.
CountInvariant ==
  /\ package_counter \in Nat \ {0}
  /\ DOMAIN packages \subseteq 1..package_counter - 1
  /\ \A i \in DOMAIN packages : packages[i] \in Package
  /\ speed_node \in Int /\ speed_fb \in Int
  /\ total_count \in Nat /\ lane_count \in [Targets -> Nat]
  /\ EachCountedOnce

LEMMA Numbered ==
  ASSUME CountInvariant
  PROVE  /\ IsFiniteSet(DOMAIN packages) /\ package_counter \notin DOMAIN packages
         /\ Cardinality(DOMAIN packages) \in Nat
<1>1. IsFiniteSet(1..package_counter - 1)
  BY FS_Interval DEF CountInvariant
<1>2. IsFiniteSet(DOMAIN packages)
  BY <1>1, FS_Subset DEF CountInvariant
<1>3. package_counter \notin 1..package_counter - 1
  BY DEF CountInvariant
<1> QED
  BY <1>2, <1>3, FS_CardinalityType DEF CountInvariant

LEMMA DisjointUnion ==
  ASSUME NEW S, NEW T, IsFiniteSet(S), IsFiniteSet(T), S \cap T = {}
  PROVE  /\ IsFiniteSet(S \cup T)
         /\ Cardinality(S \cup T) = Cardinality(S) + Cardinality(T)
<1>1. Cardinality(S \cap T) = 0
  BY FS_EmptySet
<1>2. Cardinality(S) \in Nat /\ Cardinality(T) \in Nat
  BY FS_CardinalityType
<1>3. /\ IsFiniteSet(S \cup T)
      /\ Cardinality(S \cup T)
           = Cardinality(S) + Cardinality(T) - Cardinality(S \cap T)
  BY FS_Union
<1> QED
  BY <1>1, <1>2, <1>3

\* A set of packages has as many members as its three targets have together.
LEMMA ByTarget ==
  ASSUME NEW X, IsFiniteSet(X), NEW f, \A i \in X : f[i].target \in Targets
  PROVE  /\ \A t \in Targets : Cardinality({i \in X : f[i].target = t}) \in Nat
         /\ Cardinality(X) = Cardinality({i \in X : f[i].target = 1})
                             + Cardinality({i \in X : f[i].target = 2})
                             + Cardinality({i \in X : f[i].target = 9})
<1> DEFINE Of(t) == {i \in X : f[i].target = t}
<1>1. ASSUME NEW t PROVE IsFiniteSet(Of(t)) /\ Cardinality(Of(t)) \in Nat
  BY FS_Subset, FS_CardinalityType
<1>2. /\ IsFiniteSet(Of(1) \cup Of(2))
      /\ Cardinality(Of(1) \cup Of(2)) = Cardinality(Of(1)) + Cardinality(Of(2))
  <2>1. Of(1) \cap Of(2) = {}
    OBVIOUS
  <2> HIDE DEF Of
  <2> QED
    BY <1>1, <2>1, DisjointUnion
<1>3. Cardinality((Of(1) \cup Of(2)) \cup Of(9))
        = Cardinality(Of(1)) + Cardinality(Of(2)) + Cardinality(Of(9))
  <2>1. (Of(1) \cup Of(2)) \cap Of(9) = {}
    OBVIOUS
  <2> HIDE DEF Of
  <2> QED
    BY <1>1, <1>2, <2>1, DisjointUnion
<1>4. (Of(1) \cup Of(2)) \cup Of(9) = X
  BY DEF Targets, Diverters, RejectTarget
<1> QED
  BY <1>1, <1>3, <1>4

LEMMA MovedPackage ==
  ASSUME DigitalTwinAssumption, NEW c, NEW i, NEW p \in Package, speed_fb' \in Int
  PROVE  Moved(c, i, p) \in Package /\ Moved(c, i, p).target = p.target
<1>1. NewPosition(c, i, p) \in Int
  BY DEF NewPosition, Package, DigitalTwinAssumption
<1>2. ASSUME NEW position \in Int, NEW d \in BOOLEAN
      PROVE  LET q == [p EXCEPT !.position = position, !.diverted = d]
             IN q \in Package /\ q.target = p.target
  BY DEF Package
<1>3. CASE p.diverted
  BY <1>3 DEF Moved, Package
<1>4. CASE ~p.diverted
  BY <1>1, <1>2, <1>4 DEF Moved
<1> QED
  BY <1>3, <1>4

\* The packages of a step are those of the cell and the one that is supplied.
LEMMA PresentPackages ==
  ASSUME CountInvariant, NEW c, NEW target \in Targets,
         NEW counter, counter = IF Spawns(c) THEN package_counter + 1
                                ELSE package_counter
  PROVE  /\ \A i \in DOMAIN Present(c, target) : Present(c, target)[i] \in Package
         /\ counter \in Nat \ {0}
         /\ DOMAIN Present(c, target) \subseteq 1..counter - 1
         /\ IsFiniteSet(DOMAIN Present(c, target))
         /\ total_count + Cardinality(DOMAIN Present(c, target)) = counter - 1
<1> DEFINE new == IF Spawns(c) THEN {package_counter} ELSE {}
           present == Present(c, target)
<1>1. DOMAIN present = DOMAIN packages \cup new
  BY DEF Present
<1>2. ASSUME NEW i \in DOMAIN present PROVE present[i] \in Package
  BY <1>1 DEF Present, Package, CountInvariant
<1>3. counter \in Nat \ {0} /\ DOMAIN present \subseteq 1..counter - 1
  <2>1. package_counter \in Nat \ {0} /\ DOMAIN packages \subseteq 1..package_counter - 1
    BY DEF CountInvariant
  <2>2. CASE Spawns(c)
    BY <1>1, <2>1, <2>2
  <2>3. CASE ~Spawns(c)
    BY <1>1, <2>1, <2>3
  <2> QED
    BY <2>2, <2>3
<1>4. /\ IsFiniteSet(DOMAIN present)
      /\ total_count + Cardinality(DOMAIN present) = counter - 1
  <2>1. /\ total_count \in Nat /\ package_counter \in Nat
        /\ total_count + Cardinality(DOMAIN packages) = package_counter - 1
    BY DEF CountInvariant, EachCountedOnce
  <2>2. CASE Spawns(c)
    <3>1. DOMAIN present = DOMAIN packages \cup {package_counter}
      BY <1>1, <2>2
    <3>2. /\ IsFiniteSet(DOMAIN present)
          /\ Cardinality(DOMAIN present) = Cardinality(DOMAIN packages) + 1
      BY <3>1, Numbered, FS_AddElement
    <3>3. /\ Cardinality(DOMAIN packages) \in Nat
          /\ counter = package_counter + 1
      BY <2>2, Numbered
    <3>4. total_count + (Cardinality(DOMAIN packages) + 1) = counter - 1
      BY <2>1, <3>3
    <3> HIDE DEF present
    <3> QED
      BY <3>2, <3>4
  <2>3. CASE ~Spawns(c)
    <3>1. DOMAIN present = DOMAIN packages /\ counter = package_counter
      BY <1>1, <2>3
    <3>2. Cardinality(DOMAIN present) = Cardinality(DOMAIN packages)
      BY <3>1
    <3>3. IsFiniteSet(DOMAIN present)
      BY <3>1, Numbered, Zenon
    <3>4. total_count + Cardinality(DOMAIN packages) = counter - 1
      BY <2>1, <3>1
    <3> HIDE DEF present
    <3> QED
      BY <3>2, <3>3, <3>4
  <2> QED
    BY <2>2, <2>3
<1> QED
  BY <1>2, <1>3, <1>4

\* What leaves the cell in a step is counted in that step, once and by target.
LEMMA CountedWhenLeaving ==
  ASSUME DigitalTwinAssumption, CountInvariant, speed_fb' \in Int, NEW c, NEW present,
         IsFiniteSet(DOMAIN present), \A i \in DOMAIN present : present[i] \in Package,
         MovePackages(c, present)
  PROVE  /\ DOMAIN packages' \subseteq DOMAIN present
         /\ \A i \in DOMAIN packages' : packages'[i] \in Package
         /\ total_count' \in Nat /\ lane_count' \in [Targets -> Nat]
         /\ total_count' + Cardinality(DOMAIN packages')
              = total_count + Cardinality(DOMAIN present)
         /\ total_count' = lane_count'[1] + lane_count'[2] + lane_count'[9]
<1> DEFINE moved == [i \in DOMAIN present |-> Moved(c, i, present[i])]
           exited == {i \in DOMAIN present :
                        present[i].diverted /\ moved[i].exit_timer >= ExitTicks}
           kept == DOMAIN present \ exited
           Left(t) == {i \in exited : present[i].target = t}
<1>1. /\ packages' = [i \in kept |-> moved[i]]
      /\ total_count' = total_count + Cardinality(exited)
      /\ lane_count' = [t \in Targets |-> lane_count[t] + Cardinality(Left(t))]
  BY DEF MovePackages
<1>2. ASSUME NEW i \in DOMAIN present PROVE moved[i] \in Package
  BY <1>2, MovedPackage
<1>3. exited \subseteq DOMAIN present /\ kept \subseteq DOMAIN present
  OBVIOUS
<1>4. /\ IsFiniteSet(exited) /\ Cardinality(exited) \in Nat
      /\ Cardinality(kept) = Cardinality(DOMAIN present) - Cardinality(exited)
      /\ Cardinality(DOMAIN present) \in Nat
  <2>1. IsFiniteSet(exited) /\ DOMAIN present \cap exited = exited
    BY <1>3, FS_Subset
  <2> HIDE DEF exited
  <2> QED
    BY <2>1, FS_Difference, FS_CardinalityType
<1>5. ASSUME NEW i \in exited PROVE present[i].target \in Targets
  BY <1>3 DEF Package
<1>6. /\ \A t \in Targets : Cardinality(Left(t)) \in Nat
      /\ Cardinality(exited) = Cardinality(Left(1)) + Cardinality(Left(2))
                               + Cardinality(Left(9))
  <2> HIDE DEF exited
  <2> QED
    BY <1>4, <1>5, ByTarget
<1>7. /\ total_count \in Nat /\ lane_count \in [Targets -> Nat]
      /\ total_count = lane_count[1] + lane_count[2] + lane_count[9]
  BY DEF CountInvariant, EachCountedOnce
<1>8. {1, 2, 9} \subseteq Targets
  BY DEF Targets, Diverters, RejectTarget
<1> HIDE DEF moved, exited, kept, Left
<1>9. DOMAIN packages' = kept /\ \A i \in kept : packages'[i] = moved[i]
  BY <1>1
<1>10. lane_count' \in [Targets -> Nat] /\ total_count' \in Nat
  BY <1>1, <1>4, <1>6, <1>7
<1>11. total_count' = lane_count'[1] + lane_count'[2] + lane_count'[9]
  <2>1. ASSUME NEW t \in Targets
        PROVE  /\ lane_count'[t] = lane_count[t] + Cardinality(Left(t))
               /\ lane_count[t] \in Nat /\ Cardinality(Left(t)) \in Nat
    BY <1>1, <1>6, <1>7
  <2> QED
    BY <1>1, <1>6, <1>7, <1>8, <2>1
<1> QED
  BY <1>1, <1>2, <1>3, <1>4, <1>7, <1>9, <1>10, <1>11

LEMMA TickCounts ==
  ASSUME DigitalTwinAssumption, CountInvariant, NEW target \in Targets, Tick(target)
  PROVE  CountInvariant'
<1> DEFINE now == IF demo_elapsed < InjectUntil THEN demo_elapsed + 1 ELSE demo_elapsed
           c == Controlled(now)
           present == Present(c, target)
<1>1. /\ MovePackages(c, present) /\ speed_fb' = Speed(c) /\ speed_node' = speed_node
      /\ package_counter' = IF Spawns(c) THEN package_counter + 1 ELSE package_counter
  BY DEF Tick
<1> HIDE DEF c
<1>2. speed_fb' \in Int /\ speed_node' \in Int
  BY <1>1 DEF Speed, CountInvariant
<1>3. /\ \A i \in DOMAIN present : present[i] \in Package
      /\ package_counter' \in Nat \ {0}
      /\ DOMAIN present \subseteq 1..package_counter' - 1
      /\ IsFiniteSet(DOMAIN present)
      /\ total_count + Cardinality(DOMAIN present) = package_counter' - 1
  BY <1>1, PresentPackages
<1> HIDE DEF present
<1>4. /\ DOMAIN packages' \subseteq DOMAIN present
      /\ \A i \in DOMAIN packages' : packages'[i] \in Package
      /\ total_count' \in Nat /\ lane_count' \in [Targets -> Nat]
      /\ total_count' + Cardinality(DOMAIN packages')
           = total_count + Cardinality(DOMAIN present)
      /\ total_count' = lane_count'[1] + lane_count'[2] + lane_count'[9]
  BY <1>1, <1>2, <1>3, CountedWhenLeaving
<1> QED
  BY <1>2, <1>3, <1>4 DEF CountInvariant, EachCountedOnce

LEMMA TwinStepCounts ==
  ASSUME DigitalTwinAssumption, CountInvariant, [TwinNext]_twinVars
  PROVE  CountInvariant'
<1>1. CASE UNCHANGED twinVars
  BY <1>1 DEF twinVars, cellVars, CountInvariant, EachCountedOnce
<1>2. CASE Loop
  <2>1. ASSUME NEW target \in Targets, Tick(target) PROVE CountInvariant'
    BY <2>1, TickCounts
  <2>2. CASE Publish
    BY <2>2 DEF Publish, cellVars, CountInvariant, EachCountedOnce
  <2> QED
    BY <1>2, <2>1, <2>2 DEF Loop
<1>3. CASE Client
  <2>1. CASE start_cell \/ stop_cell \/ reset_jam
    BY <2>1 DEF start_cell, stop_cell, reset_jam, methodVars, CountInvariant,
                EachCountedOnce
  <2>2. ASSUME NEW speed \in Speeds, WriteSpeed(speed) PROVE CountInvariant'
    <3>1. speed \in Int
      BY DEF DigitalTwinAssumption
    <3> QED
      BY <2>2, <3>1 DEF WriteSpeed, cellVars, CountInvariant, EachCountedOnce
  <2>3. ASSUME NEW d \in Diverters, WriteCommand(d) PROVE CountInvariant'
    BY <2>3 DEF WriteCommand, cellVars, CountInvariant, EachCountedOnce
  <2> QED
    BY <1>3, <2>1, <2>2, <2>3 DEF Client
<1> QED
  BY <1>1, <1>2, <1>3 DEF TwinNext

LEMMA CountInit == TwinInit => CountInvariant
<1> SUFFICES ASSUME TwinInit PROVE CountInvariant
  OBVIOUS
<1>1. /\ package_counter = 1 /\ packages = << >> /\ speed_fb = 0
      /\ speed_node = NominalSpeed /\ total_count = 0
      /\ lane_count = [t \in Targets |-> 0]
  BY DEF TwinInit, CellInit, NamespaceInit
<1>2. DOMAIN packages = {} /\ Cardinality(DOMAIN packages) = 0
  BY <1>1, FS_EmptySet
<1>3. {1, 2, 9} \subseteq Targets
  BY DEF Targets, Diverters, RejectTarget
<1> QED
  BY <1>1, <1>2, <1>3, DigitalTwinAssumption
     DEF CountInvariant, EachCountedOnce, DigitalTwinAssumption

\* Every package is in the cell or has been counted once, and in one lane, for
\* any number of packages, stops, jams, resets and writes.
THEOREM CountedOnceCorrect == TwinSpec => []EachCountedOnce
<1>1. CountInvariant /\ [TwinNext]_twinVars => CountInvariant'
  BY TwinStepCounts, DigitalTwinAssumption
<1>2. CountInvariant => EachCountedOnce
  BY DEF CountInvariant
<1> QED
  BY <1>1, <1>2, CountInit, PTL DEF TwinSpec

------------------------------------------------------------------------------
(* Types.  Each section of the control part turns the record of a cell into  *)
(* another one; packages stay packages, and a read has a target.             *)

Cell == [state : {STOPPED, STARTING, EXECUTE, HOLDING, HELD, UNHOLDING,
                  STOPPING, IDLE},
         running : BOOLEAN, faulted : BOOLEAN, state_timer : Nat,
         pe2_block_timer : 0..JamTicks, jam_clear_hold : 0..ClearTicks,
         force_jam_pe2 : BOOLEAN, jammed_pkg_id : Int, total_jams : Nat]

TwinPackage == [target : Targets, position : Nat, diverted : BOOLEAN,
                exit_timer : 0..ExitTicks]

Reading == [trigger : BOOLEAN, success : BOOLEAN, barcode : Targets \cup {0}]

\* A set of numbers below a bound has a least and a greatest member.
LEMMA LeastExists ==
  ASSUME NEW S, S \subseteq Nat, S # {}
  PROVE  \E i \in S : \A j \in S : i <= j
<1>1. PICK i \in S : \A j \in S : ~(<<j, i>> \in OpToRel(<, Nat))
  BY NatLessThanWellFounded, WFMin, Zenon
<1>2. ASSUME NEW j \in S PROVE i <= j
  <2>1. i \in Nat /\ j \in Nat
    OBVIOUS
  <2>2. ~(j < i)
    BY <1>1, <2>1 DEF OpToRel
  <2> QED
    BY <2>1, <2>2
<1> QED
  BY <1>2

LEMMA GreatestExists ==
  ASSUME NEW S, NEW n \in Nat, S \subseteq 0..n, S # {}
  PROVE  \E i \in S : \A j \in S : j <= i
<1> DEFINE above == {m \in Nat : \A j \in S : j <= m}
<1>1. n \in above
  OBVIOUS
<1>2. PICK m \in above : \A k \in above : m <= k
  BY <1>1, LeastExists
<1>3. m \in S
  <2> SUFFICES ASSUME m \notin S PROVE FALSE
    OBVIOUS
  <2>1. \A j \in S : j \in Nat /\ j < m
    OBVIOUS
  <2>2. m - 1 \in Nat
    <3>1. PICK j \in S : j \in Nat /\ j < m
      BY <2>1
    <3> QED
      BY <3>1
  <2>3. \A j \in S : j <= m - 1
    BY <2>1
  <2>4. m - 1 \in above
    BY <2>2, <2>3
  <2>5. m <= m - 1
    BY <1>2, <2>4
  <2> QED
    BY <2>2, <2>5
<1> QED
  BY <1>3

\* What the control part of an iteration makes of a cell is a cell.
LEMMA ControlTypes ==
  ASSUME DigitalTwinAssumption, cell \in Cell, NEW now \in Nat,
         package_counter \in Nat \ {0}, DOMAIN packages \subseteq 1..package_counter - 1
  PROVE  Controlled(now) \in Cell
<1>0. /\ TransitionTicks \in Nat /\ JamTicks \in Nat \ {0} /\ ClearTicks \in Nat \ {0}
      /\ 0 \in 0..JamTicks /\ 0 \in 0..ClearTicks
  BY DEF DigitalTwinAssumption
<1> USE DEF Cell, STOPPED, STARTING, EXECUTE, HOLDING, HELD, UNHOLDING, STOPPING, IDLE
<1>1. ASSUME NEW c \in Cell PROVE Scheduled(c, now) \in Cell
  BY DEF Scheduled
<1>2. ASSUME NEW c \in Cell PROVE Transitioned(c) \in Cell
  <2>1. PICK r \in BOOLEAN : r = (c.running /\ c.state # STOPPING)
    BY Zenon
  <2>2. CASE Transitioned(c) = c
    BY <2>2
  <2>3. CASE Transitioned(c) = [c EXCEPT !.state_timer = c.state_timer + 1]
    BY <2>3
  <2>4. ASSUME NEW s \in {STOPPED, EXECUTE},
               Transitioned(c) = [c EXCEPT !.state_timer = 0, !.state = s, !.running = r]
        PROVE  Transitioned(c) \in Cell
    <3> DEFINE d == [c EXCEPT !.state_timer = 0]
    <3>1. d \in Cell
      OBVIOUS
    <3> HIDE DEF d
    <3>2. [d EXCEPT !.state = s, !.running = r] \in Cell
      BY <3>1
    <3> QED
      BY <2>4, <3>2 DEF d
  <2> QED
    BY <2>1, <2>2, <2>3, <2>4 DEF Transitioned
<1>3. ASSUME NEW c \in Cell PROVE Watched(c) \in Cell
  <2> DEFINE timer == IF c.pe2_block_timer < JamTicks THEN c.pe2_block_timer + 1
                      ELSE JamTicks
  <2>1. timer \in 0..JamTicks
    BY <1>0
  <2>2. \/ Watched(c) = [c EXCEPT !.pe2_block_timer = 0]
        \/ Watched(c) = [c EXCEPT !.pe2_block_timer = timer, !.faulted = TRUE,
                                  !.state = HOLDING, !.total_jams = c.total_jams + 1]
        \/ Watched(c) = [c EXCEPT !.pe2_block_timer = timer]
    BY DEF Watched
  <2> HIDE DEF timer
  <2>3. [c EXCEPT !.pe2_block_timer = 0] \in Cell
    BY <1>0
  <2>4. [c EXCEPT !.pe2_block_timer = timer] \in Cell
    BY <2>1
  <2>5. [c EXCEPT !.pe2_block_timer = timer, !.faulted = TRUE,
                  !.state = HOLDING, !.total_jams = c.total_jams + 1] \in Cell
    <3> DEFINE d == [c EXCEPT !.pe2_block_timer = timer]
               e == [d EXCEPT !.faulted = TRUE, !.state = HOLDING]
    <3>1. d \in Cell /\ d.total_jams = c.total_jams
      BY <2>4
    <3> HIDE DEF d
    <3>2. e \in Cell /\ e.total_jams = c.total_jams
      BY <3>1
    <3> HIDE DEF e
    <3>3. [e EXCEPT !.total_jams = c.total_jams + 1] \in Cell
      BY <3>2
    <3> QED
      BY <3>3 DEF d, e
  <2> QED
    BY <2>2, <2>3, <2>4, <2>5
<1>4. ASSUME NEW c \in Cell PROVE Held(c) \in Cell
  <2>1. CASE Held(c) = c
    BY <2>1
  <2>2. CASE Held(c) = [c EXCEPT !.state_timer = c.state_timer + 1]
    BY <2>2
  <2>3. CASE Held(c) = [c EXCEPT !.state_timer = 0, !.state = HELD]
    <3> DEFINE d == [c EXCEPT !.state_timer = 0]
    <3>1. d \in Cell
      OBVIOUS
    <3> HIDE DEF d
    <3>2. [d EXCEPT !.state = HELD] \in Cell
      BY <3>1
    <3> QED
      BY <2>3, <3>2 DEF d
  <2> QED
    BY <2>1, <2>2, <2>3 DEF Held
<1>5. ASSUME NEW c \in Cell PROVE Injected(c, now) \in Cell
  <2> DEFINE last == CHOOSE i \in DOMAIN packages : \A j \in DOMAIN packages : j <= i
  <2>1. DOMAIN packages # {} => last \in Int
    <3>1. package_counter - 1 \in Nat /\ DOMAIN packages \subseteq 0..package_counter - 1
      OBVIOUS
    <3>2. DOMAIN packages # {} =>
            \E i \in DOMAIN packages : \A j \in DOMAIN packages : j <= i
      BY <3>1, GreatestExists
    <3>3. DOMAIN packages # {} => last \in DOMAIN packages
      BY <3>2
    <3> QED
      BY <3>3
  <2>2. CASE Injected(c, now) = c
    BY <2>2
  <2>3. CASE Injected(c, now) # c
    <3>1. DOMAIN packages # {} /\ Injected(c, now) =
            [c EXCEPT !.force_jam_pe2 = TRUE, !.jammed_pkg_id = last]
      BY <2>3 DEF Injected
    <3> HIDE DEF last
    <3> QED
      BY <2>1, <3>1
  <2> QED
    BY <2>2, <2>3
<1>6. ASSUME NEW c \in Cell PROVE Cleared(c) \in Cell
  <2>1. CASE Cleared(c) = c
    BY <2>1
  <2>2. CASE Cleared(c) = [c EXCEPT !.jam_clear_hold = c.jam_clear_hold + 1]
             /\ c.jam_clear_hold + 1 < ClearTicks
    BY <1>0, <2>2
  <2>3. CASE Cleared(c) = [c EXCEPT !.jam_clear_hold = 0, !.faulted = FALSE,
                     !.force_jam_pe2 = FALSE, !.state = UNHOLDING, !.state_timer = 0]
    <3> DEFINE d == [c EXCEPT !.jam_clear_hold = 0, !.faulted = FALSE]
               e == [d EXCEPT !.force_jam_pe2 = FALSE, !.state = UNHOLDING]
    <3>1. d \in Cell
      BY <1>0
    <3> HIDE DEF d
    <3>2. e \in Cell
      BY <3>1
    <3> HIDE DEF e
    <3>3. [e EXCEPT !.state_timer = 0] \in Cell
      BY <3>2
    <3> QED
      BY <2>3, <3>3 DEF d, e
  <2> QED
    BY <2>1, <2>2, <2>3 DEF Cleared
<1> QED
  BY <1>1, <1>2, <1>3, <1>4, <1>5, <1>6 DEF Controlled

LEMMA PackageTypes ==
  ASSUME DigitalTwinAssumption, NEW c, NEW present, speed_fb' \in Nat,
         \A i \in DOMAIN present : present[i] \in TwinPackage,
         MovePackages(c, present)
  PROVE  \A i \in DOMAIN packages' : packages'[i] \in TwinPackage
<1>0. ExitTicks \in Nat \ {0} /\ PE2_POS \in Nat /\ ExitTicks > 0
  BY DEF DigitalTwinAssumption
<1> DEFINE moved == [i \in DOMAIN present |-> Moved(c, i, present[i])]
           exited == {i \in DOMAIN present :
                        present[i].diverted /\ moved[i].exit_timer >= ExitTicks}
<1>1. packages' = [i \in DOMAIN present \ exited |-> moved[i]]
  BY DEF MovePackages
<1> SUFFICES ASSUME NEW i \in DOMAIN packages' PROVE packages'[i] \in TwinPackage
  OBVIOUS
<1>2. i \in DOMAIN present /\ i \notin exited /\ packages'[i] = Moved(c, i, present[i])
      /\ moved[i] = Moved(c, i, present[i])
  BY <1>1
<1> DEFINE p == present[i]
<1>3. p \in TwinPackage
  BY <1>2
<1>4. ~(p.diverted /\ Moved(c, i, p).exit_timer >= ExitTicks)
  BY <1>2
<1> HIDE DEF moved, exited, p
<1>5. CASE p.diverted
  <2>1. Moved(c, i, p) = [p EXCEPT !.exit_timer = p.exit_timer + 1]
    BY <1>5 DEF Moved
  <2>2. p.exit_timer + 1 \in 0..ExitTicks
    BY <1>0, <1>3, <1>4, <1>5, <2>1 DEF TwinPackage
  <2>3. Moved(c, i, p) \in TwinPackage
    BY <1>3, <2>1, <2>2 DEF TwinPackage
  <2> QED
    BY <1>2, <2>3 DEF p
<1>6. CASE ~p.diverted
  <2> DEFINE position == NewPosition(c, i, p)
  <2>1. position \in Nat
    BY <1>0, <1>3 DEF NewPosition, TwinPackage
  <2>2. PICK d \in BOOLEAN :
          Moved(c, i, p) = [p EXCEPT !.position = position, !.diverted = d]
    BY <1>6 DEF Moved
  <2> HIDE DEF position
  <2>3. Moved(c, i, p) \in TwinPackage
    BY <1>3, <2>1, <2>2 DEF TwinPackage
  <2> QED
    BY <1>2, <2>3 DEF p
<1> QED
  BY <1>5, <1>6

LEMMA ScanTypes ==
  ASSUME NEW c, NEW present, DOMAIN present \subseteq Nat,
         \A i \in DOMAIN present : present[i].target \in Targets,
         scanner \in Reading, Scan(c, present)
  PROVE  scanner' \in Reading
<1> DEFINE zone == {i \in DOMAIN present :
                      /\ ~present[i].diverted
                      /\ NewPosition(c, i, present[i]) \in
                           SCANNER_POS - ScanReach .. SCANNER_POS + ScanReach}
           first == CHOOSE i \in zone : \A j \in zone : i <= j
           reads == ~scanner.trigger /\ zone # {}
           barcode == IF reads THEN present[first].target ELSE scanner.barcode
           success == IF reads THEN barcode # RejectTarget ELSE scanner.success
           trigger == 2 \in pe' /\ (scanner.trigger \/ reads)
           kept == 2 \in pe' /\ success
<1>1. scanner' = [trigger |-> trigger, success |-> kept, barcode |-> barcode]
  BY DEF Scan
<1>2. zone # {} => first \in DOMAIN present
  <2>1. zone \subseteq Nat /\ zone \subseteq DOMAIN present
    OBVIOUS
  <2> HIDE DEF zone
  <2>2. zone # {} => \E i \in zone : \A j \in zone : i <= j
    BY <2>1, LeastExists
  <2>3. zone # {} => first \in zone
    BY <2>2
  <2> QED
    BY <2>1, <2>3
<1> HIDE DEF zone, first
<1>3. barcode \in Targets \cup {0}
  BY <1>2 DEF Reading
<1> HIDE DEF barcode
<1>4. success \in BOOLEAN
  BY DEF Reading
<1> HIDE DEF reads, success
<1>5. trigger \in BOOLEAN /\ kept \in BOOLEAN
  BY Zenon
<1> HIDE DEF trigger, kept
<1> QED
  BY <1>1, <1>3, <1>5 DEF Reading

LEMMA TickTypes ==
  ASSUME DigitalTwinAssumption, TwinTypeOK, CountInvariant, NEW target \in Targets,
         Tick(target)
  PROVE  TwinTypeOK'
<1> DEFINE now == IF demo_elapsed < InjectUntil THEN demo_elapsed + 1 ELSE demo_elapsed
           c == Controlled(now)
           present == Present(c, target)
<1>0. /\ CylinderTicks \in Nat \ {0} /\ InjectUntil \in Nat /\ SpawnTicks \in Nat
      /\ ExitTicks \in Nat /\ NominalSpeed \in Nat /\ Speeds \subseteq Nat
  BY DEF DigitalTwinAssumption
<1>1. /\ pc' = "publish" /\ demo_elapsed' = now /\ cell' = c /\ speed_fb' = Speed(c)
      /\ UNCHANGED <<speed_node, command_node, calls>>
      /\ spawn_timer' \in {0, spawn_timer, spawn_timer + 1}
      /\ package_counter' = IF Spawns(c) THEN package_counter + 1 ELSE package_counter
      /\ cylinder' = [d \in Diverters |-> Extending(command_node, d)]
      /\ MovePackages(c, present) /\ pe' = Blocked(c, present) /\ Scan(c, present)
      /\ extend' = Commands(c)
      /\ unattended' = unattended \cup LeftAlone(c, command_node, present)
  BY DEF Tick
<1>2. now \in 0..InjectUntil /\ now \in Nat
  BY <1>0 DEF TwinTypeOK
<1>3. c \in Cell
  <2>1. cell \in Cell
    BY DEF TwinTypeOK, Cell
  <2> HIDE DEF now
  <2> QED
    BY <1>2, <2>1, ControlTypes DEF TwinTypeOK
<1> HIDE DEF now, c
<1>4. speed_fb' \in Nat
  BY <1>0, <1>1 DEF Speed, TwinTypeOK
<1>5. /\ package_counter' \in Nat \ {0}
      /\ DOMAIN present \subseteq 1..package_counter' - 1
      /\ IsFiniteSet(DOMAIN present) /\ DOMAIN present \subseteq Nat
      /\ \A i \in DOMAIN present : present[i] \in Package
  BY <1>1, PresentPackages
<1>6. \A i \in DOMAIN present : present[i] \in TwinPackage
  <2>1. \A i \in DOMAIN packages : packages[i] \in TwinPackage
    BY DEF TwinTypeOK, TwinPackage
  <2>2. [target |-> target, position |-> 0, diverted |-> FALSE, exit_timer |-> 0]
          \in TwinPackage
    BY <1>0 DEF TwinPackage
  <2> QED
    BY <2>1, <2>2 DEF Present
<1> HIDE DEF present
<1>7. \A i \in DOMAIN packages' : packages'[i] \in TwinPackage
  BY <1>1, <1>4, <1>6, PackageTypes
<1>8. /\ DOMAIN packages' \subseteq DOMAIN present
      /\ total_count' \in Nat /\ lane_count' \in [Targets -> Nat]
  BY <1>1, <1>4, <1>5, CountedWhenLeaving
<1>9. scanner' \in Reading
  <2>1. scanner \in Reading
    BY DEF TwinTypeOK, Reading
  <2>2. \A i \in DOMAIN present : present[i].target \in Targets
    BY <1>6 DEF TwinPackage
  <2> QED
    BY <1>1, <1>5, <2>1, <2>2, ScanTypes
<1>10. cylinder' \in [Diverters -> 0..CylinderTicks]
  <2>1. ASSUME NEW d \in Diverters PROVE Extending(command_node, d) \in 0..CylinderTicks
    BY <1>0 DEF Extending, TwinTypeOK
  <2> QED
    BY <1>1, <2>1
<1>11. extend' \in [Diverters -> BOOLEAN]
  BY <1>1 DEF Commands
<1>12. pe' \subseteq 1..6
  BY <1>1 DEF Blocked
<1>13. unattended' \subseteq Nat
  <2>1. LeftAlone(c, command_node, present) \subseteq DOMAIN present
    BY DEF LeftAlone
  <2> QED
    BY <1>1, <1>5, <2>1 DEF TwinTypeOK
<1>14. spawn_timer' \in Nat /\ calls' \in Nat
  BY <1>1 DEF TwinTypeOK
<1>15. speed_node' \in Speeds \cup {NominalSpeed} /\ command_node' \in [Diverters -> BOOLEAN]
  BY <1>1 DEF TwinTypeOK
<1>16. cell' \in Cell /\ demo_elapsed' \in 0..InjectUntil /\ pc' \in {"sleep", "publish"}
  BY <1>1, <1>2, <1>3
<1>17. DOMAIN packages' \subseteq 1..package_counter' - 1
  BY <1>5, <1>8
<1> QED
  BY <1>4, <1>5, <1>7, <1>8, <1>9, <1>10, <1>11, <1>12, <1>13, <1>14, <1>15, <1>16, <1>17
     DEF TwinTypeOK, Cell, TwinPackage, Reading

LEMMA ClientTypes ==
  ASSUME DigitalTwinAssumption, TwinTypeOK, Client
  PROVE  TwinTypeOK'
<1> USE DEF STOPPED, STARTING, EXECUTE, HOLDING, HELD, UNHOLDING, STOPPING, IDLE
<1>0. cell \in Cell
  BY DEF TwinTypeOK, Cell
<1>1. CASE start_cell
  <2>1. cell' \in Cell
    BY <1>0, <1>1 DEF start_cell, Cell
  <2> QED
    BY <1>1, <2>1 DEF start_cell, Called, methodVars, TwinTypeOK, Cell
<1>2. CASE stop_cell
  <2>1. cell' \in Cell
    BY <1>0, <1>2 DEF stop_cell, Cell
  <2> QED
    BY <1>2, <2>1 DEF stop_cell, Called, methodVars, TwinTypeOK, Cell
<1>3. CASE reset_jam
  <2>1. cell' \in Cell
    BY <1>0, <1>3 DEF reset_jam, Cell
  <2> QED
    BY <1>3, <2>1 DEF reset_jam, Called, methodVars, TwinTypeOK, Cell
<1>4. ASSUME NEW speed \in Speeds, WriteSpeed(speed) PROVE TwinTypeOK'
  BY <1>4 DEF WriteSpeed, Called, cellVars, TwinTypeOK
<1>5. ASSUME NEW d \in Diverters, WriteCommand(d) PROVE TwinTypeOK'
  <2>1. command_node' \in [Diverters -> BOOLEAN]
    BY <1>5 DEF WriteCommand, TwinTypeOK
  <2> QED
    BY <1>5, <2>1 DEF WriteCommand, Called, cellVars, TwinTypeOK
<1> QED
  BY <1>1, <1>2, <1>3, <1>4, <1>5 DEF Client

LEMMA TwinStepTypes ==
  ASSUME DigitalTwinAssumption, TwinTypeOK, CountInvariant, [TwinNext]_twinVars
  PROVE  TwinTypeOK'
<1>1. CASE UNCHANGED twinVars
  BY <1>1 DEF twinVars, cellVars, TwinTypeOK
<1>2. CASE Publish
  BY <1>2 DEF Publish, cellVars, TwinTypeOK
<1> QED
  BY <1>1, <1>2, TickTypes, ClientTypes DEF TwinNext, Loop

\* For any times, places and sizes: timers and strokes stay in range, what is in
\* the cell has a number given out before, and what the demo jams and what the
\* scanner reads are a package and a target that exist.
THEOREM TwinTypeCorrect == TwinSpec => []TwinTypeOK
<1>1. TwinInit => TwinTypeOK
  <2> SUFFICES ASSUME TwinInit PROVE TwinTypeOK
    OBVIOUS
  <2>1. 0 \in 0..JamTicks /\ 0 \in 0..ClearTicks /\ 0 \in 0..CylinderTicks
        /\ 0 \in 0..InjectUntil
    BY DigitalTwinAssumption DEF DigitalTwinAssumption
  <2>2. cell \in Cell
    BY <2>1 DEF TwinInit, CellInit, Cell, STOPPED, STARTING, EXECUTE, HOLDING, HELD,
                UNHOLDING, STOPPING, IDLE
  <2>3. DOMAIN packages = {}
    BY DEF TwinInit, CellInit
  <2>4. scanner \in Reading
    BY DEF TwinInit, CellInit, Reading
  <2> QED
    BY <2>1, <2>2, <2>3, <2>4, DigitalTwinAssumption
       DEF TwinInit, CellInit, NamespaceInit, LoopInit, TwinTypeOK, Cell, Reading
<1>2. TwinTypeOK /\ CountInvariant /\ [TwinNext]_twinVars => TwinTypeOK'
  BY TwinStepTypes, DigitalTwinAssumption
<1>3. CountInvariant /\ [TwinNext]_twinVars => CountInvariant'
  BY TwinStepCounts, DigitalTwinAssumption
<1> QED
  BY <1>1, <1>2, <1>3, CountInit, PTL DEF TwinSpec

------------------------------------------------------------------------------
(* No lane package that was attended misses its pusher.  In its window such  *)
(* a package runs at the nominal speed under a command to its pusher, and    *)
(* has come no further than the stroke that the pusher has made allows; the  *)
(* pusher comes to its end first, and takes the package off the belt.        *)

Start(d) == DivPos[d] - DivReach

InTime(i) ==
  LET p == packages[i]
  IN p.target \in Diverters /\ i \notin unattended =>
       /\ p.position <= DivPos[p.target] + DivReach
       /\ ~p.diverted /\ InWindow(p.position, p.target) =>
            /\ extend[p.target] /\ cylinder[p.target] < CylinderTicks
            /\ speed_fb = NominalSpeed
            /\ p.position < Start(p.target) + NominalSpeed * (cylinder[p.target] + 1)

MissInvariant ==
  /\ \A i \in DOMAIN packages : InTime(i)
  /\ speed_fb <= 2 * DivReach + 1

LEMMA OneTickFurther ==
  ASSUME NEW speed \in Nat, NEW stroke \in Nat
  PROVE  /\ speed * (stroke + 1) \in Nat /\ speed <= speed * (stroke + 1)
         /\ speed * (stroke + 1) + speed = speed * ((stroke + 1) + 1)
<1>1. speed * stroke \in Nat
  OBVIOUS
<1> QED
  BY <1>1

\* What is left of a stroke takes no longer than what is left of the window.
LEMMA StrokeFits ==
  ASSUME NEW speed \in Nat, NEW stroke \in Nat, NEW full \in Nat, stroke < full,
         NEW window \in Nat, (full + 1) * speed <= window
  PROVE  speed * (stroke + 1) + speed <= window
<1>1. PICK rest \in Nat : full = (stroke + 1) + rest
  <2>1. full - (stroke + 1) \in Nat /\ full = (stroke + 1) + (full - (stroke + 1))
    OBVIOUS
  <2> QED
    BY <2>1
<1>2. speed * rest \in Nat
  OBVIOUS
<1>3. (full + 1) * speed = (speed * (stroke + 1) + speed) + speed * rest
  BY <1>1
<1> QED
  BY <1>2, <1>3

\* A package that is on the belt before a tick, from a place at which it is in
\* time, is not behind its window after the tick.
LEMMA NotBehindWindow ==
  ASSUME DigitalTwinAssumption, PushersReach, NEW t \in Diverters, NEW from \in Nat,
         NEW speed \in Nat, NEW before \in Nat, NEW stroke \in Nat,
         speed <= 2 * DivReach + 1, speed <= before + 1,
         from >= Start(t) => /\ stroke < CylinderTicks /\ before = NominalSpeed
                             /\ from < Start(t) + NominalSpeed * (stroke + 1)
  PROVE  from + speed <= DivPos[t] + DivReach
<1>1. /\ DivPos[t] \in Nat /\ DivReach \in Nat /\ NominalSpeed \in Nat
      /\ CylinderTicks \in Nat /\ (CylinderTicks + 1) * NominalSpeed <= 2 * DivReach
  BY DEF DigitalTwinAssumption, PushersReach, DivPos
<1>2. CASE from < Start(t)
  BY <1>1, <1>2 DEF Start
<1>3. CASE ~(from < Start(t))
  <2> DEFINE reached == NominalSpeed * (stroke + 1)
  <2>1. Start(t) \in Int /\ from >= Start(t)
    BY <1>1, <1>3 DEF Start
  <2>2. stroke < CylinderTicks /\ speed <= NominalSpeed + 1 /\ from < Start(t) + reached
    BY <2>1
  <2>3. reached \in Nat
    BY <1>1, OneTickFurther
  <2>4. 2 * DivReach \in Nat
    BY <1>1
  <2>5. reached + NominalSpeed <= 2 * DivReach
    BY <1>1, <2>2, <2>4, StrokeFits
  <2> HIDE DEF reached
  <2> QED
    BY <1>1, <2>1, <2>2, <2>3, <2>5 DEF Start
<1> QED
  BY <1>2, <1>3

\* In its window it has come as far as the stroke allows, one tick further.
LEMMA FurtherInWindow ==
  ASSUME DigitalTwinAssumption, NEW t \in Diverters, NEW from \in Nat,
         NEW stroke \in Nat, NEW next \in Nat,
         from >= Start(t) => /\ next = stroke + 1
                             /\ from < Start(t) + NominalSpeed * (stroke + 1)
  PROVE  from + NominalSpeed < Start(t) + NominalSpeed * (next + 1)
<1>1. /\ Start(t) \in Int /\ NominalSpeed \in Nat
  BY DEF DigitalTwinAssumption, Start, DivPos
<1>2. /\ NominalSpeed * (next + 1) \in Nat /\ NominalSpeed <= NominalSpeed * (next + 1)
      /\ NominalSpeed * (stroke + 1) \in Nat
      /\ NominalSpeed * (stroke + 1) + NominalSpeed = NominalSpeed * ((stroke + 1) + 1)
  BY <1>1, OneTickFurther
<1> DEFINE further == NominalSpeed * (next + 1)
           reached == NominalSpeed * (stroke + 1)
<1>3. next = stroke + 1 => further = reached + NominalSpeed
  BY <1>2
<1> HIDE DEF further, reached
<1>4. further \in Nat /\ NominalSpeed <= further /\ reached \in Nat
  BY <1>2 DEF further, reached
<1>5. from >= Start(t) => next = stroke + 1 /\ from < Start(t) + reached
  BY DEF reached
<1>6. from + NominalSpeed < Start(t) + further
  BY <1>1, <1>3, <1>4, <1>5
<1> QED
  BY <1>6 DEF further

LEMMA BeltSpeedBound ==
  ASSUME DigitalTwinAssumption, PushersReach, TwinTypeOK, MissInvariant, NEW c
  PROVE  Speed(c) \in Nat /\ Speed(c) <= 2 * DivReach + 1 /\ Speed(c) <= speed_fb + 1
<1>1. /\ DivReach \in Nat /\ speed_fb \in Nat /\ speed_fb <= 2 * DivReach + 1
      /\ speed_node \in Nat /\ speed_node <= 2 * DivReach + 1
  BY DEF DigitalTwinAssumption, PushersReach, TwinTypeOK, MissInvariant
<1> QED
  BY <1>1 DEF Speed

LEMMA TickInTime ==
  ASSUME DigitalTwinAssumption, PushersReach, TwinTypeOK, TwinTypeOK', MissInvariant,
         NEW target \in Targets, Tick(target), NEW i \in DOMAIN packages'
  PROVE  InTime(i)'
<1> DEFINE now == IF demo_elapsed < InjectUntil THEN demo_elapsed + 1 ELSE demo_elapsed
           c == Controlled(now)
           present == Present(c, target)
           p == present[i]
           t == p.target
           moved == [j \in DOMAIN present |-> Moved(c, j, present[j])]
           exited == {j \in DOMAIN present :
                        present[j].diverted /\ moved[j].exit_timer >= ExitTicks}
<1>1. /\ speed_fb' = Speed(c)
      /\ cylinder' = [d \in Diverters |-> Extending(command_node, d)]
      /\ packages' = [j \in DOMAIN present \ exited |-> moved[j]]
      /\ extend' = Commands(c)
      /\ unattended' = unattended \cup LeftAlone(c, command_node, present)
  BY DEF Tick, MovePackages
<1>2. i \in DOMAIN present /\ packages'[i] = Moved(c, i, p)
  BY <1>1
<1>3. \/ i \in DOMAIN packages /\ p = packages[i]
      \/ p.position = 0 /\ ~p.diverted
  BY <1>2 DEF Present
<1>4. p.position \in Nat /\ p.diverted \in BOOLEAN
  BY <1>2 DEF Present, TwinTypeOK
<1> HIDE DEF c, moved, exited
<1>5. /\ speed_fb' \in Nat /\ speed_fb' <= 2 * DivReach + 1 /\ speed_fb' <= speed_fb + 1
      /\ speed_fb \in Nat
  BY <1>1, BeltSpeedBound DEF TwinTypeOK
<1>6. packages'[i].target = t
  BY <1>2 DEF Moved
<1> SUFFICES ASSUME t \in Diverters, i \notin unattended'
             PROVE  LET q == packages'[i]
                    IN /\ q.position <= DivPos[t] + DivReach
                       /\ ~q.diverted /\ InWindow(q.position, t) =>
                            /\ extend'[t] /\ cylinder'[t] < CylinderTicks
                            /\ speed_fb' = NominalSpeed
                            /\ q.position < Start(t) + NominalSpeed * (cylinder'[t] + 1)
  BY <1>6 DEF InTime
<1>7. i \notin unattended /\ i \notin LeftAlone(c, command_node, present)
  BY <1>1
<1>8. /\ DivPos[t] \in Nat /\ DivReach \in Nat /\ PE2_POS \in Nat /\ Start(t) \in Int
      /\ Start(t) > PE2_POS /\ Start(t) > 0 /\ Start(t) <= DivPos[t] + DivReach
  BY DEF DigitalTwinAssumption, PushersReach, DivPos, Start
<1>9. CASE p.diverted
  <2>1. packages'[i].position = p.position /\ packages'[i].diverted
    <3>1. packages'[i] = [p EXCEPT !.exit_timer = p.exit_timer + 1]
      BY <1>2, <1>9 DEF Moved
    <3> QED
      BY <1>9, <3>1, <1>3, <1>2 DEF Present, TwinTypeOK
  <2>2. InTime(i) /\ p = packages[i]
    BY <1>3, <1>9 DEF MissInvariant
  <2> QED
    BY <1>7, <2>1, <2>2 DEF InTime
<1>10. CASE ~p.diverted
  <2> DEFINE position == NewPosition(c, i, p)
             off == \/ /\ t \in Diverters /\ InWindow(position, t)
                       /\ cylinder'[t] = CylinderTicks
                    \/ position >= PE6_POS
  <2>1. packages'[i].position = position /\ packages'[i].diverted = off
    <3>1. packages'[i] = [p EXCEPT !.position = position, !.diverted = off]
      BY <1>2, <1>10 DEF Moved
    <3>2. p \in [target : Targets, position : Nat, diverted : BOOLEAN, exit_timer : Nat]
      <4>1. ExitTicks \in Nat
        BY DEF DigitalTwinAssumption
      <4> QED
        BY <1>2, <4>1 DEF Present, TwinTypeOK
    <3> HIDE DEF position, off
    <3> QED
      BY <3>1, <3>2
  <2>2. position \in {PE2_POS, p.position + speed_fb'}
    BY DEF NewPosition
  <2>3. p.position >= Start(t) =>
          /\ cylinder[t] < CylinderTicks /\ speed_fb = NominalSpeed /\ extend[t]
          /\ p.position < Start(t) + NominalSpeed * (cylinder[t] + 1)
    <3> SUFFICES ASSUME p.position >= Start(t)
                 PROVE  /\ cylinder[t] < CylinderTicks /\ speed_fb = NominalSpeed
                        /\ extend[t]
                        /\ p.position < Start(t) + NominalSpeed * (cylinder[t] + 1)
      OBVIOUS
    <3>1. i \in DOMAIN packages /\ p = packages[i]
      BY <1>3, <1>8
    <3>2. p.position <= DivPos[t] + DivReach
      BY <1>7, <3>1 DEF InTime, MissInvariant
    <3>3. InWindow(p.position, t)
      BY <3>2 DEF InWindow, Start
    <3> QED
      BY <1>7, <1>10, <3>1, <3>3 DEF InTime, MissInvariant
  <2>4. cylinder[t] \in Nat /\ cylinder'[t] \in 0..CylinderTicks /\ CylinderTicks \in Nat
    BY DEF TwinTypeOK, DigitalTwinAssumption
  <2>5. p.position + speed_fb' <= DivPos[t] + DivReach
    BY <1>4, <1>5, <2>3, <2>4, NotBehindWindow
  <2> HIDE DEF position
  <2>6. position <= DivPos[t] + DivReach
    BY <1>8, <2>2, <2>5
  <2>7. ASSUME ~packages'[i].diverted, InWindow(position, t)
        PROVE  /\ extend'[t] /\ cylinder'[t] < CylinderTicks
               /\ speed_fb' = NominalSpeed
               /\ position < Start(t) + NominalSpeed * (cylinder'[t] + 1)
    <3>1. cylinder'[t] # CylinderTicks
      BY <2>1, <2>7
    <3>2. /\ c.state = EXECUTE /\ ~c.faulted /\ command_node = extend
          /\ speed_fb' = NominalSpeed
      BY <1>2, <1>7, <1>10, <2>7 DEF LeftAlone, position
    <3>3. extend'[t]
      BY <1>1, <1>6, <2>1, <2>7, <3>2 DEF Commands
    <3>4. extend[t] /\ cylinder[t] < CylinderTicks => cylinder'[t] = cylinder[t] + 1
      BY <1>1, <3>2 DEF Extending
    <3>5. position = p.position + NominalSpeed
      BY <1>8, <2>2, <2>7, <3>2 DEF InWindow, Start
    <3>6. cylinder'[t] \in Nat
      BY <2>4
    <3>7. p.position >= Start(t) =>
            /\ cylinder'[t] = cylinder[t] + 1
            /\ p.position < Start(t) + NominalSpeed * (cylinder[t] + 1)
      BY <2>3, <3>4
    <3>8. p.position + NominalSpeed < Start(t) + NominalSpeed * (cylinder'[t] + 1)
      BY <1>4, <2>4, <3>6, <3>7, FurtherInWindow
    <3> QED
      BY <2>4, <3>1, <3>2, <3>3, <3>5, <3>8
  <2> QED
    BY <2>1, <2>6, <2>7
<1> QED
  BY <1>4, <1>9, <1>10

LEMMA MissStep ==
  ASSUME DigitalTwinAssumption, PushersReach, TwinTypeOK, TwinTypeOK', MissInvariant,
         [TwinNext]_twinVars
  PROVE  MissInvariant'
<1>1. ASSUME UNCHANGED <<packages, unattended, extend, cylinder, speed_fb>>
      PROVE  MissInvariant'
  BY <1>1 DEF MissInvariant, InTime
<1>2. ASSUME NEW target \in Targets, Tick(target) PROVE MissInvariant'
  <2>1. speed_fb' <= 2 * DivReach + 1
    <3>1. PICK c : speed_fb' = Speed(c)
      BY <1>2 DEF Tick
    <3> QED
      BY <3>1, BeltSpeedBound
  <2> QED
    BY <1>2, <2>1, TickInTime DEF MissInvariant
<1>3. CASE Publish
  BY <1>1, <1>3 DEF Publish, cellVars
<1>4. CASE Client
  BY <1>1, <1>4 DEF Client, start_cell, stop_cell, reset_jam, WriteSpeed, WriteCommand,
                    methodVars, cellVars
<1>5. CASE UNCHANGED twinVars
  BY <1>1, <1>5 DEF twinVars, cellVars
<1> QED
  BY <1>2, <1>3, <1>4, <1>5 DEF TwinNext, Loop

\* On a belt whose windows are long enough for a stroke at nominal speed: a lane
\* package reaches the end of the belt only if the cell did not execute, the
\* belt ran at another speed or a client had written a command while the package
\* was in front of its pusher.
THEOREM MissedCorrect ==
  ASSUME PushersReach
  PROVE  TwinSpec => []MissedOnlyUnattended
<1>1. TwinInit => MissInvariant
  <2>1. TwinInit => DOMAIN packages = {} /\ speed_fb = 0
    BY DEF TwinInit, CellInit
  <2>2. DivReach \in Nat
    BY DigitalTwinAssumption DEF DigitalTwinAssumption
  <2> QED
    BY <2>1, <2>2 DEF MissInvariant
<1>2. TwinTypeOK /\ TwinTypeOK' /\ MissInvariant /\ [TwinNext]_twinVars => MissInvariant'
  BY MissStep, DigitalTwinAssumption
<1>3. TwinTypeOK /\ MissInvariant => MissedOnlyUnattended
  <2> SUFFICES ASSUME TwinTypeOK, MissInvariant, NEW i \in DOMAIN packages,
                      packages[i].target \in Diverters, i \notin unattended
               PROVE  ~(packages[i].position >= PE6_POS)
    BY DEF MissedOnlyUnattended
  <2> DEFINE t == packages[i].target
  <2>1. packages[i].position <= DivPos[t] + DivReach /\ packages[i].position \in Nat
    BY DEF MissInvariant, InTime, TwinTypeOK
  <2>2. DivPos[t] + DivReach < PE6_POS /\ DivPos[t] + DivReach \in Nat /\ PE6_POS \in Nat
    BY DigitalTwinAssumption DEF PushersReach, DigitalTwinAssumption, DivPos
  <2> QED
    BY <2>1, <2>2
<1> QED
  BY <1>1, <1>2, <1>3, TwinTypeCorrect, PTL DEF TwinSpec

------------------------------------------------------------------------------
(* A jam is counted once.  Without a call of a client the demo's timeline is *)
(* fixed: the cell is started, packages come by the clock, the last of them  *)
(* is jammed at PE2 with the others past it, found and taken away; and the   *)
(* watchdog never gets ahead of a package that moves through the beam.  With *)
(* calls, what has been counted and what can still be is no more than them.  *)

\* The packages on the belt, where they are, and those in the beam of PE2
OnBelt == {i \in DOMAIN packages : ~packages[i].diverted}
Pos(i) == packages[i].position
InBeam(i) == PE2_POS - Width <= Pos(i) /\ Pos(i) <= PE2_POS

\* The last package stands at PE2, the others are behind it.
Stuck(i) ==
  /\ i \in OnBelt /\ Pos(i) = PE2_POS /\ \A j \in DOMAIN packages : j <= i
  /\ \A j \in OnBelt : j # i => Pos(j) > PE2_POS
Jammed == cell.force_jam_pe2 /\ Stuck(cell.jammed_pkg_id)

\* Where a cell is that nobody has called.
CalmControl ==
  /\ speed_node = NominalSpeed
  /\ cell.state \in {IDLE, STARTING, EXECUTE, HOLDING, HELD, UNHOLDING}
  /\ cell.running = (cell.state # IDLE)
  /\ cell.faulted = (cell.state \in {HOLDING, HELD})
  /\ cell.state \in {IDLE, STARTING} =>
       /\ cell.total_jams = 0 /\ ~cell.force_jam_pe2
       /\ DOMAIN packages = {} /\ package_counter = 1 /\ spawn_timer = 0
  /\ cell.state = IDLE => cell.state_timer = 0 /\ (demo_elapsed < DemoStart \/ StartUntil <= DemoStart)
  /\ cell.state = STARTING =>
       cell.state_timer = demo_elapsed - DemoStart + 1 /\ cell.state_timer < TransitionTicks
  /\ cell.state \in {HOLDING, HELD} => cell.total_jams = 1 /\ Jammed
  /\ cell.state = UNHOLDING => cell.total_jams = 1 /\ ~cell.force_jam_pe2
  /\ cell.state = EXECUTE =>
       cell.total_jams = 0 \/ (cell.total_jams = 1 /\ ~cell.force_jam_pe2)
  /\ cell.total_jams = 1 => demo_elapsed = InjectUntil
  /\ cell.force_jam_pe2 =>
       /\ cell.jammed_pkg_id < package_counter /\ demo_elapsed >= InjectFrom
       /\ cell.jammed_pkg_id \in OnBelt => Jammed

CalmSpeed ==
  /\ speed_fb <= NominalSpeed
  /\ cell.state \in {STARTING, UNHOLDING} =>
       speed_fb = NominalSpeed \/ speed_fb >= cell.state_timer
  /\ cell.state = EXECUTE => speed_fb = NominalSpeed

\* Packages are supplied by the clock of the demo, and none from the jam to its
\* discovery.
CalmSupply ==
  /\ spawn_timer < SpawnTicks
  /\ cell.state = EXECUTE /\ cell.total_jams = 0 /\ demo_elapsed < InjectUntil
       /\ package_counter <= MaxPackages =>
       spawn_timer + SpawnTicks * (package_counter - 1) = demo_elapsed - ExecuteFrom + 1
  /\ Jammed /\ ~cell.faulted /\ package_counter <= MaxPackages =>
       \A n \in Nat :
         /\ ExecuteFrom + n * SpawnTicks <= InjectFrom
         /\ InjectUntil + JamTicks <= ExecuteFrom + (n + 1) * SpawnTicks
         => spawn_timer <= InjectUntil - ExecuteFrom - n * SpawnTicks + cell.pe2_block_timer

\* Packages that are not past PE2 are apart from one another and from the infeed,
\* and the watchdog has come no further than the package at PE2.
Behind == \A i \in OnBelt : Pos(i) > PE2_POS \/ Pos(i) >= NominalSpeed * (spawn_timer + 1)
Apart == \A i, j \in OnBelt :
  i < j => Pos(i) > PE2_POS \/ Pos(i) >= Pos(j) + NominalSpeed * SpawnTicks
WatchInTime == \A i \in OnBelt : InBeam(i) =>
  NominalSpeed * (cell.pe2_block_timer - speed_fb) <= Pos(i) - (PE2_POS - Width)

CalmBelt ==
  /\ 2 \in pe <=> \E i \in OnBelt : InBeam(i)
  /\ ~Jammed => Behind /\ WatchInTime
  /\ Apart
  /\ Jammed /\ ~cell.faulted /\ demo_elapsed < InjectUntil =>
       NominalSpeed * (cell.pe2_block_timer - NominalSpeed - (demo_elapsed - InjectFrom) - 1)
         <= Width

Calm == calls = 0 => CalmControl /\ CalmSpeed /\ CalmSupply /\ CalmBelt

\* A jam, a fault that is cleared and a jam by the demo that can still be cleared:
\* together no more than the first one and the calls.
Spent ==
  calls > 0 =>
    cell.total_jams + (IF cell.faulted THEN 0 ELSE 1)
      + (IF cell.force_jam_pe2 \/ demo_elapsed < InjectUntil THEN 1 ELSE 0) <= calls + 1

HoldInvariant ==
  /\ cell.force_jam_pe2 => demo_elapsed >= InjectFrom
  /\ demo_elapsed < InjectUntil =>
       cell.jam_clear_hold = 0 \/ cell.jam_clear_hold <= demo_elapsed - InjectFrom + 1

JamInvariant == Calm /\ Spent /\ HoldInvariant

\* What the proof asks of the times, the places and the demo.
CalmAssumption == DigitalTwinAssumption /\ PushersReach /\ DemoJamsOne

\* What it says of them one by one.
LEMMA Demo ==
  ASSUME CalmAssumption
  PROVE  /\ NominalSpeed \in Nat \ {0} /\ TransitionTicks \in Nat \ {0} /\ PE2_POS \in Nat
         /\ Width \in Nat /\ SpawnTicks \in Nat \ {0} /\ JamTicks \in Nat \ {0}
         /\ InjectFrom \in Nat /\ InjectUntil \in Nat /\ StartFrom \in Nat /\ StartUntil \in Nat
         /\ DemoStart \in Nat \ {0} /\ ExecuteFrom \in Nat \ {0} /\ MaxPackages \in Nat
         /\ ClearTicks \in Nat \ {0} /\ HoldTicks \in Nat \ {0}
         /\ NominalSpeed <= TransitionTicks /\ DemoStart <= ExecuteFrom
         /\ ExecuteFrom = DemoStart + TransitionTicks - 1
         /\ InjectFrom < InjectUntil /\ InjectUntil - InjectFrom < ClearTicks
         /\ ExecuteFrom <= InjectFrom
<1>1. PICK n \in 0..InjectFrom : /\ ExecuteFrom + n * SpawnTicks <= InjectFrom
  BY DEF CalmAssumption, DemoJamsOne
<1>2. n * SpawnTicks \in Nat
  BY DEF CalmAssumption, DigitalTwinAssumption
<1>3. DemoStart \in Nat \ {0} /\ (DemoStart = StartFrom \/ DemoStart = 1)
  BY DEF CalmAssumption, DigitalTwinAssumption, DemoStart
<1> QED
  BY <1>1, <1>2, <1>3 DEF CalmAssumption, DigitalTwinAssumption, DemoJamsOne, ExecuteFrom

\* Multiples of a speed or of the time between two packages.
LEMMA Multiple ==
  ASSUME NEW f \in Nat, NEW a \in Int, NEW b \in Int
  PROVE  /\ f * a \in Int /\ f * (a + 1) = f * a + f /\ f * (a - 1) = f * a - f
         /\ f * 0 = 0 /\ f * 1 = f
         /\ a <= b => f * a <= f * b
         /\ a \in Nat => f * a \in Nat
<1>1. f * a \in Int /\ f * (a + 1) = f * a + f /\ f * (a - 1) = f * a - f
      /\ f * 0 = 0 /\ f * 1 = f /\ (a \in Nat => f * a \in Nat)
  OBVIOUS
<1>2. ASSUME a <= b PROVE f * a <= f * b
  <2>1. PICK d \in Nat : b = a + d
    <3>1. b - a \in Nat /\ b = a + (b - a)
      BY <1>2
    <3> QED BY <3>1
  <2>2. f * d \in Nat /\ f * b = f * a + f * d
    BY <2>1
  <2> QED BY <1>1, <2>2
<1> QED BY <1>1, <1>2

\* Where a package is after an iteration.
Place(c, i, position) ==
  IF c.force_jam_pe2 /\ i = c.jammed_pkg_id THEN PE2_POS ELSE position + speed_fb'

Entering(c) == IF Spawns(c) THEN {package_counter} ELSE {}

\* What an iteration makes of the packages on the belt, whatever the control is.
LEMMA BeltMoves ==
  ASSUME CalmAssumption, TwinTypeOK, NEW c, NEW target \in Targets,
         speed_fb' \in Nat, MovePackages(c, Present(c, target)),
         pe' = Blocked(c, Present(c, target))
  PROVE  /\ DOMAIN packages' \subseteq DOMAIN packages \cup Entering(c)
         /\ package_counter \notin DOMAIN packages
         /\ OnBelt' \subseteq OnBelt \cup Entering(c)
         /\ \A i \in OnBelt' : i \in OnBelt => Pos(i)' = Place(c, i, Pos(i))
         /\ \A i \in OnBelt' : i \notin OnBelt => Pos(i)' = Place(c, i, 0)
         /\ \A i \in OnBelt : Place(c, i, Pos(i)) <= PE2_POS => i \in OnBelt'
         /\ 2 \in pe' <=> \E i \in OnBelt' : InBeam(i)'
<1> DEFINE present == Present(c, target)
           moved == [i \in DOMAIN present |-> Moved(c, i, present[i])]
           exited == {i \in DOMAIN present :
                        present[i].diverted /\ moved[i].exit_timer >= ExitTicks}
           on == {i \in DOMAIN present : ~present[i].diverted}
<1>0. /\ PE2_POS \in Nat /\ Width \in Nat /\ package_counter \in Nat
      /\ DOMAIN packages \subseteq 1..package_counter - 1
      /\ \A i \in DOMAIN packages : packages[i] \in TwinPackage
  BY Demo DEF TwinTypeOK, TwinPackage
<1>1. packages' = [i \in DOMAIN present \ exited |-> moved[i]]
  BY DEF MovePackages
<1>2. /\ DOMAIN present = DOMAIN packages \cup Entering(c)
      /\ \A i \in DOMAIN packages : present[i] = packages[i]
      /\ \A i \in DOMAIN present \ DOMAIN packages :
           present[i] = [target |-> target, position |-> 0, diverted |-> FALSE,
                         exit_timer |-> 0]
  BY DEF Present, Entering
<1>3. package_counter \notin DOMAIN packages
  BY <1>0
<1>4. ASSUME NEW i \in on
      PROVE  /\ NewPosition(c, i, present[i]) = Place(c, i, present[i].position)
             /\ present[i].position \in Nat /\ Place(c, i, present[i].position) \in Nat
             /\ i \in DOMAIN packages'
             /\ packages'[i].position = Place(c, i, present[i].position)
             /\ Place(c, i, present[i].position) <= PE2_POS => ~packages'[i].diverted
  <2>1. /\ present[i] \in TwinPackage /\ ~present[i].diverted
        /\ present[i].position \in Nat
    <3>1. ExitTicks \in Nat
      BY DEF CalmAssumption, DigitalTwinAssumption
    <3>2. i \in DOMAIN packages => present[i] \in TwinPackage
      BY <1>0, <1>2
    <3>3. i \notin DOMAIN packages => present[i] \in TwinPackage
      <4>1. [target |-> target, position |-> 0, diverted |-> FALSE, exit_timer |-> 0]
              \in TwinPackage
        BY <3>1 DEF TwinPackage
      <4>2. i \in DOMAIN present
        OBVIOUS
      <4> HIDE DEF present
      <4> QED BY <1>2, <4>1, <4>2
    <3> QED
      BY <3>2, <3>3 DEF TwinPackage
  <2>2. NewPosition(c, i, present[i]) = Place(c, i, present[i].position)
    BY DEF NewPosition, Place
  <2>3. i \in DOMAIN packages' /\ packages'[i] = Moved(c, i, present[i])
    BY <1>1
  <2> DEFINE p == present[i]
             position == NewPosition(c, i, p)
             off == \/ /\ p.target \in Diverters /\ InWindow(position, p.target)
                       /\ cylinder'[p.target] = CylinderTicks
                    \/ position >= PE6_POS
  <2>4. position \in Nat
    BY <1>0, <2>1, <2>2 DEF Place
  <2>5. packages'[i] = [p EXCEPT !.position = position, !.diverted = off]
    BY <2>1, <2>3 DEF Moved
  <2>6. packages'[i].position = position /\ packages'[i].diverted = off
    <3> HIDE DEF position, off, p
    <3> QED BY <2>1, <2>5 DEF TwinPackage, p
  <2>7. position <= PE2_POS => ~off
    <3>1. /\ \A d \in Diverters : PE2_POS < DivPos[d] - DivReach /\ DivPos[d] \in Nat
          /\ DivReach \in Nat /\ PE6_POS \in Nat /\ PE2_POS < PE6_POS
      BY DEF CalmAssumption, DigitalTwinAssumption, PushersReach, DivPos, Diverters
    <3> HIDE DEF position
    <3> QED BY <1>0, <2>4, <3>1 DEF InWindow
  <2> QED BY <2>1, <2>2, <2>3, <2>4, <2>6, <2>7
<1>5. OnBelt' \subseteq on
  <2> SUFFICES ASSUME NEW i \in DOMAIN packages', present[i].diverted,
                      i \in DOMAIN present
               PROVE  packages'[i].diverted
    BY <1>1 DEF OnBelt
  <2>1. packages'[i] = [present[i] EXCEPT !.exit_timer = present[i].exit_timer + 1]
    BY <1>1 DEF Moved
  <2>2. i \in DOMAIN packages /\ present[i] \in TwinPackage
    BY <1>0, <1>2
  <2> QED BY <2>1, <2>2 DEF TwinPackage
<1>6. on = OnBelt \cup Entering(c) /\ \A i \in OnBelt : present[i].position = Pos(i)
  BY <1>2, <1>3 DEF OnBelt, Pos, Entering
<1>7. \A i \in on : i \notin OnBelt => present[i].position = 0
  BY <1>2, <1>3, <1>6 DEF OnBelt, Entering
<1>8. 2 \in pe' <=> \E i \in on : Beam(NewPosition(c, i, present[i]), PE2_POS)
  BY DEF Blocked
<1>9. 2 \in pe' <=> \E i \in OnBelt' : InBeam(i)'
  <2>1. ASSUME NEW i \in on PROVE
          Beam(NewPosition(c, i, present[i]), PE2_POS) <=> i \in OnBelt' /\ InBeam(i)'
    BY <1>0, <1>4 DEF Beam, InBeam, OnBelt, Pos
  <2> QED BY <1>5, <1>8, <2>1
<1> HIDE DEF present, on
<1>10. \A i \in on : i \in OnBelt' => Pos(i)' = Place(c, i, present[i].position)
  BY <1>4 DEF Pos
<1>11. \A i \in on : Place(c, i, present[i].position) <= PE2_POS => i \in OnBelt'
  BY <1>4 DEF OnBelt
<1>12. DOMAIN packages' \subseteq DOMAIN packages \cup Entering(c)
  BY <1>1, <1>2
<1> QED
  BY <1>3, <1>5, <1>6, <1>7, <1>9, <1>10, <1>11, <1>12

\* A tick in which the belt runs and no package is held.
Flowing(c) ==
  /\ speed_fb' = NominalSpeed \/ speed_fb' = speed_fb + 1
  /\ speed_fb <= NominalSpeed /\ speed_fb' <= NominalSpeed
  /\ OnBelt' \subseteq OnBelt \cup Entering(c)
  /\ \A i \in OnBelt' : i \in OnBelt => Pos(i)' = Pos(i) + speed_fb'
  /\ \A i \in OnBelt' : i \notin OnBelt => Pos(i)' = speed_fb'
  /\ \/ Entering(c) = {} /\ spawn_timer' = spawn_timer
     \/ Entering(c) = {} /\ spawn_timer' = spawn_timer + 1 /\ speed_fb' = NominalSpeed
     \/ /\ Entering(c) = {package_counter} /\ spawn_timer' = 0
        /\ spawn_timer = SpawnTicks - 1 /\ speed_fb' = NominalSpeed
  /\ cell'.pe2_block_timer = IF 2 \in pe THEN cell.pe2_block_timer + 1 ELSE 0
  /\ 2 \in pe <=> \E i \in OnBelt : InBeam(i)

\* Such a tick keeps the packages apart and the watchdog behind them: while one is in
\* the beam it goes as far per tick as the watchdog may, and two are never in it.
LEMMA FlowKeeps ==
  ASSUME CalmAssumption, TwinTypeOK, TwinTypeOK', NEW c, Flowing(c),
         Behind, Apart, WatchInTime
  PROVE  Behind' /\ Apart' /\ WatchInTime'
<1> DEFINE N == NominalSpeed
           gap == N * SpawnTicks
           s == speed_fb
           t == speed_fb'
           b == cell.pe2_block_timer
<1>1. /\ N \in Nat \ {0} /\ PE2_POS \in Nat /\ Width \in Nat /\ SpawnTicks \in Nat \ {0}
      /\ s \in Nat /\ t \in Nat /\ b \in Nat /\ spawn_timer \in Nat
      /\ \A i \in OnBelt : Pos(i) \in Nat /\ i \in Nat /\ i < package_counter
      /\ package_counter \in Nat
      /\ gap \in Nat /\ PE2_POS <= gap /\ Width < gap - N
  <2>1. N \in Nat \ {0} /\ PE2_POS \in Nat /\ Width \in Nat /\ SpawnTicks \in Nat \ {0}
    BY Demo
  <2>2. PE2_POS <= gap /\ Width < N * (SpawnTicks - 1)
    BY DEF CalmAssumption, DemoJamsOne
  <2>3. N * (SpawnTicks - 1) = gap - N /\ gap \in Nat
    BY <2>1, Multiple
  <2>4. JamTicks \in Nat
    BY Demo
  <2> HIDE DEF gap
  <2>5. \A i \in OnBelt : Pos(i) \in Nat /\ i \in Nat /\ i < package_counter
    BY DEF OnBelt, Pos, TwinTypeOK
  <2> QED
    BY <2>1, <2>2, <2>3, <2>4, <2>5 DEF TwinTypeOK
<1>2. /\ OnBelt' \subseteq OnBelt \cup Entering(c) /\ Entering(c) \subseteq {package_counter}
      /\ \A i \in OnBelt' : i \in OnBelt => Pos(i)' = Pos(i) + t
      /\ \A i \in OnBelt' : i \notin OnBelt =>
           /\ i = package_counter /\ Pos(i)' = N /\ spawn_timer = SpawnTicks - 1 /\ t = N
  BY DEF Flowing, Entering
<1>3. ASSUME spawn_timer = SpawnTicks - 1, NEW i \in OnBelt
      PROVE  Pos(i) > PE2_POS \/ Pos(i) >= gap
  <2>1. spawn_timer + 1 = SpawnTicks
    BY <1>1, <1>3
  <2> QED BY <2>1 DEF Behind
<1>4. Behind'
  <2> SUFFICES ASSUME NEW i \in OnBelt', ~(Pos(i)' > PE2_POS)
               PROVE  Pos(i)' >= N * (spawn_timer' + 1)
    BY DEF Behind
  <2>1. N * (spawn_timer + 1) \in Nat /\ N * ((spawn_timer + 1) + 1) = N * (spawn_timer + 1) + N
        /\ N * (0 + 1) = N
    BY <1>1, Multiple
  <2>2. CASE i \in OnBelt
    <3>1. Pos(i)' = Pos(i) + t /\ Pos(i) >= N * (spawn_timer + 1)
      BY <1>1, <1>2, <2>2 DEF Behind
    <3>2. CASE spawn_timer' = spawn_timer
      <4>1. N * (spawn_timer' + 1) = N * (spawn_timer + 1)
        BY <3>2
      <4> QED BY <1>1, <2>1, <2>2, <3>1, <4>1
    <3>3. CASE spawn_timer' = spawn_timer + 1 /\ t = N
      <4>1. N * (spawn_timer' + 1) = N * (spawn_timer + 1) + N
        BY <2>1, <3>3
      <4> QED BY <1>1, <2>1, <2>2, <3>1, <3>3, <4>1
    <3>4. CASE spawn_timer' = 0 /\ t = N
      <4>1. N * (spawn_timer' + 1) = N
        BY <2>1, <3>4
      <4> QED BY <1>1, <2>1, <2>2, <3>1, <3>4, <4>1
    <3> QED BY <3>2, <3>3, <3>4 DEF Flowing
  <2>3. CASE i \notin OnBelt
    <3>1. Pos(i)' = N /\ i \in Entering(c)
      BY <1>2, <2>3
    <3>2. spawn_timer' = 0
      BY <3>1 DEF Flowing
    <3>3. N * (spawn_timer' + 1) = N
      BY <2>1, <3>2
    <3> QED BY <1>1, <3>1, <3>3
  <2> QED BY <2>2, <2>3
<1>5. Apart'
  <2> SUFFICES ASSUME NEW i \in OnBelt', NEW j \in OnBelt', i < j, ~(Pos(i)' > PE2_POS)
               PROVE  Pos(i)' >= Pos(j)' + gap
    BY DEF Apart
  <2>1. i \in OnBelt
    BY <1>1, <1>2
  <2>2. Pos(i)' = Pos(i) + t /\ ~(Pos(i) > PE2_POS)
    BY <1>1, <1>2, <2>1
  <2>3. CASE j \in OnBelt
    <3>1. Pos(j)' = Pos(j) + t /\ Pos(i) >= Pos(j) + gap
      BY <1>2, <2>1, <2>2, <2>3 DEF Apart
    <3> HIDE DEF gap
    <3> QED BY <1>1, <2>1, <2>2, <2>3, <3>1
  <2>4. CASE j \notin OnBelt
    <3>1. Pos(j)' = N /\ t = N /\ spawn_timer = SpawnTicks - 1
      BY <1>2, <2>4
    <3>2. Pos(i) >= gap
      BY <1>3, <2>1, <2>2, <3>1
    <3> HIDE DEF gap
    <3> QED BY <1>1, <2>1, <2>2, <3>1, <3>2
  <2> QED BY <2>3, <2>4
<1>6. WatchInTime'
  <2> SUFFICES ASSUME NEW i \in OnBelt', InBeam(i)'
               PROVE  N * (cell'.pe2_block_timer - t) <= Pos(i)' - (PE2_POS - Width)
    BY DEF WatchInTime
  <2>1. PE2_POS - Width <= Pos(i)' /\ Pos(i)' <= PE2_POS
    BY DEF InBeam
  <2>2. CASE i \in OnBelt /\ InBeam(i)
    <3>1. cell'.pe2_block_timer = b + 1 /\ Pos(i)' = Pos(i) + t
      BY <1>2, <2>2 DEF Flowing
    <3>2. N * (b - s) <= Pos(i) - (PE2_POS - Width)
      BY <2>2 DEF WatchInTime
    <3>3. CASE t = s + 1
      <4>1. (b + 1) - t = b - s
        BY <1>1, <3>3
      <4>2. N * ((b + 1) - t) <= Pos(i) - (PE2_POS - Width)
        BY <3>2, <4>1
      <4>3. N * ((b + 1) - t) \in Int
        BY <1>1, Multiple
      <4> QED BY <1>1, <2>2, <3>1, <4>2, <4>3
    <3>4. CASE t = N
      <4>1. b - N <= b - s /\ (b + 1) - t = (b - N) + 1 /\ b - N \in Int /\ b - s \in Int
        BY <1>1, <3>4 DEF Flowing
      <4> DEFINE x == b - N
                 y == b - s
      <4>2. x \in Int /\ y \in Int /\ x <= y
        BY <4>1
      <4> HIDE DEF x, y
      <4>3. N * (x + 1) = N * x + N /\ N * x <= N * y /\ N * x \in Int /\ N * y \in Int
        BY <1>1, <4>2, Multiple
      <4>4. N * ((b + 1) - t) = N * x + N
        BY <4>1, <4>3 DEF x
      <4>5. N * y <= Pos(i) - (PE2_POS - Width)
        BY <3>2 DEF y
      <4> QED BY <1>1, <2>2, <3>1, <3>4, <4>3, <4>4, <4>5
    <3> QED BY <3>3, <3>4 DEF Flowing
  <2>3. CASE ~(i \in OnBelt /\ InBeam(i))
    <3>1. 2 \notin pe
      <4> SUFFICES ASSUME NEW m \in OnBelt, InBeam(m) PROVE FALSE
        BY DEF Flowing
      <4>0. PE2_POS - Width <= Pos(m) /\ Pos(m) <= PE2_POS /\ Pos(m) \in Nat /\ m \in Nat
        BY <1>1 DEF InBeam
      <4>1. CASE i \in OnBelt
        <5>1. Pos(i)' = Pos(i) + t /\ Pos(i) \in Nat /\ i \in Nat /\ t <= N
          BY <1>1, <1>2, <4>1 DEF Flowing
        <5>2. Pos(i) < PE2_POS - Width
          BY <1>1, <2>1, <2>3, <4>1, <5>1 DEF InBeam
        <5>3. CASE m < i
          <6>1. Pos(m) >= Pos(i) + gap
            BY <1>1, <4>0, <4>1, <5>3 DEF Apart
          <6> HIDE DEF gap
          <6> QED BY <1>1, <2>1, <4>0, <5>1, <6>1
        <5>4. CASE i < m
          <6>1. Pos(i) >= Pos(m) + gap
            BY <1>1, <4>0, <4>1, <5>1, <5>2, <5>4 DEF Apart
          <6> HIDE DEF gap
          <6> QED BY <1>1, <4>0, <5>1, <5>2, <6>1
        <5>5. i # m
          BY <2>3, <4>1
        <5> QED BY <4>0, <5>1, <5>3, <5>4, <5>5
      <4>2. CASE i \notin OnBelt
        <5>1. Pos(i)' = N /\ spawn_timer = SpawnTicks - 1
          BY <1>2, <4>2
        <5>2. Pos(m) >= gap
          BY <1>1, <1>3, <4>0, <5>1
        <5> HIDE DEF gap
        <5> QED BY <1>1, <2>1, <4>0, <5>1, <5>2
      <4> QED BY <4>1, <4>2
    <3>2. cell'.pe2_block_timer = 0
      BY <3>1 DEF Flowing
    <3>3. N * (0 - t) <= N * 0 /\ N * 0 = 0 /\ N * (0 - t) \in Int
      <4>1. t \in Nat /\ N \in Nat
        BY <1>1
      <4>2. ASSUME NEW x \in Nat, NEW y \in Nat
            PROVE  y * (0 - x) <= y * 0 /\ y * 0 = 0 /\ y * (0 - x) \in Int
        <5>1. 0 - x \in Int /\ 0 - x <= 0 /\ 0 \in Int
          OBVIOUS
        <5> QED BY <5>1, Multiple
      <4> QED BY <4>1, <4>2
    <3>4. N * (cell'.pe2_block_timer - t) = N * (0 - t)
      BY <3>2
    <3>5. Pos(i)' \in Int
      BY <1>1, <1>2
    <3> QED BY <1>1, <2>1, <3>3, <3>4, <3>5
  <2> QED BY <2>2, <2>3
<1> QED BY <1>4, <1>5, <1>6

\* The watchdog is over only for the jam of the demo, and after its time.
LEMMA NoNaturalJam ==
  ASSUME CalmAssumption, TwinTypeOK, CalmSpeed, CalmBelt,
         2 \in pe, ~cell.faulted, cell.pe2_block_timer + 1 >= JamTicks
  PROVE  Jammed /\ InjectUntil <= demo_elapsed + 1
<1> DEFINE N == NominalSpeed
           b == cell.pe2_block_timer
           least == JamTicks - N - (InjectUntil - InjectFrom)
<1>1. /\ N \in Nat /\ Width \in Nat /\ PE2_POS \in Nat /\ JamTicks \in Nat
      /\ InjectFrom \in Nat /\ InjectUntil \in Nat /\ InjectFrom < InjectUntil
      /\ least \in Int
  BY Demo
<1>2. Width < N * least
  BY DEF CalmAssumption, DemoJamsOne
<1>3. b \in Nat /\ speed_fb \in Nat /\ speed_fb <= N /\ demo_elapsed \in Nat
  BY <1>1 DEF TwinTypeOK, CalmSpeed
<1>4. ASSUME NEW x \in Int, least <= x PROVE Width < N * x
  <2>1. N * least <= N * x /\ N * least \in Int /\ N * x \in Int
    BY <1>1, <1>4, Multiple
  <2> HIDE DEF least
  <2> QED BY <1>1, <1>2, <2>1
<1>5. Jammed
  <2> SUFFICES ASSUME ~Jammed PROVE FALSE
    OBVIOUS
  <2>1. PICK i \in OnBelt : InBeam(i)
    BY DEF CalmBelt
  <2>2. N * (b - speed_fb) <= Pos(i) - (PE2_POS - Width)
    BY <2>1 DEF CalmBelt, WatchInTime
  <2>3. Pos(i) <= PE2_POS /\ Pos(i) \in Nat
    BY <2>1 DEF InBeam, OnBelt, Pos, TwinTypeOK
  <2>4. b - speed_fb \in Int /\ least <= b - speed_fb
    BY <1>1, <1>3
  <2>5. Width < N * (b - speed_fb) /\ N * (b - speed_fb) \in Int
    BY <1>1, <1>4, <2>4, Multiple
  <2> QED BY <1>1, <2>2, <2>3, <2>5
<1>6. InjectUntil <= demo_elapsed + 1
  <2> SUFFICES ASSUME demo_elapsed + 1 < InjectUntil PROVE FALSE
    BY <1>1, <1>3
  <2> DEFINE x == b - N - (demo_elapsed - InjectFrom) - 1
  <2>1. x \in Int /\ least <= x
    BY <1>1, <1>3
  <2>2. N * x <= Width
    BY <1>1, <1>3, <1>5 DEF CalmBelt
  <2> HIDE DEF x
  <2>3. Width < N * x /\ N * x \in Int
    BY <1>1, <1>4, <2>1, Multiple
  <2> QED BY <1>1, <2>2, <2>3
<1> QED BY <1>5, <1>6

------------------------------------------------------------------------------
(* What the control part makes of a cell that nobody has called.             *)

Clock == IF demo_elapsed < InjectUntil THEN demo_elapsed + 1 ELSE demo_elapsed

\* The five ways: it waits for its start, it starts, it executes, it starts again
\* after the jam, or it stands still for it.
Rests(c) ==
  /\ cell.state = IDLE /\ c.state = IDLE /\ ~c.running /\ ~c.faulted /\ ~c.force_jam_pe2
  /\ c.total_jams = 0 /\ c.state_timer = 0 /\ (Clock < DemoStart \/ StartUntil <= DemoStart)

Begins(c) ==
  /\ cell.state \in {IDLE, STARTING} /\ c.running /\ ~c.faulted /\ ~c.force_jam_pe2
  /\ c.total_jams = 0
  /\ \/ /\ c.state = STARTING /\ c.state_timer = Clock - DemoStart + 1
        /\ c.state_timer = cell.state_timer + 1 /\ c.state_timer < TransitionTicks
     \/ c.state = EXECUTE /\ Clock = ExecuteFrom /\ TransitionTicks <= cell.state_timer + 1

\* The clock of the jam.
Counts(c) ==
  c.pe2_block_timer = IF 2 \in pe THEN cell.pe2_block_timer + 1 ELSE 0

Latest(i) == i \in DOMAIN packages /\ \A j \in DOMAIN packages : j <= i
Injecting == InjectFrom <= Clock /\ Clock < InjectUntil /\ DOMAIN packages # {}

Runs(c) ==
  /\ cell.state = EXECUTE /\ c.state = EXECUTE /\ c.running /\ ~c.faulted
  /\ c.total_jams = cell.total_jams /\ Counts(c)
  /\ 2 \in pe => c.pe2_block_timer < JamTicks
  /\ IF Injecting THEN c.force_jam_pe2 /\ Latest(c.jammed_pkg_id)
     ELSE c.force_jam_pe2 = cell.force_jam_pe2 /\ c.jammed_pkg_id = cell.jammed_pkg_id

Unholds(c) ==
  /\ cell.state = UNHOLDING /\ c.running /\ ~c.faulted /\ ~c.force_jam_pe2
  /\ c.total_jams = 1 /\ Clock = InjectUntil /\ Counts(c)
  /\ \/ c.state = UNHOLDING /\ c.state_timer = cell.state_timer + 1
     \/ c.state = EXECUTE /\ TransitionTicks <= cell.state_timer + 1

Halts(c) ==
  /\ Jammed /\ c.running /\ c.total_jams = 1 /\ Clock = InjectUntil
  /\ \/ /\ c.state \in {HOLDING, HELD} /\ c.faulted /\ c.force_jam_pe2
        /\ c.jammed_pkg_id = cell.jammed_pkg_id
     \/ /\ c.state = UNHOLDING /\ ~c.faulted /\ ~c.force_jam_pe2 /\ c.state_timer = 0

\* A stopped cell is held, or cleared.
HeldOrCleared(c, d) ==
  /\ d.running = c.running /\ d.total_jams = c.total_jams
  /\ \/ /\ d.state \in {HOLDING, HELD} /\ d.faulted /\ d.force_jam_pe2
        /\ d.jammed_pkg_id = c.jammed_pkg_id
     \/ /\ d.state = UNHOLDING /\ ~d.faulted /\ ~d.force_jam_pe2 /\ d.state_timer = 0

LEMMA AfterFault ==
  ASSUME CalmAssumption, NEW now, NEW c \in Cell, c.state \in {HOLDING, HELD},
         c.faulted, c.force_jam_pe2
  PROVE  HeldOrCleared(c, Cleared(Injected(Held(c), now)))
<1> USE DEF HOLDING, HELD, UNHOLDING, HeldOrCleared
<1> DEFINE e == Held(c)
<1>1. /\ DOMAIN e = DOMAIN c /\ e.running = c.running /\ e.total_jams = c.total_jams
      /\ e.faulted /\ e.force_jam_pe2
      /\ e.state \in {HOLDING, HELD} /\ e.jammed_pkg_id = c.jammed_pkg_id
  BY DEF Held, Cell
<1>2. DOMAIN e = {"state", "running", "faulted", "state_timer", "pe2_block_timer",
                  "jam_clear_hold", "force_jam_pe2", "jammed_pkg_id", "total_jams"}
  BY <1>1 DEF Cell
<1> HIDE DEF e
<1>3. Injected(e, now) = e
  BY <1>1 DEF Injected
<1>4. \/ Cleared(e) = e
      \/ Cleared(e) = [e EXCEPT !.jam_clear_hold = e.jam_clear_hold + 1]
      \/ Cleared(e) = [e EXCEPT !.jam_clear_hold = 0, !.faulted = FALSE,
                          !.force_jam_pe2 = FALSE, !.state = UNHOLDING, !.state_timer = 0]
  BY DEF Cleared
<1>5. CASE Cleared(e) = e
  BY <1>1, <1>3, <1>5 DEF e
<1>6. CASE Cleared(e) = [e EXCEPT !.jam_clear_hold = e.jam_clear_hold + 1]
  BY <1>1, <1>2, <1>3, <1>6 DEF e
<1>7. CASE Cleared(e) = [e EXCEPT !.jam_clear_hold = 0, !.faulted = FALSE,
                          !.force_jam_pe2 = FALSE, !.state = UNHOLDING, !.state_timer = 0]
  <2>1. /\ Cleared(e).running = e.running /\ Cleared(e).total_jams = e.total_jams
        /\ Cleared(e).state = UNHOLDING /\ ~Cleared(e).faulted /\ ~Cleared(e).force_jam_pe2
        /\ Cleared(e).state_timer = 0
    BY <1>2, <1>7
  <2> QED BY <1>1, <1>3, <2>1 DEF e
<1> QED BY <1>4, <1>5, <1>6, <1>7

\* From each state the control part goes one or two of the ways.
LEMMA FromIdle ==
  ASSUME CalmAssumption, TwinTypeOK, CalmControl, CalmBelt,
         cell.state \in {IDLE, STARTING}
  PROVE  LET c == Controlled(Clock) IN Rests(c) \/ Begins(c)
<1> DEFINE now == Clock
           d == Scheduled(cell, now)
           e == Transitioned(d)
           f == Watched(e)
<1> USE DEF IDLE, STARTING, EXECUTE, HOLDING, HELD, UNHOLDING, STOPPING, STOPPED
<1>0. cell \in Cell /\ demo_elapsed \in Nat /\ demo_elapsed <= InjectUntil
      /\ InjectUntil \in Nat \ {0}
  BY Demo DEF TwinTypeOK, Cell
<1>1. now \in Nat /\ now >= 1
      /\ (demo_elapsed < InjectUntil => now = demo_elapsed + 1)
  BY <1>0 DEF Clock
<1> HIDE DEF now
<1>2. DOMAIN packages = {} /\ 2 \notin pe
      /\ ~cell.faulted /\ ~cell.force_jam_pe2 /\ cell.total_jams = 0
  <2>1. DOMAIN packages = {} /\ ~cell.force_jam_pe2 /\ cell.total_jams = 0
    BY DEF CalmControl
  <2>2. ~cell.faulted
    <3>1. cell.faulted = (cell.state \in {HOLDING, HELD})
      BY DEF CalmControl
    <3>2. cell.state \notin {HOLDING, HELD}
      OBVIOUS
    <3> QED BY <3>1, <3>2, Zenon
  <2>3. OnBelt = {}
    BY <2>1 DEF OnBelt
  <2>4. 2 \notin pe
    BY <2>3 DEF CalmBelt
  <2> QED BY <2>1, <2>2, <2>4
<1>3. ASSUME NEW g \in Cell, ~g.force_jam_pe2, g.state # HOLDING
      PROVE  Cleared(Injected(Held(g), now)) = g
  BY <1>2, <1>3 DEF Held, Injected, Cleared
<1>4. ASSUME NEW g \in Cell PROVE Watched(g) = [g EXCEPT !.pe2_block_timer = 0]
  BY <1>2 DEF Watched
<1>5. CASE d = cell /\ cell.state = IDLE
  <2>1. e = cell
    BY <1>5 DEF Transitioned
  <2>2. f = [cell EXCEPT !.pe2_block_timer = 0]
    BY <1>0, <1>4, <2>1
  <2>3. /\ f \in Cell /\ f.state = IDLE /\ f.running = cell.running /\ ~f.force_jam_pe2
        /\ f.total_jams = 0 /\ f.state_timer = cell.state_timer /\ ~f.faulted
    <3>1. JamTicks \in Nat
      BY Demo
    <3> QED BY <1>0, <1>2, <1>5, <2>2, <3>1 DEF Cell
  <2>4. Controlled(now) = f
    BY <1>3, <2>3 DEF Controlled
  <2>5. cell.state_timer = 0 /\ ~cell.running
        /\ (demo_elapsed < DemoStart \/ StartUntil <= DemoStart)
    BY <1>5 DEF CalmControl
  <2>6. now < DemoStart \/ StartUntil <= DemoStart
    <3>1. ~(StartFrom <= now /\ now < StartUntil)
      <4> SUFFICES ASSUME StartFrom <= now /\ now < StartUntil PROVE FALSE
        OBVIOUS
      <4>1. d.state = STARTING
        BY <1>0, <1>5 DEF Scheduled, Cell
      <4> QED BY <1>5, <4>1
    <3>2. /\ DemoStart \in Nat /\ StartFrom \in Nat /\ StartUntil \in Nat
          /\ DemoStart < InjectUntil
      BY Demo
    <3>3. StartFrom <= DemoStart
      BY <3>2 DEF DemoStart
    <3> QED BY <1>0, <1>1, <2>5, <3>1, <3>2, <3>3
  <2> HIDE DEF d, e, f
  <2> QED BY <2>3, <2>4, <2>5, <2>6, <1>5 DEF Rests, now
<1>6. CASE ~(d = cell /\ cell.state = IDLE)
  <2>0. /\ DemoStart \in Nat \ {0} /\ StartFrom \in Nat /\ StartUntil \in Nat
        /\ DemoStart <= ExecuteFrom /\ ExecuteFrom \in Nat /\ ExecuteFrom < InjectUntil
        /\ TransitionTicks \in Nat \ {0} /\ ExecuteFrom = DemoStart + TransitionTicks - 1
        /\ JamTicks \in Nat
    BY Demo
  <2>1. /\ d \in Cell /\ d.state = STARTING /\ d.running /\ ~d.faulted
        /\ ~d.force_jam_pe2 /\ d.total_jams = 0 /\ d.state_timer = cell.state_timer
        /\ (cell.state = IDLE => StartFrom <= now /\ now < StartUntil)
    BY <1>0, <1>2, <1>6 DEF Scheduled, Cell, CalmControl
  <2>2. /\ now = demo_elapsed + 1 /\ cell.state_timer + 1 = now - DemoStart + 1
        /\ cell.state_timer \in Nat /\ cell.state_timer < TransitionTicks
    <3>1. CASE cell.state = IDLE
      <4>1. cell.state_timer = 0 /\ (demo_elapsed < DemoStart \/ StartUntil <= DemoStart)
        BY <3>1 DEF CalmControl
      <4>2. StartFrom <= now /\ now < StartUntil
        BY <2>1, <3>1
      <4>3. DemoStart <= now
        BY <1>1, <2>0, <4>2 DEF DemoStart
      <4> QED BY <1>0, <1>1, <2>0, <4>1, <4>2, <4>3
    <3>2. CASE cell.state = STARTING
      <4>1. cell.state_timer = demo_elapsed - DemoStart + 1
            /\ cell.state_timer < TransitionTicks
        BY <3>2 DEF CalmControl
      <4>2. cell.state_timer \in Nat
        BY <1>0 DEF Cell
      <4> QED BY <1>0, <1>1, <2>0, <4>1, <4>2
    <3> QED BY <3>1, <3>2
  <2> HIDE DEF d
  <2>3. \/ /\ e = [d EXCEPT !.state_timer = d.state_timer + 1]
           /\ d.state_timer + 1 < TransitionTicks
        \/ /\ e = [d EXCEPT !.state_timer = 0, !.state = EXECUTE,
                            !.running = d.running /\ d.state # STOPPING]
           /\ ~(d.state_timer + 1 < TransitionTicks)
    BY <2>1 DEF Transitioned
  <2>4. /\ e \in Cell /\ e.running /\ ~e.faulted /\ ~e.force_jam_pe2 /\ e.total_jams = 0
        /\ \/ /\ e.state = STARTING /\ e.state_timer = cell.state_timer + 1
              /\ e.state_timer < TransitionTicks
           \/ e.state = EXECUTE /\ TransitionTicks <= cell.state_timer + 1
    <3>1. CASE /\ e = [d EXCEPT !.state_timer = d.state_timer + 1]
               /\ d.state_timer + 1 < TransitionTicks
      <4> HIDE DEF e
      <4> QED BY <2>0, <2>1, <2>2, <3>1 DEF Cell
    <3>2. CASE /\ e = [d EXCEPT !.state_timer = 0, !.state = EXECUTE,
                                !.running = d.running /\ d.state # STOPPING]
               /\ ~(d.state_timer + 1 < TransitionTicks)
      <4>1. (d.running /\ d.state # STOPPING) = TRUE
        BY <2>1
      <4>2. e = [d EXCEPT !.state_timer = 0, !.state = EXECUTE, !.running = TRUE]
        BY <3>2, <4>1
      <4> DEFINE g == [d EXCEPT !.state_timer = 0]
      <4>3. /\ g \in Cell /\ ~g.faulted /\ ~g.force_jam_pe2 /\ g.total_jams = 0
            /\ e = [g EXCEPT !.state = EXECUTE, !.running = TRUE]
        BY <2>1, <4>2 DEF Cell
      <4> HIDE DEF e, g
      <4>4. /\ e \in Cell /\ e.running /\ ~e.faulted /\ ~e.force_jam_pe2
            /\ e.total_jams = 0 /\ e.state = EXECUTE
        BY <4>3 DEF Cell
      <4> QED BY <2>0, <2>1, <2>2, <3>2, <4>4
    <3> QED BY <2>3, <3>1, <3>2
  <2> HIDE DEF e
  <2>5. f = [e EXCEPT !.pe2_block_timer = 0]
    BY <1>4, <2>4
  <2>6. /\ f \in Cell /\ f.state = e.state /\ f.running /\ ~f.faulted /\ ~f.force_jam_pe2
        /\ f.total_jams = 0 /\ f.state_timer = e.state_timer /\ f.state # HOLDING
    BY <2>0, <2>4, <2>5 DEF Cell
  <2>7. Controlled(now) = f
    BY <1>3, <2>6 DEF Controlled, e, d
  <2> HIDE DEF f
  <2> QED BY <2>0, <2>2, <2>4, <2>6, <2>7 DEF Begins, now
<1> QED BY <1>5, <1>6

\* What the watchdog makes of a cell that runs.
LEMMA WatchRuns ==
  ASSUME CalmAssumption, TwinTypeOK, CalmSpeed, CalmBelt, NEW c \in Cell, c.running,
         ~c.faulted, ~cell.faulted, c.pe2_block_timer = cell.pe2_block_timer,
         c.total_jams \in Nat
  PROVE  LET d == Watched(c)
         IN /\ d \in Cell /\ d.running /\ d.jammed_pkg_id = c.jammed_pkg_id
            /\ d.force_jam_pe2 = c.force_jam_pe2
            /\ \/ /\ d.state = c.state /\ ~d.faulted /\ d.total_jams = c.total_jams
                  /\ d.state_timer = c.state_timer /\ Counts(d)
                  /\ 2 \in pe => d.pe2_block_timer < JamTicks
               \/ /\ d.state = HOLDING /\ d.faulted /\ d.total_jams = c.total_jams + 1
                  /\ Jammed /\ Clock = InjectUntil
<1> DEFINE b == c.pe2_block_timer
<1>0. JamTicks \in Nat \ {0} /\ b \in 0..JamTicks
  BY Demo DEF Cell
<1>1. CASE 2 \notin pe
  <2>1. Watched(c) = [c EXCEPT !.pe2_block_timer = 0]
    BY <1>1 DEF Watched
  <2> QED BY <1>0, <1>1, <2>1 DEF Cell, Counts
<1>2. CASE 2 \in pe /\ b + 1 < JamTicks
  <2>1. Watched(c) = [c EXCEPT !.pe2_block_timer = b + 1]
    BY <1>0, <1>2 DEF Watched
  <2>2. b + 1 \in 0..JamTicks
    BY <1>0, <1>2
  <2> QED BY <1>0, <1>2, <2>1, <2>2 DEF Cell, Counts
<1>3. CASE 2 \in pe /\ ~(b + 1 < JamTicks)
  <2>1. PICK t \in 0..JamTicks :
          Watched(c) = [c EXCEPT !.pe2_block_timer = t, !.faulted = TRUE,
                                 !.state = HOLDING, !.total_jams = c.total_jams + 1]
    <3>1. \E t \in 0..JamTicks : t >= JamTicks /\
            t = IF c.pe2_block_timer < JamTicks THEN c.pe2_block_timer + 1 ELSE JamTicks
      BY <1>0, <1>3
    <3> QED BY <1>0, <1>3, <3>1 DEF Watched
  <2>2. Jammed /\ InjectUntil <= demo_elapsed + 1
    BY <1>0, <1>3, NoNaturalJam
  <2>3. Clock = InjectUntil
    BY <2>2, Demo DEF Clock, TwinTypeOK
  <2>4. c.total_jams + 1 \in Nat
    OBVIOUS
  <2>5. /\ Watched(c).running /\ Watched(c).jammed_pkg_id = c.jammed_pkg_id
        /\ Watched(c).force_jam_pe2 = c.force_jam_pe2 /\ Watched(c).state = HOLDING
        /\ Watched(c).faulted /\ Watched(c).total_jams = c.total_jams + 1
    BY <2>1 DEF Cell
  <2>6. Watched(c) \in Cell
    <3> DEFINE d == [c EXCEPT !.pe2_block_timer = t]
               e == [d EXCEPT !.faulted = TRUE, !.state = HOLDING]
    <3>1. d \in Cell
      BY DEF Cell
    <3> HIDE DEF d
    <3>2. e \in Cell
      BY <3>1 DEF Cell
    <3> HIDE DEF e
    <3>3. [e EXCEPT !.total_jams = c.total_jams + 1] \in Cell
      BY <2>4, <3>2 DEF Cell
    <3> QED BY <2>1, <3>3 DEF d, e
  <2> QED BY <2>2, <2>3, <2>5, <2>6
<1> QED BY <1>0, <1>1, <1>2, <1>3

LEMMA FromExecute ==
  ASSUME CalmAssumption, TwinTypeOK, CalmControl, CalmSpeed, CalmBelt,
         cell.state = EXECUTE
  PROVE  LET c == Controlled(Clock) IN Runs(c) \/ Halts(c)
<1> DEFINE now == Clock
           f == Watched(cell)
<1> USE DEF IDLE, STARTING, EXECUTE, HOLDING, HELD, UNHOLDING, STOPPING, STOPPED
<1>0. cell \in Cell /\ cell.total_jams \in Nat
  BY DEF TwinTypeOK, Cell
<1>1. cell.running /\ ~cell.faulted
  <2>1. cell.faulted = (cell.state \in {HOLDING, HELD}) /\ cell.running = (cell.state # IDLE)
    BY DEF CalmControl
  <2>2. cell.state \notin {HOLDING, HELD} /\ cell.state # IDLE
    OBVIOUS
  <2> QED BY <2>1, <2>2, Zenon
<1>2. Transitioned(Scheduled(cell, now)) = cell
  BY DEF Scheduled, Transitioned
<1>3. /\ f \in Cell /\ f.running /\ f.jammed_pkg_id = cell.jammed_pkg_id
      /\ f.force_jam_pe2 = cell.force_jam_pe2
      /\ \/ /\ f.state = cell.state /\ ~f.faulted /\ f.total_jams = cell.total_jams
            /\ f.state_timer = cell.state_timer /\ Counts(f)
            /\ 2 \in pe => f.pe2_block_timer < JamTicks
         \/ /\ f.state = HOLDING /\ f.faulted /\ f.total_jams = cell.total_jams + 1
            /\ Jammed /\ Clock = InjectUntil
  BY <1>0, <1>1, WatchRuns
<1>4. Controlled(now) = Cleared(Injected(Held(f), now))
  BY <1>2 DEF Controlled
<1> HIDE DEF f, now
<1>5. CASE f.state = cell.state /\ ~f.faulted
  <2>1. Held(f) = f
    BY <1>5 DEF Held
  <2> DEFINE last == CHOOSE i \in DOMAIN packages : \A j \in DOMAIN packages : j <= i
  <2>2. DOMAIN packages # {} => Latest(last)
    <3>1. package_counter - 1 \in Nat /\ DOMAIN packages \subseteq 0..package_counter - 1
      BY DEF TwinTypeOK
    <3>2. DOMAIN packages # {} =>
            \E i \in DOMAIN packages : \A j \in DOMAIN packages : j <= i
      BY <3>1, GreatestExists
    <3> QED BY <3>2 DEF Latest
  <2>3. IF Injecting
          THEN Injected(f, now) = [f EXCEPT !.force_jam_pe2 = TRUE, !.jammed_pkg_id = last]
          ELSE Injected(f, now) = f
    BY <1>5 DEF Injected, Injecting, now
  <2> HIDE DEF last
  <2>4. /\ Injected(f, now).state = EXECUTE /\ Injected(f, now).running
        /\ ~Injected(f, now).faulted /\ Injected(f, now).total_jams = cell.total_jams
        /\ Injected(f, now).pe2_block_timer = f.pe2_block_timer
        /\ IF Injecting THEN Injected(f, now).force_jam_pe2
                             /\ Injected(f, now).jammed_pkg_id = last
           ELSE /\ Injected(f, now).force_jam_pe2 = f.force_jam_pe2
                /\ Injected(f, now).jammed_pkg_id = f.jammed_pkg_id
    BY <1>3, <1>5, <2>3 DEF Cell
  <2>5. Cleared(Injected(f, now)) = Injected(f, now)
    BY <2>4 DEF Cleared
  <2>6. Injecting => Latest(last)
    BY <2>2 DEF Injecting
  <2>7. Counts(Injected(f, now)) /\ (2 \in pe => Injected(f, now).pe2_block_timer < JamTicks)
    BY <1>3, <1>5, <2>4 DEF Counts
  <2>8. Runs(Injected(f, now))
    BY <1>3, <2>4, <2>6, <2>7 DEF Runs
  <2> QED BY <1>4, <2>1, <2>5, <2>8 DEF now
<1>6. CASE /\ f.state = HOLDING /\ f.faulted /\ f.total_jams = cell.total_jams + 1
           /\ Jammed /\ Clock = InjectUntil
  <2>1. f.force_jam_pe2
    BY <1>3, <1>6 DEF Jammed
  <2>2. cell.total_jams = 0
    BY <1>6 DEF CalmControl, Jammed
  <2>3. HeldOrCleared(f, Controlled(now))
    <3>1. f \in Cell /\ f.state \in {HOLDING, HELD} /\ f.faulted /\ f.force_jam_pe2
      BY <1>3, <1>6, <2>1
    <3>2. HeldOrCleared(f, Cleared(Injected(Held(f), now)))
      BY <3>1, AfterFault
    <3> QED BY <1>4, <3>2
  <2>4. f.total_jams = 1
    BY <1>6, <2>2
  <2> QED BY <1>3, <1>6, <2>3, <2>4 DEF Halts, now, HeldOrCleared
<1> QED BY <1>3, <1>5, <1>6

LEMMA FromUnholding ==
  ASSUME CalmAssumption, TwinTypeOK, CalmControl, CalmSpeed, CalmBelt,
         cell.state = UNHOLDING
  PROVE  LET c == Controlled(Clock) IN Unholds(c)
<1> DEFINE now == Clock
           e == Transitioned(cell)
           f == Watched(e)
<1> USE DEF IDLE, STARTING, EXECUTE, HOLDING, HELD, UNHOLDING, STOPPING, STOPPED
<1>0. cell \in Cell /\ cell.total_jams \in Nat /\ TransitionTicks \in Nat
  BY Demo DEF TwinTypeOK, Cell
<1>1. cell.running /\ ~cell.faulted /\ cell.total_jams = 1 /\ ~cell.force_jam_pe2
      /\ demo_elapsed = InjectUntil
  <2>1. /\ cell.faulted = (cell.state \in {HOLDING, HELD})
        /\ cell.running = (cell.state # IDLE)
        /\ cell.total_jams = 1 /\ ~cell.force_jam_pe2 /\ demo_elapsed = InjectUntil
    BY DEF CalmControl
  <2>2. cell.state \notin {HOLDING, HELD} /\ cell.state # IDLE
    OBVIOUS
  <2> QED BY <2>1, <2>2, Zenon
<1>2. Scheduled(cell, now) = cell /\ now = InjectUntil /\ InjectUntil \in Nat
  BY <1>1, Demo DEF Scheduled, Clock
<1>3. \/ /\ e = [cell EXCEPT !.state_timer = cell.state_timer + 1]
      \/ /\ e = [cell EXCEPT !.state_timer = 0, !.state = EXECUTE, !.running = TRUE]
         /\ TransitionTicks <= cell.state_timer + 1
  <2>1. (cell.running /\ cell.state # STOPPING) = TRUE
    BY <1>1
  <2>2. cell.state_timer \in Nat
    BY <1>0 DEF Cell
  <2>3. \/ /\ e = [cell EXCEPT !.state_timer = cell.state_timer + 1]
        \/ /\ e = [cell EXCEPT !.state_timer = 0, !.state = EXECUTE,
                               !.running = cell.running /\ cell.state # STOPPING]
           /\ ~(cell.state_timer + 1 < TransitionTicks)
    BY DEF Transitioned
  <2>4. CASE /\ e = [cell EXCEPT !.state_timer = 0, !.state = EXECUTE,
                                !.running = cell.running /\ cell.state # STOPPING]
             /\ ~(cell.state_timer + 1 < TransitionTicks)
    <3>1. e = [cell EXCEPT !.state_timer = 0, !.state = EXECUTE, !.running = TRUE]
      BY <2>1, <2>4
    <3>2. TransitionTicks <= cell.state_timer + 1
      BY <1>0, <2>2, <2>4
    <3> QED BY <3>1, <3>2
  <2> QED BY <2>3, <2>4
<1>4. /\ e \in Cell /\ e.running /\ ~e.faulted /\ ~e.force_jam_pe2 /\ e.total_jams = 1
      /\ e.pe2_block_timer = cell.pe2_block_timer
      /\ \/ e.state = UNHOLDING /\ e.state_timer = cell.state_timer + 1
         \/ e.state = EXECUTE /\ TransitionTicks <= cell.state_timer + 1
  <2>1. CASE e = [cell EXCEPT !.state_timer = cell.state_timer + 1]
    <3> HIDE DEF e
    <3> QED BY <1>0, <1>1, <2>1 DEF Cell
  <2>2. CASE /\ e = [cell EXCEPT !.state_timer = 0, !.state = EXECUTE, !.running = TRUE]
             /\ TransitionTicks <= cell.state_timer + 1
    <3> DEFINE g == [cell EXCEPT !.state_timer = 0]
    <3>1. /\ g \in Cell /\ ~g.faulted /\ ~g.force_jam_pe2 /\ g.total_jams = 1
          /\ g.pe2_block_timer = cell.pe2_block_timer
          /\ e = [g EXCEPT !.state = EXECUTE, !.running = TRUE]
      BY <1>0, <1>1, <2>2 DEF Cell
    <3> HIDE DEF e, g
    <3> QED BY <2>2, <3>1 DEF Cell
  <2> QED BY <1>3, <2>1, <2>2
<1> HIDE DEF e
<1>5. /\ f \in Cell /\ f.running /\ ~f.force_jam_pe2
      /\ f.state = e.state /\ ~f.faulted /\ f.total_jams = e.total_jams
      /\ f.state_timer = e.state_timer /\ Counts(f)
  <2>1. e.total_jams \in Nat /\ ~Jammed
    BY <1>1, <1>4 DEF Jammed
  <2> QED BY <1>1, <1>4, <2>1, WatchRuns
<1> HIDE DEF f, now
<1>6. Cleared(Injected(Held(f), now)) = f
  <2>1. Held(f) = f
    BY <1>4, <1>5 DEF Held
  <2>2. Injected(f, now) = f
    BY <1>2 DEF Injected
  <2>3. Cleared(f) = f
    BY <1>5 DEF Cleared
  <2> QED BY <2>1, <2>2, <2>3
<1>7. Controlled(now) = f
  BY <1>2, <1>6 DEF Controlled, f, e
<1> QED BY <1>2, <1>4, <1>5, <1>7 DEF Unholds, now

LEMMA FromFault ==
  ASSUME CalmAssumption, TwinTypeOK, CalmControl, cell.state \in {HOLDING, HELD}
  PROVE  LET c == Controlled(Clock) IN Halts(c)
<1> DEFINE now == Clock
           f == Watched(cell)
<1> USE DEF IDLE, STARTING, EXECUTE, HOLDING, HELD, UNHOLDING, STOPPING, STOPPED
<1>0. cell \in Cell
  BY DEF TwinTypeOK, Cell
<1>1. cell.running /\ cell.faulted /\ cell.total_jams = 1 /\ Jammed
      /\ demo_elapsed = InjectUntil
  <2>1. /\ cell.faulted = (cell.state \in {HOLDING, HELD})
        /\ cell.running = (cell.state # IDLE)
        /\ cell.total_jams = 1 /\ Jammed /\ demo_elapsed = InjectUntil
    BY DEF CalmControl
  <2>2. cell.state # IDLE
    OBVIOUS
  <2> QED BY <2>1, <2>2, Zenon
<1>2. Transitioned(Scheduled(cell, now)) = cell /\ now = InjectUntil
  BY <1>1, Demo DEF Scheduled, Transitioned, Clock
<1>3. /\ f \in Cell /\ f.running /\ f.faulted /\ f.state = cell.state
      /\ f.total_jams = 1 /\ f.force_jam_pe2 /\ f.jammed_pkg_id = cell.jammed_pkg_id
  <2>1. PICK t \in 0..JamTicks : f = [cell EXCEPT !.pe2_block_timer = t]
    <3>1. JamTicks \in Nat /\ cell.pe2_block_timer \in 0..JamTicks
      BY <1>0, Demo DEF Cell
    <3>2. \/ f = [cell EXCEPT !.pe2_block_timer = 0]
          \/ f = [cell EXCEPT !.pe2_block_timer =
                    IF cell.pe2_block_timer < JamTicks THEN cell.pe2_block_timer + 1
                    ELSE JamTicks]
      BY <1>1 DEF Watched
    <3> QED BY <3>1, <3>2
  <2> HIDE DEF f
  <2> QED BY <1>0, <1>1, <2>1 DEF Cell, Jammed
<1>4. Controlled(now) = Cleared(Injected(Held(f), now))
  BY <1>2 DEF Controlled
<1> HIDE DEF f, now
<1>5. HeldOrCleared(f, Controlled(now))
  <2>1. f \in Cell /\ f.state \in {HOLDING, HELD} /\ f.faulted /\ f.force_jam_pe2
    BY <1>3
  <2>2. HeldOrCleared(f, Cleared(Injected(Held(f), now)))
    BY <2>1, AfterFault
  <2> QED BY <1>4, <2>2
<1> QED BY <1>1, <1>2, <1>3, <1>5 DEF Halts, now, HeldOrCleared
\* A cell that nobody has called goes one of these ways.
LEMMA CalmControlled ==
  ASSUME CalmAssumption, TwinTypeOK, CalmControl, CalmSpeed, CalmBelt
  PROVE  LET c == Controlled(Clock)
         IN Rests(c) \/ Begins(c) \/ Runs(c) \/ Unholds(c) \/ Halts(c)
<1>1. cell.state \in {IDLE, STARTING} \/ cell.state = EXECUTE
      \/ cell.state = UNHOLDING \/ cell.state \in {HOLDING, HELD}
  BY DEF CalmControl
<1> QED
  BY <1>1, FromIdle, FromExecute, FromUnholding, FromFault

------------------------------------------------------------------------------
(* What the physics makes of it.                                             *)

AtEase == CalmControl /\ CalmSpeed /\ CalmSupply /\ CalmBelt

\* An iteration of the loop, with c for the cell after its control part.
Iterates(c) ==
  /\ demo_elapsed' = Clock /\ speed_node' = speed_node /\ speed_fb' = Speed(c)
  /\ spawn_timer' = CASE Spawns(c) -> 0
                      [] Supplying(c) /\ ~Spawns(c) -> spawn_timer + 1
                      [] OTHER -> spawn_timer
  /\ package_counter' = IF Spawns(c) THEN package_counter + 1 ELSE package_counter
  /\ DOMAIN packages' \subseteq DOMAIN packages \cup Entering(c)
  /\ package_counter \notin DOMAIN packages
  /\ OnBelt' \subseteq OnBelt \cup Entering(c)
  /\ \A i \in OnBelt' : i \in OnBelt => Pos(i)' = Place(c, i, Pos(i))
  /\ \A i \in OnBelt' : i \notin OnBelt => Pos(i)' = Place(c, i, 0)
  /\ \A i \in OnBelt : Place(c, i, Pos(i)) <= PE2_POS => i \in OnBelt'
  /\ 2 \in pe' <=> \E i \in OnBelt' : InBeam(i)'

\* A tick is such an iteration.
LEMMA TickIterates ==
  ASSUME CalmAssumption, TwinTypeOK, TwinTypeOK', NEW target \in Targets, Tick(target)
  PROVE  cell' = Controlled(Clock) /\ Iterates(cell')
<1>1. /\ cell' = Controlled(Clock) /\ demo_elapsed' = Clock /\ speed_node' = speed_node
      /\ speed_fb' = Speed(cell')
      /\ spawn_timer' = CASE Spawns(cell') -> 0
                          [] Supplying(cell') /\ ~Spawns(cell') -> spawn_timer + 1
                          [] OTHER -> spawn_timer
      /\ package_counter' = IF Spawns(cell') THEN package_counter + 1 ELSE package_counter
      /\ MovePackages(cell', Present(cell', target))
      /\ pe' = Blocked(cell', Present(cell', target))
  BY DEF Tick, Clock
<1>2. speed_fb' \in Nat
  BY DEF TwinTypeOK
<1> DEFINE c == cell'
<1>3. /\ DOMAIN packages' \subseteq DOMAIN packages \cup Entering(c)
      /\ package_counter \notin DOMAIN packages
      /\ OnBelt' \subseteq OnBelt \cup Entering(c)
      /\ \A i \in OnBelt' : i \in OnBelt => Pos(i)' = Place(c, i, Pos(i))
      /\ \A i \in OnBelt' : i \notin OnBelt => Pos(i)' = Place(c, i, 0)
      /\ \A i \in OnBelt : Place(c, i, Pos(i)) <= PE2_POS => i \in OnBelt'
      /\ 2 \in pe' <=> \E i \in OnBelt' : InBeam(i)'
  BY <1>1, <1>2, BeltMoves
<1> QED BY <1>1, <1>3 DEF Iterates

\* The belt goes one level per tick up to the nominal speed.
LEMMA CalmBeltSpeed ==
  ASSUME CalmAssumption, TwinTypeOK, CalmControl, CalmSpeed, NEW c
  PROVE  /\ Speed(c) \in Nat /\ Speed(c) <= NominalSpeed
         /\ c.running /\ ~c.faulted =>
              Speed(c) = IF speed_fb = NominalSpeed THEN NominalSpeed ELSE speed_fb + 1
<1>1. speed_fb \in Nat /\ NominalSpeed \in Nat /\ speed_node = NominalSpeed
      /\ speed_fb <= NominalSpeed
  BY Demo DEF TwinTypeOK, CalmControl, CalmSpeed
<1> QED BY <1>1 DEF Speed

\* A cell that starts has no package, and its belt is up to speed when it executes.
LEMMA StartingCalm ==
  ASSUME CalmAssumption, TwinTypeOK, TwinTypeOK', AtEase, Iterates(cell'),
         Rests(cell') \/ Begins(cell')
  PROVE  AtEase'
<1> USE DEF IDLE, STARTING, EXECUTE, HOLDING, HELD, UNHOLDING
<1>0. /\ NominalSpeed \in Nat \ {0} /\ TransitionTicks \in Nat \ {0} /\ Width \in Nat
      /\ SpawnTicks \in Nat \ {0} /\ NominalSpeed <= TransitionTicks
      /\ ExecuteFrom \in Nat /\ InjectUntil \in Nat /\ ExecuteFrom < InjectUntil
      /\ MaxPackages \in Nat
  BY Demo
<1>1. SpawnTicks > 1
  <2>1. Width < NominalSpeed * (SpawnTicks - 1)
    BY DEF CalmAssumption, DemoJamsOne
  <2>2. CASE SpawnTicks = 1
    <3>1. NominalSpeed * (SpawnTicks - 1) = NominalSpeed * 0
      BY <2>2
    <3>2. NominalSpeed * 0 = 0
      BY <1>0, Multiple
    <3> QED BY <1>0, <2>1, <3>1, <3>2
  <2> QED BY <1>0, <2>2
<1>2. /\ cell.state \in {IDLE, STARTING}
      /\ DOMAIN packages = {} /\ package_counter = 1 /\ spawn_timer = 0
      /\ speed_node = NominalSpeed /\ speed_fb \in Nat /\ speed_fb <= NominalSpeed
      /\ cell.state_timer \in Nat
  BY DEF AtEase, CalmControl, CalmSpeed, Rests, Begins, TwinTypeOK
<1>3. Entering(cell') = {} /\ package_counter' = 1
      /\ spawn_timer' = IF Supplying(cell') THEN 1 ELSE 0
  BY <1>0, <1>1, <1>2 DEF Iterates, Entering, Spawns
<1>4. DOMAIN packages' = {} /\ OnBelt' = {} /\ 2 \notin pe'
  <2>1. DOMAIN packages' = {}
    BY <1>2, <1>3 DEF Iterates
  <2>2. OnBelt' = {}
    BY <2>1 DEF OnBelt
  <2> QED BY <2>1, <2>2 DEF Iterates
<1>5. ~Jammed'
  BY <1>4 DEF Jammed, Stuck
<1>6. CalmBelt'
  BY <1>4, <1>5 DEF CalmBelt, Behind, WatchInTime, Apart
<1>7. CalmSupply'
  <2>1. spawn_timer' < SpawnTicks
    BY <1>0, <1>1, <1>3
  <2>2. ASSUME cell'.state = EXECUTE, package_counter' <= MaxPackages
        PROVE  spawn_timer' + SpawnTicks * (package_counter' - 1)
                 = demo_elapsed' - ExecuteFrom + 1
    <3>1. Clock = ExecuteFrom /\ ~cell'.faulted
      BY <2>2 DEF Rests, Begins
    <3>2. spawn_timer' = 1
      BY <1>2, <1>3, <2>2, <3>1 DEF Supplying
    <3>3. SpawnTicks * (package_counter' - 1) = 0
      <4>1. package_counter' - 1 = 0
        BY <1>3
      <4>2. SpawnTicks * 0 = 0
        BY <1>0, Multiple
      <4> QED BY <4>1, <4>2
    <3>4. demo_elapsed' = ExecuteFrom
      BY <3>1 DEF Iterates
    <3> QED BY <1>0, <3>2, <3>3, <3>4
  <2> QED BY <1>5, <2>1, <2>2 DEF CalmSupply
<1>8. CalmSpeed'
  <2>1. /\ speed_fb' \in Nat /\ speed_fb' <= NominalSpeed
        /\ cell'.running /\ ~cell'.faulted =>
             speed_fb' = IF speed_fb = NominalSpeed THEN NominalSpeed ELSE speed_fb + 1
    BY CalmBeltSpeed DEF AtEase, Iterates
  <2>2. speed_fb = NominalSpeed \/ speed_fb >= cell.state_timer
    BY <1>2 DEF AtEase, CalmSpeed, CalmControl
  <2>3. CASE Rests(cell')
    BY <2>1, <2>3 DEF Rests, CalmSpeed
  <2>4. CASE Begins(cell')
    <3>1. speed_fb' = IF speed_fb = NominalSpeed THEN NominalSpeed ELSE speed_fb + 1
      BY <2>1, <2>4 DEF Begins
    <3>2. \/ cell'.state = STARTING /\ cell'.state_timer = cell.state_timer + 1
          \/ cell'.state = EXECUTE /\ TransitionTicks <= cell.state_timer + 1
      BY <2>4 DEF Begins
    <3> QED BY <1>0, <1>2, <2>1, <2>2, <3>1, <3>2 DEF CalmSpeed
  <2> QED BY <2>3, <2>4
<1>9. CalmControl'
  <2>1. speed_node' = NominalSpeed /\ demo_elapsed' = Clock
    BY <1>2 DEF Iterates
  <2>2. CASE Rests(cell')
    <3>1. /\ cell'.state = IDLE /\ ~cell'.running /\ ~cell'.faulted /\ ~cell'.force_jam_pe2
          /\ cell'.total_jams = 0 /\ cell'.state_timer = 0
          /\ (Clock < DemoStart \/ StartUntil <= DemoStart)
          /\ ~Supplying(cell')
      BY <2>2 DEF Rests, Supplying
    <3>2. /\ cell'.running = (cell'.state # IDLE)
          /\ cell'.faulted = (cell'.state \in {HOLDING, HELD})
      <4>1. cell'.running \in BOOLEAN /\ cell'.faulted \in BOOLEAN
        BY DEF TwinTypeOK
      <4>2. cell'.running = FALSE /\ cell'.faulted = FALSE
        BY <3>1, <4>1
      <4>3. (cell'.state \in {HOLDING, HELD}) = FALSE /\ (cell'.state # IDLE) = FALSE
        BY <3>1
      <4> QED BY <4>2, <4>3
    <3>3. package_counter' = 1 /\ spawn_timer' = 0
      BY <1>3, <3>1
    <3> QED BY <1>4, <2>1, <3>1, <3>2, <3>3 DEF CalmControl
  <2>3. CASE Begins(cell')
    <3>1. /\ cell'.running = TRUE /\ cell'.faulted = FALSE /\ ~cell'.force_jam_pe2
          /\ cell'.total_jams = 0
          /\ \/ /\ cell'.state = STARTING /\ cell'.state_timer = Clock - DemoStart + 1
                /\ cell'.state_timer < TransitionTicks
             \/ cell'.state = EXECUTE
      BY <2>3 DEF Begins, TwinTypeOK
    <3>2. cell'.state = STARTING => ~Supplying(cell')
      BY DEF Supplying
    <3>3. /\ cell'.running = (cell'.state # IDLE)
          /\ cell'.faulted = (cell'.state \in {HOLDING, HELD})
      <4>1. (cell'.state \in {HOLDING, HELD}) = FALSE /\ (cell'.state # IDLE) = TRUE
        BY <3>1
      <4> QED BY <3>1, <4>1
    <3>4. package_counter' = 1 /\ (cell'.state = STARTING => spawn_timer' = 0)
      BY <1>3, <3>2
    <3> QED BY <1>4, <2>1, <3>1, <3>3, <3>4 DEF CalmControl
  <2> QED BY <2>2, <2>3
<1> QED BY <1>6, <1>7, <1>8, <1>9 DEF AtEase
\* The supply keeps to the clock of the demo.
LEMMA SupplyGoesOn ==
  ASSUME CalmAssumption, TwinTypeOK, AtEase, Iterates(cell'), Runs(cell')
  PROVE  /\ spawn_timer' < SpawnTicks
         /\ cell'.total_jams = 0 /\ demo_elapsed' < InjectUntil
              /\ package_counter' <= MaxPackages =>
              spawn_timer' + SpawnTicks * (package_counter' - 1)
                = demo_elapsed' - ExecuteFrom + 1
<1>0. /\ SpawnTicks \in Nat \ {0} /\ InjectUntil \in Nat /\ ExecuteFrom \in Nat
      /\ MaxPackages \in Nat /\ spawn_timer \in Nat /\ package_counter \in Nat \ {0}
      /\ demo_elapsed \in Nat /\ spawn_timer < SpawnTicks
  BY Demo DEF TwinTypeOK, AtEase, CalmSupply
<1>1. Supplying(cell') <=> package_counter <= MaxPackages
  BY DEF Runs, Supplying
<1>2. \/ Spawns(cell') /\ spawn_timer = SpawnTicks - 1 /\ spawn_timer' = 0
           /\ package_counter' = package_counter + 1
      \/ ~Spawns(cell') /\ Supplying(cell') /\ spawn_timer' = spawn_timer + 1
           /\ spawn_timer + 1 < SpawnTicks /\ package_counter' = package_counter
      \/ ~Supplying(cell') /\ spawn_timer' = spawn_timer
           /\ package_counter' = package_counter
  BY <1>0 DEF Iterates, Spawns
<1>3. spawn_timer' < SpawnTicks
  BY <1>0, <1>2
<1>4. ASSUME cell'.total_jams = 0, demo_elapsed' < InjectUntil,
             package_counter' <= MaxPackages
      PROVE  spawn_timer' + SpawnTicks * (package_counter' - 1)
               = demo_elapsed' - ExecuteFrom + 1
  <2>1. demo_elapsed < InjectUntil /\ demo_elapsed' = demo_elapsed + 1
    BY <1>0, <1>4 DEF Iterates, Clock
  <2>2. cell.state = EXECUTE /\ cell.total_jams = 0 /\ package_counter <= MaxPackages
    BY <1>0, <1>2, <1>4 DEF Runs
  <2> DEFINE given == SpawnTicks * (package_counter - 1)
  <2>3. spawn_timer + given = demo_elapsed - ExecuteFrom + 1
    BY <2>1, <2>2 DEF AtEase, CalmSupply
  <2>4. given \in Int /\ SpawnTicks * ((package_counter - 1) + 1) = given + SpawnTicks
    <3>1. package_counter - 1 \in Int
      BY <1>0
    <3> QED BY <1>0, <3>1, Multiple
  <2>5. CASE Spawns(cell')
    <3>1. package_counter' - 1 = (package_counter - 1) + 1
      BY <1>0, <1>2, <2>5 DEF Spawns
    <3>2. SpawnTicks * (package_counter' - 1) = given + SpawnTicks
      BY <2>4, <3>1
    <3> HIDE DEF given
    <3> QED BY <1>0, <1>2, <2>1, <2>3, <2>4, <2>5, <3>2 DEF Spawns
  <2>6. CASE ~Spawns(cell')
    <3>1. SpawnTicks * (package_counter' - 1) = given
      BY <1>2, <2>6
    <3> HIDE DEF given
    <3> QED BY <1>0, <1>1, <1>2, <2>1, <2>2, <2>3, <2>4, <2>6, <3>1
  <2> QED BY <2>5, <2>6
<1> QED BY <1>3, <1>4

\* A step that holds a package at PE2: the demo has just jammed it, or it was
\* jammed before.
HoldsOne(c) == c.force_jam_pe2 /\ c.jammed_pkg_id \in OnBelt

\* That package is the last one, and the others are past PE2 or about to be.
LEMMA JamGoesOn ==
  ASSUME CalmAssumption, TwinTypeOK, AtEase, Runs(cell'), HoldsOne(cell')
  PROVE  /\ cell.total_jams = 0
         /\ \/ Injecting /\ Clock = demo_elapsed + 1
            \/ Jammed /\ Clock = InjectUntil /\ cell'.jammed_pkg_id = cell.jammed_pkg_id
                 /\ 2 \in pe
         /\ Latest(cell'.jammed_pkg_id)
         /\ \A i \in OnBelt : i # cell'.jammed_pkg_id =>
              Pos(i) > PE2_POS \/ Pos(i) >= NominalSpeed * SpawnTicks
<1>0. /\ InjectFrom \in Nat /\ InjectUntil \in Nat /\ InjectFrom < InjectUntil
      /\ demo_elapsed \in Nat /\ demo_elapsed <= InjectUntil
  BY Demo DEF TwinTypeOK
<1>1. cell.state = EXECUTE
  BY DEF Runs
<1>2. CASE Injecting
  <2>1. Clock = demo_elapsed + 1 /\ demo_elapsed < InjectUntil
    BY <1>0, <1>2 DEF Injecting, Clock
  <2>2. cell.total_jams = 0
    BY <1>0, <1>1, <2>1 DEF AtEase, CalmControl
  <2>3. Latest(cell'.jammed_pkg_id)
    BY <1>2 DEF Runs
  <2>4. \A i \in OnBelt : i # cell'.jammed_pkg_id =>
              Pos(i) > PE2_POS \/ Pos(i) >= NominalSpeed * SpawnTicks
    <3> SUFFICES ASSUME NEW i \in OnBelt, i # cell'.jammed_pkg_id, ~(Pos(i) > PE2_POS)
                 PROVE  Pos(i) >= NominalSpeed * SpawnTicks
      OBVIOUS
    <3>1. /\ i < cell'.jammed_pkg_id /\ Pos(i) \in Nat /\ Pos(cell'.jammed_pkg_id) \in Nat
      BY <2>3 DEF Latest, OnBelt, TwinTypeOK, HoldsOne, Pos
    <3>2. Pos(i) >= Pos(cell'.jammed_pkg_id) + NominalSpeed * SpawnTicks
      BY <3>1 DEF AtEase, CalmBelt, Apart, HoldsOne
    <3>3. NominalSpeed * SpawnTicks \in Nat
      BY Demo, Multiple
    <3> HIDE DEF Latest
    <3> QED BY <3>1, <3>2, <3>3
  <2> QED BY <1>2, <2>1, <2>2, <2>3, <2>4
<1>3. CASE ~Injecting
  <2>1. /\ cell.force_jam_pe2 /\ cell'.jammed_pkg_id = cell.jammed_pkg_id
        /\ cell.jammed_pkg_id \in OnBelt
    BY <1>3 DEF Runs, HoldsOne
  <2>2. Jammed /\ demo_elapsed >= InjectFrom /\ cell.total_jams = 0
    BY <1>1, <2>1 DEF AtEase, CalmControl
  <2>3. Clock = InjectUntil
    <3>1. DOMAIN packages # {}
      BY <2>1 DEF OnBelt
    <3> QED BY <1>0, <1>3, <2>2, <3>1 DEF Injecting, Clock
  <2>4. InBeam(cell.jammed_pkg_id)
    <3>1. Pos(cell.jammed_pkg_id) = PE2_POS
      BY <2>2 DEF Jammed, Stuck
    <3> QED BY <3>1, Demo DEF InBeam
  <2>5. 2 \in pe
    BY <2>1, <2>4 DEF AtEase, CalmBelt
  <2> QED BY <2>1, <2>2, <2>3, <2>5 DEF Jammed, Stuck, Latest, OnBelt
<1> QED BY <1>2, <1>3

\* No package comes while it is held: the demo jams between two of them, and the
\* watchdog is over before the next.
LEMMA NoSupplyInJam ==
  ASSUME CalmAssumption, TwinTypeOK, AtEase, Iterates(cell'), Runs(cell'),
         HoldsOne(cell')
  PROVE  /\ ~Spawns(cell')
         /\ package_counter' <= MaxPackages =>
              \A n \in Nat :
                /\ ExecuteFrom + n * SpawnTicks <= InjectFrom
                /\ InjectUntil + JamTicks <= ExecuteFrom + (n + 1) * SpawnTicks
                => spawn_timer' <= InjectUntil - ExecuteFrom - n * SpawnTicks
                                     + cell'.pe2_block_timer
<1> DEFINE Between(n) ==
      /\ ExecuteFrom + n * SpawnTicks <= InjectFrom
      /\ InjectUntil + JamTicks <= ExecuteFrom + (n + 1) * SpawnTicks
<1>0. /\ SpawnTicks \in Nat \ {0} /\ InjectUntil \in Nat /\ ExecuteFrom \in Nat
      /\ InjectFrom \in Nat /\ JamTicks \in Nat \ {0}
      /\ MaxPackages \in Nat /\ spawn_timer \in Nat /\ package_counter \in Nat \ {0}
      /\ demo_elapsed \in Nat /\ spawn_timer < SpawnTicks
      /\ cell.pe2_block_timer \in Nat
  BY Demo DEF TwinTypeOK, AtEase, CalmSupply
<1>1. PICK n \in Nat : Between(n)
  BY DEF CalmAssumption, DemoJamsOne
<1>2. Supplying(cell') <=> package_counter <= MaxPackages
  BY DEF Runs, Supplying
<1>3. cell'.pe2_block_timer \in Nat
  BY <1>0 DEF Runs, Counts
<1>4. ASSUME NEW m \in Nat
      PROVE  m * SpawnTicks \in Nat /\ (m + 1) * SpawnTicks = m * SpawnTicks + SpawnTicks
  <2>1. SpawnTicks * m \in Nat /\ SpawnTicks * (m + 1) = SpawnTicks * m + SpawnTicks
    BY <1>0, Multiple
  <2>2. m * SpawnTicks = SpawnTicks * m /\ (m + 1) * SpawnTicks = SpawnTicks * (m + 1)
    BY <1>0
  <2> QED BY <2>1, <2>2
<1>5. CASE package_counter > MaxPackages
  <2>1. ~Spawns(cell') /\ package_counter' = package_counter
    BY <1>0, <1>2, <1>5 DEF Spawns, Iterates
  <2> QED BY <1>0, <1>5, <2>1
<1>6. CASE package_counter <= MaxPackages /\ Injecting
  <2>1. /\ Clock = demo_elapsed + 1 /\ InjectFrom <= Clock /\ Clock < InjectUntil
        /\ cell.total_jams = 0 /\ cell.state = EXECUTE
    BY <1>0, <1>6, JamGoesOn DEF Injecting, Runs, Clock
  <2> DEFINE given == SpawnTicks * (package_counter - 1)
  <2>2. spawn_timer + given = Clock - ExecuteFrom
    <3>1. demo_elapsed < InjectUntil
      BY <1>0, <2>1
    <3>2. spawn_timer + given = demo_elapsed - ExecuteFrom + 1
      BY <1>6, <2>1, <3>1 DEF AtEase, CalmSupply
    <3>3. given \in Int
      BY <1>0
    <3> HIDE DEF given
    <3> QED BY <1>0, <2>1, <3>2, <3>3
  <2>3. ASSUME NEW m \in Nat, Between(m)
        PROVE  package_counter - 1 = m
    <3> DEFINE x == package_counter - 1
    <3>1. /\ m * SpawnTicks <= spawn_timer + given
          /\ spawn_timer + given < m * SpawnTicks + SpawnTicks - 1
      <4>1. m * SpawnTicks \in Nat /\ (m + 1) * SpawnTicks = m * SpawnTicks + SpawnTicks
        BY <1>4
      <4> DEFINE k == m * SpawnTicks
      <4>2. /\ k \in Nat /\ ExecuteFrom + k <= InjectFrom
            /\ InjectUntil + JamTicks <= ExecuteFrom + (k + SpawnTicks)
        BY <2>3, <4>1
      <4> HIDE DEF k, given
      <4>3. k <= spawn_timer + given /\ spawn_timer + given < k + SpawnTicks - 1
        BY <1>0, <2>1, <2>2, <4>2
      <4> QED BY <4>3 DEF k
    <3>2. x \in Nat /\ given \in Nat /\ SpawnTicks * (x + 1) = given + SpawnTicks
      BY <1>0, Multiple
    <3>3. m * SpawnTicks = SpawnTicks * m /\ SpawnTicks * m \in Nat
          /\ SpawnTicks * (m + 1) = SpawnTicks * m + SpawnTicks
      BY <1>0, Multiple
    <3>4. ASSUME m + 1 <= x PROVE FALSE
      <4>1. SpawnTicks * (m + 1) <= given
        BY <1>0, <3>2, <3>4, Multiple
      <4> HIDE DEF given, x
      <4> QED BY <1>0, <3>1, <3>2, <3>3, <4>1
    <3>5. ASSUME x + 1 <= m PROVE FALSE
      <4>1. SpawnTicks * (x + 1) <= SpawnTicks * m
        BY <1>0, <3>2, <3>5, Multiple
      <4> HIDE DEF given, x
      <4> QED BY <1>0, <3>1, <3>2, <3>3, <4>1
    <3> HIDE DEF x, given
    <3>6. x = m
      BY <3>2, <3>4, <3>5
    <3> QED BY <3>6 DEF x
  <2>4. ASSUME NEW m \in Nat, Between(m)
        PROVE  /\ spawn_timer = Clock - ExecuteFrom - m * SpawnTicks
               /\ spawn_timer + 1 < SpawnTicks
    <3>1. given = m * SpawnTicks
      <4>1. given = SpawnTicks * m
        BY <2>3, <2>4
      <4>2. SpawnTicks * m = m * SpawnTicks
        BY <1>0
      <4> QED BY <4>1, <4>2
    <3>2. m * SpawnTicks \in Nat /\ (m + 1) * SpawnTicks = m * SpawnTicks + SpawnTicks
      BY <1>4
    <3> DEFINE k == m * SpawnTicks
    <3>3. /\ k \in Nat /\ given = k /\ ExecuteFrom + k <= InjectFrom
          /\ InjectUntil + JamTicks <= ExecuteFrom + (k + SpawnTicks)
      BY <2>4, <3>1, <3>2
    <3> HIDE DEF k, given
    <3>4. spawn_timer = Clock - ExecuteFrom - k /\ spawn_timer + 1 < SpawnTicks
      BY <1>0, <2>1, <2>2, <3>3
    <3> QED BY <3>4 DEF k
  <2>5. ~Spawns(cell') /\ spawn_timer' = spawn_timer + 1
    <3>1. spawn_timer + 1 < SpawnTicks
      BY <1>1, <2>4
    <3> QED BY <1>0, <1>2, <1>6, <3>1 DEF Spawns, Iterates
  <2>6. ASSUME NEW m \in Nat, Between(m)
        PROVE  spawn_timer' <= InjectUntil - ExecuteFrom - m * SpawnTicks
                                 + cell'.pe2_block_timer
    <3>1. spawn_timer = Clock - ExecuteFrom - m * SpawnTicks /\ m * SpawnTicks \in Nat
      BY <1>4, <2>4, <2>6
    <3> QED BY <1>0, <1>3, <2>1, <2>5, <3>1
  <2> QED BY <2>5, <2>6
<1>7. CASE package_counter <= MaxPackages /\ ~Injecting
  <2>1. Jammed /\ 2 \in pe /\ ~cell.faulted
    <3>1. Jammed /\ 2 \in pe
      BY <1>7, JamGoesOn
    <3>2. cell.faulted = (cell.state \in {HOLDING, HELD})
      BY DEF AtEase, CalmControl
    <3>3. cell.state \notin {HOLDING, HELD}
      BY DEF Runs, EXECUTE, HOLDING, HELD
    <3>4. ~cell.faulted
      BY <3>2, <3>3, Zenon
    <3> QED BY <3>1, <3>4
  <2>2. cell'.pe2_block_timer = cell.pe2_block_timer + 1
        /\ cell'.pe2_block_timer < JamTicks
    BY <2>1 DEF Runs, Counts
  <2>3. ASSUME NEW m \in Nat, Between(m)
        PROVE  /\ spawn_timer <= InjectUntil - ExecuteFrom - m * SpawnTicks
                                   + cell.pe2_block_timer
               /\ spawn_timer + 1 < SpawnTicks
    <3>1. spawn_timer <= InjectUntil - ExecuteFrom - m * SpawnTicks + cell.pe2_block_timer
      BY <1>7, <2>1, <2>3 DEF AtEase, CalmSupply
    <3>2. m * SpawnTicks \in Nat /\ (m + 1) * SpawnTicks = m * SpawnTicks + SpawnTicks
      BY <1>4
    <3> DEFINE k == m * SpawnTicks
    <3>3. /\ k \in Nat /\ InjectUntil + JamTicks <= ExecuteFrom + (k + SpawnTicks)
          /\ spawn_timer <= InjectUntil - ExecuteFrom - k + cell.pe2_block_timer
      BY <2>3, <3>1, <3>2
    <3> HIDE DEF k
    <3>4. spawn_timer + 1 < SpawnTicks
      BY <1>0, <2>2, <3>3
    <3> QED BY <3>1, <3>4
  <2>4. ~Spawns(cell') /\ spawn_timer' = spawn_timer + 1
    <3>1. spawn_timer + 1 < SpawnTicks
      BY <1>1, <2>3
    <3> QED BY <1>0, <1>2, <1>7, <3>1 DEF Spawns, Iterates
  <2>5. ASSUME NEW m \in Nat, Between(m)
        PROVE  spawn_timer' <= InjectUntil - ExecuteFrom - m * SpawnTicks
                                 + cell'.pe2_block_timer
    <3>1. m * SpawnTicks \in Nat
      BY <1>4
    <3>2. spawn_timer <= InjectUntil - ExecuteFrom - m * SpawnTicks
                                   + cell.pe2_block_timer
      BY <2>3, <2>5
    <3> QED BY <1>0, <2>2, <2>4, <3>1, <3>2
  <2> QED BY <2>4, <2>5
<1> QED BY <1>0, <1>5, <1>6, <1>7
\* A cell that runs without a fault.
LEMMA RunningFlags ==
  ASSUME TwinTypeOK', cell'.running, ~cell'.faulted,
         cell'.state \in {STARTING, EXECUTE, UNHOLDING}
  PROVE  /\ cell'.running = (cell'.state # IDLE)
         /\ cell'.faulted = (cell'.state \in {HOLDING, HELD})
<1>1. cell'.running = TRUE /\ cell'.faulted = FALSE
  BY DEF TwinTypeOK
<1>2. (cell'.state # IDLE) = TRUE /\ (cell'.state \in {HOLDING, HELD}) = FALSE
  BY DEF STARTING, EXECUTE, UNHOLDING, IDLE, HOLDING, HELD
<1> QED BY <1>1, <1>2

\* Facts of the types that the following lemmas share.
LEMMA EaseFacts ==
  ASSUME CalmAssumption, TwinTypeOK, TwinTypeOK'
  PROVE  /\ NominalSpeed \in Nat \ {0} /\ SpawnTicks \in Nat \ {0} /\ JamTicks \in Nat \ {0}
         /\ PE2_POS \in Nat /\ Width \in Nat /\ TransitionTicks \in Nat \ {0}
         /\ NominalSpeed <= TransitionTicks /\ NominalSpeed * SpawnTicks \in Nat
         /\ PE2_POS <= NominalSpeed * SpawnTicks
         /\ InjectFrom \in Nat /\ InjectUntil \in Nat /\ InjectFrom < InjectUntil
         /\ demo_elapsed \in Nat /\ demo_elapsed <= InjectUntil
         /\ speed_fb \in Nat /\ speed_fb' \in Nat
         /\ spawn_timer \in Nat /\ package_counter \in Nat \ {0}
         /\ cell.pe2_block_timer \in Nat /\ cell.state_timer \in Nat
         /\ DOMAIN packages \subseteq 1..package_counter - 1
         /\ \A i \in OnBelt : Pos(i) \in Nat /\ i \in Nat /\ i < package_counter
         /\ \A i \in OnBelt' : Pos(i)' \in Nat
<1>1. \A i \in OnBelt : Pos(i) \in Nat /\ i \in Nat /\ i < package_counter
  BY DEF OnBelt, Pos, TwinTypeOK
<1>2. \A i \in OnBelt' : Pos(i)' \in Nat
  BY DEF OnBelt, Pos, TwinTypeOK
<1>3. NominalSpeed * SpawnTicks \in Nat /\ PE2_POS <= NominalSpeed * SpawnTicks
  BY Demo, Multiple DEF CalmAssumption, DemoJamsOne
<1>4. JamTicks \in Nat
  BY Demo
<1> QED BY <1>1, <1>2, <1>3, <1>4, Demo DEF TwinTypeOK

\* Where no package is held, the belt carries all of them on.
LEMMA BeltCalm ==
  ASSUME CalmAssumption, TwinTypeOK, TwinTypeOK', AtEase, Iterates(cell'),
         (Runs(cell') /\ ~HoldsOne(cell')) \/ Unholds(cell')
  PROVE  CalmBelt' /\ CalmSpeed' /\ ~Jammed'
<1> USE DEF IDLE, STARTING, EXECUTE, HOLDING, HELD, UNHOLDING
<1> DEFINE N == NominalSpeed
<1>1. /\ N \in Nat \ {0} /\ speed_fb \in Nat /\ speed_fb' \in Nat /\ spawn_timer \in Nat
      /\ SpawnTicks \in Nat \ {0} /\ N <= TransitionTicks /\ package_counter \in Nat
      /\ TransitionTicks \in Nat /\ cell.state_timer \in Nat
      /\ \A i \in OnBelt : i \in Nat /\ i < package_counter
      /\ DOMAIN packages \subseteq 1..package_counter - 1
  BY EaseFacts
<1>2. speed_fb' = IF speed_fb = N THEN N ELSE speed_fb + 1
  <2>1. cell'.running /\ ~cell'.faulted
    BY DEF Runs, Unholds
  <2> QED BY <2>1, CalmBeltSpeed DEF AtEase, Iterates
<1>3. speed_fb <= N /\ (Runs(cell') => speed_fb = N)
      /\ (Unholds(cell') => speed_fb = N \/ speed_fb >= cell.state_timer)
  BY DEF AtEase, CalmSpeed, Runs, Unholds
<1>4. speed_fb' <= N /\ (speed_fb' = N \/ speed_fb' = speed_fb + 1)
  BY <1>1, <1>2, <1>3
<1>5. cell'.state = EXECUTE => speed_fb' = N
  BY <1>1, <1>2, <1>3 DEF Runs, Unholds
<1>6. CalmSpeed'
  BY <1>1, <1>2, <1>3, <1>4, <1>5 DEF CalmSpeed, Runs, Unholds
<1>7. cell'.force_jam_pe2 =>
        cell'.jammed_pkg_id \notin OnBelt /\ cell'.jammed_pkg_id # package_counter
  <2> SUFFICES ASSUME cell'.force_jam_pe2, Runs(cell')
               PROVE  cell'.jammed_pkg_id \notin OnBelt
                      /\ cell'.jammed_pkg_id # package_counter
    BY DEF Unholds
  <2>1. cell'.jammed_pkg_id \notin OnBelt
    BY DEF HoldsOne, Runs, Unholds
  <2>2. CASE Injecting
    <3>1. cell'.jammed_pkg_id \in DOMAIN packages
      BY <2>2 DEF Runs, Latest
    <3> QED BY <2>1, <3>1 DEF Iterates
  <2>3. CASE ~Injecting
    <3>1. cell'.jammed_pkg_id < package_counter
      BY <2>3 DEF Runs, AtEase, CalmControl
    <3> QED BY <1>1, <2>1, <3>1
  <2> QED BY <2>2, <2>3
<1>8. ~Jammed
  <2> SUFFICES ASSUME Jammed, Runs(cell') PROVE FALSE
    BY DEF Unholds, AtEase, CalmControl, Jammed
  <2>1. cell.force_jam_pe2 /\ cell.jammed_pkg_id \in OnBelt
        /\ \A j \in DOMAIN packages : j <= cell.jammed_pkg_id
    BY DEF Jammed, Stuck
  <2>2. CASE Injecting
    <3>1. cell'.force_jam_pe2 /\ Latest(cell'.jammed_pkg_id)
      BY <2>2 DEF Runs
    <3>2. cell'.jammed_pkg_id = cell.jammed_pkg_id
      BY <1>1, <2>1, <3>1 DEF Latest, OnBelt
    <3> QED BY <1>7, <2>1, <3>1, <3>2
  <2>3. CASE ~Injecting
    BY <1>7, <2>1, <2>3 DEF Runs
  <2> QED BY <2>2, <2>3
<1>9. Flowing(cell')
  <2>1. /\ OnBelt' \subseteq OnBelt \cup Entering(cell')
        /\ \A i \in OnBelt' : i \in OnBelt => Pos(i)' = Pos(i) + speed_fb'
        /\ \A i \in OnBelt' : i \notin OnBelt => Pos(i)' = speed_fb'
    <3>1. \A i \in OnBelt' : ~(cell'.force_jam_pe2 /\ i = cell'.jammed_pkg_id)
      BY <1>7 DEF Iterates, Entering
    <3>2. \A i \in OnBelt' : i \notin OnBelt => Pos(i)' = 0 + speed_fb'
      BY <3>1 DEF Iterates, Place
    <3> QED BY <1>1, <3>1, <3>2 DEF Iterates, Place
  <2>2. \/ Entering(cell') = {} /\ spawn_timer' = spawn_timer
        \/ Entering(cell') = {} /\ spawn_timer' = spawn_timer + 1 /\ speed_fb' = N
        \/ /\ Entering(cell') = {package_counter} /\ spawn_timer' = 0
           /\ spawn_timer = SpawnTicks - 1 /\ speed_fb' = N
    <3>1. spawn_timer < SpawnTicks
      BY DEF AtEase, CalmSupply
    <3>2. CASE Spawns(cell')
      BY <1>1, <1>5, <3>1, <3>2 DEF Iterates, Entering, Spawns, Supplying
    <3>3. CASE Supplying(cell') /\ ~Spawns(cell')
      BY <1>5, <3>3 DEF Iterates, Entering, Supplying
    <3>4. CASE ~Supplying(cell')
      BY <3>4 DEF Iterates, Entering, Spawns
    <3> QED BY <3>2, <3>3, <3>4
  <2>3. cell'.pe2_block_timer = IF 2 \in pe THEN cell.pe2_block_timer + 1 ELSE 0
    BY DEF Runs, Unholds, Counts
  <2>4. 2 \in pe <=> \E i \in OnBelt : InBeam(i)
    BY DEF AtEase, CalmBelt
  <2> QED BY <1>3, <1>4, <2>1, <2>2, <2>3, <2>4 DEF Flowing
<1>10. Behind' /\ Apart' /\ WatchInTime'
  BY <1>8, <1>9, FlowKeeps DEF AtEase, CalmBelt
<1>11. ~Jammed'
  <2> SUFFICES ASSUME cell'.force_jam_pe2, cell'.jammed_pkg_id \in OnBelt' PROVE FALSE
    BY DEF Jammed, Stuck
  <2> QED BY <1>7 DEF Iterates, Entering
<1>12. CalmBelt'
  BY <1>10, <1>11 DEF CalmBelt, Iterates
<1> QED BY <1>6, <1>11, <1>12

\* After the jam the cell is back at its speed when it executes.
LEMMA UnholdingCalm ==
  ASSUME CalmAssumption, TwinTypeOK, TwinTypeOK', AtEase, Iterates(cell'), Unholds(cell')
  PROVE  AtEase'
<1> USE DEF IDLE, STARTING, EXECUTE, HOLDING, HELD, UNHOLDING
<1>1. CalmBelt' /\ CalmSpeed' /\ ~Jammed'
  BY BeltCalm
<1>2. /\ cell'.state \in {UNHOLDING, EXECUTE} /\ cell'.running /\ ~cell'.faulted
      /\ ~cell'.force_jam_pe2 /\ cell'.total_jams = 1 /\ demo_elapsed' = InjectUntil
      /\ speed_node' = NominalSpeed
  BY DEF Unholds, Iterates, AtEase, CalmControl
<1>3. CalmSupply'
  <2>1. spawn_timer \in Nat /\ SpawnTicks \in Nat \ {0} /\ spawn_timer < SpawnTicks
    BY EaseFacts DEF AtEase, CalmSupply
  <2>2. spawn_timer' < SpawnTicks
    BY <2>1 DEF Iterates, Spawns
  <2> QED BY <1>1, <1>2, <2>2 DEF CalmSupply
<1>4. CalmControl'
  <2>1. /\ cell'.running = (cell'.state # IDLE)
        /\ cell'.faulted = (cell'.state \in {HOLDING, HELD})
    BY <1>2, RunningFlags
  <2>2. cell'.state \notin {IDLE, STARTING} /\ cell'.state \notin {HOLDING, HELD}
        /\ cell'.state # IDLE /\ cell'.state # STARTING
    BY <1>2
  <2> QED BY <1>2, <2>1, <2>2 DEF CalmControl
<1> QED BY <1>1, <1>3, <1>4 DEF AtEase

\* The package at PE2 is the last one, and no other is up to it.
LEMMA HoldsStuck ==
  ASSUME CalmAssumption, TwinTypeOK, TwinTypeOK', Iterates(cell'), ~Spawns(cell'),
         HoldsOne(cell'), Latest(cell'.jammed_pkg_id),
         \A i \in OnBelt : i # cell'.jammed_pkg_id => Pos(i) + speed_fb' > PE2_POS
  PROVE  Jammed' /\ Apart' /\ (2 \in pe' <=> \E i \in OnBelt' : InBeam(i)')
         /\ package_counter' = package_counter
         /\ cell'.jammed_pkg_id < package_counter
<1>0. PICK j : j = cell'.jammed_pkg_id
  OBVIOUS
<1>1. /\ PE2_POS \in Nat /\ package_counter \in Nat
      /\ \A i \in OnBelt : Pos(i) \in Nat /\ i \in Nat /\ i < package_counter
      /\ \A i \in OnBelt' : Pos(i)' \in Nat
      /\ DOMAIN packages \subseteq 1..package_counter - 1
  BY EaseFacts
<1>2. DOMAIN packages' \subseteq DOMAIN packages /\ OnBelt' \subseteq OnBelt
  BY DEF Iterates, Entering
<1>3. j \in OnBelt' /\ Pos(j)' = PE2_POS
  <2>1. Place(cell', j, Pos(j)) = PE2_POS
    BY <1>0 DEF Place, HoldsOne
  <2>2. j \in OnBelt /\ Place(cell', j, Pos(j)) <= PE2_POS
    BY <1>0, <1>1, <2>1 DEF HoldsOne
  <2> QED BY <2>1, <2>2 DEF Iterates
<1>4. \A i \in OnBelt' : i # j => Pos(i)' > PE2_POS
  BY <1>0, <1>2 DEF Iterates, Place
<1>5. \A i \in DOMAIN packages' : i <= j
  BY <1>0, <1>2 DEF Latest
<1>6. Jammed'
  BY <1>0, <1>3, <1>4, <1>5 DEF Jammed, Stuck, HoldsOne
<1>7. Apart'
  <2> SUFFICES ASSUME NEW i \in OnBelt', NEW k \in OnBelt', i < k
               PROVE  Pos(i)' > PE2_POS
    BY DEF Apart
  <2>1. k \in DOMAIN packages' /\ i \in Nat /\ k \in Nat /\ j \in Nat
    BY <1>1, <1>2, <1>3 DEF OnBelt
  <2>2. i # j
    BY <1>5, <2>1
  <2> QED BY <1>4, <2>2
<1>8. package_counter' = package_counter /\ j < package_counter
  BY <1>1, <1>2, <1>3 DEF Iterates
<1> QED BY <1>0, <1>6, <1>7, <1>8 DEF Iterates
\* The cell runs on against the package that is held.
LEMMA BlockedCalm ==
  ASSUME CalmAssumption, TwinTypeOK, TwinTypeOK', AtEase, Iterates(cell'), Runs(cell'),
         HoldsOne(cell')
  PROVE  /\ CalmBelt' /\ CalmSpeed' /\ Jammed' /\ cell.total_jams = 0
         /\ cell'.jammed_pkg_id < package_counter'
         /\ package_counter' <= MaxPackages =>
              \A n \in Nat :
                /\ ExecuteFrom + n * SpawnTicks <= InjectFrom
                /\ InjectUntil + JamTicks <= ExecuteFrom + (n + 1) * SpawnTicks
                => spawn_timer' <= InjectUntil - ExecuteFrom - n * SpawnTicks
                                     + cell'.pe2_block_timer
<1> USE DEF IDLE, STARTING, EXECUTE, HOLDING, HELD, UNHOLDING
<1> DEFINE N == NominalSpeed
           b == cell.pe2_block_timer
<1>1. /\ N \in Nat \ {0} /\ speed_fb \in Nat /\ speed_fb' \in Nat /\ PE2_POS \in Nat
      /\ Width \in Nat /\ PE2_POS <= N * SpawnTicks /\ N * SpawnTicks \in Nat
      /\ InjectFrom \in Nat /\ InjectUntil \in Nat /\ InjectFrom < InjectUntil
      /\ demo_elapsed \in Nat /\ b \in Nat
      /\ \A i \in OnBelt : Pos(i) \in Nat
  BY EaseFacts
<1>2. speed_fb = N /\ speed_fb' = N
  <2>1. speed_fb = N
    BY DEF AtEase, CalmSpeed, Runs
  <2>2. cell'.running /\ ~cell'.faulted
    BY DEF Runs
  <2> QED BY <2>1, <2>2, CalmBeltSpeed DEF AtEase, Iterates
<1>3. CalmSpeed'
  BY <1>1, <1>2 DEF CalmSpeed, Runs
<1>4. /\ cell.total_jams = 0 /\ Latest(cell'.jammed_pkg_id)
      /\ \/ Injecting /\ Clock = demo_elapsed + 1
         \/ Jammed /\ Clock = InjectUntil
      /\ \A i \in OnBelt : i # cell'.jammed_pkg_id =>
           Pos(i) > PE2_POS \/ Pos(i) >= N * SpawnTicks
  BY JamGoesOn
<1>5. ~Spawns(cell')
  BY NoSupplyInJam
<1>6. /\ Jammed' /\ Apart' /\ (2 \in pe' <=> \E i \in OnBelt' : InBeam(i)')
      /\ package_counter' = package_counter
      /\ cell'.jammed_pkg_id < package_counter
  <2>1. \A i \in OnBelt : i # cell'.jammed_pkg_id => Pos(i) + speed_fb' > PE2_POS
    <3> SUFFICES ASSUME NEW i \in OnBelt, i # cell'.jammed_pkg_id
                 PROVE  Pos(i) + speed_fb' > PE2_POS
      OBVIOUS
    <3>1. Pos(i) >= PE2_POS
      BY <1>1, <1>4
    <3> QED BY <1>1, <1>2, <3>1
  <2> QED BY <1>4, <1>5, <2>1, HoldsStuck
<1>7. ASSUME demo_elapsed' < InjectUntil
      PROVE  N * (cell'.pe2_block_timer - N - (demo_elapsed' - InjectFrom) - 1) <= Width
  <2> DEFINE t == cell'.pe2_block_timer
             x == t - N - (demo_elapsed' - InjectFrom) - 1
             y == b - N
             z == b - N - (demo_elapsed - InjectFrom) - 1
  <2> SUFFICES N * x <= Width
    OBVIOUS
  <2>1. /\ demo_elapsed' = Clock /\ Clock = demo_elapsed + 1 /\ InjectFrom <= Clock
        /\ demo_elapsed < InjectUntil
    BY <1>1, <1>4, <1>7 DEF Iterates, Injecting
  <2>2. t \in Nat /\ t = IF 2 \in pe THEN b + 1 ELSE 0
    BY <1>1 DEF Runs, Counts
  <2>3. x \in Int /\ y \in Int /\ z \in Int
    BY <1>1, <2>1, <2>2
  <2>4. CASE 2 \notin pe
    <3>1. x <= 0
      BY <1>1, <2>1, <2>2, <2>4
    <3>2. N * x <= N * 0 /\ N * 0 = 0 /\ N * x \in Int
      BY <1>1, <2>3, <3>1, Multiple
    <3> HIDE DEF x
    <3> QED BY <1>1, <3>2
  <2>5. CASE 2 \in pe /\ Jammed
    <3>1. ~cell.faulted
      <4>1. cell.faulted = (cell.state \in {HOLDING, HELD})
        BY DEF AtEase, CalmControl
      <4>2. cell.state \notin {HOLDING, HELD}
        BY DEF Runs
      <4> QED BY <4>1, <4>2, Zenon
    <3>2. N * z <= Width
      BY <2>1, <2>5, <3>1 DEF AtEase, CalmBelt
    <3>3. x <= z
      BY <1>1, <2>1, <2>2, <2>5
    <3>4. N * x <= N * z /\ N * x \in Int /\ N * z \in Int
      BY <1>1, <2>3, <3>3, Multiple
    <3> HIDE DEF x, z
    <3> QED BY <1>1, <3>2, <3>4
  <2>6. CASE 2 \in pe /\ ~Jammed
    <3>1. PICK i \in OnBelt : InBeam(i)
      BY <2>6 DEF AtEase, CalmBelt
    <3>2. N * (b - speed_fb) <= Pos(i) - (PE2_POS - Width)
      BY <2>6, <3>1 DEF AtEase, CalmBelt, WatchInTime
    <3>3. N * y <= Pos(i) - (PE2_POS - Width)
      BY <1>2, <3>2
    <3>4. Pos(i) \in Nat /\ Pos(i) <= PE2_POS
      BY <1>1, <3>1 DEF InBeam
    <3>5. x <= y
      BY <1>1, <2>1, <2>2, <2>6
    <3>6. N * x <= N * y /\ N * x \in Int /\ N * y \in Int
      BY <1>1, <2>3, <3>5, Multiple
    <3> HIDE DEF x, y
    <3> QED BY <1>1, <3>3, <3>4, <3>6
  <2> QED BY <2>4, <2>5, <2>6
<1>8. CalmBelt'
  BY <1>6, <1>7 DEF CalmBelt
<1> QED BY <1>3, <1>4, <1>6, <1>8, NoSupplyInJam

\* A cell that executes goes on with or without a package that is held.
LEMMA ExecutingCalm ==
  ASSUME CalmAssumption, TwinTypeOK, TwinTypeOK', AtEase, Iterates(cell'), Runs(cell')
  PROVE  AtEase'
<1> USE DEF IDLE, STARTING, EXECUTE, HOLDING, HELD, UNHOLDING
<1>1. /\ cell.state = EXECUTE /\ cell'.state = EXECUTE /\ cell'.running /\ ~cell'.faulted
      /\ cell'.total_jams = cell.total_jams
      /\ demo_elapsed' = Clock /\ speed_node' = NominalSpeed
  BY DEF Runs, Iterates, AtEase, CalmControl
<1>2. /\ InjectFrom \in Nat /\ InjectUntil \in Nat /\ InjectFrom < InjectUntil
      /\ demo_elapsed \in Nat /\ demo_elapsed <= InjectUntil
      /\ package_counter \in Nat /\ DOMAIN packages \subseteq 1..package_counter - 1
  BY EaseFacts
<1>3. CalmSupply'
  <2>1. /\ spawn_timer' < SpawnTicks
        /\ cell'.total_jams = 0 /\ demo_elapsed' < InjectUntil
             /\ package_counter' <= MaxPackages =>
             spawn_timer' + SpawnTicks * (package_counter' - 1)
               = demo_elapsed' - ExecuteFrom + 1
    BY SupplyGoesOn
  <2>2. ASSUME Jammed', package_counter' <= MaxPackages
        PROVE  \A n \in Nat :
                 /\ ExecuteFrom + n * SpawnTicks <= InjectFrom
                 /\ InjectUntil + JamTicks <= ExecuteFrom + (n + 1) * SpawnTicks
                 => spawn_timer' <= InjectUntil - ExecuteFrom - n * SpawnTicks
                                      + cell'.pe2_block_timer
    <3>1. HoldsOne(cell')
      BY <2>2, BeltCalm
    <3> QED BY <2>2, <3>1, BlockedCalm
  <2> QED BY <2>1, <2>2 DEF CalmSupply
<1>4. CalmBelt' /\ CalmSpeed'
  <2>1. CASE HoldsOne(cell')
    BY <2>1, BlockedCalm
  <2>2. CASE ~HoldsOne(cell')
    BY <2>2, BeltCalm
  <2> QED BY <2>1, <2>2
<1>5. CalmControl'
  <2>1. /\ cell'.running = (cell'.state # IDLE)
        /\ cell'.faulted = (cell'.state \in {HOLDING, HELD})
    BY <1>1, RunningFlags
  <2>2. cell'.total_jams = 0 \/ (cell'.total_jams = 1 /\ ~cell'.force_jam_pe2)
    <3>1. cell.total_jams = 0 \/ (cell.total_jams = 1 /\ ~cell.force_jam_pe2)
      BY <1>1 DEF AtEase, CalmControl
    <3>2. cell.total_jams = 1 => ~Injecting
      BY <1>2 DEF AtEase, CalmControl, Injecting, Clock
    <3> QED BY <1>1, <3>1, <3>2 DEF Runs
  <2>3. cell'.total_jams = 1 => demo_elapsed' = InjectUntil
    BY <1>1, <1>2 DEF AtEase, CalmControl, Clock
  <2>4. ASSUME cell'.force_jam_pe2
        PROVE  /\ cell'.jammed_pkg_id < package_counter' /\ demo_elapsed' >= InjectFrom
               /\ cell'.jammed_pkg_id \in OnBelt' => Jammed'
    <3>1. demo_elapsed' >= InjectFrom
      <4>1. CASE Injecting
        BY <1>1, <4>1 DEF Injecting
      <4>2. CASE ~Injecting
        <5>1. demo_elapsed >= InjectFrom
          BY <2>4, <4>2 DEF Runs, AtEase, CalmControl
        <5> QED BY <1>1, <1>2, <5>1 DEF Clock
      <4> QED BY <4>1, <4>2
    <3>2. cell'.jammed_pkg_id < package_counter /\ cell'.jammed_pkg_id \in Int
      <4>0. cell'.jammed_pkg_id \in Int
        BY DEF TwinTypeOK
      <4>1. CASE Injecting
        BY <1>2, <4>0, <4>1 DEF Runs, Latest
      <4>2. CASE ~Injecting
        BY <2>4, <4>0, <4>2 DEF Runs, AtEase, CalmControl
      <4> QED BY <4>1, <4>2
    <3>3. cell'.jammed_pkg_id < package_counter'
      BY <1>2, <3>2 DEF Iterates
    <3>4. cell'.jammed_pkg_id \in OnBelt' => Jammed'
      <4>1. CASE HoldsOne(cell')
        BY <4>1, BlockedCalm
      <4>2. CASE ~HoldsOne(cell')
        <5>1. cell'.jammed_pkg_id \notin OnBelt
          BY <2>4, <4>2 DEF HoldsOne
        <5>2. cell'.jammed_pkg_id \notin OnBelt'
          BY <1>2, <3>2, <5>1 DEF Iterates, Entering
        <5> QED BY <5>2
      <4> QED BY <4>1, <4>2
    <3> QED BY <3>1, <3>3, <3>4
  <2>5. /\ cell'.state \notin {IDLE, STARTING} /\ cell'.state \notin {HOLDING, HELD}
        /\ cell'.state # IDLE /\ cell'.state # STARTING /\ cell'.state # UNHOLDING
    BY <1>1
  <2> QED BY <1>1, <2>1, <2>2, <2>3, <2>4, <2>5 DEF CalmControl
<1> QED BY <1>3, <1>4, <1>5 DEF AtEase

\* While the cell is held the jam stays; when it is cleared all packages go past PE2.
LEMMA HaltedCalm ==
  ASSUME CalmAssumption, TwinTypeOK, TwinTypeOK', AtEase, Iterates(cell'), Halts(cell')
  PROVE  AtEase'
<1> USE DEF IDLE, STARTING, EXECUTE, HOLDING, HELD, UNHOLDING
<1>1. /\ NominalSpeed \in Nat \ {0} /\ speed_fb \in Nat /\ speed_fb' \in Nat
      /\ PE2_POS \in Nat /\ InjectFrom \in Nat /\ InjectUntil \in Nat
      /\ InjectFrom < InjectUntil
      /\ package_counter \in Nat /\ \A i \in OnBelt : Pos(i) \in Nat
      /\ \A i \in OnBelt' : Pos(i)' \in Nat
  BY EaseFacts
<1>2. /\ Jammed /\ cell'.running /\ cell'.total_jams = 1 /\ demo_elapsed' = InjectUntil
      /\ speed_node' = NominalSpeed
      /\ cell'.state \in {HOLDING, HELD, UNHOLDING}
  BY DEF Halts, Iterates, AtEase, CalmControl
<1>3. ~Supplying(cell') /\ ~Spawns(cell') /\ spawn_timer' < SpawnTicks
  BY <1>2 DEF Supplying, Spawns, Iterates, AtEase, CalmSupply
<1>4. speed_fb' <= NominalSpeed
      /\ (cell'.running /\ ~cell'.faulted =>
            speed_fb' = IF speed_fb = NominalSpeed THEN NominalSpeed ELSE speed_fb + 1)
  BY CalmBeltSpeed DEF AtEase, Iterates
<1>5. CASE /\ cell'.state \in {HOLDING, HELD} /\ cell'.faulted /\ cell'.force_jam_pe2
           /\ cell'.jammed_pkg_id = cell.jammed_pkg_id
  <2>1. HoldsOne(cell') /\ Latest(cell'.jammed_pkg_id)
    BY <1>2, <1>5 DEF HoldsOne, Jammed, Stuck, Latest, OnBelt
  <2>2. \A i \in OnBelt : i # cell'.jammed_pkg_id => Pos(i) + speed_fb' > PE2_POS
    BY <1>1, <1>2, <1>5 DEF Jammed, Stuck
  <2>3. /\ Jammed' /\ Apart' /\ (2 \in pe' <=> \E i \in OnBelt' : InBeam(i)')
        /\ package_counter' = package_counter /\ cell'.jammed_pkg_id < package_counter
    BY <1>3, <2>1, <2>2, HoldsStuck
  <2>4. CalmBelt' /\ CalmSpeed' /\ CalmSupply'
    BY <1>3, <1>4, <1>5, <2>3 DEF CalmBelt, CalmSpeed, CalmSupply
  <2>5. CalmControl'
    <3>1. /\ cell'.running = (cell'.state # IDLE)
          /\ cell'.faulted = (cell'.state \in {HOLDING, HELD})
      <4>1. cell'.running = TRUE /\ cell'.faulted = TRUE
        BY <1>2, <1>5 DEF TwinTypeOK
      <4>2. (cell'.state # IDLE) = TRUE /\ (cell'.state \in {HOLDING, HELD}) = TRUE
        BY <1>5
      <4> QED BY <4>1, <4>2
    <3>2. /\ cell'.state \notin {IDLE, STARTING} /\ cell'.state # IDLE
          /\ cell'.state # STARTING /\ cell'.state # UNHOLDING /\ cell'.state # EXECUTE
      BY <1>5
    <3>3. demo_elapsed' >= InjectFrom
      BY <1>1, <1>2
    <3> QED BY <1>2, <1>5, <2>3, <3>1, <3>2, <3>3 DEF CalmControl
  <2> QED BY <2>4, <2>5 DEF AtEase
<1>6. CASE /\ cell'.state = UNHOLDING /\ ~cell'.faulted /\ ~cell'.force_jam_pe2
           /\ cell'.state_timer = 0
  <2>1. OnBelt' \subseteq OnBelt /\ speed_fb' >= 1
    BY <1>1, <1>2, <1>3, <1>4, <1>6 DEF Iterates, Entering
  <2>2. \A i \in OnBelt' : Pos(i)' > PE2_POS
    <3> SUFFICES ASSUME NEW i \in OnBelt' PROVE Pos(i)' > PE2_POS
      OBVIOUS
    <3>1. Pos(i) >= PE2_POS /\ Pos(i) \in Nat
      BY <1>1, <1>2, <2>1 DEF Jammed, Stuck
    <3>2. Pos(i)' = Pos(i) + speed_fb'
      BY <1>6, <2>1 DEF Iterates, Place
    <3> QED BY <1>1, <2>1, <3>1, <3>2
  <2>3. ~Jammed'
    BY <1>6 DEF Jammed
  <2>4. \A i \in OnBelt' : ~InBeam(i)'
    BY <1>1, <2>2 DEF InBeam
  <2>5. CalmBelt'
    BY <2>2, <2>3, <2>4 DEF CalmBelt, Behind, Apart, WatchInTime, Iterates
  <2>6. CalmSpeed' /\ CalmSupply'
    BY <1>1, <1>3, <1>4, <1>6, <2>3 DEF CalmSpeed, CalmSupply
  <2>7. CalmControl'
    <3>1. /\ cell'.running = (cell'.state # IDLE)
          /\ cell'.faulted = (cell'.state \in {HOLDING, HELD})
      BY <1>2, <1>6, RunningFlags
    <3>2. /\ cell'.state \notin {IDLE, STARTING} /\ cell'.state \notin {HOLDING, HELD}
          /\ cell'.state # IDLE /\ cell'.state # STARTING /\ cell'.state # EXECUTE
      BY <1>6
    <3> QED BY <1>2, <1>6, <3>1, <3>2 DEF CalmControl
  <2> QED BY <2>5, <2>6, <2>7 DEF AtEase
<1> QED BY <1>5, <1>6 DEF Halts

\* So does every iteration of a cell that nobody has called.
LEMMA TickCalm ==
  ASSUME CalmAssumption, TwinTypeOK, TwinTypeOK', AtEase, NEW target \in Targets,
         Tick(target)
  PROVE  AtEase'
<1>1. cell' = Controlled(Clock) /\ Iterates(cell')
  BY TickIterates
<1>2. Rests(cell') \/ Begins(cell') \/ Runs(cell') \/ Unholds(cell') \/ Halts(cell')
  BY <1>1, CalmControlled DEF AtEase
<1> QED
  BY <1>1, <1>2, StartingCalm, ExecutingCalm, UnholdingCalm, HaltedCalm
------------------------------------------------------------------------------
(* What a call can add.                                                      *)

CellFields == {"state", "running", "faulted", "state_timer", "pe2_block_timer",
               "jam_clear_hold", "force_jam_pe2", "jammed_pkg_id", "total_jams"}

Clearable(c) == IF c.faulted THEN 0 ELSE 1
Forceable(c, now) == IF c.force_jam_pe2 \/ now < InjectUntil THEN 1 ELSE 0

\* The demo operator waits longer than the demo jams a package.
Waits(c, now) ==
  /\ c.force_jam_pe2 => now >= InjectFrom
  /\ now < InjectUntil => c.jam_clear_hold = 0 \/ c.jam_clear_hold <= now - InjectFrom + 1

\* The invariants in these terms.
LEMMA SpentIs ==
  /\ Spent <=> (calls > 0 => cell.total_jams + Clearable(cell)
                               + Forceable(cell, demo_elapsed) <= calls + 1)
  /\ HoldInvariant <=> Waits(cell, demo_elapsed)
BY DEF Spent, Clearable, Forceable, HoldInvariant, Waits

\* No section of the control part but the last two takes a fault back or touches
\* the jam of the demo.
Keeps(c, d) ==
  /\ DOMAIN d = CellFields /\ d.total_jams \in Nat
  /\ d.total_jams + Clearable(d) = c.total_jams + Clearable(c)
  /\ d.force_jam_pe2 = c.force_jam_pe2 /\ d.jam_clear_hold = c.jam_clear_hold

\* The first four sections do.
LEMMA StagesKeep ==
  ASSUME NEW c, DOMAIN c = CellFields, c.total_jams \in Nat, NEW now
  PROVE  /\ Keeps(c, Scheduled(c, now)) /\ Keeps(c, Transitioned(c))
         /\ Keeps(c, Watched(c)) /\ Keeps(c, Held(c))
<1> USE DEF Keeps, Clearable, CellFields
<1>1. Keeps(c, Scheduled(c, now))
  BY DEF Scheduled
<1>2. Keeps(c, Transitioned(c))
  <2>1. PICK r : r = (c.running /\ c.state # STOPPING)
    BY Zenon
  <2>2. \/ Transitioned(c) = c
        \/ Transitioned(c) = [c EXCEPT !.state_timer = c.state_timer + 1]
        \/ Transitioned(c) = [c EXCEPT !.state_timer = 0, !.state = STOPPED, !.running = r]
        \/ Transitioned(c) = [c EXCEPT !.state_timer = 0, !.state = EXECUTE, !.running = r]
    BY <2>1 DEF Transitioned
  <2> QED BY <2>2
<1>3. Keeps(c, Held(c))
  BY DEF Held
<1>4. Keeps(c, Watched(c))
  <2> DEFINE timer == IF c.pe2_block_timer < JamTicks THEN c.pe2_block_timer + 1
                      ELSE JamTicks
  <2>1. \/ Watched(c) = [c EXCEPT !.pe2_block_timer = 0]
        \/ /\ Watched(c) = [c EXCEPT !.pe2_block_timer = timer, !.faulted = TRUE,
                                     !.state = HOLDING, !.total_jams = c.total_jams + 1]
           /\ ~c.faulted
        \/ Watched(c) = [c EXCEPT !.pe2_block_timer = timer]
    BY DEF Watched
  <2> HIDE DEF timer
  <2>2. CASE Watched(c) = [c EXCEPT !.pe2_block_timer = 0]
    BY <2>2
  <2>3. CASE Watched(c) = [c EXCEPT !.pe2_block_timer = timer]
    BY <2>3
  <2>4. CASE /\ Watched(c) = [c EXCEPT !.pe2_block_timer = timer, !.faulted = TRUE,
                                !.state = HOLDING, !.total_jams = c.total_jams + 1]
             /\ ~c.faulted
    <3> DEFINE d == Watched(c)
    <3>1. /\ DOMAIN d = CellFields /\ d.faulted /\ d.total_jams = c.total_jams + 1
          /\ d.force_jam_pe2 = c.force_jam_pe2 /\ d.jam_clear_hold = c.jam_clear_hold
      BY <2>4
    <3> HIDE DEF d
    <3>2. Keeps(c, d)
      BY <2>4, <3>1
    <3> QED BY <3>2 DEF d
  <2> QED BY <2>1, <2>2, <2>3, <2>4
<1> QED BY <1>1, <1>2, <1>3, <1>4

\* An iteration does not add to the jams, the fault that can be cleared and the jam
\* that can come; it keeps the demo operator waiting.
LEMMA ControlSpends ==
  ASSUME CalmAssumption, TwinTypeOK, HoldInvariant
  PROVE  LET d == Controlled(Clock)
         IN /\ d.total_jams + Clearable(d) + Forceable(d, Clock)
                 <= cell.total_jams + Clearable(cell) + Forceable(cell, demo_elapsed)
            /\ Waits(d, Clock)
<1> DEFINE a == Scheduled(cell, Clock)
           b == Transitioned(a)
           c == Watched(b)
           h == Held(c)
           e == Injected(h, Clock)
           f == Cleared(e)
           due == cell.total_jams + Clearable(cell)
<1>0. /\ InjectFrom \in Nat /\ InjectUntil \in Nat /\ InjectFrom < InjectUntil
      /\ InjectUntil - InjectFrom < ClearTicks /\ ClearTicks \in Nat
      /\ demo_elapsed \in Nat /\ demo_elapsed <= InjectUntil
      /\ cell.jam_clear_hold \in Nat /\ cell.total_jams \in Nat
      /\ DOMAIN cell = CellFields
  BY Demo DEF TwinTypeOK, CellFields
<1>1. /\ Clock \in Nat /\ demo_elapsed <= Clock
      /\ (Clock < InjectUntil => Clock = demo_elapsed + 1)
      /\ (Clock < InjectUntil => demo_elapsed < InjectUntil)
  BY <1>0 DEF Clock
<1>2. /\ DOMAIN h = CellFields /\ h.total_jams \in Nat
      /\ h.total_jams + Clearable(h) = due
      /\ h.force_jam_pe2 = cell.force_jam_pe2 /\ h.jam_clear_hold = cell.jam_clear_hold
  <2>1. Keeps(cell, a)
    BY <1>0, StagesKeep
  <2> HIDE DEF a
  <2>2. Keeps(a, b)
    BY <2>1, StagesKeep DEF Keeps
  <2> HIDE DEF b
  <2>3. Keeps(b, c)
    BY <2>2, StagesKeep DEF Keeps
  <2> HIDE DEF c
  <2>4. Keeps(c, h)
    BY <2>3, StagesKeep DEF Keeps
  <2> HIDE DEF h
  <2> QED BY <2>1, <2>2, <2>3, <2>4 DEF Keeps
<1> HIDE DEF h
<1>3. /\ DOMAIN e = CellFields /\ e.total_jams \in Nat
      /\ e.total_jams + Clearable(e) = due
      /\ e.jam_clear_hold = cell.jam_clear_hold
      /\ e.force_jam_pe2 =>
           cell.force_jam_pe2 \/ (InjectFrom <= Clock /\ Clock < InjectUntil)
  <2> DEFINE last == CHOOSE i \in DOMAIN packages : \A j \in DOMAIN packages : j <= i
  <2>1. \/ e = h
        \/ /\ e = [h EXCEPT !.force_jam_pe2 = TRUE, !.jammed_pkg_id = last]
           /\ InjectFrom <= Clock /\ Clock < InjectUntil
    BY DEF Injected
  <2> HIDE DEF last, e, due
  <2>2. CASE e = h
    BY <1>2, <2>2 DEF Clearable
  <2>3. CASE /\ e = [h EXCEPT !.force_jam_pe2 = TRUE, !.jammed_pkg_id = last]
             /\ InjectFrom <= Clock /\ Clock < InjectUntil
    <3>1. /\ DOMAIN e = CellFields /\ e.total_jams = h.total_jams /\ e.faulted = h.faulted
          /\ e.jam_clear_hold = h.jam_clear_hold
      BY <1>2, <2>3 DEF CellFields
    <3> QED BY <1>2, <2>3, <3>1 DEF Clearable
  <2> QED BY <2>1, <2>2, <2>3
<1> HIDE DEF e, due
<1>4. e.force_jam_pe2 => Clock >= InjectFrom /\ Forceable(cell, demo_elapsed) = 1
  BY <1>0, <1>1, <1>3 DEF HoldInvariant, Forceable
<1>5. Forceable(e, Clock) <= Forceable(cell, demo_elapsed)
  BY <1>0, <1>1, <1>4 DEF Forceable
<1>6. Clock < InjectUntil =>
        cell.jam_clear_hold = 0 \/ cell.jam_clear_hold <= Clock - InjectFrom
  BY <1>0, <1>1 DEF HoldInvariant
<1>7. /\ f.total_jams + Clearable(f) + Forceable(f, Clock)
           <= due + Forceable(cell, demo_elapsed)
      /\ Waits(f, Clock)
  <2>0. due \in Nat /\ Clearable(e) \in {0, 1} /\ Forceable(e, Clock) \in {0, 1}
        /\ Forceable(cell, demo_elapsed) \in {0, 1}
    BY <1>0 DEF due, Clearable, Forceable
  <2>1. CASE f = e
    <3>1. f.total_jams + Clearable(f) = due /\ Forceable(f, Clock) = Forceable(e, Clock)
      BY <1>3, <2>1
    <3>2. Waits(f, Clock)
      BY <1>0, <1>1, <1>3, <1>4, <1>6, <2>1 DEF Waits
    <3> QED BY <1>5, <2>0, <3>1, <3>2 DEF Forceable
  <2>2. CASE f = [e EXCEPT !.jam_clear_hold = e.jam_clear_hold + 1] /\ e.force_jam_pe2
    <3>1. /\ f.total_jams = e.total_jams /\ f.faulted = e.faulted
          /\ f.force_jam_pe2 = e.force_jam_pe2
          /\ f.jam_clear_hold = cell.jam_clear_hold + 1
      BY <1>3, <2>2 DEF CellFields
    <3>2. f.total_jams + Clearable(f) = due /\ Forceable(f, Clock) = Forceable(e, Clock)
      BY <1>3, <3>1 DEF Clearable, Forceable
    <3>3. Waits(f, Clock)
      BY <1>0, <1>1, <1>4, <1>6, <2>2, <3>1 DEF Waits
    <3> QED BY <1>5, <2>0, <3>2, <3>3 DEF Forceable
  <2>3. CASE /\ f = [e EXCEPT !.jam_clear_hold = 0, !.faulted = FALSE,
                        !.force_jam_pe2 = FALSE, !.state = UNHOLDING, !.state_timer = 0]
             /\ e.force_jam_pe2 /\ ~(e.jam_clear_hold + 1 < ClearTicks)
    <3>1. /\ f.total_jams = e.total_jams /\ ~f.faulted /\ ~f.force_jam_pe2
          /\ f.jam_clear_hold = 0
      BY <1>3, <2>3 DEF CellFields
    <3>2. Clock >= InjectUntil
      BY <1>0, <1>1, <1>3, <1>6, <2>3
    <3>3. Forceable(f, Clock) = 0 /\ Clearable(f) = 1
      BY <1>0, <1>1, <3>1, <3>2 DEF Forceable, Clearable
    <3>4. f.total_jams <= due
      BY <1>3, <2>0, <3>1
    <3>5. Waits(f, Clock)
      BY <3>1 DEF Waits
    <3> QED BY <1>3, <1>4, <2>0, <2>3, <3>1, <3>3, <3>4, <3>5
  <2> QED BY <2>1, <2>2, <2>3 DEF Cleared
<1>8. Controlled(Clock) = f
  BY DEF Controlled, e, h
<1> QED BY <1>7, <1>8 DEF due

\* What a cell that nobody has called can still have is no more than two.
LEMMA CalmSpent ==
  ASSUME CalmAssumption, TwinTypeOK, CalmControl
  PROVE  /\ cell.total_jams <= 1
         /\ cell.total_jams + Clearable(cell) + Forceable(cell, demo_elapsed) <= 2
         /\ cell.faulted => cell.total_jams = 1 /\ demo_elapsed = InjectUntil
<1> USE DEF IDLE, STARTING, EXECUTE, HOLDING, HELD, UNHOLDING
<1>1. cell.faulted = (cell.state \in {HOLDING, HELD}) /\ InjectUntil \in Nat
  BY Demo DEF CalmControl
<1>2. CASE cell.state \in {HOLDING, HELD}
  <2>1. cell.faulted /\ cell.total_jams = 1 /\ demo_elapsed = InjectUntil
    BY <1>1, <1>2 DEF CalmControl
  <2> QED BY <2>1 DEF Clearable, Forceable
<1>3. CASE cell.state \notin {HOLDING, HELD}
  <2>1. ~cell.faulted
    BY <1>1, <1>3, Zenon
  <2>2. \/ cell.total_jams = 0
        \/ cell.total_jams = 1 /\ ~cell.force_jam_pe2 /\ demo_elapsed = InjectUntil
    BY <1>3 DEF CalmControl
  <2> QED BY <1>1, <2>1, <2>2 DEF Clearable, Forceable
<1> QED BY <1>2, <1>3

\* A call adds one at most, the first of them none.
LEMMA ClientSpends ==
  ASSUME CalmAssumption, TwinTypeOK, JamInvariant, Client
  PROVE  JamInvariant'
<1> USE DEF STOPPED, STARTING, HOLDING, HELD, UNHOLDING, STOPPING, IDLE
<1>0. /\ calls \in Nat /\ calls' = calls + 1 /\ demo_elapsed' = demo_elapsed
      /\ DOMAIN cell = CellFields /\ cell.total_jams \in Nat
      /\ demo_elapsed \in Nat /\ InjectUntil \in Nat
  BY Demo DEF Client, start_cell, stop_cell, reset_jam, WriteSpeed, WriteCommand, Called,
              methodVars, TwinTypeOK, CellFields
<1>1. Calm'
  BY <1>0 DEF Calm
<1>2. calls = 0 => CalmControl
  BY DEF JamInvariant, Calm
<1>3. cell.total_jams + Clearable(cell) + Forceable(cell, demo_elapsed)
        <= (IF calls = 0 THEN 2 ELSE calls + 1)
  <2>1. CASE calls = 0
    BY <1>2, <2>1, CalmSpent
  <2>2. CASE calls # 0
    BY <1>0, <2>2, SpentIs DEF JamInvariant
  <2> QED BY <2>1, <2>2
<1>4. \/ /\ cell'.total_jams = cell.total_jams /\ cell'.faulted = cell.faulted
         /\ cell'.force_jam_pe2 = cell.force_jam_pe2
         /\ cell'.jam_clear_hold = cell.jam_clear_hold
      \/ /\ cell'.total_jams = cell.total_jams /\ ~cell'.faulted /\ ~cell'.force_jam_pe2
         /\ cell'.jam_clear_hold = cell.jam_clear_hold /\ cell.faulted
  BY <1>0 DEF Client, start_cell, stop_cell, reset_jam, WriteSpeed, WriteCommand, cellVars,
              CellFields
<1>5. cell'.total_jams + Clearable(cell') + Forceable(cell', demo_elapsed') <= calls' + 1
  <2>1. CASE /\ cell'.faulted = cell.faulted /\ cell'.total_jams = cell.total_jams
             /\ cell'.force_jam_pe2 = cell.force_jam_pe2
    BY <1>0, <1>3, <2>1 DEF Clearable, Forceable
  <2>2. CASE /\ cell'.total_jams = cell.total_jams /\ ~cell'.faulted /\ ~cell'.force_jam_pe2
             /\ cell.faulted
    <3>1. CASE calls = 0
      <4>1. cell.total_jams = 1 /\ demo_elapsed = InjectUntil
        BY <1>2, <2>2, <3>1, CalmSpent
      <4> QED BY <1>0, <2>2, <3>1, <4>1 DEF Clearable, Forceable
    <3>2. CASE calls # 0
      BY <1>0, <1>3, <2>2, <3>2 DEF Clearable, Forceable
    <3> QED BY <3>1, <3>2
  <2> QED BY <1>4, <2>1, <2>2
<1>6. Spent'
  BY <1>5 DEF Spent, Clearable, Forceable
<1>7. HoldInvariant'
  BY <1>0, <1>4 DEF HoldInvariant, JamInvariant
<1> QED BY <1>1, <1>6, <1>7 DEF JamInvariant

\* An iteration of a cell that was called.
LEMMA TickSpends ==
  ASSUME CalmAssumption, TwinTypeOK, TwinTypeOK', JamInvariant, NEW target \in Targets,
         Tick(target)
  PROVE  JamInvariant'
<1>1. cell' = Controlled(Clock) /\ demo_elapsed' = Clock /\ calls' = calls
  BY DEF Tick, Clock
<1>2. Calm'
  BY <1>1, TickCalm DEF JamInvariant, Calm, AtEase
<1>3. /\ cell'.total_jams + Clearable(cell') + Forceable(cell', demo_elapsed')
           <= cell.total_jams + Clearable(cell) + Forceable(cell, demo_elapsed)
      /\ Waits(cell', demo_elapsed')
  BY <1>1, ControlSpends DEF JamInvariant
<1>4. Spent'
  <2>1. calls > 0 => cell.total_jams + Clearable(cell) + Forceable(cell, demo_elapsed)
                       <= calls + 1
    BY SpentIs DEF JamInvariant
  <2>2. cell.total_jams \in Nat /\ cell'.total_jams \in Nat /\ calls \in Nat
    BY DEF TwinTypeOK
  <2>3. calls' > 0 => cell'.total_jams + Clearable(cell') + Forceable(cell', demo_elapsed')
                        <= calls' + 1
    BY <1>1, <1>3, <2>1, <2>2 DEF Clearable, Forceable
  <2> QED BY <2>3 DEF Spent, Clearable, Forceable
<1>5. HoldInvariant'
  BY <1>3 DEF HoldInvariant, Waits
<1> QED BY <1>2, <1>4, <1>5 DEF JamInvariant

\* Every step keeps the invariant, and it holds at first.
LEMMA JamStep ==
  ASSUME CalmAssumption, TwinTypeOK, TwinTypeOK', JamInvariant, [TwinNext]_twinVars
  PROVE  JamInvariant'
<1> USE DEF JamInvariant, Calm, Spent, HoldInvariant, CalmControl, CalmSpeed, CalmSupply,
            CalmBelt, Behind, Apart, WatchInTime, Jammed, Stuck, OnBelt, Pos, InBeam
<1>1. CASE UNCHANGED twinVars
  BY <1>1 DEF twinVars, cellVars
<1>2. CASE Publish
  BY <1>2 DEF Publish, cellVars
<1>3. ASSUME NEW target \in Targets, Tick(target) PROVE JamInvariant'
  BY <1>3, TickSpends
<1>4. CASE Client
  BY <1>4, ClientSpends
<1> QED
  BY <1>1, <1>2, <1>3, <1>4 DEF TwinNext, Loop

LEMMA JamInit ==
  ASSUME CalmAssumption, TwinInit
  PROVE  JamInvariant
<1>1. /\ cell.state = IDLE /\ ~cell.running /\ ~cell.faulted /\ cell.state_timer = 0
      /\ ~cell.force_jam_pe2 /\ cell.total_jams = 0 /\ cell.jam_clear_hold = 0
      /\ speed_node = NominalSpeed /\ speed_fb = 0 /\ demo_elapsed = 0 /\ calls = 0
      /\ packages = << >> /\ package_counter = 1 /\ spawn_timer = 0 /\ pe = {}
  BY DEF TwinInit, CellInit, NamespaceInit, LoopInit
<1>2. OnBelt = {} /\ DOMAIN packages = {}
  BY <1>1 DEF OnBelt
<1>3. ~Jammed
  BY <1>1 DEF Jammed
<1>4. DemoStart \in Nat \ {0} /\ NominalSpeed \in Nat /\ SpawnTicks \in Nat \ {0}
  BY Demo
<1>5. /\ cell.running = (cell.state # IDLE) /\ cell.faulted = (cell.state \in {HOLDING, HELD})
  <2>1. cell.running = FALSE /\ cell.faulted = FALSE /\ cell.state = IDLE
    BY DEF TwinInit, CellInit
  <2>2. (cell.state # IDLE) = FALSE /\ (cell.state \in {HOLDING, HELD}) = FALSE
    BY <2>1 DEF IDLE, HOLDING, HELD
  <2> QED BY <2>1, <2>2
<1>6. CalmControl
  BY <1>1, <1>2, <1>4, <1>5 DEF CalmControl, IDLE, STARTING, EXECUTE, HOLDING, HELD, UNHOLDING
<1>7. CalmSpeed /\ CalmSupply
  BY <1>1, <1>3, <1>4 DEF CalmSpeed, CalmSupply, IDLE, STARTING, EXECUTE, UNHOLDING
<1>8. CalmBelt
  BY <1>1, <1>2, <1>3 DEF CalmBelt, Behind, Apart, WatchInTime
<1>9. Spent /\ HoldInvariant
  BY <1>1 DEF Spent, HoldInvariant
<1> QED BY <1>6, <1>7, <1>8, <1>9 DEF JamInvariant, Calm

\* For any times and places of which DemoJamsOne holds, and any number of packages
\* and of calls: a jam is counted once for as long as it lasts.
THEOREM JamCountedOnceCorrect ==
  ASSUME PushersReach, DemoJamsOne
  PROVE  TwinSpec => []JamCountedOnce
<1>1. CalmAssumption
  BY DigitalTwinAssumption DEF CalmAssumption
<1>2. TwinInit => JamInvariant
  BY <1>1, JamInit
<1>3. JamInvariant /\ TwinTypeOK /\ TwinTypeOK' /\ [TwinNext]_twinVars => JamInvariant'
  BY <1>1, JamStep
<1>4. JamInvariant /\ TwinTypeOK => JamCountedOnce
  <2> SUFFICES ASSUME JamInvariant, TwinTypeOK PROVE JamCountedOnce
    OBVIOUS
  <2>1. cell.total_jams \in Nat /\ calls \in Nat
    BY DEF TwinTypeOK
  <2>2. CASE calls = 0
    BY <1>1, <2>1, <2>2, CalmSpent DEF JamInvariant, Calm, JamCountedOnce
  <2>3. CASE calls > 0
    BY <2>1, <2>3 DEF JamInvariant, Spent, JamCountedOnce
  <2> QED BY <2>1, <2>2, <2>3
<1> QED
  BY <1>2, <1>3, <1>4, TwinTypeCorrect, PTL DEF TwinSpec
==============================================================================
