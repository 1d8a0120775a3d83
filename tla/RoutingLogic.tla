----------------------------- MODULE RoutingLogic -----------------------------
(* plc/FB_RoutingLogic.st: package registration at PE1, position tracking by *)
(* integration of the belt speed, scan association at PE2, diverter requests *)
(* and exit verification at PE4..PE6.  One step is one call by the 50 ms     *)
(* task.  Positions are in units of length, ages in scans.                   *)
(*                                                                           *)
(* A freed slot of arrQueue keeps stale fields that nothing reads before     *)
(* they are overwritten; it is represented by Empty.                         *)
EXTENDS Integers, MHMCTypes

CONSTANTS
  QueueSize,           \* length of arrQueue
  RegisterPosition,    \* rPosition of a package seen at PE1
  ExitMargin,          \* how far beyond the reject exit a package may be tracked
  DefaultGeometry      \* the FDS geometry used when the recipe has none

Slots == 1..QueueSize

Window == [from : Int, to : Int]

Geometry ==            \* the geometry fields of ST_SortRecipe
  [scanner : Window, diverter1 : Window, diverter2 : Window,
   rRejectExit : Int, rPackageTimeout : Int]

\* A scanned string is characterised by what FIND reports of it: the lane
\* patterns it contains and the BAD-SCAN marker.
Barcodes == SUBSET {"LANE_A", "LANE_B", "BAD_SCAN"}

RoutingInput ==        \* VAR_INPUT
  [xConveyorRunning : BOOLEAN, rConveyorSpeed : Int, sScannerString : Barcodes,
   xScannerReadSuccess : BOOLEAN, xRawPE4 : BOOLEAN, xRawPE5 : BOOLEAN,
   xRawPE6 : BOOLEAN, xResetAlarms : BOOLEAN, xPE1 : BOOLEAN, xPE2 : BOOLEAN,
   eCurrentMode : Modes, stActiveRecipe : Geometry,
   xManualDiverter1 : BOOLEAN, xManualDiverter2 : BOOLEAN,
   xManualScanner : BOOLEAN, xAutoEnable : BOOLEAN,
   xMaintenanceSafeguardsOK : BOOLEAN,
   xDiverter1Ready : BOOLEAN, xDiverter2Ready : BOOLEAN,
   xDiverter1Done : BOOLEAN, xDiverter2Done : BOOLEAN,
   xDiverter1Faulted : BOOLEAN, xDiverter2Faulted : BOOLEAN]

ASSUME RoutingAssumption ==
  /\ QueueSize \in Nat \ {0}
  /\ RegisterPosition \in Int /\ ExitMargin \in Nat
  /\ DefaultGeometry \in Geometry

VARIABLES
  arrQueue,
  uiNextPackageID,
  lastEdges,           \* xPE1_Last .. xPE6_Last and xManualScannerLast
  xRouteFault,         \* latched until a reset
  counts,              \* udiTotalCount and the three lane counters
  routingOut           \* diverter requests and one-scan pulses

routingVars == <<arrQueue, uiNextPackageID, lastEdges, xRouteFault, counts,
                 routingOut>>

Package ==             \* ST_Package
  [uID : Nat, eRouteTarget : RouteTargets, rPosition : Int, rAge : Int,
   xScanned : BOOLEAN, xDivertIssued : BOOLEAN]

Empty == [uID |-> 0]   \* xActive = FALSE

Edges == {"PE1", "PE2", "PE4", "PE5", "PE6", "SCANNER"}
Counters == {"TOTAL", "LANE_A", "LANE_B", "REJECT"}
Pulses == {"extend1", "extend2", "scannerTrigger", "manualTrigger", "registered",
           "scanGood", "scanBad", "laneA", "laneB", "reject", "overflow",
           "scannerTimeout"}

TypeOK ==
  /\ arrQueue \in [Slots -> Package \cup {Empty}]
  /\ uiNextPackageID \in Nat
  /\ lastEdges \in [Edges -> BOOLEAN]
  /\ xRouteFault \in BOOLEAN
  /\ counts \in [Counters -> Nat]
  /\ routingOut \in [Pulses -> BOOLEAN]

RoutingInit ==
  /\ arrQueue = [s \in Slots |-> Empty]
  /\ uiNextPackageID = 1
  /\ lastEdges = [e \in Edges |-> FALSE]
  /\ xRouteFault = FALSE
  /\ counts = [c \in Counters |-> 0]
  /\ routingOut = [p \in Pulses |-> FALSE]

------------------------------------------------------------------------------
(* Recipe normalisation and mode gating.                                     *)

GivenOr(window, default) == IF window.to <= window.from THEN default ELSE window

NormalisedGeometry(in) ==
  LET r == in.stActiveRecipe d == DefaultGeometry IN
  [scanner |-> GivenOr(r.scanner, d.scanner),
   diverter1 |-> GivenOr(r.diverter1, d.diverter1),
   diverter2 |-> GivenOr(r.diverter2, d.diverter2),
   rRejectExit |-> IF r.rRejectExit <= 0 THEN d.rRejectExit ELSE r.rRejectExit,
   rPackageTimeout |-> IF r.rPackageTimeout <= 0 THEN d.rPackageTimeout
                       ELSE r.rPackageTimeout]

AutoRouteActive(in) == in.xAutoEnable /\ in.eCurrentMode = "AUTO"

HandRouteActive(in) ==
  \/ in.eCurrentMode = "MANUAL"
  \/ in.eCurrentMode = "MAINTENANCE" /\ in.xMaintenanceSafeguardsOK

------------------------------------------------------------------------------
(* The queue.                                                                *)

Active(q) == {s \in Slots : q[s] # Empty}

\* The code scans the array upwards and takes the first slot that qualifies.
LowestSlot(set) == CHOOSE s \in set : \A t \in set : s <= t

Inside(position, window) == window.from <= position /\ position <= window.to

\* Removes the packages in the given slots.
Drop(q, set) == [s \in Slots |-> IF s \in set THEN Empty ELSE q[s]]

NewPackage ==
  [uID |-> uiNextPackageID, eRouteTarget |-> "NONE",
   rPosition |-> RegisterPosition, rAge |-> 0,
   xScanned |-> FALSE, xDivertIssued |-> FALSE]

Registered(q) ==
  LET free == Slots \ Active(q)
  IN IF free = {} THEN q ELSE [q EXCEPT ![LowestSlot(free)] = NewPackage]

Moving(in) == in.xConveyorRunning /\ in.rConveyorSpeed > 0

\* Faulty variants (the "...Bug" operators are used by no specification; each
\* stands for a slip in the operator that follows it).
MovedBug(q, in) ==           \* moves a fresh package only from the next scan on
  [s \in Slots |->
     IF q[s] = Empty \/ q[s].uID = uiNextPackageID THEN q[s]
     ELSE [q[s] EXCEPT !.rPosition = @ + in.rConveyorSpeed, !.rAge = @ + 1]]

Moved(q, in) ==
  [s \in Slots |->
     IF q[s] = Empty THEN Empty
     ELSE [q[s] EXCEPT !.rPosition = @ + in.rConveyorSpeed, !.rAge = @ + 1]]

TimedOut(q, g) == {s \in Active(q) : q[s].rAge > g.rPackageTimeout}

ScannableBug(q, g) ==        \* forgets the scanner window
  {s \in Active(q) : ~q[s].xScanned}

\* The packages a PE2 edge may be associated with.
Scannable(q, g) ==
  {s \in Active(q) : ~q[s].xScanned /\ Inside(q[s].rPosition, g.scanner)}

BarcodeGood(in) == in.xScannerReadSuccess /\ "BAD_SCAN" \notin in.sScannerString

\* Everything that is not a lane package goes to the reject exit.
AssignedRoute(in) ==
  IF ~BarcodeGood(in) THEN "REJECT"
  ELSE IF "LANE_A" \in in.sScannerString THEN "LANE_A"
  ELSE IF "LANE_B" \in in.sScannerString THEN "LANE_B"
  ELSE "REJECT"

Scanned(q, g, in) ==
  IF Scannable(q, g) = {} THEN q
  ELSE [q EXCEPT ![LowestSlot(Scannable(q, g))] =
          [@ EXCEPT !.xScanned = TRUE, !.eRouteTarget = AssignedRoute(in)]]

\* Packages beyond the scanner window that no scan was associated with.
Missed(q, g) ==
  {s \in Active(q) : ~q[s].xScanned /\ q[s].rPosition > g.scanner.to}

MissedRejected(q, g) ==
  [s \in Slots |->
     IF s \in Missed(q, g)
     THEN [q[s] EXCEPT !.xScanned = TRUE, !.eRouteTarget = "REJECT"] ELSE q[s]]

(* Diverter requests: d is the diverter's view, [lane, window, ready, done,  *)
(* faulted].                                                                 *)
Diverter1(g, in) ==
  [lane |-> "LANE_A", window |-> g.diverter1, ready |-> in.xDiverter1Ready,
   done |-> in.xDiverter1Done, faulted |-> in.xDiverter1Faulted]

Diverter2(g, in) ==
  [lane |-> "LANE_B", window |-> g.diverter2, ready |-> in.xDiverter2Ready,
   done |-> in.xDiverter2Done, faulted |-> in.xDiverter2Faulted]

ForLane(q, d) == {s \in Active(q) : q[s].eRouteTarget = d.lane}

InFiringWindowBug(q, d) == ForLane(q, d)     \* forgets the window

InFiringWindow(q, d) == {s \in ForLane(q, d) : Inside(q[s].rPosition, d.window)}

FiringBug(q, d) ==           \* asks for a ready diverter all through the window
  {s \in InFiringWindow(q, d) : ~d.faulted /\ d.ready}

\* The packages a firing command is issued or renewed for in this scan.
Firing(q, d) ==
  {s \in InFiringWindow(q, d) : ~d.faulted /\ (d.ready \/ q[s].xDivertIssued)}

ExtendRequest(q, d) == Firing(q, d) # {} /\ ~d.done

\* A package is in the window and cannot be fired at, or has passed unfired.
FiringFault(q, d) ==
  \/ InFiringWindow(q, d) \ Firing(q, d) # {}
  \/ \E s \in ForLane(q, d) :
       q[s].rPosition > d.window.to /\ ~q[s].xDivertIssued

Issued(q, d) ==
  [s \in Slots |->
     IF s \in Firing(q, d) THEN [q[s] EXCEPT !.xDivertIssued = TRUE] ELSE q[s]]

(* Exit verification.                                                        *)
VerifiableLaneBug(q, d) ==   \* only while the package is in the window
  {s \in ForLane(q, d) : q[s].xDivertIssued /\ Inside(q[s].rPosition, d.window)}

VerifiableLane(q, d) ==
  {s \in ForLane(q, d) : q[s].xDivertIssued /\ q[s].rPosition >= d.window.from}

VerifiableReject(q, g) ==
  {s \in Active(q) : /\ q[s].eRouteTarget = "REJECT" /\ q[s].xScanned
                     /\ q[s].rPosition >= g.scanner.to}

LeftCell(q, g) == {s \in Active(q) : q[s].rPosition > g.rRejectExit + ExitMargin}

------------------------------------------------------------------------------
(* The block.                                                                *)

Rising(now, edge) == now /\ ~lastEdges[edge]

PE1Edge(in) == AutoRouteActive(in) /\ Rising(in.xPE1, "PE1")
PE2Edge(in) == AutoRouteActive(in) /\ Rising(in.xPE2, "PE2")

One(event) == IF event THEN 1 ELSE 0

\* Section 2: a reset empties the queue, a package is registered at PE1, and
\* then every package moves.
Kept(in) == IF in.xResetAlarms THEN [s \in Slots |-> Empty] ELSE arrQueue

Entered(kept, in) == IF PE1Edge(in) THEN Registered(kept) ELSE kept

Tracked(q, in) == IF AutoRouteActive(in) /\ Moving(in) THEN Moved(q, in) ELSE q

Expired(q, g, in) ==
  IF AutoRouteActive(in) /\ Moving(in) THEN TimedOut(q, g) ELSE {}

\* Sections 3 and 4: scanner association, missed scans, diverter requests.
Read(q, g, in) == IF PE2Edge(in) THEN Scanned(q, g, in) ELSE q

Routed(q, g, in) == IF AutoRouteActive(in) THEN MissedRejected(q, g) ELSE q

Fired(q, g, in) ==
  IF AutoRouteActive(in)
  THEN Issued(Issued(q, Diverter1(g, in)), Diverter2(g, in)) ELSE q

\* Section 5: the slots that the exit edges of this scan verify.
VerifiedA(q, g, in) ==
  IF AutoRouteActive(in) /\ Rising(in.xRawPE4, "PE4")
  THEN VerifiableLane(q, Diverter1(g, in)) ELSE {}

VerifiedB(q, g, in) ==
  IF AutoRouteActive(in) /\ Rising(in.xRawPE5, "PE5")
  THEN VerifiableLane(q, Diverter2(g, in)) ELSE {}

VerifiedR(q, g, in) ==
  IF AutoRouteActive(in) /\ Rising(in.xRawPE6, "PE6")
  THEN VerifiableReject(q, g) ELSE {}

\* An exit edge that no tracked package accounts for.
UnmatchedExit(edge, now, set, in) ==
  AutoRouteActive(in) /\ Rising(now, edge) /\ set = {}

\* The lowest slot of a set is freed.
Freed(q, set) == IF set = {} THEN q ELSE Drop(q, {LowestSlot(set)})

Left(q, g, in) == IF AutoRouteActive(in) THEN LeftCell(q, g) ELSE {}

Count(a, b, r) ==
  counts' = [counts EXCEPT !["TOTAL"] = @ + One(a) + One(b) + One(r),
                           !["LANE_A"] = @ + One(a),
                           !["LANE_B"] = @ + One(b),
                           !["REJECT"] = @ + One(r)]

\* What a call writes, given the queue after each of its sections.
RoutingEffect(in, g, kept, moved, timely, read, routed, fired, a, b, r) ==
  LET auto == AutoRouteActive(in)
      hand == HandRouteActive(in)
      full == PE1Edge(in) /\ Active(kept) = Slots
      matched == PE2Edge(in) /\ Scannable(timely, g) # {}
      unmatched == PE2Edge(in) /\ ~matched
      missed == auto /\ Missed(read, g) # {}
      badScan == (matched /\ ~BarcodeGood(in)) \/ unmatched \/ missed
      verified == Freed(Freed(Freed(fired, a), b), r)
      left == Left(verified, g, in)
  IN
  /\ arrQueue' = Drop(verified, left)
  /\ uiNextPackageID' = uiNextPackageID + One(PE1Edge(in) /\ ~full)
  /\ xRouteFault' =
       \/ xRouteFault /\ ~in.xResetAlarms
       \/ full \/ Expired(moved, g, in) # {} \/ unmatched \/ missed
       \/ auto /\ \/ FiringFault(routed, Diverter1(g, in))
                  \/ FiringFault(routed, Diverter2(g, in))
       \/ UnmatchedExit("PE4", in.xRawPE4, a, in)
       \/ UnmatchedExit("PE5", in.xRawPE5, b, in)
       \/ UnmatchedExit("PE6", in.xRawPE6, r, in)
       \/ left # {}
  /\ Count(a # {}, b # {}, r # {})
  /\ routingOut' =
       [extend1 |-> IF auto THEN ExtendRequest(routed, Diverter1(g, in))
                    ELSE hand /\ in.xManualDiverter1,
        extend2 |-> IF auto THEN ExtendRequest(routed, Diverter2(g, in))
                    ELSE hand /\ in.xManualDiverter2,
        scannerTrigger |->
          PE2Edge(in) \/ (hand /\ Rising(in.xManualScanner, "SCANNER")),
        manualTrigger |-> hand /\ in.xManualScanner,
        registered |-> PE1Edge(in) /\ ~full,
        scanGood |-> matched /\ BarcodeGood(in),
        scanBad |-> badScan,
        laneA |-> a # {}, laneB |-> b # {}, reject |-> r # {},
        overflow |-> full, scannerTimeout |-> badScan]
  /\ lastEdges' =
       [PE1 |-> in.xPE1, PE2 |-> in.xPE2, PE4 |-> in.xRawPE4,
        PE5 |-> in.xRawPE5, PE6 |-> in.xRawPE6, SCANNER |-> in.xManualScanner]

\* One call of the block.  The quantifiers over one element name the queue after
\* each section, so that TLC computes it once.
RoutingScan(in) ==
  \E g \in {NormalisedGeometry(in)}, kept \in {Kept(in)} :
  \E moved \in {Tracked(Entered(kept, in), in)} :
  \E timely \in {Drop(moved, Expired(moved, g, in))} :
  \E read \in {Read(timely, g, in)} :
  \E routed \in {Routed(read, g, in)} :
  \E fired \in {Fired(routed, g, in)} :
  \E a \in {VerifiedA(fired, g, in)}, b \in {VerifiedB(fired, g, in)},
     r \in {VerifiedR(fired, g, in)} :
    RoutingEffect(in, g, kept, moved, timely, read, routed, fired, a, b, r)

==============================================================================
