-------------------------- MODULE SortingCell_proofs --------------------------
(* The KPI counters agree with the routing counters, the routing knows where *)
(* each package is, and it routes each package by its own label: for every   *)
(* geometry, layout, timing and feed of the cell, as far as the hypotheses   *)
(* of each theorem go.                                                       *)
EXTENDS SortingCell, NaturalsInduction, WellFoundedInduction, TLAPS

(* The KPI service counts rising edges of one-scan pulses, so it would lose   *)
(* the second of two pulses in consecutive scans.  It never meets two: a      *)
(* pulse comes with a rising edge of an exit barrier, and a barrier that rises*)
(* in a scan was free in the scan before.  PulseMemory is this argument as an *)
(* invariant over the edge memories of the two blocks.                       *)
PulseMemory ==
  /\ kpiLast["laneA"] => lastEdges["PE4"]
  /\ kpiLast["laneB"] => lastEdges["PE5"]
  /\ kpiLast["reject"] => lastEdges["PE6"]

CountersOK ==
  /\ counts \in [Counters -> Int]
  /\ kpiBase \in [Counters -> Int]
  /\ kpiCounts \in [KPICounters -> Int]

KPIInvariant == CountersOK /\ PulseMemory /\ KPIAgrees

\* What one scan of the routing does to its counters, pulses and edge memories:
\* a pulse is a rising edge and is counted once.
LEMMA RoutingCounts ==
  ASSUME NEW in, RoutingScan(in)
  PROVE  \E a, b, r \in BOOLEAN :
           /\ Count(a, b, r)
           /\ routingOut'.laneA = a /\ routingOut'.laneB = b
           /\ routingOut'.reject = r
           /\ a => in.xRawPE4 /\ ~lastEdges["PE4"]
           /\ b => in.xRawPE5 /\ ~lastEdges["PE5"]
           /\ r => in.xRawPE6 /\ ~lastEdges["PE6"]
           /\ lastEdges'["PE4"] = in.xRawPE4
           /\ lastEdges'["PE5"] = in.xRawPE5
           /\ lastEdges'["PE6"] = in.xRawPE6
<1>1. PICK g, kept, moved, timely, read, routed, fired, a, b, r :
        /\ a = VerifiedA(fired, g, in) /\ b = VerifiedB(fired, g, in)
        /\ r = VerifiedR(fired, g, in)
        /\ RoutingEffect(in, g, kept, moved, timely, read, routed, fired, a, b, r)
  BY DEF RoutingScan
<1>3. /\ Count(a # {}, b # {}, r # {})
      /\ routingOut'.laneA = (a # {}) /\ routingOut'.laneB = (b # {})
      /\ routingOut'.reject = (r # {})
      /\ lastEdges' =
           [PE1 |-> in.xPE1, PE2 |-> in.xPE2, PE4 |-> in.xRawPE4,
            PE5 |-> in.xRawPE5, PE6 |-> in.xRawPE6,
            SCANNER |-> in.xManualScanner]
  BY <1>1 DEF RoutingEffect
<1>2. /\ a # {} => in.xRawPE4 /\ ~lastEdges["PE4"]
      /\ b # {} => in.xRawPE5 /\ ~lastEdges["PE5"]
      /\ r # {} => in.xRawPE6 /\ ~lastEdges["PE6"]
  BY <1>1 DEF VerifiedA, VerifiedB, VerifiedR, Rising
<1>4. /\ lastEdges'["PE4"] = in.xRawPE4
      /\ lastEdges'["PE5"] = in.xRawPE5
      /\ lastEdges'["PE6"] = in.xRawPE6
  BY <1>3
<1> QED
  BY <1>2, <1>3, <1>4

LEMMA KPIInit_ == CellInit => KPIInvariant
  BY DEF CellInit, RoutingInit, KPIInit, KPIInvariant, CountersOK, PulseMemory,
         KPIAgrees, Counters, KPICounters, KPISignals

LEMMA KPIStep ==
  ASSUME xUseRoutePulses, KPIInvariant, NEW command, CellScan(command)
  PROVE  KPIInvariant'
<1> DEFINE kin == KPIIn(command)
           base == IF command = "kpi" THEN Cleared ELSE kpiCounts
<1>1. PICK a, b, r \in BOOLEAN :
        /\ Count(a, b, r)
        /\ routingOut'.laneA = a /\ routingOut'.laneB = b
        /\ routingOut'.reject = r
        /\ a => RoutingIn.xRawPE4 /\ ~lastEdges["PE4"]
        /\ b => RoutingIn.xRawPE5 /\ ~lastEdges["PE5"]
        /\ r => RoutingIn.xRawPE6 /\ ~lastEdges["PE6"]
        /\ lastEdges'["PE4"] = RoutingIn.xRawPE4
        /\ lastEdges'["PE5"] = RoutingIn.xRawPE5
        /\ lastEdges'["PE6"] = RoutingIn.xRawPE6
  BY RoutingCounts DEF CellScan
<1>2. KPIScan(kin)
  BY DEF CellScan
<1>3. /\ kin.signals["laneA"] = a /\ kin.signals["laneB"] = b
      /\ kin.signals["reject"] = r
      /\ kin.xResetCounters = (command = "kpi")
  BY <1>1 DEF KPIIn
<1>4. PulseMemory'
  BY <1>1, <1>2, <1>3 DEF KPIScan, PulseMemory
<1>5. /\ PackageEvent(kin, "laneA", "PE4") = a
      /\ PackageEvent(kin, "laneB", "PE5") = b
      /\ PackageEvent(kin, "reject", "PE6") = r
  BY <1>1, <1>3 DEF KPIInvariant, PulseMemory, PackageEvent, KPIRise
<1>6. base \in [KPICounters -> Int]
  BY DEF KPIInvariant, CountersOK, Cleared
<1>7. kpiCounts' = Counted(base, kin)
  BY <1>2, <1>3 DEF KPIScan, CountEvents
<1>8. /\ kpiCounts' \in [KPICounters -> Int]
      /\ kpiCounts'["LANE_A"] = base["LANE_A"] + Tally(a)
      /\ kpiCounts'["LANE_B"] = base["LANE_B"] + Tally(b)
      /\ kpiCounts'["REJECT"] = base["REJECT"] + Tally(r)
      /\ kpiCounts'["TOTAL"] = base["TOTAL"] + Tally(a) + Tally(b) + Tally(r)
  BY <1>5, <1>6, <1>7 DEF Counted, Tally, KPICounters
<1>9. /\ counts' \in [Counters -> Int]
      /\ counts'["LANE_A"] = counts["LANE_A"] + Tally(a)
      /\ counts'["LANE_B"] = counts["LANE_B"] + Tally(b)
      /\ counts'["REJECT"] = counts["REJECT"] + Tally(r)
      /\ counts'["TOTAL"] = counts["TOTAL"] + Tally(a) + Tally(b) + Tally(r)
  BY <1>1 DEF Count, One, Tally, KPIInvariant, CountersOK, Counters
<1>10. kpiBase' = IF command = "kpi" THEN counts ELSE kpiBase
  BY DEF CellScan, Remember
<1>11. \A c \in Counters : base[c] = counts[c] - kpiBase'[c]
  BY <1>10 DEF KPIInvariant, CountersOK, KPIAgrees, Cleared, Counters, KPICounters
<1>12. KPIAgrees'
  <2> SUFFICES ASSUME NEW c \in Counters
               PROVE  kpiCounts'[c] = counts'[c] - kpiBase'[c]
    BY DEF KPIAgrees
  <2>1. base[c] \in Int /\ counts[c] \in Int /\ kpiBase'[c] \in Int
    BY <1>6, <1>10 DEF KPIInvariant, CountersOK, Counters, KPICounters
  <2>2. Tally(a) \in Int /\ Tally(b) \in Int /\ Tally(r) \in Int
    BY DEF Tally
  <2>3. c \in {"TOTAL", "LANE_A", "LANE_B", "REJECT"}
    BY DEF Counters
  <2> HIDE DEF base
  <2> QED
    BY <1>8, <1>9, <1>11, <2>1, <2>2, <2>3
<1>13. CountersOK'
  BY <1>8, <1>9, <1>10 DEF KPIInvariant, CountersOK
<1> QED
  BY <1>4, <1>12, <1>13 DEF KPIInvariant

LEMMA KPINext ==
  ASSUME xUseRoutePulses, KPIInvariant, [CellNext]_cellVars
  PROVE  KPIInvariant'
<1>1. CASE CellNext
  BY <1>1, KPIStep DEF CellNext
<1>2. CASE UNCHANGED cellVars
  BY <1>2 DEF cellVars, routingVars, kpiVars, historyVars, KPIInvariant,
     CountersOK, PulseMemory, KPIAgrees
<1> QED
  BY <1>1, <1>2

\* With the configuration of Main.st (route pulses), the KPI counters always
\* equal what the routing has verified since the last KPI reset, no pulse being
\* lost or counted twice (FB_KPIService.st against FB_RoutingLogic.st).
THEOREM KPICorrect ==
  ASSUME xUseRoutePulses
  PROVE  CellSpec => []KPIAgrees
<1>1. KPIInvariant => KPIAgrees
  BY DEF KPIInvariant
<1> QED
  BY <1>1, KPIInit_, KPINext, PTL DEF CellSpec

------------------------------------------------------------------------------
(* What one call of the routing does to the queue.                           *)

\* A nonempty set of slots has a lowest one.
LEMMA LowestIsIn ==
  ASSUME NEW S, S \subseteq Slots, S # {}
  PROVE  LowestSlot(S) \in S
<1>1. S \subseteq Nat
  BY DEF Slots
<1>2. PICK x \in S : \A y \in S : ~(<<y, x>> \in OpToRel(<, Nat))
  BY <1>1, NatLessThanWellFounded, WFMin, Zenon
<1>3. ASSUME NEW y \in S PROVE x <= y
  <2>1. x \in Nat /\ y \in Nat
    BY <1>1
  <2>2. ~(y < x)
    BY <1>2, <2>1 DEF OpToRel
  <2> QED BY <2>1, <2>2
<1> QED BY <1>3 DEF LowestSlot

Queues == [Slots -> Package \cup {Empty}]

\* The queue a scan works on, and the distance it moves the packages by.
Arrived(in) == Entered(Kept(in), in)
Distance(in) == IF AutoRouteActive(in) /\ Moving(in) THEN in.rConveyorSpeed ELSE 0

\* The fields by which a package is known, but for the divert request.
Alike(e, f) ==
  /\ e.uID = f.uID /\ e.rPosition = f.rPosition
  /\ e.xScanned = f.xScanned /\ e.eRouteTarget = f.eRouteTarget

\* Each entry of q comes from the entry of p in the same slot.
Descends(q, p) ==
  \A s \in Slots : q[s] # Empty => p[s] # Empty /\ Alike(q[s], p[s])

LEMMA DropDescends ==
  ASSUME NEW q \in Queues, NEW set
  PROVE  Drop(q, set) \in Queues /\ Descends(Drop(q, set), q)
  BY DEF Queues, Drop, Descends, Alike

LEMMA FreedDescends ==
  ASSUME NEW q \in Queues, NEW set
  PROVE  Freed(q, set) \in Queues /\ Descends(Freed(q, set), q)
<1>1. CASE set = {}
  BY <1>1 DEF Freed, Descends, Alike
<1>2. CASE set # {}
  BY <1>2, DropDescends DEF Freed
<1> QED BY <1>1, <1>2

LEMMA IssuedDescends ==
  ASSUME NEW q \in Queues, NEW d
  PROVE  Issued(q, d) \in Queues /\ Descends(Issued(q, d), q)
<1>1. ASSUME NEW s \in Slots, s \in Firing(q, d)
      PROVE  q[s] # Empty /\ q[s] \in Package
  BY <1>1 DEF Firing, InFiringWindow, ForLane, Active, Queues
<1>2. ASSUME NEW e \in Package
      PROVE  LET f == [e EXCEPT !.xDivertIssued = TRUE]
             IN f \in Package /\ Alike(f, e)
  BY DEF Package, Alike
<1>3. ASSUME NEW s \in Slots
      PROVE  /\ Issued(q, d)[s] \in Package \cup {Empty}
             /\ Issued(q, d)[s] # Empty => q[s] # Empty /\ Alike(Issued(q, d)[s], q[s])
  <2>1. CASE s \in Firing(q, d)
    BY <1>1, <1>2, <2>1 DEF Issued
  <2>2. CASE s \notin Firing(q, d)
    BY <2>2 DEF Issued, Queues, Alike
  <2> QED BY <2>1, <2>2
<1> QED BY <1>3 DEF Queues, Descends, Issued

LEMMA DescendsTransitive ==
  ASSUME NEW p, NEW q, NEW r, Descends(r, q), Descends(q, p)
  PROVE  Descends(r, p)
  BY DEF Descends, Alike

LEMMA FiredDescends ==
  ASSUME NEW q \in Queues, NEW g, NEW in
  PROVE  Fired(q, g, in) \in Queues /\ Descends(Fired(q, g, in), q)
<1> DEFINE once == Issued(q, Diverter1(g, in))
<1>1. once \in Queues /\ Descends(once, q)
  BY IssuedDescends
<1>2. /\ Issued(once, Diverter2(g, in)) \in Queues
      /\ Descends(Issued(once, Diverter2(g, in)), q)
  BY <1>1, IssuedDescends, DescendsTransitive
<1>3. Descends(q, q)
  BY DEF Descends, Alike
<1> QED BY <1>2, <1>3 DEF Fired

\* What enters: the packages that a reset leaves, and a new one at PE1.
LEMMA ArrivedQueue ==
  ASSUME RegisterPosition \in Int, uiNextPackageID \in Nat, arrQueue \in Queues, NEW in
  PROVE  /\ Arrived(in) \in Queues
         /\ \A s \in Slots :
              Arrived(in)[s] # Empty =>
                \/ /\ ~in.xResetAlarms
                   /\ arrQueue[s] # Empty /\ Arrived(in)[s] = arrQueue[s]
                \/ /\ PE1Edge(in) /\ Active(Kept(in)) # Slots
                   /\ s = LowestSlot(Slots \ Active(Kept(in)))
                   /\ Arrived(in)[s] = NewPackage
<1> DEFINE free == Slots \ Active(Kept(in))
<1>1. Kept(in) \in Queues
  BY DEF Kept, Queues
<1>2. NewPackage \in Package
  BY DEF NewPackage, Package, RouteTargets
<1>3. \A s \in Slots : Kept(in)[s] # Empty => ~in.xResetAlarms /\ Kept(in)[s] = arrQueue[s]
  BY DEF Kept
<1>4. Active(Kept(in)) \subseteq Slots
  BY DEF Active
<1>5. CASE PE1Edge(in) /\ free # {}
  <2>1. Arrived(in) = [Kept(in) EXCEPT ![LowestSlot(free)] = NewPackage]
    BY <1>5 DEF Arrived, Entered, Registered
  <2>2. LowestSlot(free) \in Slots /\ Active(Kept(in)) # Slots
    BY <1>5, LowestIsIn
  <2> QED BY <1>1, <1>2, <1>3, <1>5, <2>1, <2>2 DEF Queues
<1>6. CASE ~(PE1Edge(in) /\ free # {})
  <2>1. Arrived(in) = Kept(in)
    BY <1>6 DEF Arrived, Entered, Registered
  <2> QED BY <1>1, <1>3, <2>1
<1> QED BY <1>5, <1>6

LEMMA TrackedQueue ==
  ASSUME NEW q \in Queues, NEW in, in.rConveyorSpeed \in Int
  PROVE  /\ Tracked(q, in) \in Queues
         /\ \A s \in Slots :
              Tracked(q, in)[s] # Empty =>
                /\ q[s] # Empty
                /\ Tracked(q, in)[s].uID = q[s].uID
                /\ Tracked(q, in)[s].rPosition = q[s].rPosition + Distance(in)
                /\ Tracked(q, in)[s].xScanned = q[s].xScanned
                /\ Tracked(q, in)[s].eRouteTarget = q[s].eRouteTarget
<1>1. ASSUME NEW s \in Slots, q[s] # Empty PROVE q[s] \in Package
  BY <1>1 DEF Queues
<1>2. CASE AutoRouteActive(in) /\ Moving(in)
  <2>1. Tracked(q, in) = Moved(q, in) /\ Distance(in) = in.rConveyorSpeed
    BY <1>2 DEF Tracked, Distance
  <2>2. ASSUME NEW e \in Package
        PROVE  LET f == [e EXCEPT !.rPosition = e.rPosition + in.rConveyorSpeed,
                                  !.rAge = e.rAge + 1]
               IN /\ f \in Package /\ f.uID = e.uID
                  /\ f.rPosition = e.rPosition + in.rConveyorSpeed
                  /\ f.xScanned = e.xScanned /\ f.eRouteTarget = e.eRouteTarget
    <3>1. e.rPosition + in.rConveyorSpeed \in Int /\ e.rAge + 1 \in Int
      BY DEF Package
    <3> QED BY <3>1 DEF Package
  <2>3. ASSUME NEW s \in Slots, q[s] = Empty PROVE Moved(q, in)[s] = Empty
    BY <2>3 DEF Moved
  <2>4. ASSUME NEW s \in Slots, q[s] # Empty
        PROVE  /\ Moved(q, in)[s] \in Package
               /\ Moved(q, in)[s].uID = q[s].uID
               /\ Moved(q, in)[s].rPosition = q[s].rPosition + in.rConveyorSpeed
               /\ Moved(q, in)[s].xScanned = q[s].xScanned
               /\ Moved(q, in)[s].eRouteTarget = q[s].eRouteTarget
    BY <1>1, <2>2, <2>4 DEF Moved
  <2>5. Moved(q, in) \in Queues
    BY <2>3, <2>4 DEF Queues, Moved
  <2> QED BY <2>1, <2>3, <2>4, <2>5
<1>3. CASE ~(AutoRouteActive(in) /\ Moving(in))
  <2>1. Tracked(q, in) = q /\ Distance(in) = 0
    BY <1>3 DEF Tracked, Distance
  <2>2. ASSUME NEW s \in Slots, q[s] # Empty PROVE q[s].rPosition = q[s].rPosition + 0
    BY <1>1, <2>2 DEF Package
  <2> QED BY <2>1, <2>2
<1> QED BY <1>2, <1>3

\* e is the entry f after a scan was associated with it.
Assigned(e, f, target) ==
  /\ e.uID = f.uID /\ e.rPosition = f.rPosition
  /\ ~f.xScanned /\ e.xScanned /\ e.eRouteTarget = target

LEMMA AssignedEntry ==
  ASSUME NEW f \in Package, ~f.xScanned, NEW target \in RouteTargets
  PROVE  LET e == [f EXCEPT !.xScanned = TRUE, !.eRouteTarget = target]
         IN e \in Package /\ Assigned(e, f, target)
  BY DEF Package, Assigned

LEMMA ReadQueue ==
  ASSUME NEW q \in Queues, NEW g, NEW in
  PROVE  /\ Read(q, g, in) \in Queues
         /\ \A s \in Slots :
              Read(q, g, in)[s] # Empty =>
                /\ q[s] # Empty
                /\ \/ Alike(Read(q, g, in)[s], q[s])
                   \/ /\ PE2Edge(in) /\ s \in Scannable(q, g)
                      /\ Assigned(Read(q, g, in)[s], q[s], AssignedRoute(in))
         /\ \A s \in Scannable(q, g) :
              PE2Edge(in) /\ ~Read(q, g, in)[s].xScanned =>
                \E t \in Scannable(q, g) : t # s
<1>1. CASE PE2Edge(in) /\ Scannable(q, g) # {}
  <2> DEFINE first == LowestSlot(Scannable(q, g))
             new == [q[first] EXCEPT !.xScanned = TRUE, !.eRouteTarget = AssignedRoute(in)]
  <2>1. first \in Scannable(q, g)
    <3>1. Scannable(q, g) \subseteq Slots
      BY DEF Scannable, Active
    <3> QED BY <1>1, <3>1, LowestIsIn
  <2>2. /\ first \in Slots /\ q[first] \in Package /\ q[first] # Empty
        /\ ~q[first].xScanned
    BY <2>1 DEF Scannable, Active, Queues
  <2>3. AssignedRoute(in) \in RouteTargets
    BY DEF AssignedRoute, RouteTargets
  <2>4. new \in Package /\ Assigned(new, q[first], AssignedRoute(in))
    BY <2>2, <2>3, AssignedEntry
  <2>5. Read(q, g, in) = [q EXCEPT ![first] = new]
    BY <1>1 DEF Read, Scanned
  <2> HIDE DEF first, new
  <2>6. Read(q, g, in) \in Queues
    BY <2>2, <2>4, <2>5 DEF Queues
  <2>7. ASSUME NEW s \in Slots PROVE Read(q, g, in)[s] = IF s = first THEN new ELSE q[s]
    BY <2>5 DEF Queues
  <2>8. ASSUME NEW s \in Scannable(q, g), ~Read(q, g, in)[s].xScanned
        PROVE  \E t \in Scannable(q, g) : t # s
    <3>1. s \in Slots
      BY DEF Scannable, Active
    <3>2. s # first
      BY <2>4, <2>7, <2>8, <3>1 DEF Assigned
    <3> QED BY <2>1, <3>2
  <2>9. ASSUME NEW s \in Slots, Read(q, g, in)[s] # Empty
        PROVE  /\ q[s] # Empty
               /\ \/ Alike(Read(q, g, in)[s], q[s])
                  \/ /\ PE2Edge(in) /\ s \in Scannable(q, g)
                     /\ Assigned(Read(q, g, in)[s], q[s], AssignedRoute(in))
    <3>1. CASE s = first
      BY <1>1, <2>1, <2>2, <2>4, <2>7, <3>1
    <3>2. CASE s # first
      BY <2>7, <2>9, <3>2 DEF Alike
    <3> QED BY <3>1, <3>2
  <2> QED BY <2>6, <2>8, <2>9
<1>2. CASE ~(PE2Edge(in) /\ Scannable(q, g) # {})
  <2>1. Read(q, g, in) = q
    BY <1>2 DEF Read, Scanned
  <2> QED BY <1>2, <2>1 DEF Alike
<1> QED BY <1>1, <1>2

LEMMA RoutedQueue ==
  ASSUME NEW q \in Queues, NEW g, NEW in
  PROVE  /\ Routed(q, g, in) \in Queues
         /\ \A s \in Slots :
              Routed(q, g, in)[s] # Empty =>
                /\ q[s] # Empty
                /\ \/ Alike(Routed(q, g, in)[s], q[s])
                   \/ /\ AutoRouteActive(in) /\ q[s].rPosition > g.scanner.to
                      /\ Assigned(Routed(q, g, in)[s], q[s], "REJECT")
<1>1. CASE AutoRouteActive(in)
  <2>1. Routed(q, g, in) = MissedRejected(q, g)
    BY <1>1 DEF Routed
  <2>2. ASSUME NEW s \in Slots, s \in Missed(q, g)
        PROVE  /\ q[s] # Empty /\ q[s].rPosition > g.scanner.to
               /\ MissedRejected(q, g)[s] \in Package
               /\ Assigned(MissedRejected(q, g)[s], q[s], "REJECT")
    <3>1. /\ q[s] # Empty /\ q[s] \in Package /\ ~q[s].xScanned
          /\ q[s].rPosition > g.scanner.to
      BY <2>2 DEF Missed, Active, Queues
    <3>2. MissedRejected(q, g)[s] =
            [q[s] EXCEPT !.xScanned = TRUE, !.eRouteTarget = "REJECT"]
      BY <2>2 DEF MissedRejected
    <3>3. "REJECT" \in RouteTargets
      BY DEF RouteTargets
    <3> QED BY <3>1, <3>2, <3>3, AssignedEntry
  <2>3. ASSUME NEW s \in Slots, s \notin Missed(q, g)
        PROVE  MissedRejected(q, g)[s] = q[s]
    BY <2>3 DEF MissedRejected
  <2>4. MissedRejected(q, g) \in Queues
    <3>1. \A s \in Slots : MissedRejected(q, g)[s] \in Package \cup {Empty}
      BY <2>2, <2>3 DEF Queues
    <3>2. MissedRejected(q, g) = [s \in Slots |-> MissedRejected(q, g)[s]]
      BY DEF MissedRejected
    <3> QED BY <3>1, <3>2, Zenon DEF Queues
  <2>5. ASSUME NEW s \in Slots, MissedRejected(q, g)[s] # Empty
        PROVE  /\ q[s] # Empty
               /\ \/ Alike(MissedRejected(q, g)[s], q[s])
                  \/ /\ q[s].rPosition > g.scanner.to
                     /\ Assigned(MissedRejected(q, g)[s], q[s], "REJECT")
    BY <2>2, <2>3, <2>5 DEF Alike
  <2> QED BY <1>1, <2>1, <2>4, <2>5
<1>2. CASE ~AutoRouteActive(in)
  <2>1. Routed(q, g, in) = q
    BY <1>2 DEF Routed
  <2> QED BY <2>1 DEF Alike
<1> QED BY <1>1, <1>2

\* A call of the routing, entry by entry: an entry moves by the distance of the
\* scan and keeps what was read of it, or is read now, or has missed its scan.
LEMMA RoutingQueue ==
  ASSUME RegisterPosition \in Int, uiNextPackageID \in Nat, arrQueue \in Queues,
         NEW in, in.rConveyorSpeed \in Int, RoutingScan(in),
         NEW g, g = NormalisedGeometry(in), NEW p, p = Arrived(in)
  PROVE  /\ arrQueue' \in Queues /\ p \in Queues
         /\ uiNextPackageID' =
              uiNextPackageID + One(PE1Edge(in) /\ Active(Kept(in)) # Slots)
         /\ routingOut'.registered = (PE1Edge(in) /\ Active(Kept(in)) # Slots)
         /\ lastEdges'["PE1"] = in.xPE1 /\ lastEdges'["PE2"] = in.xPE2
         /\ xRouteFault /\ ~in.xResetAlarms => xRouteFault'
         /\ \A s \in Slots :
              arrQueue'[s] # Empty =>
                /\ p[s] # Empty /\ arrQueue'[s].uID = p[s].uID
                /\ arrQueue'[s].rPosition = p[s].rPosition + Distance(in)
                /\ \/ /\ arrQueue'[s].xScanned = p[s].xScanned
                      /\ arrQueue'[s].eRouteTarget = p[s].eRouteTarget
                   \/ /\ PE2Edge(in) /\ ~p[s].xScanned /\ arrQueue'[s].xScanned
                      /\ arrQueue'[s].eRouteTarget = AssignedRoute(in)
                      /\ Inside(arrQueue'[s].rPosition, g.scanner)
                   \/ /\ AutoRouteActive(in) /\ ~p[s].xScanned /\ arrQueue'[s].xScanned
                      /\ arrQueue'[s].eRouteTarget = "REJECT"
                      /\ arrQueue'[s].rPosition > g.scanner.to
                /\ (/\ PE2Edge(in) /\ ~arrQueue'[s].xScanned
                    /\ Inside(arrQueue'[s].rPosition, g.scanner))
                   => \E t \in Slots \ {s} :
                        /\ p[t] # Empty /\ ~p[t].xScanned
                        /\ Inside(p[t].rPosition + Distance(in), g.scanner)
<1>1. PICK kept, moved, timely, read, routed, fired, a, b, r :
        /\ kept = Kept(in) /\ moved = Tracked(Entered(kept, in), in)
        /\ timely = Drop(moved, Expired(moved, g, in))
        /\ read = Read(timely, g, in) /\ routed = Routed(read, g, in)
        /\ fired = Fired(routed, g, in)
        /\ RoutingEffect(in, g, kept, moved, timely, read, routed, fired, a, b, r)
  BY DEF RoutingScan
<1> DEFINE verified == Freed(Freed(Freed(fired, a), b), r)
<1>2. /\ arrQueue' = Drop(verified, Left(verified, g, in))
      /\ uiNextPackageID' =
           uiNextPackageID + One(PE1Edge(in) /\ ~(PE1Edge(in) /\ Active(kept) = Slots))
      /\ routingOut'.registered = (PE1Edge(in) /\ ~(PE1Edge(in) /\ Active(kept) = Slots))
      /\ lastEdges' =
           [PE1 |-> in.xPE1, PE2 |-> in.xPE2, PE4 |-> in.xRawPE4,
            PE5 |-> in.xRawPE5, PE6 |-> in.xRawPE6, SCANNER |-> in.xManualScanner]
      /\ xRouteFault /\ ~in.xResetAlarms => xRouteFault'
  BY <1>1 DEF RoutingEffect
<1>3. p \in Queues
  BY ArrivedQueue
<1>4. moved = Tracked(p, in)
  BY <1>1 DEF Arrived
<1>5. /\ moved \in Queues
      /\ \A s \in Slots :
           moved[s] # Empty =>
             /\ p[s] # Empty /\ moved[s].uID = p[s].uID
             /\ moved[s].rPosition = p[s].rPosition + Distance(in)
             /\ moved[s].xScanned = p[s].xScanned
             /\ moved[s].eRouteTarget = p[s].eRouteTarget
  BY <1>3, <1>4, TrackedQueue
<1>6. timely \in Queues /\ Descends(timely, moved)
  BY <1>1, <1>5, DropDescends
<1>7. /\ read \in Queues
      /\ \A s \in Slots :
           read[s] # Empty =>
             /\ timely[s] # Empty
             /\ \/ Alike(read[s], timely[s])
                \/ /\ PE2Edge(in) /\ s \in Scannable(timely, g)
                   /\ Assigned(read[s], timely[s], AssignedRoute(in))
      /\ \A s \in Scannable(timely, g) :
           PE2Edge(in) /\ ~read[s].xScanned => \E t \in Scannable(timely, g) : t # s
  BY <1>1, <1>6, ReadQueue
<1>8. /\ routed \in Queues
      /\ \A s \in Slots :
           routed[s] # Empty =>
             /\ read[s] # Empty
             /\ \/ Alike(routed[s], read[s])
                \/ /\ AutoRouteActive(in) /\ read[s].rPosition > g.scanner.to
                   /\ Assigned(routed[s], read[s], "REJECT")
  BY <1>1, <1>7, RoutedQueue
<1>9. fired \in Queues /\ Descends(fired, routed)
  BY <1>1, <1>8, FiredDescends
<1>10. arrQueue' \in Queues /\ Descends(arrQueue', routed)
  <2>1. Freed(fired, a) \in Queues /\ Descends(Freed(fired, a), routed)
    BY <1>9, FreedDescends, DescendsTransitive
  <2>2. /\ Freed(Freed(fired, a), b) \in Queues
        /\ Descends(Freed(Freed(fired, a), b), routed)
    BY <2>1, FreedDescends, DescendsTransitive
  <2>3. verified \in Queues /\ Descends(verified, routed)
    BY <2>2, FreedDescends, DescendsTransitive
  <2> HIDE DEF verified
  <2> QED BY <1>2, <2>3, DropDescends, DescendsTransitive
<1>11. ASSUME NEW s \in Slots, timely[s] # Empty
       PROVE  /\ p[s] # Empty /\ timely[s].uID = p[s].uID
              /\ timely[s].rPosition = p[s].rPosition + Distance(in)
              /\ timely[s].xScanned = p[s].xScanned
              /\ timely[s].eRouteTarget = p[s].eRouteTarget
  BY <1>5, <1>6, <1>11 DEF Descends, Alike
<1>12. ASSUME NEW s \in Scannable(timely, g)
       PROVE  /\ s \in Slots /\ timely[s] # Empty /\ ~timely[s].xScanned
              /\ Inside(timely[s].rPosition, g.scanner)
  BY DEF Scannable, Active
<1>13. ASSUME NEW s \in Slots, arrQueue'[s] # Empty
       PROVE  /\ routed[s] # Empty /\ Alike(arrQueue'[s], routed[s])
              /\ read[s] # Empty /\ timely[s] # Empty
  BY <1>7, <1>8, <1>10, <1>13 DEF Descends
<1> HIDE DEF verified
<1>14. ASSUME NEW s \in Slots, arrQueue'[s] # Empty
       PROVE  /\ p[s] # Empty /\ arrQueue'[s].uID = p[s].uID
              /\ arrQueue'[s].rPosition = p[s].rPosition + Distance(in)
              /\ \/ /\ arrQueue'[s].xScanned = p[s].xScanned
                    /\ arrQueue'[s].eRouteTarget = p[s].eRouteTarget
                 \/ /\ PE2Edge(in) /\ ~p[s].xScanned /\ arrQueue'[s].xScanned
                    /\ arrQueue'[s].eRouteTarget = AssignedRoute(in)
                    /\ Inside(arrQueue'[s].rPosition, g.scanner)
                 \/ /\ AutoRouteActive(in) /\ ~p[s].xScanned /\ arrQueue'[s].xScanned
                    /\ arrQueue'[s].eRouteTarget = "REJECT"
                    /\ arrQueue'[s].rPosition > g.scanner.to
  <2>1. CASE Alike(routed[s], read[s]) /\ Alike(read[s], timely[s])
    BY <1>11, <1>13, <1>14, <2>1 DEF Alike
  <2>2. CASE /\ Alike(routed[s], read[s])
             /\ PE2Edge(in) /\ s \in Scannable(timely, g)
             /\ Assigned(read[s], timely[s], AssignedRoute(in))
    <3>1. /\ arrQueue'[s].uID = timely[s].uID
          /\ arrQueue'[s].rPosition = timely[s].rPosition
          /\ arrQueue'[s].xScanned /\ arrQueue'[s].eRouteTarget = AssignedRoute(in)
      BY <1>13, <1>14, <2>2 DEF Alike, Assigned
    <3>2. Inside(arrQueue'[s].rPosition, g.scanner)
      BY <1>12, <2>2, <3>1
    <3>3. ~p[s].xScanned
      BY <1>11, <1>13, <1>14, <2>2 DEF Assigned
    <3> QED BY <1>11, <1>13, <1>14, <2>2, <3>1, <3>2, <3>3
  <2>3. CASE /\ AutoRouteActive(in) /\ read[s].rPosition > g.scanner.to
             /\ Assigned(routed[s], read[s], "REJECT")
    <3>1. read[s].uID = timely[s].uID /\ read[s].rPosition = timely[s].rPosition
          /\ ~timely[s].xScanned
      BY <1>7, <1>13, <1>14, <2>3 DEF Alike, Assigned
    <3> QED BY <1>11, <1>13, <1>14, <2>3, <3>1 DEF Alike, Assigned
  <2> QED BY <1>7, <1>8, <1>13, <1>14, <2>1, <2>2, <2>3
<1>15. ASSUME NEW s \in Slots, arrQueue'[s] # Empty, PE2Edge(in),
              ~arrQueue'[s].xScanned, Inside(arrQueue'[s].rPosition, g.scanner)
       PROVE  \E t \in Slots \ {s} :
                /\ p[t] # Empty /\ ~p[t].xScanned
                /\ Inside(p[t].rPosition + Distance(in), g.scanner)
  <2>1. /\ ~routed[s].xScanned /\ routed[s].rPosition = arrQueue'[s].rPosition
    BY <1>13, <1>15 DEF Alike
  <2>2. ~read[s].xScanned /\ read[s].rPosition = arrQueue'[s].rPosition
    BY <1>8, <1>13, <1>15, <2>1 DEF Alike, Assigned
  <2>3. ~timely[s].xScanned /\ timely[s].rPosition = arrQueue'[s].rPosition
    BY <1>7, <1>13, <1>15, <2>2 DEF Alike, Assigned
  <2>4. s \in Scannable(timely, g)
    BY <1>13, <1>15, <2>3 DEF Scannable, Active
  <2>5. PICK t \in Scannable(timely, g) : t # s
    BY <1>7, <1>15, <2>2, <2>4
  <2>6. /\ t \in Slots \ {s} /\ timely[t] # Empty /\ ~timely[t].xScanned
        /\ Inside(timely[t].rPosition, g.scanner)
    BY <1>12, <2>5
  <2>7. /\ p[t] # Empty /\ ~p[t].xScanned
        /\ timely[t].rPosition = p[t].rPosition + Distance(in)
    BY <1>11, <2>6
  <2> QED BY <2>6, <2>7
<1>16. /\ uiNextPackageID' =
            uiNextPackageID + One(PE1Edge(in) /\ Active(Kept(in)) # Slots)
       /\ routingOut'.registered = (PE1Edge(in) /\ Active(Kept(in)) # Slots)
       /\ lastEdges'["PE1"] = in.xPE1 /\ lastEdges'["PE2"] = in.xPE2
  BY <1>1, <1>2 DEF One
<1> QED BY <1>2, <1>3, <1>10, <1>14, <1>15, <1>16

------------------------------------------------------------------------------
(* What one scan does to the station and to the packages.                    *)

\* Without an unhold, and with the scene of the cell, the run has few ways to go.
LEMMA StationMoves ==
  ASSUME "unhold" \notin OperatorCommands,
         ePackMLState \in PackMLStates \ {"UNHOLDING", "ABORTED"},
         eCurrentMode = "AUTO", xResetLast \in BOOLEAN,
         NEW command \in OperatorCommands \cup {"none"},
         Station!StationScan(StationIn(command))
  PROVE  /\ ePackMLState' \in PackMLStates \ {"UNHOLDING", "ABORTED"}
         /\ eCurrentMode' = "AUTO" /\ xResetLast' = (command = "reset")
         /\ stationOut'.xResetAlarms = (command = "reset" /\ ~xResetLast)
         /\ stationOut'.xAutoModeActive = (ePackMLState' = "EXECUTE")
         /\ stationOut'.xConveyorRunEnable <=> ePackMLState' \in {"STARTING", "EXECUTE"}
         /\ ePackMLState' = "EXECUTE" =>
              \/ ePackMLState \in {"EXECUTE", "STARTING"}
              \/ ePackMLState = "SUSPENDED" /\ ~xRouteFault
         /\ ePackMLState' = "STARTING" => ePackMLState \in {"IDLE", "STARTING"}
         /\ ePackMLState' = "IDLE" => ePackMLState \in {"RESETTING", "IDLE"}
         /\ ePackMLState' = "RESETTING" =>
              ePackMLState = "RESETTING" \/ (ePackMLState = "STOPPED" /\ command = "reset")
         /\ ePackMLState' \in {"STOPPING", "STOPPED"} =>
              ePackMLState \in {"STOPPING", "STOPPED"} \/ command = "stop"
         /\ ePackMLState' = "SUSPENDED" => xRouteFault
<1> DEFINE in == StationIn(command)
<1>1. /\ in.xSafetyLoopOK /\ ~in.xClear /\ ~in.xJamAlarm /\ in.eRequestedMode = "AUTO"
      /\ ~in.xUnhold /\ in.xReset = (command = "reset") /\ in.xStop = (command = "stop")
      /\ in.xDownstreamBlocked = xRouteFault
      /\ in.xHold = (command = "hold" \/ xRouteFault)
      /\ ~in.stManual.xJogConveyorForward /\ ~in.stManual.xResetJam
  BY DEF StationIn, IdleHands
<1>2. Station!Sequence(in) /\ Station!ModeUpdate(in) /\ Station!Outputs(in)
      /\ xResetLast' = in.xReset
  BY DEF Station!StationScan
<1> HIDE DEF in
<1>3. eCurrentMode' = "AUTO"
  BY <1>1, <1>2 DEF Station!ModeUpdate
<1>4. /\ ePackMLState' \in PackMLStates \ {"UNHOLDING", "ABORTED"}
      /\ ePackMLState' = "EXECUTE" =>
           \/ ePackMLState \in {"EXECUTE", "STARTING"}
           \/ ePackMLState = "SUSPENDED" /\ ~xRouteFault
      /\ ePackMLState' = "STARTING" => ePackMLState \in {"IDLE", "STARTING"}
      /\ ePackMLState' = "IDLE" => ePackMLState \in {"RESETTING", "IDLE"}
      /\ ePackMLState' = "RESETTING" =>
           ePackMLState = "RESETTING" \/ (ePackMLState = "STOPPED" /\ command = "reset")
      /\ ePackMLState' \in {"STOPPING", "STOPPED"} =>
           ePackMLState \in {"STOPPING", "STOPPED"} \/ command = "stop"
      /\ ePackMLState' = "SUSPENDED" => xRouteFault
  <2> USE <1>1 DEF PackMLStates, Station!Branch, Station!Enter, Station!Stay
  <2>1. CASE Station!Abort(in)      BY <2>1 DEF Station!Abort
  <2>2. CASE Station!Stopped(in)    BY <2>2 DEF Station!Stopped
  <2>3. CASE Station!Resetting(in)  BY <2>3 DEF Station!Resetting
  <2>4. CASE Station!Idle(in)       BY <2>4 DEF Station!Idle
  <2>5. CASE Station!Starting(in)   BY <2>5 DEF Station!Starting
  <2>6. CASE Station!Execute(in)    BY <2>6 DEF Station!Execute, Station!HoldRequested
  <2>7. CASE Station!Suspended(in)  BY <2>7 DEF Station!Suspended
  <2>8. CASE Station!Holding(in)    BY <2>8 DEF Station!Holding
  <2>9. CASE Station!Held(in)       BY <2>9 DEF Station!Held
  <2>10. CASE Station!Unholding(in) BY <2>10 DEF Station!Unholding
  <2>11. CASE Station!Stopping(in)  BY <2>11 DEF Station!Stopping
  <2>12. CASE Station!Aborted(in)   BY <2>12 DEF Station!Aborted
  <2> QED
    BY <1>2, <2>1, <2>2, <2>3, <2>4, <2>5, <2>6, <2>7, <2>8, <2>9, <2>10, <2>11,
       <2>12 DEF Station!Sequence
<1>5. /\ stationOut'.xResetAlarms = (command = "reset" /\ ~xResetLast)
      /\ stationOut'.xAutoModeActive = (ePackMLState' = "EXECUTE")
  BY <1>1, <1>2, <1>3 DEF Station!Outputs, Station!AutoModeActive
<1>6. stationOut'.xConveyorRunEnable <=> ePackMLState' \in {"STARTING", "EXECUTE"}
  <2>1. ~Station!Jogging(in)
    BY <1>1 DEF Station!Jogging
  <2>2. ePackMLState' # "UNHOLDING"
    BY <1>4
  <2>4. Station!ConveyorRunEnable(in) <=> ePackMLState' \in {"STARTING", "EXECUTE"}
    BY <1>3, <2>1, <2>2 DEF Station!ConveyorRunEnable
  <2>3. stationOut'.xConveyorRunEnable = Station!ConveyorRunEnable(in)
    BY <1>2 DEF Station!Outputs
  <2> QED BY <2>3, <2>4
<1> QED BY <1>1, <1>2, <1>3, <1>4, <1>5, <1>6

\* The distance the belt carries a package in this scan.
Carried == IF BeltRuns THEN 1 ELSE 0

LEMMA AdvancedParcel ==
  ASSUME CellAssumption, NEW p \in Parcel
  PROVE  /\ Advanced(p) \in Parcel /\ Advanced(p).label = p.label
         /\ Advanced(p).id \in {0, p.id}
         /\ Advanced(p).place = "GONE" => Advanced(p).at = 0
         /\ Advanced(p).place = "BELT" =>
              /\ p.place = "BELT" /\ Advanced(p).at = p.at + Carried
              /\ Advanced(p).id = p.id
         /\ Advanced(p).place # "GONE" =>
              p.place # "GONE" /\ Advanced(p).at <= p.at + Carried
         /\ (/\ p.place = "BELT" /\ p.at + Carried < Layout.reach1.from
             /\ p.at + Carried < Layout.reach2.from /\ p.at + Carried < Layout.beltEnd)
              => Advanced(p).place = "BELT"
<1>1. /\ p.at \in Nat /\ p.label \in Labels /\ p.place \in {"BELT", "GONE"} \cup Lanes
      /\ p.exitTime \in 0..ExitScans /\ p.id \in Nat /\ ExitScans \in Nat
      /\ Carried \in {0, 1} /\ p.at + Carried \in Nat
  BY DEF Parcel, CellAssumption, Carried
<1>2. CASE p.place = "BELT"
  <2> DEFINE at == p.at + Carried
  <2>1. Advanced(p) = [p EXCEPT !.at = at, !.place = Taken(at)]
    <3>1. at = IF BeltRuns THEN p.at + 1 ELSE p.at
      BY <1>1 DEF Carried
    <3> HIDE DEF at
    <3>2. p.place \notin Lanes
      BY <1>2 DEF Lanes
    <3>3. Advanced(p) = [p EXCEPT !.at = IF BeltRuns THEN p.at + 1 ELSE p.at,
                                  !.place = Taken(IF BeltRuns THEN p.at + 1 ELSE p.at)]
      BY <1>2, <3>2 DEF Advanced
    <3> QED BY <3>1, <3>3, Zenon
  <2>2. Taken(at) \in {"BELT"} \cup Lanes
    BY DEF Taken, Lanes
  <2>3. (/\ at < Layout.reach1.from /\ at < Layout.reach2.from /\ at < Layout.beltEnd)
          => Taken(at) = "BELT"
    BY <1>1, CellAssumption DEF Taken, Inside, CellAssumption, Window
  <2> HIDE DEF at
  <2>4. at = p.at + Carried /\ at \in Nat
    BY <1>1 DEF at
  <2>5. ASSUME NEW t \in {"BELT"} \cup Lanes, NEW q, q = [p EXCEPT !.at = at, !.place = t]
        PROVE  /\ q \in Parcel /\ q.label = p.label /\ q.id = p.id
               /\ q.place = t /\ q.at = at
    BY <2>4, <2>5 DEF Parcel
  <2>6. /\ Advanced(p) \in Parcel /\ Advanced(p).label = p.label
        /\ Advanced(p).id = p.id /\ Advanced(p).place = Taken(at)
        /\ Advanced(p).at = at
    BY <2>1, <2>2, <2>5, Zenon
  <2>7. Taken(at) # "GONE"
    BY <2>2 DEF Lanes
  <2> QED BY <1>1, <1>2, <2>3, <2>4, <2>6, <2>7
<1>3. CASE p.place \in Lanes /\ p.exitTime < ExitScans
  <2>1. Advanced(p) = [p EXCEPT !.exitTime = p.exitTime + 1]
    BY <1>3 DEF Advanced, Lanes
  <2>2. p.exitTime + 1 \in 0..ExitScans
    BY <1>1, <1>3
  <2> QED BY <1>1, <1>3, <2>1, <2>2 DEF Parcel, Lanes
<1>4. CASE p.place # "BELT" /\ ~(p.place \in Lanes /\ p.exitTime < ExitScans)
  <2>1. Advanced(p) = Gone(p)
    BY <1>4 DEF Advanced
  <2>2. 0 \in 0..ExitScans
    BY <1>1
  <2>3. "GONE" \in {"BELT", "GONE"} \cup Lanes
    OBVIOUS
  <2>4. Advanced(p) = [p EXCEPT !.at = 0, !.place = "GONE", !.exitTime = 0, !.id = 0]
    BY <2>1 DEF Gone
  <2>5. /\ Advanced(p) \in Parcel /\ Advanced(p).label = p.label
        /\ Advanced(p).id = 0 /\ Advanced(p).place = "GONE" /\ Advanced(p).at = 0
    <3>1. ASSUME NEW q, q = [p EXCEPT !.at = 0, !.place = "GONE", !.exitTime = 0, !.id = 0]
          PROVE  /\ q \in Parcel /\ q.label = p.label /\ q.id = 0 /\ q.place = "GONE"
                 /\ q.at = 0
      BY <2>2, <2>3, <3>1 DEF Parcel
    <3> QED BY <2>4, <3>1, Zenon
  <2> QED BY <1>4, <2>5
<1> QED BY <1>2, <1>3, <1>4

TaggedId(n) ==
  IF routingOut'.registered /\ n = Len(parcels) THEN uiNextPackageID ELSE parcels[n].id

LEMMA ParcelsMove ==
  ASSUME CellAssumption, RegisterPosition \in Nat, parcels \in Seq(Parcel),
         uiNextPackageID \in Nat, MoveParcels
  PROVE  /\ parcels' \in Seq(Parcel) /\ Len(parcels') \in {Len(parcels), Len(parcels) + 1}
         /\ \A n \in 1..Len(parcels) :
              /\ parcels'[n].label = parcels[n].label
              /\ parcels'[n].id \in {0, TaggedId(n)}
              /\ parcels'[n].place = "GONE" => parcels'[n].at = 0
              /\ parcels'[n].place = "BELT" =>
                   /\ parcels[n].place = "BELT"
                   /\ parcels'[n].at = parcels[n].at + Carried
                   /\ parcels'[n].id = TaggedId(n)
              /\ parcels'[n].place # "GONE" =>
                   parcels[n].place # "GONE" /\ parcels'[n].at <= parcels[n].at + Carried
              /\ (/\ parcels[n].place = "BELT"
                  /\ parcels[n].at + Carried < Layout.reach1.from
                  /\ parcels[n].at + Carried < Layout.reach2.from
                  /\ parcels[n].at + Carried < Layout.beltEnd)
                   => parcels'[n].place = "BELT"
         /\ Len(parcels') = Len(parcels) + 1 =>
              /\ parcels'[Len(parcels')].place = "BELT"
              /\ parcels'[Len(parcels')].at = RegisterPosition
              /\ parcels'[Len(parcels')].id = 0
              /\ Len(parcels) > 0 =>
                   \E p \in Pitches : parcels'[Len(parcels)].at = RegisterPosition + p
<1> DEFINE moved == [n \in DOMAIN parcels |-> Advanced(Tagged(n))]
<1>1. Len(parcels) \in Nat /\ DOMAIN parcels = 1..Len(parcels)
      /\ \A n \in 1..Len(parcels) : parcels[n] \in Parcel
  OBVIOUS
<1>2. ASSUME NEW n \in 1..Len(parcels)
      PROVE  /\ Tagged(n) \in Parcel /\ Tagged(n).id = TaggedId(n)
             /\ Tagged(n).label = parcels[n].label /\ Tagged(n).at = parcels[n].at
             /\ Tagged(n).place = parcels[n].place
  BY <1>1 DEF Tagged, TaggedId, Parcel
<1>3. /\ moved \in Seq(Parcel) /\ Len(moved) = Len(parcels)
      /\ \A n \in 1..Len(parcels) : moved[n] = Advanced(Tagged(n))
  <2>1. \A n \in 1..Len(parcels) : Advanced(Tagged(n)) \in Parcel
    BY <1>2, AdvancedParcel
  <2>2. moved = [n \in 1..Len(parcels) |-> Advanced(Tagged(n))]
    BY <1>1
  <2>3. moved \in [1..Len(parcels) -> Parcel]
    BY <2>1, <2>2
  <2> QED BY <1>1, <2>2, <2>3
<1>4. \/ parcels' = moved
      \/ \E label \in Labels : MayFeed(moved) /\ parcels' = Append(moved, Fed(label))
  BY DEF MoveParcels
<1>5. ASSUME NEW n \in 1..Len(parcels), NEW q, q = moved[n]
      PROVE  /\ q.label = parcels[n].label
             /\ q.id \in {0, TaggedId(n)} /\ (q.place = "GONE" => q.at = 0)
             /\ q.place = "BELT" =>
                  /\ parcels[n].place = "BELT" /\ q.at = parcels[n].at + Carried
                  /\ q.id = TaggedId(n)
             /\ q.place # "GONE" =>
                  parcels[n].place # "GONE" /\ q.at <= parcels[n].at + Carried
             /\ (/\ parcels[n].place = "BELT"
                 /\ parcels[n].at + Carried < Layout.reach1.from
                 /\ parcels[n].at + Carried < Layout.reach2.from
                 /\ parcels[n].at + Carried < Layout.beltEnd)
                  => q.place = "BELT"
  <2>1. q = Advanced(Tagged(n))
    BY <1>3, <1>5
  <2> QED BY <1>2, <2>1, AdvancedParcel
<1> HIDE DEF moved
<1>6. CASE parcels' = moved
  BY <1>1, <1>3, <1>5, <1>6
<1>7. ASSUME NEW label \in Labels, MayFeed(moved), parcels' = Append(moved, Fed(label))
      PROVE  /\ parcels' \in Seq(Parcel) /\ Len(parcels') = Len(parcels) + 1
             /\ \A n \in 1..Len(parcels) : parcels'[n] = moved[n]
             /\ parcels'[Len(parcels')] = Fed(label)
             /\ Len(parcels) > 0 =>
                  \E p \in Pitches : parcels'[Len(parcels)].at = RegisterPosition + p
  <2>1. Fed(label) \in Parcel
    <3>1. 0 \in 0..ExitScans
      BY DEF CellAssumption
    <3> QED BY <3>1 DEF Fed, Parcel
  <2>2. /\ parcels' \in Seq(Parcel) /\ Len(parcels') = Len(parcels) + 1
        /\ \A n \in 1..Len(parcels) : parcels'[n] = moved[n]
        /\ parcels'[Len(parcels')] = Fed(label)
    BY <1>1, <1>3, <1>7, <2>1
  <2>3. Len(parcels) > 0 =>
          \E p \in Pitches : parcels'[Len(parcels)].at = RegisterPosition + p
    <3>1. SUFFICES ASSUME Len(parcels) > 0
                   PROVE  \E p \in Pitches : parcels'[Len(parcels)].at = RegisterPosition + p
      OBVIOUS
    <3>2. moved # <<>> /\ Len(parcels) \in 1..Len(parcels)
      BY <1>1, <1>3, <3>1
    <3>3. \E p \in Pitches : moved[Len(moved)].at = RegisterPosition + p
      BY <1>7, <3>2 DEF MayFeed
    <3> QED BY <1>3, <2>2, <3>2, <3>3
  <2> QED BY <2>2, <2>3
<1>8. CASE \E label \in Labels : MayFeed(moved) /\ parcels' = Append(moved, Fed(label))
  <2>1. PICK label \in Labels : MayFeed(moved) /\ parcels' = Append(moved, Fed(label))
    BY <1>8
  <2>2. /\ Fed(label).place = "BELT" /\ Fed(label).at = RegisterPosition
        /\ Fed(label).id = 0
    BY DEF Fed
  <2>3. /\ parcels' \in Seq(Parcel) /\ Len(parcels') = Len(parcels) + 1
        /\ \A n \in 1..Len(parcels) : parcels'[n] = moved[n]
        /\ parcels'[Len(parcels')] = Fed(label)
        /\ Len(parcels) > 0 =>
             \E p \in Pitches : parcels'[Len(parcels)].at = RegisterPosition + p
    BY <1>7, <2>1
  <2>4. parcels'[Len(parcels')].place = "BELT" /\ parcels'[Len(parcels')].at = RegisterPosition
        /\ parcels'[Len(parcels')].id = 0
    BY <2>2, <2>3, Zenon
  <2>5. ASSUME NEW n \in 1..Len(parcels)
        PROVE  /\ parcels'[n].label = parcels[n].label
               /\ parcels'[n].id \in {0, TaggedId(n)}
               /\ parcels'[n].place = "GONE" => parcels'[n].at = 0
               /\ parcels'[n].place = "BELT" =>
                    /\ parcels[n].place = "BELT"
                    /\ parcels'[n].at = parcels[n].at + Carried
                    /\ parcels'[n].id = TaggedId(n)
               /\ parcels'[n].place # "GONE" =>
                    parcels[n].place # "GONE" /\ parcels'[n].at <= parcels[n].at + Carried
               /\ (/\ parcels[n].place = "BELT"
                   /\ parcels[n].at + Carried < Layout.reach1.from
                   /\ parcels[n].at + Carried < Layout.reach2.from
                   /\ parcels[n].at + Carried < Layout.beltEnd)
                    => parcels'[n].place = "BELT"
    <3>1. parcels'[n] = moved[n]
      BY <2>3
    <3> QED BY <1>5, <3>1
  <2> QED BY <2>3, <2>4, <2>5, Zenon
<1> QED BY <1>4, <1>6, <1>8

------------------------------------------------------------------------------
(* The tracked position is the true one.                                     *)

TrackTypeOK ==
  /\ arrQueue \in Queues /\ uiNextPackageID \in Nat \ {0}
  /\ parcels \in Seq(Parcel) /\ xResetLast \in BOOLEAN

\* Whenever the belt can run without the routing tracking it, or the routing is
\* about to start afresh, no package is tracked.
RunInv ==
  /\ ePackMLState \in PackMLStates \ {"UNHOLDING", "ABORTED"}
  /\ eCurrentMode = "AUTO"
  /\ ePackMLState \in {"RESETTING", "IDLE", "STARTING"} => Active(arrQueue) = {}
  /\ ePackMLState \in {"STOPPING", "STOPPED"} /\ xResetLast => Active(arrQueue) = {}
  /\ ePackMLState = "SUSPENDED" => xRouteFault \/ Active(arrQueue) = {}

\* Only the last package can be at PE1, and before its edge is seen it is where
\* the infeed has put it and has no number.  Numbers were given out before the next one.
FeedInv ==
  /\ \A n \in 1..Len(parcels) :
       /\ parcels[n].id < uiNextPackageID
       /\ parcels[n].place = "BELT" =>
            /\ parcels[n].at >= RegisterPosition
            /\ parcels[n].at <= Layout.pe1.to =>
                 /\ n = Len(parcels)
                 /\ \/ lastEdges["PE1"]
                    \/ parcels[n].at = RegisterPosition /\ parcels[n].id = 0
  /\ \A s \in Slots : arrQueue[s] # Empty =>
       arrQueue[s].uID # 0 /\ arrQueue[s].uID < uiNextPackageID

Tracking ==
  \A s \in Slots, n \in 1..Len(parcels) :
    (/\ arrQueue[s] # Empty /\ parcels[n].place = "BELT"
     /\ arrQueue[s].uID = parcels[n].id)
       => arrQueue[s].rPosition = parcels[n].at

TrackInv == TrackTypeOK /\ RunInv /\ FeedInv /\ Tracking

\* What the routing reads in this scan.
LEMMA RoutingReads ==
  ASSUME NEW in, in = RoutingIn
  PROVE  /\ AutoRouteActive(in) <=> stationOut'.xAutoModeActive /\ eCurrentMode' = "AUTO"
         /\ in.rConveyorSpeed = Carried
         /\ Distance(in) = IF AutoRouteActive(in) THEN Carried ELSE 0
         /\ in.xPE1 <=> Blocked(Layout.pe1)
         /\ in.xPE2 <=> Blocked(Layout.pe2)
         /\ in.xResetAlarms = stationOut'.xResetAlarms
         /\ BeltRuns => stationOut'.xConveyorRunEnable
         /\ Carried \in {0, 1} /\ (Carried = 1 <=> BeltRuns)
         /\ in.stActiveRecipe = DefaultGeometry
         /\ AssignedRoute(in) = Destination(scannerData) \/ scannerData \notin Labels
<1>1. /\ in.xConveyorRunning = BeltRuns /\ in.rConveyorSpeed = (IF BeltRuns THEN 1 ELSE 0)
      /\ in.sScannerString = BarcodeOf(scannerData)
      /\ in.xScannerReadSuccess = (scannerData # "NO_READ")
      /\ in.xPE1 = Blocked(Layout.pe1) /\ in.xPE2 = Blocked(Layout.pe2)
      /\ in.xResetAlarms = stationOut'.xResetAlarms
      /\ in.eCurrentMode = eCurrentMode' /\ in.stActiveRecipe = DefaultGeometry
      /\ in.xAutoEnable = stationOut'.xAutoModeActive
  BY DEF RoutingIn
<1>2. Carried \in {0, 1} /\ (Carried = 1 <=> BeltRuns)
  BY DEF Carried
<1>3. Distance(in) = IF AutoRouteActive(in) THEN Carried ELSE 0
  <2>1. Moving(in) <=> BeltRuns
    BY <1>1 DEF Moving
  <2> QED BY <1>1, <1>2, <2>1 DEF Distance, Carried
<1>4. AssignedRoute(in) = Destination(scannerData) \/ scannerData \notin Labels
  BY <1>1 DEF AssignedRoute, BarcodeGood, BarcodeOf, Destination, Labels
<1>5. BeltRuns => stationOut'.xConveyorRunEnable
  BY DEF BeltRuns
<1> QED BY <1>1, <1>2, <1>3, <1>4, <1>5 DEF AutoRouteActive, Carried

LEMMA BlockedMeans ==
  ASSUME parcels \in Seq(Parcel), NEW w
  PROVE  Blocked(w) <=> \E n \in 1..Len(parcels) :
                          parcels[n].place = "BELT" /\ Inside(parcels[n].at, w)
<1>1. DOMAIN parcels = 1..Len(parcels)
  OBVIOUS
<1> QED BY <1>1 DEF Blocked, OnBelt

\* A package that is being registered has just been put on the belt.
LEMMA RegisteredParcel ==
  ASSUME parcels \in Seq(Parcel), FeedInv, NEW in, in = RoutingIn, PE1Edge(in)
  PROVE  /\ Len(parcels) \in 1..Len(parcels) /\ parcels[Len(parcels)].place = "BELT"
         /\ parcels[Len(parcels)].at = RegisterPosition
         /\ parcels[Len(parcels)].id = 0
<1>1. Blocked(Layout.pe1) /\ ~lastEdges["PE1"]
  BY RoutingReads DEF PE1Edge, Rising
<1>2. PICK n \in 1..Len(parcels) :
        parcels[n].place = "BELT" /\ Inside(parcels[n].at, Layout.pe1)
  BY <1>1, BlockedMeans
<1>3. parcels[n].at <= Layout.pe1.to
  BY <1>2 DEF Inside
<1> QED BY <1>1, <1>2, <1>3 DEF FeedInv

\* A scan of the cell, seen from the tracking.
LEMMA ScanReads ==
  ASSUME "unhold" \notin OperatorCommands, TrackInv,
         NEW command \in OperatorCommands \cup {"none"}, CellScan(command),
         NEW in, in = RoutingIn
  PROVE  /\ RoutingScan(in) /\ in.rConveyorSpeed \in Int
         /\ AutoRouteActive(in) <=> ePackMLState' = "EXECUTE"
         /\ Distance(in) = IF ePackMLState' = "EXECUTE" THEN Carried ELSE 0
         /\ Carried = 1 => ePackMLState' \in {"STARTING", "EXECUTE"}
         /\ in.xResetAlarms <=> command = "reset" /\ ~xResetLast
         /\ (ePackMLState' # "EXECUTE" /\ (in.xResetAlarms \/ Active(arrQueue) = {})
              => \A s \in Slots : Arrived(in)[s] = Empty)
         /\ ePackMLState' = "EXECUTE" /\ ePackMLState # "EXECUTE" => Active(arrQueue) = {}
<1>1. Station!StationScan(StationIn(command)) /\ RoutingScan(in)
  BY DEF CellScan
<1>2. /\ ePackMLState' \in PackMLStates \ {"UNHOLDING", "ABORTED"}
      /\ eCurrentMode' = "AUTO"
      /\ stationOut'.xResetAlarms = (command = "reset" /\ ~xResetLast)
      /\ stationOut'.xAutoModeActive = (ePackMLState' = "EXECUTE")
      /\ stationOut'.xConveyorRunEnable <=> ePackMLState' \in {"STARTING", "EXECUTE"}
      /\ ePackMLState' = "EXECUTE" =>
           \/ ePackMLState \in {"EXECUTE", "STARTING"}
           \/ ePackMLState = "SUSPENDED" /\ ~xRouteFault
  BY <1>1, StationMoves DEF TrackInv, TrackTypeOK, RunInv
<1>3. /\ AutoRouteActive(in) <=> ePackMLState' = "EXECUTE"
      /\ in.rConveyorSpeed = Carried
      /\ Distance(in) = IF ePackMLState' = "EXECUTE" THEN Carried ELSE 0
      /\ in.xResetAlarms <=> command = "reset" /\ ~xResetLast
      /\ Carried \in {0, 1}
      /\ Carried = 1 => ePackMLState' \in {"STARTING", "EXECUTE"}
  BY <1>2, RoutingReads
<1>4. ASSUME ePackMLState' # "EXECUTE", in.xResetAlarms \/ Active(arrQueue) = {}
      PROVE  \A s \in Slots : Arrived(in)[s] = Empty
  <2>1. Arrived(in) = Kept(in)
    BY <1>3, <1>4 DEF Arrived, Entered, PE1Edge
  <2>2. \A s \in Slots : Kept(in)[s] = Empty
    BY <1>4 DEF Kept, Active
  <2> QED BY <2>1, <2>2
<1>5. ePackMLState' = "EXECUTE" /\ ePackMLState # "EXECUTE" => Active(arrQueue) = {}
  BY <1>2 DEF TrackInv, RunInv
<1> QED BY <1>1, <1>3, <1>4, <1>5

LEMMA RunStep ==
  ASSUME "unhold" \notin OperatorCommands, RegisterPosition \in Int, TrackInv,
         NEW command \in OperatorCommands \cup {"none"}, CellScan(command)
  PROVE  RunInv' /\ arrQueue' \in Queues /\ xResetLast' \in BOOLEAN
<1> DEFINE in == RoutingIn
<1>1. Station!StationScan(StationIn(command))
  BY DEF CellScan
<1>2. /\ RoutingScan(in) /\ in.rConveyorSpeed \in Int
      /\ in.xResetAlarms <=> command = "reset" /\ ~xResetLast
      /\ (ePackMLState' # "EXECUTE" /\ (in.xResetAlarms \/ Active(arrQueue) = {})
           => \A s \in Slots : Arrived(in)[s] = Empty)
  BY ScanReads
<1> HIDE DEF in
<1>3. /\ ePackMLState' \in PackMLStates \ {"UNHOLDING", "ABORTED"}
      /\ eCurrentMode' = "AUTO" /\ xResetLast' = (command = "reset")
      /\ ePackMLState' = "STARTING" => ePackMLState \in {"IDLE", "STARTING"}
      /\ ePackMLState' = "IDLE" => ePackMLState \in {"RESETTING", "IDLE"}
      /\ ePackMLState' = "RESETTING" =>
           ePackMLState = "RESETTING" \/ (ePackMLState = "STOPPED" /\ command = "reset")
      /\ ePackMLState' \in {"STOPPING", "STOPPED"} =>
           ePackMLState \in {"STOPPING", "STOPPED"} \/ command = "stop"
      /\ ePackMLState' = "SUSPENDED" => xRouteFault
  BY <1>1, StationMoves DEF TrackInv, TrackTypeOK, RunInv
<1>4. /\ arrQueue' \in Queues
      /\ xRouteFault /\ ~in.xResetAlarms => xRouteFault'
      /\ \A s \in Slots : arrQueue'[s] # Empty => Arrived(in)[s] # Empty
  <2>1. arrQueue \in Queues /\ uiNextPackageID \in Nat
    BY DEF TrackInv, TrackTypeOK
  <2> QED BY <1>2, <2>1, RoutingQueue
<1>5. ePackMLState' # "EXECUTE" /\ (in.xResetAlarms \/ Active(arrQueue) = {})
        => Active(arrQueue') = {}
  BY <1>2, <1>4 DEF Active
<1>6. Active(arrQueue)' = Active(arrQueue')
  BY DEF Active
<1>7. ePackMLState' \in {"RESETTING", "IDLE", "STARTING"} => Active(arrQueue') = {}
  BY <1>2, <1>3, <1>5 DEF TrackInv, TrackTypeOK, RunInv
<1>8. ePackMLState' \in {"STOPPING", "STOPPED"} /\ xResetLast' => Active(arrQueue') = {}
  BY <1>2, <1>3, <1>5 DEF TrackInv, TrackTypeOK, RunInv
<1>9. ePackMLState' = "SUSPENDED" => xRouteFault' \/ Active(arrQueue') = {}
  BY <1>3, <1>4, <1>5
<1> QED BY <1>3, <1>4, <1>6, <1>7, <1>8, <1>9 DEF RunInv

LEMMA TrackStep ==
  ASSUME "unhold" \notin OperatorCommands, FeedIsSpaced, CellAssumption, TrackInv,
         NEW command \in OperatorCommands \cup {"none"}, CellScan(command)
  PROVE  TrackInv'
<1> DEFINE in == RoutingIn
           new == PE1Edge(in) /\ Active(Kept(in)) # Slots
<1>1. /\ arrQueue \in Queues /\ parcels \in Seq(Parcel) /\ uiNextPackageID \in Nat
      /\ RegisterPosition \in Nat /\ RegisterPosition \in Int
  BY DEF TrackInv, TrackTypeOK, FeedIsSpaced
<1>23. /\ uiNextPackageID \in Nat \ {0} /\ RegisterPosition \in Nat /\ Len(parcels) \in Nat
  BY <1>1 DEF TrackInv, TrackTypeOK
<1>24. ASSUME NEW n \in 1..Len(parcels)
       PROVE  parcels[n].at \in Nat /\ parcels[n].id \in Nat
  <2>1. parcels[n] \in Parcel
    BY <1>1
  <2> QED BY <2>1 DEF Parcel
<1>2. /\ RoutingScan(in) /\ in.rConveyorSpeed \in Int
      /\ AutoRouteActive(in) <=> ePackMLState' = "EXECUTE"
      /\ Distance(in) = IF ePackMLState' = "EXECUTE" THEN Carried ELSE 0
      /\ Carried = 1 => ePackMLState' \in {"STARTING", "EXECUTE"}
      /\ (ePackMLState' # "EXECUTE" /\ (in.xResetAlarms \/ Active(arrQueue) = {})
           => \A s \in Slots : Arrived(in)[s] = Empty)
  BY ScanReads
<1>3. RunInv' /\ arrQueue' \in Queues /\ xResetLast' \in BOOLEAN
  BY <1>1, RunStep
<1>4. Carried \in {0, 1} /\ (in.xPE1 <=> Blocked(Layout.pe1))
  BY RoutingReads
<1>5. /\ uiNextPackageID' = uiNextPackageID + One(new)
      /\ routingOut'.registered = new /\ lastEdges'["PE1"] = in.xPE1
      /\ \A s \in Slots :
           arrQueue'[s] # Empty =>
             /\ Arrived(in)[s] # Empty /\ arrQueue'[s].uID = Arrived(in)[s].uID
             /\ arrQueue'[s].rPosition = Arrived(in)[s].rPosition + Distance(in)
  BY <1>1, <1>2, RoutingQueue
<1>6. \A s \in Slots :
        Arrived(in)[s] # Empty =>
          \/ arrQueue[s] # Empty /\ Arrived(in)[s] = arrQueue[s]
          \/ new /\ Arrived(in)[s] = NewPackage
  BY <1>1, ArrivedQueue
<1>7. new => ePackMLState' = "EXECUTE" /\ in.xPE1 /\ ~lastEdges["PE1"]
  BY <1>2 DEF PE1Edge, Rising
<1>8. /\ uiNextPackageID' \in Nat /\ uiNextPackageID' # 0
      /\ uiNextPackageID' >= uiNextPackageID
      /\ new => uiNextPackageID' = uiNextPackageID + 1
  <2>1. uiNextPackageID' = uiNextPackageID + One(new)
    BY <1>5
  <2>2. CASE new
    BY <1>23, <2>1, <2>2 DEF One
  <2>3. CASE ~new
    BY <1>23, <2>1, <2>3 DEF One
  <2> QED BY <2>2, <2>3
<1> HIDE DEF in, new
<1>25. MoveParcels
  BY DEF CellScan
<1>26. parcels' \in Seq(Parcel)
  BY <1>1, <1>25, ParcelsMove
<1>9. Len(parcels') = Len(parcels) \/ Len(parcels') = Len(parcels) + 1
  BY <1>1, <1>25, ParcelsMove
<1>27. ASSUME NEW n \in 1..Len(parcels)
       PROVE  /\ parcels'[n].id = 0 \/ parcels'[n].id = TaggedId(n)
              /\ parcels'[n].place = "BELT" =>
                   /\ parcels[n].place = "BELT"
                   /\ parcels'[n].at = parcels[n].at + Carried
                   /\ parcels'[n].id = TaggedId(n)
  BY <1>1, <1>25, ParcelsMove
<1>28. ASSUME Len(parcels') = Len(parcels) + 1
       PROVE  /\ parcels'[Len(parcels')].at = RegisterPosition
              /\ parcels'[Len(parcels')].id = 0
              /\ Len(parcels) > 0 =>
                   \E p \in Pitches : parcels'[Len(parcels)].at = RegisterPosition + p
  BY <1>1, <1>25, <1>28, ParcelsMove
<1>10. ASSUME NEW n
       PROVE  \/ new /\ n = Len(parcels) /\ TaggedId(n) = uiNextPackageID
              \/ ~(new /\ n = Len(parcels)) /\ TaggedId(n) = parcels[n].id
  BY <1>5 DEF TaggedId
<1>11. /\ Layout.pe1.from \in Int /\ Layout.pe1.to \in Int
       /\ Layout.pe1.from <= RegisterPosition /\ RegisterPosition <= Layout.pe1.to
       /\ \A p \in Pitches : p \in Nat /\ RegisterPosition + p > Layout.pe1.to
  BY DEF FeedIsSpaced, CellAssumption, Inside, Window
<1>12. ASSUME NEW n \in 1..Len(parcels)
       PROVE  /\ parcels[n].id < uiNextPackageID
              /\ parcels[n].place = "BELT" =>
                   /\ parcels[n].at >= RegisterPosition
                   /\ parcels[n].at <= Layout.pe1.to =>
                        /\ n = Len(parcels)
                        /\ \/ lastEdges["PE1"]
                           \/ parcels[n].at = RegisterPosition /\ parcels[n].id = 0
  BY DEF TrackInv, FeedInv
<1>13. ASSUME NEW s \in Slots, arrQueue[s] # Empty
       PROVE  /\ arrQueue[s].uID # 0 /\ arrQueue[s].uID < uiNextPackageID
              /\ arrQueue[s].uID \in Nat /\ arrQueue[s].rPosition \in Int
  BY <1>1, <1>13 DEF TrackInv, FeedInv, Queues, Package
<1>14. /\ NewPackage.uID = uiNextPackageID /\ NewPackage.rPosition = RegisterPosition
  BY DEF NewPackage
<1>15. ASSUME new
       PROVE  Len(parcels) \in 1..Len(parcels) /\ parcels[Len(parcels)].at = RegisterPosition
  <2>1. PE1Edge(RoutingIn)
    BY <1>15 DEF new, in
  <2> QED BY <1>1, <2>1, RegisteredParcel DEF TrackInv
<1>16. ASSUME NEW n \in 1..Len(parcels)
       PROVE  /\ parcels'[n].id < uiNextPackageID'
              /\ parcels'[n].place = "BELT" =>
                   /\ parcels'[n].at >= RegisterPosition
                   /\ parcels'[n].at <= Layout.pe1.to =>
                        /\ n = Len(parcels')
                        /\ \/ lastEdges'["PE1"]
                           \/ parcels'[n].at = RegisterPosition /\ parcels'[n].id = 0
  <2>1. parcels'[n].id < uiNextPackageID'
    <3>1. TaggedId(n) < uiNextPackageID'
      <4>1. parcels[n].id < uiNextPackageID /\ parcels[n].id \in Nat
        BY <1>12, <1>24
      <4> QED BY <1>8, <1>10, <1>23, <4>1
    <3>2. parcels'[n].id = 0 \/ parcels'[n].id = TaggedId(n)
      BY <1>27
    <3> QED BY <1>8, <3>1, <3>2
  <2>2. ASSUME parcels'[n].place = "BELT"
        PROVE  parcels'[n].at >= RegisterPosition /\ parcels[n].at <= parcels'[n].at
    <3>1. parcels[n].place = "BELT" /\ parcels'[n].at = parcels[n].at + Carried
      BY <1>27, <2>2
    <3>2. parcels[n].at >= RegisterPosition /\ parcels[n].at \in Nat
      BY <1>12, <1>24, <3>1
    <3> QED BY <1>4, <1>23, <3>1, <3>2
  <2>3. ASSUME parcels'[n].place = "BELT", parcels'[n].at <= Layout.pe1.to
        PROVE  n = Len(parcels') /\ lastEdges'["PE1"]
    <3>1. parcels[n].place = "BELT" /\ parcels[n].at <= Layout.pe1.to
      <4>1. parcels[n].place = "BELT" /\ parcels'[n].at = parcels[n].at + Carried
        BY <1>27, <2>3
      <4>2. parcels[n].at \in Nat /\ parcels[n].at <= parcels'[n].at
        BY <1>24, <2>2, <2>3
      <4> QED BY <1>4, <1>11, <2>3, <4>1, <4>2
    <3>2. n = Len(parcels) /\ Inside(parcels[n].at, Layout.pe1)
      BY <1>11, <1>12, <1>23, <1>24, <3>1 DEF Inside
    <3>3. lastEdges'["PE1"]
      BY <1>1, <1>4, <1>5, <3>1, <3>2, BlockedMeans
    <3>4. Len(parcels') # Len(parcels) + 1
      <4>1. SUFFICES ASSUME Len(parcels') = Len(parcels) + 1 PROVE FALSE
        OBVIOUS
      <4>2. PICK p \in Pitches : parcels'[n].at = RegisterPosition + p
        BY <1>23, <1>28, <3>2, <4>1
      <4> QED BY <1>11, <1>23, <2>3, <4>2
    <3> QED BY <1>9, <3>2, <3>3, <3>4
  <2> QED BY <2>1, <2>2, <2>3
<1>17. ASSUME Len(parcels') = Len(parcels) + 1, NEW n, n = Len(parcels')
       PROVE  /\ parcels'[n].id < uiNextPackageID'
              /\ parcels'[n].at >= RegisterPosition
              /\ n = Len(parcels') /\ parcels'[n].at = RegisterPosition
              /\ parcels'[n].id = 0
  <2>1. parcels'[n].at = RegisterPosition /\ parcels'[n].id = 0
    BY <1>17, <1>28
  <2> QED BY <1>8, <1>17, <1>23, <2>1
<1>18. ASSUME NEW n \in 1..Len(parcels')
       PROVE  /\ parcels'[n].id < uiNextPackageID'
              /\ parcels'[n].place = "BELT" =>
                   /\ parcels'[n].at >= RegisterPosition
                   /\ parcels'[n].at <= Layout.pe1.to =>
                        /\ n = Len(parcels')
                        /\ \/ lastEdges'["PE1"]
                           \/ parcels'[n].at = RegisterPosition /\ parcels'[n].id = 0
  <2>1. n \in 1..Len(parcels) \/ (Len(parcels') = Len(parcels) + 1 /\ n = Len(parcels'))
    BY <1>23, <1>9
  <2>2. CASE n \in 1..Len(parcels)
    BY <1>16, <2>2
  <2>3. CASE Len(parcels') = Len(parcels) + 1 /\ n = Len(parcels')
    BY <1>17, <2>3
  <2> QED BY <2>1, <2>2, <2>3
<1>19. ASSUME NEW s \in Slots, arrQueue'[s] # Empty
       PROVE  arrQueue'[s].uID # 0 /\ arrQueue'[s].uID < uiNextPackageID'
  <2>1. CASE arrQueue[s] # Empty /\ Arrived(in)[s] = arrQueue[s]
    <3>1. arrQueue'[s].uID = arrQueue[s].uID
      BY <1>5, <1>19, <2>1
    <3>2. arrQueue[s].uID # 0 /\ arrQueue[s].uID < uiNextPackageID /\ arrQueue[s].uID \in Nat
      BY <1>13, <2>1
    <3> QED BY <1>8, <1>23, <3>1, <3>2
  <2>2. CASE new /\ Arrived(in)[s] = NewPackage
    <3>1. arrQueue'[s].uID = uiNextPackageID
      BY <1>5, <1>14, <1>19, <2>2
    <3> QED BY <1>8, <1>23, <2>2, <3>1
  <2> QED BY <1>5, <1>6, <1>19, <2>1, <2>2
<1>20. FeedInv'
  BY <1>18, <1>19 DEF FeedInv
<1>21. ASSUME NEW s \in Slots, NEW n \in 1..Len(parcels'),
              arrQueue'[s] # Empty, parcels'[n].place = "BELT",
              arrQueue'[s].uID = parcels'[n].id
       PROVE  arrQueue'[s].rPosition = parcels'[n].at
  <2>1. arrQueue'[s].uID # 0
    BY <1>19, <1>21
  <2>2. n \in 1..Len(parcels)
    <3>1. Len(parcels') # Len(parcels) + 1 \/ n # Len(parcels')
      BY <1>21, <1>28, <2>1
    <3> QED BY <1>9, <1>23, <3>1
  <2>3. /\ parcels[n].place = "BELT" /\ parcels'[n].at = parcels[n].at + Carried
        /\ arrQueue'[s].uID = TaggedId(n)
    BY <1>27, <1>21, <2>2
  <2>4. Arrived(in)[s] # Empty /\ arrQueue'[s].uID = Arrived(in)[s].uID
        /\ arrQueue'[s].rPosition = Arrived(in)[s].rPosition + Distance(in)
    BY <1>5, <1>21
  \* Where a package is tracked, the routing follows the belt.
  <2>5. Distance(in) = Carried
    <3>1. CASE ePackMLState' = "EXECUTE"
      BY <1>2, <3>1
    <3>2. CASE ePackMLState' # "EXECUTE" /\ Carried = 0
      BY <1>2, <3>2
    <3>3. CASE ePackMLState' = "STARTING"
      <4>1. Active(arrQueue)' = {}
        BY <1>3, <3>3 DEF RunInv
      <4> QED BY <1>21, <4>1 DEF Active
    <3> QED BY <1>2, <1>4, <3>1, <3>2, <3>3
  <2>6. CASE arrQueue[s] # Empty /\ Arrived(in)[s] = arrQueue[s]
    <3>1. arrQueue[s].uID = parcels[n].id
      <4>1. arrQueue[s].uID = TaggedId(n) /\ arrQueue[s].uID < uiNextPackageID
        BY <1>13, <2>3, <2>4, <2>6
      <4>2. arrQueue[s].uID \in Nat
        BY <1>13, <2>6
      <4> QED BY <1>10, <1>23, <4>1, <4>2
    <3>2. arrQueue[s].rPosition = parcels[n].at
      BY <2>2, <2>3, <2>6, <3>1 DEF TrackInv, Tracking
    <3> QED BY <2>3, <2>4, <2>5, <2>6, <3>2
  <2>7. CASE new /\ Arrived(in)[s] = NewPackage
    <3>1. n = Len(parcels)
      <4>1. TaggedId(n) = uiNextPackageID
        BY <1>14, <2>3, <2>4, <2>7
      <4>2. parcels[n].id < uiNextPackageID /\ parcels[n].id \in Nat
        BY <1>12, <1>24, <2>2
      <4> QED BY <1>10, <1>23, <4>1, <4>2
    <3>2. parcels[n].at = RegisterPosition
      BY <1>15, <2>7, <3>1
    <3> QED BY <1>14, <2>3, <2>4, <2>5, <2>7, <3>2
  <2> QED BY <1>6, <2>4, <2>6, <2>7
<1>22. Tracking'
  BY <1>21 DEF Tracking
<1>29. TrackTypeOK'
  <2>1. uiNextPackageID' \in Nat \ {0}
    BY <1>8
  <2>2. arrQueue' \in Queues /\ xResetLast' \in BOOLEAN
    BY <1>3
  <2> QED BY <1>26, <2>1, <2>2 DEF TrackTypeOK
<1>30. RunInv'
  BY <1>3
<1> QED BY <1>20, <1>22, <1>29, <1>30 DEF TrackInv

LEMMA TrackInit ==
  ASSUME CellInit PROVE TrackInv
<1>1. /\ arrQueue = [s \in Slots |-> Empty] /\ uiNextPackageID = 1 /\ parcels = <<>>
      /\ ePackMLState = "STOPPED" /\ eCurrentMode = "AUTO" /\ xResetLast = FALSE
  BY DEF CellInit, RoutingInit, Station!StationInit
<1>2. Active(arrQueue) = {} /\ arrQueue \in Queues /\ \A s \in Slots : arrQueue[s] = Empty
  BY <1>1 DEF Active, Queues
<1>3. Len(parcels) = 0 /\ parcels \in Seq(Parcel) /\ 1..Len(parcels) = {}
  BY <1>1
<1>4. RunInv
  BY <1>1, <1>2 DEF RunInv, PackMLStates
<1>5. TrackTypeOK
  <2>1. uiNextPackageID \in Nat \ {0}
    BY <1>1
  <2>3. xResetLast \in BOOLEAN
    BY <1>1, Zenon
  <2>2. arrQueue \in Queues /\ parcels \in Seq(Parcel)
    BY <1>2, <1>3
  <2> QED BY <2>1, <2>2, <2>3 DEF TrackTypeOK
<1>6. FeedInv
  BY <1>2, <1>3 DEF FeedInv
<1>7. Tracking
  BY <1>2 DEF Tracking
<1> QED BY <1>4, <1>5, <1>6, <1>7 DEF TrackInv

LEMMA TrackNext ==
  ASSUME "unhold" \notin OperatorCommands, FeedIsSpaced, CellAssumption, TrackInv,
         [CellNext]_cellVars
  PROVE  TrackInv'
<1>1. CASE CellNext
  BY <1>1, TrackStep DEF CellNext
<1>2. CASE UNCHANGED cellVars
  BY <1>2 DEF cellVars, Station!stationVars, routingVars, plantVars, TrackInv,
     TrackTypeOK, RunInv, FeedInv, Tracking, Active
<1> QED BY <1>1, <1>2

\* As long as no operator unholds the cell (finding sorting_hold is what happens
\* then), the position that the routing integrates is the place of the package,
\* for every layout in which the infeed waits for PE1 to be clear, and whatever
\* stops, holds, resets and faults do to the run.
THEOREM TrackingCorrect ==
  ASSUME "unhold" \notin OperatorCommands, FeedIsSpaced
  PROVE  CellSpec => []TrackedInStep
<1>1. CellInit => TrackInv
  BY TrackInit
<1>2. TrackInv /\ [CellNext]_cellVars => TrackInv'
  BY TrackNext, CellAssumption
<1>3. TrackInv => TrackedInStep
  <2> SUFFICES ASSUME TrackInv PROVE TrackedInStep
    OBVIOUS
  <2>1. DOMAIN parcels = 1..Len(parcels)
    BY DEF TrackInv, TrackTypeOK
  <2> QED BY <2>1 DEF TrackInv, Tracking, TrackedInStep, Active, OnBelt
<1> QED BY <1>1, <1>2, <1>3, PTL DEF CellSpec

------------------------------------------------------------------------------
(* A package that was scanned is routed by its own label.                    *)

\* Packages keep their distance as long as they are on the belt.
Spaced ==
  \A n, m \in 1..Len(parcels) :
    n < m /\ parcels[n].place = "BELT" /\ parcels[m].place # "GONE" =>
      parcels[n].at >= parcels[m].at + Gap

\* The label last read is the one of the package at PE2.
ReadAtPE2 ==
  \A n \in 1..Len(parcels) :
    parcels[n].place = "BELT" /\ Inside(parcels[n].at, Layout.pe2) =>
      scannerData = parcels[n].label

\* A number is carried by one package and by one entry of the queue.
Numbered ==
  /\ \A m, n \in 1..Len(parcels) :
       parcels[m].id = parcels[n].id /\ parcels[n].id # 0 => m = n
  /\ \A s, t \in Slots :
       arrQueue[s] # Empty /\ arrQueue[t] # Empty /\ arrQueue[s].uID = arrQueue[t].uID
         => s = t

BeforePE2(n) ==
  /\ parcels[n].place = "BELT"
  /\ \/ parcels[n].at < Layout.pe2.from
     \/ parcels[n].at = Layout.pe2.from /\ ~lastEdges["PE2"]

\* A package whose scan is awaited has not passed the edge of PE2.
Awaited ==
  \A s \in Slots :
    arrQueue[s] # Empty /\ ~arrQueue[s].xScanned /\ ePackMLState = "EXECUTE" =>
      \E n \in 1..Len(parcels) :
        parcels[n].id = arrQueue[s].uID /\ BeforePE2(n)

Labelled ==
  \A s \in Slots, n \in 1..Len(parcels) :
    (/\ arrQueue[s] # Empty /\ arrQueue[s].uID = parcels[n].id
     /\ arrQueue[s].eRouteTarget # "NONE")
      => arrQueue[s].eRouteTarget = Destination(parcels[n].label)

LabelInv ==
  TrackInv /\ scannerData \in Labels /\ Spaced /\ ReadAtPE2 /\ Numbered /\ Awaited
  /\ Labelled

\* The constants of the geometry that the argument computes with.
LEMMA GeometryTypes ==
  ASSUME CellAssumption, RoutingAssumption, FeedIsSpaced
  PROVE  /\ Layout.pe2.from \in Int /\ Layout.pe2.to \in Int
         /\ Layout.reach1.from \in Int /\ Layout.reach2.from \in Int
         /\ Layout.beltEnd \in Int /\ RegisterPosition \in Nat
         /\ DefaultGeometry.scanner.from \in Int /\ DefaultGeometry.scanner.to \in Int
         /\ Gap \in Int /\ \A p \in Pitches : p \in Nat
  BY DEF CellAssumption, RoutingAssumption, FeedIsSpaced, Geometry, Window, Gap

\* Two places in the scanner window, one of them at PE2, are less than the
\* distance of two packages apart.
LEMMA WithinGap ==
  ASSUME CellAssumption, RoutingAssumption, FeedIsSpaced, ScannerIsPlaced,
         NEW a \in Nat, NEW b \in Nat, NEW c \in {0, 1},
         a <= Layout.pe2.from, a + c >= DefaultGeometry.scanner.from,
         Inside(b, Layout.pe2)
  PROVE  ~(a >= b + Gap) /\ ~(b >= a + Gap)
<1>1. Layout.pe2.from <= b /\ b <= Layout.pe2.to
  BY DEF Inside
<1>2. /\ Gap = DefaultGeometry.scanner.to - DefaultGeometry.scanner.from + 2
      /\ Layout.pe2.to <= DefaultGeometry.scanner.to
      /\ Layout.pe2.from < DefaultGeometry.scanner.to
      /\ DefaultGeometry.scanner.from <= Layout.pe2.from
  BY DEF Gap, ScannerIsPlaced
<1>3. /\ Layout.pe2.from \in Int /\ Layout.pe2.to \in Int /\ Gap \in Int
      /\ DefaultGeometry.scanner.from \in Int /\ DefaultGeometry.scanner.to \in Int
  BY GeometryTypes
<1> QED BY <1>1, <1>2, <1>3

LEMMA OneInWindow ==
  ASSUME CellAssumption, RoutingAssumption, FeedIsSpaced, ScannerIsPlaced,
         TrackTypeOK, Spaced, NEW c \in {0, 1},
         NEW k \in 1..Len(parcels), NEW m \in 1..Len(parcels),
         parcels[k].place = "BELT", parcels[m].place = "BELT",
         parcels[k].at <= Layout.pe2.from,
         parcels[k].at + c >= DefaultGeometry.scanner.from,
         Inside(parcels[m].at, Layout.pe2)
  PROVE  k = m
<1>1. parcels[k] \in Parcel /\ parcels[m] \in Parcel
  BY DEF TrackTypeOK
<1>2. parcels[k].at \in Nat /\ parcels[m].at \in Nat
  BY <1>1 DEF Parcel
<1>4. ~(parcels[k].at >= parcels[m].at + Gap) /\ ~(parcels[m].at >= parcels[k].at + Gap)
  BY <1>2, WithinGap
<1>5. ~(k < m) /\ ~(m < k)
  BY <1>4 DEF Spaced
<1>6. k \in Int /\ m \in Int
  BY DEF TrackTypeOK
<1> QED BY <1>5, <1>6

\* The hypotheses of the theorem.
WellLaidOut ==
  /\ "unhold" \notin OperatorCommands /\ ~ScannerIsTriggered
  /\ FeedIsSpaced /\ ScannerIsPlaced

LEMMA LaidOut ==
  ASSUME WellLaidOut
  PROVE  /\ "unhold" \notin OperatorCommands /\ ~ScannerIsTriggered
         /\ FeedIsSpaced /\ ScannerIsPlaced /\ CellAssumption /\ RoutingAssumption
         /\ RegisterPosition \in Int /\ RegisterPosition \in Nat
  BY CellAssumption, RoutingAssumption DEF WellLaidOut, FeedIsSpaced

\* What a scan does to the queue, to the belt and to the numbers, put together.
LEMMA ScanOfCell ==
  ASSUME WellLaidOut, LabelInv,
         NEW command \in OperatorCommands \cup {"none"}, CellScan(command),
         NEW in, in = RoutingIn, NEW p, p = Arrived(in),
         NEW new, new = (PE1Edge(in) /\ Active(Kept(in)) # Slots)
  PROVE  /\ p \in Queues /\ uiNextPackageID' = uiNextPackageID + One(new)
         /\ lastEdges'["PE2"] = in.xPE2 /\ (in.xPE2 <=> Blocked(Layout.pe2))
         /\ PE2Edge(in) <=> ePackMLState' = "EXECUTE" /\ in.xPE2 /\ ~lastEdges["PE2"]
         /\ Carried \in {0, 1}
         /\ Distance(in) = IF ePackMLState' = "EXECUTE" THEN Carried ELSE 0
         /\ AssignedRoute(in) = Destination(scannerData)
         /\ AutoRouteActive(in) <=> ePackMLState' = "EXECUTE"
         /\ ePackMLState' = "EXECUTE" /\ ePackMLState # "EXECUTE" =>
              \A s \in Slots : arrQueue[s] = Empty
         /\ \A s \in Slots : p[s] # Empty =>
              \/ arrQueue[s] # Empty /\ p[s] = arrQueue[s]
              \/ /\ new /\ p[s] = NewPackage
                 /\ s = LowestSlot(Slots \ Active(Kept(in)))
<1>1. /\ "unhold" \notin OperatorCommands /\ RegisterPosition \in Int
  BY LaidOut
<1>2. TrackInv /\ scannerData \in Labels
  BY DEF LabelInv
<1>3. /\ RoutingScan(in) /\ in.rConveyorSpeed \in Int
      /\ AutoRouteActive(in) <=> ePackMLState' = "EXECUTE"
      /\ Distance(in) = IF ePackMLState' = "EXECUTE" THEN Carried ELSE 0
      /\ ePackMLState' = "EXECUTE" /\ ePackMLState # "EXECUTE" => Active(arrQueue) = {}
  BY <1>1, <1>2, ScanReads
<1>4. /\ in.xPE2 <=> Blocked(Layout.pe2)
      /\ Carried \in {0, 1} /\ AssignedRoute(in) = Destination(scannerData)
  BY <1>2, RoutingReads
<1>5. arrQueue \in Queues /\ uiNextPackageID \in Nat
  BY <1>2 DEF TrackInv, TrackTypeOK
<1>6. /\ p \in Queues /\ uiNextPackageID' = uiNextPackageID + One(new)
      /\ lastEdges'["PE2"] = in.xPE2
  BY <1>1, <1>3, <1>5, RoutingQueue
<1>7. \A s \in Slots : p[s] # Empty =>
        \/ arrQueue[s] # Empty /\ p[s] = arrQueue[s]
        \/ /\ new /\ p[s] = NewPackage
           /\ s = LowestSlot(Slots \ Active(Kept(in)))
  BY <1>1, <1>5, ArrivedQueue
<1>8. Active(arrQueue) = {} => \A s \in Slots : arrQueue[s] = Empty
  BY DEF Active
<1>9. PE2Edge(in) <=> ePackMLState' = "EXECUTE" /\ in.xPE2 /\ ~lastEdges["PE2"]
  BY <1>3 DEF PE2Edge, Rising
<1> QED BY <1>3, <1>4, <1>6, <1>7, <1>8, <1>9

\* The entries of the queue after the scan.
LEMMA EntryOfCell ==
  ASSUME WellLaidOut, LabelInv,
         NEW command \in OperatorCommands \cup {"none"}, CellScan(command),
         NEW in, in = RoutingIn, NEW p, p = Arrived(in),
         NEW s \in Slots, arrQueue'[s] # Empty
  PROVE  /\ p[s] # Empty /\ arrQueue'[s].uID = p[s].uID
         /\ arrQueue'[s].rPosition = p[s].rPosition + Distance(in)
         /\ \/ /\ arrQueue'[s].xScanned = p[s].xScanned
               /\ arrQueue'[s].eRouteTarget = p[s].eRouteTarget
            \/ /\ PE2Edge(in) /\ ~p[s].xScanned /\ arrQueue'[s].xScanned
               /\ arrQueue'[s].eRouteTarget = AssignedRoute(in)
               /\ Inside(arrQueue'[s].rPosition, DefaultGeometry.scanner)
            \/ /\ AutoRouteActive(in) /\ ~p[s].xScanned /\ arrQueue'[s].xScanned
               /\ arrQueue'[s].rPosition > DefaultGeometry.scanner.to
         /\ (/\ PE2Edge(in) /\ ~arrQueue'[s].xScanned
             /\ Inside(arrQueue'[s].rPosition, DefaultGeometry.scanner))
            => \E t \in Slots \ {s} :
                 /\ p[t] # Empty /\ ~p[t].xScanned
                 /\ Inside(p[t].rPosition + Distance(in), DefaultGeometry.scanner)
<1>1. /\ "unhold" \notin OperatorCommands /\ RegisterPosition \in Int
  BY LaidOut
<1>2. TrackInv
  BY DEF LabelInv
<1>3. RoutingScan(in) /\ in.rConveyorSpeed \in Int
  BY <1>1, <1>2, ScanReads
<1>4. arrQueue \in Queues /\ uiNextPackageID \in Nat
  BY <1>2 DEF TrackInv, TrackTypeOK
<1>5. NormalisedGeometry(in).scanner = DefaultGeometry.scanner
  <2>1. in.stActiveRecipe = DefaultGeometry
    BY RoutingReads
  <2> QED BY <2>1 DEF NormalisedGeometry, GivenOr
<1> DEFINE g == NormalisedGeometry(in)
<1>6. g = NormalisedGeometry(in) /\ g.scanner = DefaultGeometry.scanner
  BY <1>5
<1> HIDE DEF g
<1> QED BY <1>1, <1>3, <1>4, <1>6, RoutingQueue

\* An entry whose scan is awaited stands for a package that has not passed the
\* edge of PE2, and its position is that of the package.
LEMMA AwaitedParcel ==
  ASSUME WellLaidOut, LabelInv,
         NEW command \in OperatorCommands \cup {"none"}, CellScan(command),
         NEW in, in = RoutingIn, NEW p, p = Arrived(in), ePackMLState' = "EXECUTE",
         NEW s \in Slots, p[s] # Empty, ~p[s].xScanned
  PROVE  \E k \in 1..Len(parcels) :
           /\ BeforePE2(k) /\ TaggedId(k) = p[s].uID
           /\ p[s].rPosition = parcels[k].at
<1> DEFINE new == PE1Edge(in) /\ Active(Kept(in)) # Slots
<1>1. /\ TrackInv /\ Awaited /\ FeedInv /\ Tracking /\ parcels \in Seq(Parcel)
      /\ arrQueue \in Queues /\ uiNextPackageID \in Nat
  BY DEF LabelInv, TrackInv, TrackTypeOK
<1>2. /\ "unhold" \notin OperatorCommands /\ RegisterPosition \in Int
      /\ RegisterPosition < Layout.pe2.from
  BY LaidOut DEF ScannerIsPlaced
<1>3. RoutingScan(in) /\ in.rConveyorSpeed \in Int
  BY <1>1, <1>2, ScanReads
<1>4. routingOut'.registered = new
  BY <1>1, <1>2, <1>3, RoutingQueue
<1>5. \/ arrQueue[s] # Empty /\ p[s] = arrQueue[s]
      \/ new /\ p[s] = NewPackage
  BY ScanOfCell
<1>6. CASE arrQueue[s] # Empty /\ p[s] = arrQueue[s]
  <2>1. ePackMLState = "EXECUTE"
    BY <1>6, ScanOfCell
  <2>2. PICK k \in 1..Len(parcels) : parcels[k].id = arrQueue[s].uID /\ BeforePE2(k)
    BY <1>1, <1>6, <2>1 DEF Awaited
  <2>3. p[s].rPosition = parcels[k].at
    BY <1>1, <1>6, <2>2 DEF Tracking, BeforePE2
  <2>4. TaggedId(k) = parcels[k].id
    <3>1. SUFFICES ASSUME new, k = Len(parcels) PROVE FALSE
      BY <1>4 DEF TaggedId
    <3>2. parcels[k].id = 0
      BY <1>1, <3>1, RegisteredParcel
    <3>3. arrQueue[s].uID # 0
      BY <1>1, <1>6 DEF FeedInv
    <3> QED BY <2>2, <3>2, <3>3
  <2> QED BY <1>6, <2>2, <2>3, <2>4
<1>7. CASE new /\ p[s] = NewPackage
  <2>1. /\ Len(parcels) \in 1..Len(parcels) /\ parcels[Len(parcels)].place = "BELT"
        /\ parcels[Len(parcels)].at = RegisterPosition
    BY <1>1, <1>7, RegisteredParcel
  <2>2. NewPackage.uID = uiNextPackageID /\ NewPackage.rPosition = RegisterPosition
    BY DEF NewPackage
  <2>3. TaggedId(Len(parcels)) = uiNextPackageID
    BY <1>4, <1>7 DEF TaggedId
  <2> QED BY <1>2, <1>7, <2>1, <2>2, <2>3 DEF BeforePE2
<1> QED BY <1>5, <1>6, <1>7

\* A package before PE2, within the scanner window, is what blocks PE2.
LEMMA BlockerOfPE2 ==
  ASSUME WellLaidOut, LabelInv, NEW k \in 1..Len(parcels), BeforePE2(k),
         NEW c \in {0, 1}, parcels[k].at + c >= DefaultGeometry.scanner.from,
         Blocked(Layout.pe2)
  PROVE  parcels[k].at = Layout.pe2.from /\ scannerData = parcels[k].label
<1>1. TrackTypeOK /\ Spaced /\ ReadAtPE2
  BY DEF LabelInv, TrackInv
<1>2. PICK m \in 1..Len(parcels) :
        parcels[m].place = "BELT" /\ Inside(parcels[m].at, Layout.pe2)
  BY <1>1, BlockedMeans DEF TrackTypeOK
<1>3. parcels[k].at \in Nat /\ Layout.pe2.from \in Int
  <2>1. parcels[k] \in Parcel
    BY <1>1 DEF TrackTypeOK
  <2> QED BY <2>1, LaidOut, GeometryTypes DEF Parcel
<1>4. parcels[k].place = "BELT" /\ parcels[k].at <= Layout.pe2.from
  BY <1>3 DEF BeforePE2
<1>5. k = m
  BY <1>1, <1>2, <1>4, LaidOut, OneInWindow
<1>6. parcels[k].at = Layout.pe2.from
  BY <1>2, <1>3, <1>4, <1>5 DEF Inside
<1> QED BY <1>1, <1>2, <1>5, <1>6 DEF ReadAtPE2

\* The positions of an awaited package in the scan that moves it.
LEMMA AwaitedPlace ==
  ASSUME WellLaidOut, LabelInv, NEW k \in 1..Len(parcels), BeforePE2(k),
         Carried \in {0, 1}
  PROVE  /\ parcels[k].at \in Nat
         /\ ~(parcels[k].at + Carried > DefaultGeometry.scanner.to)
         /\ parcels[k].at = Layout.pe2.from =>
              Inside(parcels[k].at + Carried, DefaultGeometry.scanner)
         /\ parcels[k].at # Layout.pe2.from => parcels[k].at + Carried <= Layout.pe2.from
<1>1. parcels[k] \in Parcel
  BY DEF LabelInv, TrackInv, TrackTypeOK
<1>2. /\ parcels[k].at \in Nat
      /\ Layout.pe2.from \in Int /\ DefaultGeometry.scanner.from \in Int
      /\ DefaultGeometry.scanner.to \in Int
  BY <1>1, LaidOut, GeometryTypes DEF Parcel
<1>3. /\ DefaultGeometry.scanner.from <= Layout.pe2.from
      /\ Layout.pe2.from < DefaultGeometry.scanner.to
  BY LaidOut DEF ScannerIsPlaced
<1>4. parcels[k].at < Layout.pe2.from \/ parcels[k].at = Layout.pe2.from
  BY DEF BeforePE2
<1> QED BY <1>2, <1>3, <1>4 DEF Inside

LEMMA NumberedStep ==
  ASSUME WellLaidOut, LabelInv,
         NEW command \in OperatorCommands \cup {"none"}, CellScan(command)
  PROVE  /\ Numbered'
         /\ \A s, t \in Slots :
              /\ Arrived(RoutingIn)[s] # Empty /\ Arrived(RoutingIn)[t] # Empty
              /\ Arrived(RoutingIn)[s].uID = Arrived(RoutingIn)[t].uID
              => s = t
         /\ \A m, n \in 1..Len(parcels) :
              TaggedId(m) = TaggedId(n) /\ TaggedId(n) # 0 => m = n
<1> DEFINE in == RoutingIn
           p == Arrived(in)
           new == PE1Edge(in) /\ Active(Kept(in)) # Slots
<1>1. /\ TrackInv /\ Numbered /\ FeedInv /\ parcels \in Seq(Parcel)
      /\ arrQueue \in Queues /\ uiNextPackageID \in Nat /\ uiNextPackageID # 0
  BY DEF LabelInv, TrackInv, TrackTypeOK
<1>2. /\ "unhold" \notin OperatorCommands /\ RegisterPosition \in Int
      /\ RegisterPosition \in Nat /\ CellAssumption
  BY LaidOut
<1>3. routingOut'.registered = new
  <2>1. RoutingScan(in) /\ in.rConveyorSpeed \in Int
    BY <1>1, <1>2, ScanReads
  <2> QED BY <1>1, <1>2, <2>1, RoutingQueue
<1>4. ASSUME NEW n \in 1..Len(parcels)
      PROVE  /\ TaggedId(n) \in Nat /\ parcels[n].id < uiNextPackageID
             /\ parcels[n].id \in Nat
             /\ \/ new /\ n = Len(parcels) /\ TaggedId(n) = uiNextPackageID
                \/ ~(new /\ n = Len(parcels)) /\ TaggedId(n) = parcels[n].id
  <2>1. parcels[n] \in Parcel
    BY <1>1
  <2>2. parcels[n].id \in Nat /\ parcels[n].id < uiNextPackageID
    BY <1>1, <2>1 DEF Parcel, FeedInv
  <2> QED BY <1>1, <1>3, <2>2 DEF TaggedId
<1>5. ASSUME NEW m \in 1..Len(parcels), NEW n \in 1..Len(parcels),
             TaggedId(m) = TaggedId(n), TaggedId(n) # 0
      PROVE  m = n
  <2>1. ~(parcels[m].id = uiNextPackageID) /\ ~(parcels[n].id = uiNextPackageID)
    BY <1>1, <1>4
  <2> QED BY <1>1, <1>4, <1>5, <2>1 DEF Numbered
<1>6. ASSUME NEW m \in 1..Len(parcels'), NEW n \in 1..Len(parcels'),
             parcels'[m].id = parcels'[n].id, parcels'[n].id # 0
      PROVE  m = n
  <2>1. MoveParcels
    BY DEF CellScan
  <2>2. /\ Len(parcels') = Len(parcels) \/ Len(parcels') = Len(parcels) + 1
        /\ Len(parcels') = Len(parcels) + 1 => parcels'[Len(parcels')].id = 0
    BY <1>1, <1>2, <2>1, ParcelsMove
  <2>3. \A k \in 1..Len(parcels) : parcels'[k].id = 0 \/ parcels'[k].id = TaggedId(k)
    BY <1>1, <1>2, <2>1, ParcelsMove
  <2>4. Len(parcels) \in Nat
    BY <1>1
  <2>5. ASSUME NEW k \in 1..Len(parcels'), parcels'[k].id # 0
        PROVE  k \in 1..Len(parcels)
    BY <2>2, <2>4, <2>5
  <2>6. m \in 1..Len(parcels) /\ n \in 1..Len(parcels)
    BY <1>6, <2>5
  <2> QED BY <1>5, <1>6, <2>3, <2>6
<1>7. ASSUME NEW s \in Slots, p[s] # Empty
      PROVE  \/ arrQueue[s] # Empty /\ p[s] = arrQueue[s] /\ arrQueue[s].uID < uiNextPackageID
             \/ p[s].uID = uiNextPackageID /\ s = LowestSlot(Slots \ Active(Kept(in)))
  <2>1. \/ arrQueue[s] # Empty /\ p[s] = arrQueue[s]
        \/ p[s] = NewPackage /\ s = LowestSlot(Slots \ Active(Kept(in)))
    BY <1>7, ScanOfCell
  <2> QED BY <1>1, <2>1 DEF FeedInv, NewPackage
<1>8. ASSUME NEW s \in Slots, NEW t \in Slots,
             p[s] # Empty, p[t] # Empty, p[s].uID = p[t].uID
      PROVE  s = t
  <2>1. ~(uiNextPackageID < uiNextPackageID)
    BY <1>1
  <2> QED BY <1>1, <1>7, <1>8, <2>1 DEF Numbered
<1> HIDE DEF p, in
<1>9. ASSUME NEW s \in Slots, arrQueue'[s] # Empty
      PROVE  p[s] # Empty /\ arrQueue'[s].uID = p[s].uID
  BY <1>9, EntryOfCell DEF p, in
<1>10. Numbered'
  BY <1>6, <1>8, <1>9 DEF Numbered
<1> QED BY <1>5, <1>8, <1>10 DEF p, in

\* The arithmetic of distances.
LEMMA StillApart ==
  ASSUME NEW a \in Nat, NEW b \in Nat, NEW c \in Nat, NEW gap \in Nat, NEW d \in {0, 1},
         a >= b + gap, c <= b + d
  PROVE  a + d >= c + gap
  OBVIOUS

LEMMA FurtherApart ==
  ASSUME NEW a \in Nat, NEW b \in Nat, NEW c \in Nat, NEW gap \in Nat,
         a >= b + gap, b >= c + gap
  PROVE  a >= c + gap
  OBVIOUS

LEMMA SpacedStep ==
  ASSUME WellLaidOut, LabelInv,
         NEW command \in OperatorCommands \cup {"none"}, CellScan(command)
  PROVE  Spaced'
<1>1. Spaced /\ parcels \in Seq(Parcel) /\ uiNextPackageID \in Nat /\ Len(parcels) \in Nat
  BY DEF LabelInv, TrackInv, TrackTypeOK
<1>2. RegisterPosition \in Nat /\ CellAssumption /\ MoveParcels
  BY LaidOut DEF CellScan
<1>3. Gap \in Nat
  BY LaidOut, GeometryTypes DEF Gap, ScannerIsPlaced
<1>14. \A q \in Pitches : q \in Nat /\ q >= Gap
  BY LaidOut, GeometryTypes DEF ScannerIsPlaced
<1>4. /\ parcels' \in Seq(Parcel)
      /\ Len(parcels') = Len(parcels) \/ Len(parcels') = Len(parcels) + 1
  BY <1>1, <1>2, ParcelsMove
<1>5. ASSUME NEW n \in 1..Len(parcels)
      PROVE  /\ parcels'[n].place = "BELT" =>
                  parcels[n].place = "BELT" /\ parcels'[n].at = parcels[n].at + Carried
             /\ parcels'[n].place # "GONE" =>
                  parcels[n].place # "GONE" /\ parcels'[n].at <= parcels[n].at + Carried
  BY <1>1, <1>2, ParcelsMove
<1>6. ASSUME Len(parcels') = Len(parcels) + 1
      PROVE  /\ parcels'[Len(parcels')].at = RegisterPosition
             /\ Len(parcels) > 0 =>
                  \E q \in Pitches : parcels'[Len(parcels)].at = RegisterPosition + q
  BY <1>1, <1>2, <1>6, ParcelsMove
<1>7. \A n \in 1..Len(parcels) : parcels[n].at \in Nat
  <2>1. \A n \in 1..Len(parcels) : parcels[n] \in Parcel
    BY <1>1
  <2> QED BY <2>1 DEF Parcel
<1>8. \A n \in 1..Len(parcels') : parcels'[n].at \in Nat
  <2>1. \A n \in 1..Len(parcels') : parcels'[n] \in Parcel
    BY <1>4
  <2> QED BY <2>1 DEF Parcel
<1>9. Carried \in {0, 1}
  BY DEF Carried
<1>10. ASSUME NEW n \in 1..Len(parcels), NEW m \in 1..Len(parcels), n < m,
              parcels'[n].place = "BELT", parcels'[m].place # "GONE"
       PROVE  parcels'[n].at >= parcels'[m].at + Gap
  <2>1. /\ parcels'[n].at = parcels[n].at + Carried
        /\ parcels'[m].at <= parcels[m].at + Carried
        /\ parcels[n].at >= parcels[m].at + Gap
    BY <1>1, <1>5, <1>10 DEF Spaced
  <2>2. /\ parcels[n].at \in Nat /\ parcels[m].at \in Nat /\ parcels'[m].at \in Nat
    <3>1. m \in 1..Len(parcels')
      BY <1>1, <1>4
    <3> QED BY <1>7, <1>8, <3>1
  <2> QED BY <1>3, <1>9, <2>1, <2>2, StillApart
<1>11. ASSUME NEW n \in 1..Len(parcels), parcels'[n].place = "BELT",
              Len(parcels') = Len(parcels) + 1
       PROVE  parcels'[n].at >= RegisterPosition + Gap
  <2>1. Len(parcels) > 0
    BY <1>1
  <2>2. PICK q \in Pitches : parcels'[Len(parcels)].at = RegisterPosition + q
    BY <1>6, <1>11, <2>1
  <2>3. parcels'[Len(parcels)].at >= RegisterPosition + Gap
    BY <1>2, <1>3, <1>14, <2>2
  <2>4. CASE n = Len(parcels)
    BY <2>3, <2>4
  <2>5. CASE n # Len(parcels)
    \* The last package is still in the cell: its place is beyond the infeed.
    <3>1. n < Len(parcels) /\ Len(parcels) \in 1..Len(parcels)
      BY <1>1, <2>1, <2>5
    <3>2. parcels'[n].at \in Nat /\ parcels'[Len(parcels)].at \in Nat
      BY <1>1, <1>4, <1>8, <3>1
    <3>3. parcels'[Len(parcels)].place # "GONE"
      <4>1. RegisterPosition + q # 0
        BY <1>2, <2>2, CellAssumption DEF CellAssumption
      <4>2. parcels'[Len(parcels)].place = "GONE" => parcels'[Len(parcels)].at = 0
        BY <1>1, <1>2, <3>1, ParcelsMove
      <4> QED BY <2>2, <4>1, <4>2
    <3>4. parcels'[n].at >= parcels'[Len(parcels)].at + Gap
      BY <1>10, <1>11, <3>1, <3>3
    <3> QED BY <1>2, <1>3, <2>3, <3>2, <3>4, FurtherApart
  <2> QED BY <2>4, <2>5
<1>12. ASSUME NEW n \in 1..Len(parcels'), NEW m \in 1..Len(parcels'), n < m,
              parcels'[n].place = "BELT", parcels'[m].place # "GONE"
       PROVE  parcels'[n].at >= parcels'[m].at + Gap
  <2>1. CASE m \in 1..Len(parcels)
    <3>1. n \in 1..Len(parcels)
      BY <1>1, <1>12, <2>1
    <3> QED BY <1>10, <1>12, <2>1, <3>1
  <2>2. CASE m \notin 1..Len(parcels)
    <3>1. Len(parcels') = Len(parcels) + 1 /\ m = Len(parcels') /\ n \in 1..Len(parcels)
      BY <1>1, <1>4, <1>12, <2>2
    <3>2. parcels'[m].at = RegisterPosition
      BY <1>6, <3>1
    <3> QED BY <1>11, <1>12, <3>1, <3>2
  <2> QED BY <2>1, <2>2
<1>13. Gap' = Gap
  BY DEF Gap
<1> QED BY <1>12, <1>13 DEF Spaced

LEMMA ReadStep ==
  ASSUME WellLaidOut, Spaced', TrackTypeOK', scannerData \in Labels, ReadScanner
  PROVE  ReadAtPE2' /\ scannerData' \in Labels
<1> DEFINE seen == {n \in DOMAIN parcels' : /\ parcels'[n].place = "BELT"
                                           /\ Inside(parcels'[n].at, Layout.pe2)}
<1>1. DOMAIN parcels' = 1..Len(parcels') /\ \A n \in 1..Len(parcels') : parcels'[n] \in Parcel
  BY DEF TrackTypeOK
<1>2. scannerData' = IF seen # {} THEN parcels'[CHOOSE n \in seen : TRUE].label
                     ELSE scannerData
  BY LaidOut DEF ReadScanner
<1>3. ASSUME NEW n \in seen, NEW m \in seen
      PROVE  n = m
  <2>1. n \in 1..Len(parcels') /\ m \in 1..Len(parcels')
    BY <1>1
  <2>2. parcels'[n] \in Parcel /\ parcels'[m] \in Parcel
    BY <1>1, <2>1
  <2>3. parcels'[n].at \in Nat /\ parcels'[m].at \in Nat
    BY <2>2 DEF Parcel
  <2>4. ASSUME NEW a \in Nat, NEW b \in Nat, Inside(a, Layout.pe2), Inside(b, Layout.pe2)
        PROVE  ~(a >= b + Gap)
    <3>1. /\ Layout.pe2.from <= b /\ a <= Layout.pe2.to
      BY <2>4 DEF Inside
    <3>2. /\ Gap = DefaultGeometry.scanner.to - DefaultGeometry.scanner.from + 2
          /\ Layout.pe2.to <= DefaultGeometry.scanner.to
          /\ DefaultGeometry.scanner.from <= Layout.pe2.from
      BY LaidOut DEF Gap, ScannerIsPlaced
    <3>3. /\ Layout.pe2.from \in Int /\ Layout.pe2.to \in Int /\ Gap \in Int
          /\ DefaultGeometry.scanner.from \in Int /\ DefaultGeometry.scanner.to \in Int
      BY LaidOut, GeometryTypes
    <3> QED BY <3>1, <3>2, <3>3
  <2>5. ~(parcels'[n].at >= parcels'[m].at + Gap) /\ ~(parcels'[m].at >= parcels'[n].at + Gap)
    BY <2>3, <2>4
  <2>6. Gap' = Gap
    BY DEF Gap
  <2>7. ~(n < m) /\ ~(m < n)
    BY <2>1, <2>5, <2>6 DEF Spaced
  <2>8. n \in Int /\ m \in Int
    BY <2>1
  <2> QED BY <2>7, <2>8
<1>4. \A n \in seen : parcels'[n].label \in Labels
  <2>1. \A n \in seen : parcels'[n] \in Parcel
    BY <1>1
  <2> QED BY <2>1 DEF Parcel
<1>5. ASSUME NEW n \in seen
      PROVE  scannerData' = parcels'[n].label
  <2>1. (CHOOSE k \in seen : TRUE) \in seen
    OBVIOUS
  <2> QED BY <1>2, <1>3, <2>1
<1>6. scannerData' \in Labels
  BY <1>2, <1>4, <1>5
<1> QED BY <1>1, <1>5, <1>6 DEF ReadAtPE2

LEMMA AwaitedStep ==
  ASSUME WellLaidOut, LabelInv,
         NEW command \in OperatorCommands \cup {"none"}, CellScan(command)
  PROVE  Awaited'
<1> DEFINE in == RoutingIn
           p == Arrived(in)
<1>1. SUFFICES ASSUME ePackMLState' = "EXECUTE", NEW s \in Slots,
                      arrQueue'[s] # Empty, ~arrQueue'[s].xScanned
               PROVE  \E n \in 1..Len(parcels') :
                        parcels'[n].id = arrQueue'[s].uID /\ BeforePE2(n)'
  BY DEF Awaited
<1>2. /\ p[s] # Empty /\ arrQueue'[s].uID = p[s].uID /\ ~p[s].xScanned
      /\ arrQueue'[s].rPosition = p[s].rPosition + Distance(in)
  BY <1>1, EntryOfCell
<1>3. /\ Carried \in {0, 1} /\ Distance(in) = Carried
      /\ lastEdges'["PE2"] = in.xPE2 /\ (in.xPE2 <=> Blocked(Layout.pe2))
      /\ PE2Edge(in) <=> in.xPE2 /\ ~lastEdges["PE2"]
  BY <1>1, ScanOfCell
<1>4. PICK k \in 1..Len(parcels) :
        BeforePE2(k) /\ TaggedId(k) = p[s].uID /\ p[s].rPosition = parcels[k].at
  BY <1>1, <1>2, AwaitedParcel
<1>5. /\ parcels[k].at \in Nat
      /\ parcels[k].at = Layout.pe2.from =>
           Inside(parcels[k].at + Carried, DefaultGeometry.scanner)
      /\ parcels[k].at # Layout.pe2.from => parcels[k].at + Carried <= Layout.pe2.from
  BY <1>3, <1>4, AwaitedPlace
\* At the edge of PE2 it would be scanned: no other package is in the window.
<1>6. ASSUME parcels[k].at = Layout.pe2.from PROVE FALSE
  <2>1. Inside(parcels[k].at, Layout.pe2) /\ parcels[k].place = "BELT"
    <3>1. /\ Layout.pe2.from \in Int /\ Layout.pe2.from <= Layout.pe2.to
      BY LaidOut, GeometryTypes DEF ScannerIsPlaced
    <3> QED BY <1>4, <1>6, <3>1 DEF Inside, BeforePE2
  <2>2. ~lastEdges["PE2"]
    <3>1. ~(parcels[k].at < Layout.pe2.from)
      BY <1>5, <1>6
    <3> QED BY <1>4, <3>1 DEF BeforePE2
  <2>3. Blocked(Layout.pe2)
    BY <2>1, BlockedMeans DEF LabelInv, TrackInv, TrackTypeOK
  <2>4. PE2Edge(in)
    BY <1>3, <2>2, <2>3
  <2>5. Inside(arrQueue'[s].rPosition, DefaultGeometry.scanner)
    BY <1>2, <1>3, <1>4, <1>5, <1>6
  <2>6. PICK t \in Slots \ {s} :
          /\ p[t] # Empty /\ ~p[t].xScanned
          /\ Inside(p[t].rPosition + Distance(in), DefaultGeometry.scanner)
    BY <1>1, <2>4, <2>5, EntryOfCell
  <2>7. PICK j \in 1..Len(parcels) :
          BeforePE2(j) /\ TaggedId(j) = p[t].uID /\ p[t].rPosition = parcels[j].at
    BY <1>1, <2>6, AwaitedParcel
  <2>8. parcels[j].at + Carried >= DefaultGeometry.scanner.from
    BY <1>3, <2>6, <2>7, AwaitedPlace, LaidOut, GeometryTypes DEF Inside
  <2>9. parcels[j].place = "BELT" /\ parcels[j].at <= Layout.pe2.from
    <3>1. parcels[j].at \in Nat /\ Layout.pe2.from \in Int
      BY <1>3, <2>7, AwaitedPlace, LaidOut, GeometryTypes
    <3> QED BY <2>7, <3>1 DEF BeforePE2
  <2>10. TrackTypeOK /\ Spaced
    BY DEF LabelInv, TrackInv
  <2>11. j = k
    BY <1>3, <2>1, <2>8, <2>9, <2>10, LaidOut, OneInWindow
  <2>12. p[s].uID = p[t].uID
    BY <1>4, <2>7, <2>11
  <2> QED BY <1>2, <2>6, <2>12, NumberedStep
<1>7. parcels[k].at + Carried <= Layout.pe2.from /\ parcels[k].at # Layout.pe2.from
  BY <1>5, <1>6
<1>8. /\ k \in 1..Len(parcels') /\ parcels'[k].place = "BELT"
      /\ parcels'[k].at = parcels[k].at + Carried /\ parcels'[k].id = TaggedId(k)
  <2>1. /\ parcels \in Seq(Parcel) /\ uiNextPackageID \in Nat /\ CellAssumption
        /\ RegisterPosition \in Nat /\ MoveParcels
    BY LaidOut DEF LabelInv, TrackInv, TrackTypeOK, CellScan
  <2>2. parcels[k].place = "BELT"
    BY <1>4 DEF BeforePE2
  <2>3. /\ parcels[k].at + Carried < Layout.reach1.from
        /\ parcels[k].at + Carried < Layout.reach2.from
        /\ parcels[k].at + Carried < Layout.beltEnd
    <3>1. /\ Layout.pe2.from < Layout.reach1.from /\ Layout.pe2.from < Layout.reach2.from
          /\ Layout.pe2.from < Layout.beltEnd
      BY LaidOut DEF ScannerIsPlaced
    <3>2. /\ Layout.pe2.from \in Int /\ Layout.reach1.from \in Int
          /\ Layout.reach2.from \in Int /\ Layout.beltEnd \in Int
      BY LaidOut, GeometryTypes
    <3> QED BY <1>3, <1>5, <1>7, <3>1, <3>2
  <2>4. parcels'[k].place = "BELT"
    BY <2>1, <2>2, <2>3, ParcelsMove
  <2>5. parcels'[k].at = parcels[k].at + Carried /\ parcels'[k].id = TaggedId(k)
    BY <2>1, <2>4, ParcelsMove
  <2>6. Len(parcels') = Len(parcels) \/ Len(parcels') = Len(parcels) + 1
    BY <2>1, ParcelsMove
  <2>7. Len(parcels) \in Nat
    BY <2>1
  <2> QED BY <2>4, <2>5, <2>6, <2>7
<1>9. \/ parcels'[k].at < Layout.pe2.from
      \/ parcels'[k].at = Layout.pe2.from /\ ~lastEdges'["PE2"]
  <2>1. Layout.pe2.from \in Int /\ DefaultGeometry.scanner.from \in Int
        /\ DefaultGeometry.scanner.from <= Layout.pe2.from
    BY LaidOut, GeometryTypes DEF ScannerIsPlaced
  <2>2. ASSUME parcels'[k].at = Layout.pe2.from, Blocked(Layout.pe2) PROVE FALSE
    <3>1. parcels[k].at + Carried >= DefaultGeometry.scanner.from
      BY <1>8, <2>1, <2>2
    <3> QED BY <1>3, <1>4, <1>7, <2>2, <3>1, BlockerOfPE2
  <2>3. parcels'[k].at < Layout.pe2.from \/ parcels'[k].at = Layout.pe2.from
    BY <1>3, <1>5, <1>7, <1>8, <2>1
  <2> QED BY <1>3, <2>2, <2>3
<1>10. BeforePE2(k)'
  BY <1>8, <1>9 DEF BeforePE2
<1> QED BY <1>2, <1>4, <1>8, <1>10

LEMMA LabelledStep ==
  ASSUME WellLaidOut, LabelInv, FeedInv',
         NEW command \in OperatorCommands \cup {"none"}, CellScan(command)
  PROVE  Labelled'
<1> DEFINE in == RoutingIn
           p == Arrived(in)
           new == PE1Edge(in) /\ Active(Kept(in)) # Slots
<1>1. /\ TrackInv /\ Labelled /\ FeedInv /\ parcels \in Seq(Parcel)
      /\ uiNextPackageID \in Nat /\ CellAssumption /\ RegisterPosition \in Nat
      /\ MoveParcels
  BY LaidOut DEF LabelInv, TrackInv, TrackTypeOK, CellScan
<1>2. SUFFICES ASSUME NEW s \in Slots, NEW n \in 1..Len(parcels'),
                      arrQueue'[s] # Empty, arrQueue'[s].uID = parcels'[n].id,
                      arrQueue'[s].eRouteTarget # "NONE"
               PROVE  arrQueue'[s].eRouteTarget = Destination(parcels'[n].label)
  BY DEF Labelled
<1>3. n \in 1..Len(parcels)
  <2>1. parcels'[n].id # 0
    BY <1>2 DEF FeedInv
  <2>2. Len(parcels') = Len(parcels) \/ Len(parcels') = Len(parcels) + 1
    BY <1>1, ParcelsMove
  <2>3. Len(parcels') = Len(parcels) + 1 => parcels'[Len(parcels')].id = 0
    BY <1>1, ParcelsMove
  <2>4. Len(parcels) \in Nat
    BY <1>1
  <2> QED BY <2>1, <2>2, <2>3, <2>4
<1>4. parcels'[n].label = parcels[n].label /\ TaggedId(n) = arrQueue'[s].uID
  <2>1. /\ parcels'[n].label = parcels[n].label
        /\ parcels'[n].id = 0 \/ parcels'[n].id = TaggedId(n)
    BY <1>1, <1>3, ParcelsMove
  <2>2. parcels'[n].id # 0
    BY <1>2 DEF FeedInv
  <2> QED BY <1>2, <2>1, <2>2
<1>5. /\ p[s] # Empty /\ arrQueue'[s].uID = p[s].uID
      /\ arrQueue'[s].rPosition = p[s].rPosition + Distance(in)
      /\ \/ arrQueue'[s].eRouteTarget = p[s].eRouteTarget
         \/ /\ PE2Edge(in) /\ ~p[s].xScanned
            /\ arrQueue'[s].eRouteTarget = AssignedRoute(in)
            /\ Inside(arrQueue'[s].rPosition, DefaultGeometry.scanner)
         \/ /\ AutoRouteActive(in) /\ ~p[s].xScanned
            /\ arrQueue'[s].rPosition > DefaultGeometry.scanner.to
  BY <1>2, EntryOfCell
<1>6. /\ Carried \in {0, 1}
      /\ Distance(in) = IF ePackMLState' = "EXECUTE" THEN Carried ELSE 0
      /\ AssignedRoute(in) = Destination(scannerData)
      /\ AutoRouteActive(in) <=> ePackMLState' = "EXECUTE"
      /\ PE2Edge(in) => ePackMLState' = "EXECUTE" /\ Blocked(Layout.pe2)
      /\ \/ arrQueue[s] # Empty /\ p[s] = arrQueue[s]
         \/ new /\ p[s] = NewPackage
  BY <1>5, ScanOfCell
<1>7. CASE arrQueue'[s].eRouteTarget = p[s].eRouteTarget
  <2>1. arrQueue[s] # Empty /\ p[s] = arrQueue[s]
    BY <1>2, <1>6, <1>7 DEF NewPackage
  <2>2. arrQueue[s].uID < uiNextPackageID
    BY <1>1, <2>1 DEF FeedInv
  <2>3. TaggedId(n) = arrQueue[s].uID /\ TaggedId(n) # uiNextPackageID
    BY <1>1, <1>4, <1>5, <2>1, <2>2
  <2>4. parcels[n].id = arrQueue[s].uID
    BY <2>3 DEF TaggedId
  <2> QED BY <1>1, <1>2, <1>3, <1>4, <1>7, <2>1, <2>4 DEF Labelled
\* A target is assigned in this scan: to the package before PE2.
<1>8. ASSUME ePackMLState' = "EXECUTE", ~p[s].xScanned
      PROVE  /\ BeforePE2(n) /\ arrQueue'[s].rPosition = parcels[n].at + Carried
  <2>1. PICK k \in 1..Len(parcels) :
          BeforePE2(k) /\ TaggedId(k) = p[s].uID /\ p[s].rPosition = parcels[k].at
    BY <1>5, <1>8, AwaitedParcel
  <2>2. TaggedId(n) # 0
    BY <1>2, <1>4 DEF FeedInv
  <2>3. k = n
    BY <1>3, <1>4, <1>5, <2>1, <2>2, NumberedStep
  <2> QED BY <1>5, <1>6, <1>8, <2>1, <2>3
<1>9. CASE /\ PE2Edge(in) /\ ~p[s].xScanned
           /\ arrQueue'[s].eRouteTarget = AssignedRoute(in)
           /\ Inside(arrQueue'[s].rPosition, DefaultGeometry.scanner)
  <2>1. ePackMLState' = "EXECUTE" /\ Blocked(Layout.pe2)
    BY <1>6, <1>9
  <2>2. BeforePE2(n) /\ arrQueue'[s].rPosition = parcels[n].at + Carried
    BY <1>8, <1>9, <2>1
  <2>3. parcels[n].at + Carried >= DefaultGeometry.scanner.from
    <3>1. DefaultGeometry.scanner.from <= parcels[n].at + Carried
      BY <1>9, <2>2 DEF Inside
    <3>2. parcels[n].at \in Nat /\ DefaultGeometry.scanner.from \in Int
      BY <1>3, <1>6, <2>2, AwaitedPlace, LaidOut, GeometryTypes
    <3> QED BY <1>6, <3>1, <3>2
  <2>4. scannerData = parcels[n].label
    BY <1>3, <1>6, <2>1, <2>2, <2>3, BlockerOfPE2
  <2> QED BY <1>4, <1>6, <1>9, <2>4
<1>10. CASE /\ AutoRouteActive(in) /\ ~p[s].xScanned
            /\ arrQueue'[s].rPosition > DefaultGeometry.scanner.to
  <2>1. BeforePE2(n) /\ arrQueue'[s].rPosition = parcels[n].at + Carried
    BY <1>6, <1>8, <1>10
  <2> QED BY <1>3, <1>6, <1>10, <2>1, AwaitedPlace
<1> QED BY <1>5, <1>7, <1>9, <1>10

LEMMA LabelStep ==
  ASSUME WellLaidOut, LabelInv,
         NEW command \in OperatorCommands \cup {"none"}, CellScan(command)
  PROVE  LabelInv'
<1>1. TrackInv'
  BY LaidOut, TrackStep DEF LabelInv
<1>2. FeedInv' /\ TrackTypeOK'
  BY <1>1 DEF TrackInv
<1>3. Spaced' /\ Numbered' /\ Awaited' /\ Labelled'
  BY <1>2, SpacedStep, NumberedStep, AwaitedStep, LabelledStep
<1>4. ReadAtPE2' /\ scannerData' \in Labels
  BY <1>2, <1>3, ReadStep DEF CellScan, LabelInv
<1>5. Labels' = Labels
  BY DEF Labels
<1> QED BY <1>1, <1>3, <1>4, <1>5 DEF LabelInv

LEMMA LabelInit ==
  ASSUME CellInit PROVE LabelInv
<1>1. TrackInv
  BY TrackInit
<1>2. /\ 1..Len(parcels) = {} /\ scannerData \in Labels
      /\ \A s \in Slots : arrQueue[s] = Empty
  BY DEF CellInit, RoutingInit, Labels
<1> QED BY <1>1, <1>2 DEF LabelInv, Spaced, ReadAtPE2, Numbered, Awaited, Labelled

LEMMA LabelNext ==
  ASSUME WellLaidOut, LabelInv, [CellNext]_cellVars
  PROVE  LabelInv'
<1>1. CASE CellNext
  BY <1>1, LabelStep DEF CellNext
<1>2. CASE UNCHANGED cellVars
  <2>1. /\ UNCHANGED <<arrQueue, uiNextPackageID, lastEdges, parcels, scannerData>>
        /\ UNCHANGED <<ePackMLState, eCurrentMode, xResetLast, xRouteFault>>
    BY <1>2 DEF cellVars, Station!stationVars, routingVars, plantVars
  <2>2. TrackInv'
    BY <2>1 DEF LabelInv, TrackInv, TrackTypeOK, RunInv, FeedInv, Tracking, Active
  <2>3. Spaced' /\ ReadAtPE2' /\ Numbered' /\ Awaited' /\ Labelled'
    BY <2>1 DEF LabelInv, Spaced, ReadAtPE2, Numbered, Awaited, Labelled, BeforePE2
  <2> QED BY <2>1, <2>2, <2>3 DEF LabelInv
<1> QED BY <1>1, <1>2

\* A package is routed by its own label, never by that of the package before or
\* behind it and never as a missed read: for every layout in which two packages
\* cannot share the scanner window, with a scanner that reads what stands at
\* PE2 (finding sorting_trigger is what a triggered one does), and whatever
\* stops, holds, resets and faults do to the run.
THEOREM RoutingByOwnLabel ==
  ASSUME WellLaidOut PROVE CellSpec => []RoutedByOwnLabel
<1>1. CellInit => LabelInv
  BY LabelInit
<1>2. LabelInv /\ [CellNext]_cellVars => LabelInv'
  BY LabelNext
<1>3. LabelInv => RoutedByOwnLabel
  <2> SUFFICES ASSUME LabelInv PROVE RoutedByOwnLabel
    OBVIOUS
  <2>1. DOMAIN parcels = 1..Len(parcels)
    BY DEF LabelInv, TrackInv, TrackTypeOK
  <2> QED BY <2>1 DEF LabelInv, Labelled, RoutedByOwnLabel, Active
<1> QED BY <1>1, <1>2, <1>3, PTL DEF CellSpec
================================================================================
