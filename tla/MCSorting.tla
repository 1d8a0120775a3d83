------------------------------ MODULE MCSorting ------------------------------
(* The cell at nominal speed in steps of 0.2 s and 0.1 m: the default        *)
(* geometry of FB_RoutingLogic.st, the timing Main.st configures and the     *)
(* layout of the digital twin, measured at the front of a package.           *)
EXTENDS SortingCell

MCDefaultGeometry ==
  [scanner |-> [from |-> 10, to |-> 14], diverter1 |-> [from |-> 21, to |-> 23],
   diverter2 |-> [from |-> 31, to |-> 33], rRejectExit |-> 42,
   rPackageTimeout |-> 60]

\* A package is 2.5 units long; a cylinder reaches 1.5 units to either side of
\* its axis, measured at the rear of the package.
MCLayout ==
  [pe1 |-> [from |-> 2, to |-> 4], pe2 |-> [from |-> 12, to |-> 14],
   reach1 |-> [from |-> 23, to |-> 25], reach2 |-> [from |-> 33, to |-> 35],
   beltEnd |-> 42]

Operate == {"reset", "start", "kpi"}
OperateQuietly == {"reset", "start"}
OperateAndHold == {"reset", "start", "hold", "unhold"}

\* The layout and the feed of the runs meet the hypotheses of the theorems.
ASSUME MCLaidOut == FeedIsSpaced /\ ScannerIsPlaced
==============================================================================
