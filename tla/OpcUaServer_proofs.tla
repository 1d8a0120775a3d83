-------------------------- MODULE OpcUaServer_proofs --------------------------
(* Proofs about the OPC UA server, for any speeds, recipes and bounds and    *)
(* any number of requests.                                                   *)
EXTENDS OpcUaServer, TLAPS

(* No phantom write.  Of a node that no client has written since the loop    *)
(* last read it, the loop knows the value, except between the read and the   *)
(* note (apply) and between the write and the note of that very node.        *)

Known(n) ==
  node[n] = last_values[n] \/ (pc \in {"apply", "note"} /\ NodeSpecs[at] = n)

HarvestInvariant ==
  /\ DOMAIN node = Nodes /\ DOMAIN last_values = Nodes
  /\ at \in Nat \ {0}
  /\ unread \subseteq Writable
  /\ pc \in {"apply", "note"} => NodeSpecs[at] \in Nodes
  /\ \A n \in Writable \ unread : Known(n)
  /\ pc = "apply" /\ NodeSpecs[at] \notin unread => value = node[NodeSpecs[at]]
  /\ pc = "note" /\ NodeSpecs[at] \notin unread =>
       node[NodeSpecs[at]] = snapshot[NodeSpecs[at]]
  /\ phantom = FALSE

\* Where NextAt stops it stands at a node of the set, and it passes over none.
LEMMA NextAtStops ==
  ASSUME NEW i \in Nat \ {0}, NEW set
  PROVE  /\ NextAt(i, set) \in 1..7
         /\ NextAt(i, set) <= 6 => /\ NextAt(i, set) \in i..6
                                   /\ NodeSpecs[NextAt(i, set)] \in Nodes \cap set
         /\ \A j \in i..6 : j < NextAt(i, set) => NodeSpecs[j] \notin set
<1> DEFINE hits == {j \in i..6 : NodeSpecs[j] \in set}
<1>1. Len(NodeSpecs) = 6 /\ DOMAIN NodeSpecs = 1..6
  BY DEF NodeSpecs
<1>2. NextAt(i, set) = IF hits = {} THEN 7
                       ELSE CHOOSE j \in hits : \A k \in hits : j <= k
  BY <1>1 DEF NextAt
<1>3. CASE hits = {}
  BY <1>2, <1>3
<1>4. CASE hits # {}
  <2>1. \E j \in hits : \A k \in hits : j <= k
    <3> DEFINE Least(m) == m \in hits /\ \A k \in hits : m <= k
    <3>1. hits \subseteq 1..6
      OBVIOUS
    <3>2. CASE 1 \in hits
      BY <3>1, <3>2
    <3>3. CASE 1 \notin hits /\ 2 \in hits
      BY <3>1, <3>3
    <3>4. CASE {1, 2} \cap hits = {} /\ 3 \in hits
      BY <3>1, <3>4
    <3>5. CASE {1, 2, 3} \cap hits = {} /\ 4 \in hits
      BY <3>1, <3>5
    <3>6. CASE {1, 2, 3, 4} \cap hits = {} /\ 5 \in hits
      BY <3>1, <3>6
    <3>7. CASE {1, 2, 3, 4, 5} \cap hits = {}
      BY <3>1, <3>7, <1>4
    <3> QED
      BY <3>2, <3>3, <3>4, <3>5, <3>6, <3>7
  <2>2. NextAt(i, set) \in hits /\ \A k \in hits : NextAt(i, set) <= k
    <3> DEFINE m == CHOOSE j \in hits : \A k \in hits : j <= k
    <3>1. m \in hits /\ \A k \in hits : m <= k
      BY <2>1
    <3> QED
      BY <1>2, <1>4, <3>1
  <2>3. \A j \in hits : j \in i..6 /\ NodeSpecs[j] \in Nodes \cap set
    BY <1>1 DEF Nodes
  <2> QED
    BY <2>2, <2>3
<1> QED
  BY <1>3, <1>4

LEMMA HarvestInit == ServerInit => HarvestInvariant
  BY DEF ServerInit, HarvestInvariant, Default, Nodes, NodeSpecs,
         Known, Writable

LEMMA LoopKeepsHarvest ==
  ASSUME HarvestInvariant, UpdateLoop
  PROVE  HarvestInvariant'
<1> USE DEF HarvestInvariant, Known
<1>0. Len(NodeSpecs) = 6 /\ Writable \subseteq Nodes
      /\ \A i \in 1..6 : NodeSpecs[i] \in Nodes
  BY DEF NodeSpecs, Writable, Nodes
<1>1. CASE HarvestRead
  <2> DEFINE i == NextAt(at, Writable)
  <2>1. CASE i > 6
    BY <1>0, <1>1, <2>1 DEF HarvestRead
  <2>2. CASE ~(i > 6)
    <3> DEFINE n == NodeSpecs[i]
    <3>1. i \in 1..6 /\ n \in Writable
      BY <1>0, <2>2, NextAtStops
    <3>2. CASE node[n] = last_values[n]
      BY <1>0, <1>1, <2>2, <3>1, <3>2 DEF HarvestRead
    <3>3. CASE node[n] # last_values[n]
      <4>1. pc = "harvest" /\ pc' = "apply" /\ at' = i /\ value' = node[n]
            /\ unread' = unread \ {n} /\ phantom' = (phantom \/ n \notin unread)
            /\ UNCHANGED <<node, last_values, snapshot>>
        BY <1>0, <1>1, <2>2, <3>3 DEF HarvestRead
      <4>2. n \in unread
        BY <3>1, <3>3, <4>1
      <4>3. phantom' = FALSE
        BY <4>1, <4>2
      <4>4. \A m \in Writable \ unread' : Known(m)'
        <5>1. \A m \in Writable \ unread : node[m] = last_values[m]
          BY <4>1
        <5> QED
          BY <3>1, <4>1, <5>1
      <4> QED
        BY <1>0, <3>1, <4>1, <4>3, <4>4
    <3> QED
      BY <3>2, <3>3
  <2> QED
    BY <2>1, <2>2
<1>2. CASE HarvestApply
  BY <1>0, <1>2 DEF HarvestApply
<1>3. CASE ReadSnapshot
  BY <1>3 DEF ReadSnapshot
<1>4. CASE PublishWrite
  <2> DEFINE i == NextAt(at, Changed)
  <2>1. CASE i > 6
    BY <1>0, <1>4, <2>1, NextAtStops DEF PublishWrite
  <2>2. CASE ~(i > 6)
    <3>1. i \in 1..6 /\ NodeSpecs[i] \in Nodes
      BY <1>0, <2>2, NextAtStops
    <3> QED
      BY <1>0, <1>4, <2>2, <3>1 DEF PublishWrite
  <2> QED
    BY <2>1, <2>2
<1>5. CASE PublishNote
  BY <1>0, <1>5 DEF PublishNote
<1>6. CASE Announce
  BY <1>6 DEF Announce
<1>7. CASE Wake
  BY <1>7 DEF Wake
<1> QED
  BY <1>1, <1>2, <1>3, <1>4, <1>5, <1>6, <1>7 DEF UpdateLoop

LEMMA OthersKeepHarvest ==
  ASSUME HarvestInvariant, Clients \/ Plc
  PROVE  HarvestInvariant'
<1> USE DEF HarvestInvariant, Known
<1>0. Writable \subseteq Nodes
  BY DEF NodeSpecs, Writable, Nodes
<1>1. ASSUME NEW n \in Writable, NEW v, ClientWrite(n, v)
      PROVE  HarvestInvariant'
  BY <1>0, <1>1 DEF ClientWrite, loopVars
<1>2. ASSUME NEW id, NEW speed, LoadRecipe(id, speed)
      PROVE  HarvestInvariant'
  BY <1>2 DEF LoadRecipe, loopVars
<1>3. ASSUME NEW command, PulseCommand(command)
      PROVE  HarvestInvariant'
  BY <1>3 DEF PulseCommand, loopVars
<1>4. ASSUME NEW state, NEW jam, Adapter(state, jam)
      PROVE  HarvestInvariant'
  BY <1>4 DEF Adapter, loopVars
<1> QED
  BY <1>1, <1>2, <1>3, <1>4 DEF Clients, Plc

LEMMA HarvestStep ==
  ASSUME HarvestInvariant, [ServerNext]_serverVars
  PROVE  HarvestInvariant'
<1>1. CASE UNCHANGED serverVars
  BY <1>1 DEF serverVars, HarvestInvariant, Known
<1> QED
  BY <1>1, LoopKeepsHarvest, OthersKeepHarvest DEF ServerNext

\* For any number of requests and for writes that fall between any two awaits:
\* the server never takes a value of its own for the write of a client.
THEOREM NoPhantomCorrect == ServerSpec => []NoPhantomWrite
<1>1. HarvestInvariant => NoPhantomWrite
  BY DEF HarvestInvariant, NoPhantomWrite
<1> QED
  BY <1>1, HarvestInit, HarvestStep, PTL DEF ServerSpec

------------------------------------------------------------------------------
(* Announced after shown.  The sequence number only grows on its way from    *)
(* the provider over the snapshot to the address space, and after the        *)
(* publication the address space holds that of the snapshot.                 *)

Last(f) == f["LastSequence"]

ShownInvariant ==
  /\ \A f \in {node, last_values, values, snapshot} :
       DOMAIN f = Nodes /\ Last(f) \in Nat
  /\ last_alarm_sequence \in Nat
  /\ at \in Nat \ {0}
  /\ pc \in {"harvest", "apply", "read", "publish", "note", "announce", "sleep"}
  /\ pc = "apply" => NodeSpecs[at] \in Writable
  /\ pc = "note" => at \in 1..6
  /\ last_alarm_sequence <= Last(node)
  /\ Last(node) <= Last(snapshot) /\ Last(snapshot) <= Last(values)
  /\ ~(pc = "note" /\ at = 6) => Last(node) = Last(last_values)
  /\ (pc = "note" /\ at = 6) => Last(node) = Last(snapshot)
  /\ ~(pc \in {"publish", "note"} /\ at <= 6) => Last(node) = Last(snapshot)

LEMMA ShownInit == ServerInit => ShownInvariant
  BY DEF ServerInit, ShownInvariant, Default, Nodes, NodeSpecs, Last

LEMMA LoopKeepsShown ==
  ASSUME ShownInvariant, UpdateLoop
  PROVE  ShownInvariant'
<1> USE DEF ShownInvariant, Last
<1>0. /\ Len(NodeSpecs) = 6
      /\ \A i \in 1..6 : NodeSpecs[i] \in Nodes
                         /\ (NodeSpecs[i] = "LastSequence" <=> i = 6)
      /\ "LastSequence" \in Nodes \ Writable
  BY DEF NodeSpecs, Writable, Nodes
<1>1. CASE HarvestRead
  <2> DEFINE i == NextAt(at, Writable)
  <2>1. CASE i > 6
    BY <1>0, <1>1, <2>1 DEF HarvestRead
  <2>2. CASE ~(i > 6)
    <3>1. i \in 1..6 /\ NodeSpecs[i] \in Writable
      BY <2>2, NextAtStops
    <3> QED
      BY <1>0, <1>1, <2>2, <3>1 DEF HarvestRead
  <2> QED
    BY <2>1, <2>2
<1>2. CASE HarvestApply
  BY <1>0, <1>2 DEF HarvestApply
<1>3. CASE ReadSnapshot
  BY <1>3 DEF ReadSnapshot
<1>4. CASE PublishWrite
  <2> DEFINE i == NextAt(at, Changed)
  <2>1. CASE i > 6
    <3>1. at <= 6 => "LastSequence" \notin Changed
      BY <1>0, <2>1, NextAtStops
    <3>2. Last(node) = Last(snapshot)
      BY <1>0, <1>4, <3>1 DEF PublishWrite, Changed
    <3> QED
      BY <1>0, <1>4, <2>1, <3>2, NextAtStops DEF PublishWrite
  <2>2. CASE ~(i > 6)
    <3>1. i \in 1..6 /\ i \in at..6 /\ NodeSpecs[i] \in Nodes
      BY <2>2, NextAtStops
    <3> QED
      BY <1>0, <1>4, <2>2, <3>1 DEF PublishWrite
  <2> QED
    BY <2>1, <2>2
<1>5. CASE PublishNote
  BY <1>0, <1>5 DEF PublishNote
<1>6. CASE Announce
  BY <1>6 DEF Announce
<1>7. CASE Wake
  BY <1>7 DEF Wake
<1> QED
  BY <1>1, <1>2, <1>3, <1>4, <1>5, <1>6, <1>7 DEF UpdateLoop

LEMMA OthersKeepShown ==
  ASSUME ShownInvariant, Clients \/ Plc
  PROVE  ShownInvariant'
<1> USE DEF ShownInvariant, Last
<1>0. /\ {"SpeedSetpoint", "ActiveRecipeID", "TargetSpeed", "CurrentState",
          "GeneralJamAlarm", "LastSequence"} \subseteq Nodes
      /\ "LastSequence" \notin Writable
  BY DEF NodeSpecs, Writable, Nodes
<1>1. ASSUME NEW n \in Writable, NEW v, ClientWrite(n, v)
      PROVE  ShownInvariant'
  BY <1>0, <1>1 DEF ClientWrite, loopVars
<1>2. ASSUME NEW id, NEW speed, LoadRecipe(id, speed)
      PROVE  ShownInvariant'
  BY <1>0, <1>2 DEF LoadRecipe, loopVars
<1>3. ASSUME NEW command, PulseCommand(command)
      PROVE  ShownInvariant'
  BY <1>0, <1>3 DEF PulseCommand, loopVars
<1>4. ASSUME NEW state, NEW jam, Adapter(state, jam)
      PROVE  ShownInvariant'
  BY <1>0, <1>4 DEF Adapter, loopVars
<1> QED
  BY <1>1, <1>2, <1>3, <1>4 DEF Clients, Plc

LEMMA ShownStep ==
  ASSUME ShownInvariant, [ServerNext]_serverVars
  PROVE  ShownInvariant'
<1>1. CASE UNCHANGED serverVars
  BY <1>1 DEF serverVars, ShownInvariant, Last
<1> QED
  BY <1>1, LoopKeepsShown, OthersKeepShown DEF ServerNext

\* Whatever the clients and the PLC do between the awaits: an event is
\* announced only when the address space shows it or a later one.
THEOREM AnnouncedCorrect == ServerSpec => []AnnouncedAfterShown
<1>1. ShownInvariant => AnnouncedAfterShown
  BY DEF ShownInvariant, Last, AnnouncedAfterShown
<1> QED
  BY <1>1, ShownInit, ShownStep, PTL DEF ServerSpec

------------------------------------------------------------------------------
(* Types.  Where the loop is between a read or a write and its note, it      *)
(* stands at a node, and a value read from a node is one of its values.      *)

Fits(f) == DOMAIN f = Nodes /\ \A n \in Nodes : f[n] \in Domain[n]

ServerInvariant ==
  /\ Fits(node) /\ Fits(last_values) /\ Fits(values) /\ Fits(snapshot)
  /\ commands \subseteq OneShots
  /\ pc \in {"harvest", "apply", "read", "publish", "note", "announce", "sleep"}
  /\ at \in 1..7
  /\ pc \in {"apply", "note"} => at \in 1..6
  /\ pc = "apply" => value \in Domain[NodeSpecs[at]]
  /\ last_alarm_sequence \in 0..MaxEvents
  /\ requests \in 0..MaxRequests
  /\ unread \subseteq Writable
  /\ phantom \in BOOLEAN

LEMMA NodesAre ==
  /\ Nodes = {"SpeedSetpoint", "CurrentState", "GeneralJamAlarm",
              "ActiveRecipeID", "TargetSpeed", "LastSequence"}
  /\ Len(NodeSpecs) = 6
  /\ \A i \in 1..6 : NodeSpecs[i] \in Nodes
  /\ Writable \subseteq Nodes
<1>1. Len(NodeSpecs) = 6 /\ DOMAIN NodeSpecs = 1..6
  BY DEF NodeSpecs
<1>2. /\ NodeSpecs[1] = "SpeedSetpoint" /\ NodeSpecs[2] = "CurrentState"
      /\ NodeSpecs[3] = "GeneralJamAlarm" /\ NodeSpecs[4] = "ActiveRecipeID"
      /\ NodeSpecs[5] = "TargetSpeed" /\ NodeSpecs[6] = "LastSequence"
  BY DEF NodeSpecs
<1>3. Nodes = {NodeSpecs[1], NodeSpecs[2], NodeSpecs[3], NodeSpecs[4],
               NodeSpecs[5], NodeSpecs[6]}
  BY <1>1 DEF Nodes
<1> QED
  BY <1>1, <1>2, <1>3 DEF Writable

LEMMA DomainsAre ==
  /\ Domain["SpeedSetpoint"] = Speeds /\ Domain["CurrentState"] = States
  /\ Domain["GeneralJamAlarm"] = BOOLEAN /\ Domain["ActiveRecipeID"] = RecipeIds
  /\ Domain["TargetSpeed"] = Speeds /\ Domain["LastSequence"] = 0..MaxEvents
  BY DEF Domain

\* A node that takes one of its values leaves the others what they were.
LEMMA FitsOneMore ==
  ASSUME NEW f, Fits(f), NEW n, NEW v, n \in Nodes => v \in Domain[n]
  PROVE  Fits([f EXCEPT ![n] = v])
  BY DEF Fits

LEMMA TypeInit == ServerInit => ServerInvariant
<1> SUFFICES ASSUME ServerInit PROVE ServerInvariant
  OBVIOUS
<1>1. Fits(Default)
  <2>1. DOMAIN Default = Nodes
    BY NodesAre DEF Default
  <2>2. /\ Default["SpeedSetpoint"] = 1 /\ Default["CurrentState"] = "IDLE"
        /\ Default["GeneralJamAlarm"] = FALSE /\ Default["ActiveRecipeID"] = 1
        /\ Default["TargetSpeed"] = 1 /\ Default["LastSequence"] = 0
    BY DEF Default
  <2>3. 1 \in Speeds /\ 1 \in RecipeIds /\ 0 \in 0..MaxEvents /\ "IDLE" \in States
    BY ServerAssumption DEF States
  <2>4. Default["GeneralJamAlarm"] \in BOOLEAN
    BY <2>2, Zenon
  <2>5. \A n \in Nodes : Default[n] \in Domain[n]
    BY <2>2, <2>3, <2>4, NodesAre, DomainsAre
  <2> QED
    BY <2>1, <2>5 DEF Fits
<1>2. phantom \in BOOLEAN
  BY Zenon DEF ServerInit
<1> QED
  BY <1>1, <1>2, ServerAssumption DEF ServerInit, ServerInvariant

LEMMA LoopKeepsTypes ==
  ASSUME ServerInvariant, UpdateLoop
  PROVE  ServerInvariant'
<1> USE DEF ServerInvariant
<1>1. CASE HarvestRead
  <2> DEFINE i == NextAt(at, Writable)
  <2>0. UNCHANGED <<node, last_values, values, commands, snapshot,
                    last_alarm_sequence, requests>>
    BY <1>1 DEF HarvestRead
  <2>1. CASE i > 6
    <3>1. pc' = "read" /\ at' = 1 /\ UNCHANGED <<unread, phantom>>
      BY <1>1, <2>1, NodesAre DEF HarvestRead
    <3> QED
      BY <2>0, <3>1 DEF Fits
  <2>2. CASE ~(i > 6)
    <3>1. i \in 1..6 /\ NodeSpecs[i] \in Nodes
      BY <2>2, NextAtStops
    <3>2. /\ value' = node[NodeSpecs[i]] /\ unread' = unread \ {NodeSpecs[i]}
          /\ IF node[NodeSpecs[i]] = last_values[NodeSpecs[i]]
             THEN pc' = pc /\ at' = i + 1 /\ UNCHANGED phantom
             ELSE /\ pc' = "apply" /\ at' = i
                  /\ phantom' = (phantom \/ NodeSpecs[i] \notin unread)
          /\ pc = "harvest"
      BY <1>1, <2>2, NodesAre DEF HarvestRead
    <3>3. value' \in Domain[NodeSpecs[i]]
      BY <3>1, <3>2 DEF Fits
    <3>4. CASE node[NodeSpecs[i]] = last_values[NodeSpecs[i]]
      <4>1. pc' = "harvest" /\ at' = i + 1 /\ phantom' = phantom
        BY <3>2, <3>4
      <4>2. at' \in 1..7
        BY <3>1, <4>1
      <4> QED
        BY <2>0, <3>2, <4>1, <4>2 DEF Fits
    <3>5. CASE node[NodeSpecs[i]] # last_values[NodeSpecs[i]]
      <4>1. pc' = "apply" /\ at' = i
        BY <3>2, <3>5
      <4>2. phantom' \in BOOLEAN
        BY <3>2, <3>5, Zenon
      <4> QED
        BY <2>0, <3>1, <3>2, <3>3, <4>1, <4>2 DEF Fits
    <3> QED
      BY <3>4, <3>5
  <2> QED
    BY <2>1, <2>2
<1>2. CASE HarvestApply
  <2>1. Fits(values') /\ Fits(last_values')
    BY <1>2, FitsOneMore DEF HarvestApply
  <2> QED
    BY <1>2, <2>1 DEF HarvestApply, Fits
<1>3. CASE ReadSnapshot
  BY <1>3 DEF ReadSnapshot, Fits
<1>4. CASE PublishWrite
  <2> DEFINE i == NextAt(at, Changed)
  <2>1. i \in 1..7
    BY NextAtStops
  <2>2. CASE i > 6
    BY <1>4, <2>1, <2>2, NodesAre DEF PublishWrite, Fits
  <2>3. CASE ~(i > 6)
    <3>1. NodeSpecs[i] \in Nodes /\ snapshot[NodeSpecs[i]] \in Domain[NodeSpecs[i]]
      BY <2>1, <2>3, NodesAre DEF Fits
    <3>2. pc' = "note" /\ at' = i
          /\ node' = [node EXCEPT ![NodeSpecs[i]] = snapshot[NodeSpecs[i]]]
      BY <1>4, <2>3, NodesAre DEF PublishWrite
    <3>3. Fits(node')
      BY <3>1, <3>2, FitsOneMore
    <3> QED
      BY <1>4, <2>1, <2>3, <3>2, <3>3 DEF PublishWrite, Fits
  <2> QED
    BY <2>2, <2>3
<1>5. CASE PublishNote
  <2>1. Fits(last_values')
    BY <1>5, NodesAre, FitsOneMore DEF PublishNote, Fits
  <2> QED
    BY <1>5, <2>1 DEF PublishNote, Fits
<1>6. CASE Announce
  <2>1. snapshot["LastSequence"] \in 0..MaxEvents
    BY NodesAre, DomainsAre DEF Fits
  <2> QED
    BY <1>6, <2>1 DEF Announce, Fits
<1>7. CASE Wake
  BY <1>7 DEF Wake, Fits
<1> QED
  BY <1>1, <1>2, <1>3, <1>4, <1>5, <1>6, <1>7 DEF UpdateLoop

LEMMA OthersKeepTypes ==
  ASSUME ServerInvariant, Clients \/ Plc
  PROVE  ServerInvariant'
<1> USE DEF ServerInvariant
<1>0. requests < MaxRequests => requests + 1 \in 0..MaxRequests
  BY ServerAssumption
<1>1. ASSUME NEW n \in Writable, NEW v \in Domain[n], ClientWrite(n, v)
      PROVE  ServerInvariant'
  <2>1. Fits(node')
    BY <1>1, FitsOneMore DEF ClientWrite
  <2> QED
    BY <1>0, <1>1, <2>1 DEF ClientWrite, Request, loopVars, Fits
<1>2. ASSUME NEW id \in RecipeIds, NEW speed \in Speeds, LoadRecipe(id, speed)
      PROVE  ServerInvariant'
  <2> DEFINE kept == values["SpeedSetpoint"]
  <2>1. kept \in Speeds
    BY NodesAre, DomainsAre DEF Fits
  <2>2. Fits(values')
    BY <1>2, <2>1, NodesAre, DomainsAre DEF LoadRecipe, Fits
  <2>3. commands' \subseteq OneShots
    BY <1>2 DEF LoadRecipe, OneShots
  <2> QED
    BY <1>0, <1>2, <2>2, <2>3 DEF LoadRecipe, Request, loopVars, Fits
<1>3. ASSUME NEW command \in DOMAIN Latched, PulseCommand(command)
      PROVE  ServerInvariant'
  <2>1. Latched[command] \subseteq OneShots /\ Shown[command] \in States
    BY DEF Latched, Shown, OneShots, States
  <2> DEFINE jam == IF command = "ResetJam" THEN FALSE ELSE values["GeneralJamAlarm"]
  <2>2. jam \in BOOLEAN
    BY NodesAre, DomainsAre DEF Fits
  <2>3. values' = [[values EXCEPT !["CurrentState"] = Shown[command]]
                     EXCEPT !["GeneralJamAlarm"] = jam]
    BY <1>3 DEF PulseCommand
  <2>4. Fits(values')
    BY <2>1, <2>2, <2>3, DomainsAre, FitsOneMore
  <2>5. commands' \subseteq OneShots
    BY <1>3, <2>1 DEF PulseCommand
  <2> QED
    BY <1>0, <1>3, <2>4, <2>5 DEF PulseCommand, Request, loopVars, Fits
<1>4. ASSUME NEW state \in States, NEW jam \in BOOLEAN, Adapter(state, jam)
      PROVE  ServerInvariant'
  <2> DEFINE next == values["LastSequence"] + 1
  <2>1. next \in 0..MaxEvents
    BY <1>4, NodesAre, DomainsAre, ServerAssumption DEF Adapter, Fits
  <2>2. values' = [[[values EXCEPT !["CurrentState"] = state]
                     EXCEPT !["GeneralJamAlarm"] = jam] EXCEPT !["LastSequence"] = next]
    BY <1>4 DEF Adapter
  <2>3. Fits(values')
    BY <2>1, <2>2, DomainsAre, FitsOneMore
  <2> QED
    BY <1>4, <2>3 DEF Adapter, loopVars, Fits
<1>5. "IDLE" \in States /\ "HELD" \in States /\ TRUE \in BOOLEAN /\ FALSE \in BOOLEAN
  BY DEF States
<1> QED
  BY <1>1, <1>2, <1>3, <1>4, <1>5 DEF Clients, Plc

LEMMA TypeStep ==
  ASSUME ServerInvariant, [ServerNext]_serverVars
  PROVE  ServerInvariant'
<1>1. CASE UNCHANGED serverVars
  BY <1>1 DEF serverVars, ServerInvariant, Fits
<1> QED
  BY <1>1, LoopKeepsTypes, OthersKeepTypes DEF ServerNext

\* For any speeds, recipes and bounds: each node, the provider, the snapshot and
\* what the loop remembers hold values of that node's domain, and the loop
\* applies to a node only a value of its domain (pc, at and value agree).
THEOREM ServerTypeCorrect == ServerSpec => []ServerTypeOK
<1>1. ServerInvariant => ServerTypeOK
  BY NodesAre DEF ServerInvariant, ServerTypeOK, Fits
<1> QED
  BY <1>1, TypeInit, TypeStep, PTL DEF ServerSpec
==============================================================================
