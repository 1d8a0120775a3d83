------------------------------ MODULE OpcUaServer ------------------------------
(* opcua_server/server.py and data_provider.py: one event loop that runs the *)
(* update loop of the server, the writes of the clients into the address     *)
(* space and the method calls, switching between them at every await.        *)
(*                                                                           *)
(* Of the namespace the nodes are kept that are written by more than one of  *)
(* them or that other nodes announce; a speed is one of a few levels.        *)
EXTENDS Integers, Sequences

CONSTANTS
  Speeds,              \* speeds a client may ask for; 0 means the recipe's own
  MinSpeed, MaxSpeed,  \* min_speed_mps, max_speed_mps
  RecipeIds,           \* recipes a client may ask for
  ValidRecipeIds,      \* valid_recipe_ids
  MaxRequests,         \* bound: requests of clients in a behaviour
  MaxEvents            \* bound: events of the PLC in a behaviour

ASSUME ServerAssumption ==
  /\ Speeds \subseteq Nat /\ 0 \in Speeds /\ 1 \in Speeds
  /\ MinSpeed \in Nat \ {0} /\ MaxSpeed \in Nat
  /\ 1 \in ValidRecipeIds /\ ValidRecipeIds \subseteq RecipeIds
  /\ MaxRequests \in Nat /\ MaxEvents \in Nat

\* NODE_SPECS, in the order in which the loop visits them.
NodeSpecs == <<"SpeedSetpoint", "CurrentState", "GeneralJamAlarm",
               "ActiveRecipeID", "TargetSpeed", "LastSequence">>

Nodes == {NodeSpecs[i] : i \in DOMAIN NodeSpecs}

Writable == {"SpeedSetpoint", "ActiveRecipeID", "TargetSpeed"}

States == {"STARTING", "STOPPING", "UNHOLDING", "IDLE", "HELD"}

Domain == [SpeedSetpoint |-> Speeds, CurrentState |-> States,
           GeneralJamAlarm |-> BOOLEAN, ActiveRecipeID |-> RecipeIds,
           TargetSpeed |-> Speeds, LastSequence |-> 0..MaxEvents]

Default == [SpeedSetpoint |-> 1, CurrentState |-> "IDLE", GeneralJamAlarm |-> FALSE,
            ActiveRecipeID |-> 1, TargetSpeed |-> 1, LastSequence |-> 0]

\* CommandRegister
OneShots == {"xRemoteStart", "xRemoteStop", "xRemoteReset", "xManualResetJam",
             "xLoadRecipeCommand"}

VARIABLES
  node,                \* the address space
  last_values,         \* what the loop believes to be in it
  values, commands,    \* of the data provider
  snapshot,            \* what the loop has read of the provider
  pc, at, value,       \* where the loop is: phase, node, value read from it
  last_alarm_sequence,
  requests,            \* requests made
  unread,              \* history: nodes a client wrote and the loop has not read
  phantom              \* history: the loop took its own value for a client's

serverVars == <<node, last_values, values, commands, snapshot, pc, at, value,
                last_alarm_sequence, requests, unread, phantom>>

ServerTypeOK ==
  /\ \A f \in {node, last_values, values, snapshot} :
       DOMAIN f = Nodes /\ \A n \in Nodes : f[n] \in Domain[n]
  /\ commands \subseteq OneShots
  /\ pc \in {"harvest", "apply", "read", "publish", "note", "announce", "sleep"}
  /\ at \in 1..Len(NodeSpecs) + 1
  /\ pc = "apply" => value \in Domain[NodeSpecs[at]]
  /\ last_alarm_sequence \in 0..MaxEvents
  /\ requests \in 0..MaxRequests
  /\ unread \subseteq Writable /\ phantom \in BOOLEAN

ServerInit ==
  /\ node = Default /\ last_values = Default /\ values = Default
  /\ commands = {} /\ snapshot = Default
  /\ pc = "harvest" /\ at = 1 /\ value = 0
  /\ last_alarm_sequence = 0
  /\ requests = 0 /\ unread = {} /\ phantom = FALSE

------------------------------------------------------------------------------
(* The update loop.  The node it stands at is NodeSpecs[at].                 *)

\* The next node from position i on that satisfies the loop's condition; the
\* loop passes over the others without an await.
NextAt(i, set) ==
  LET hits == {j \in i..Len(NodeSpecs) : NodeSpecs[j] \in set}
  IN IF hits = {} THEN Len(NodeSpecs) + 1
     ELSE CHOOSE j \in hits : \A k \in hits : j <= k

\* _harvest_client_writes up to the comparison
HarvestRead ==
  /\ pc = "harvest"
  /\ LET i == NextAt(at, Writable) IN
       IF i > Len(NodeSpecs)
       THEN pc' = "read" /\ at' = 1 /\ UNCHANGED <<value, unread, phantom>>
       ELSE LET n == NodeSpecs[i] IN
            /\ value' = node[n]
            /\ unread' = unread \ {n}
            /\ IF node[n] = last_values[n]
               THEN pc' = pc /\ at' = i + 1 /\ UNCHANGED phantom
               ELSE /\ pc' = "apply" /\ at' = i
                    /\ phantom' = (phantom \/ n \notin unread)
  /\ UNCHANGED <<node, last_values, values, commands, snapshot,
                 last_alarm_sequence, requests>>

\* write_value of the provider under its lock, and last_values
HarvestApply ==
  /\ pc = "apply"
  /\ values' = [values EXCEPT ![NodeSpecs[at]] = value]
  /\ last_values' = [last_values EXCEPT ![NodeSpecs[at]] = value]
  /\ pc' = "harvest" /\ at' = at + 1
  /\ UNCHANGED <<node, commands, snapshot, value, last_alarm_sequence, requests,
                 unread, phantom>>

ReadSnapshot ==
  /\ pc = "read"
  /\ snapshot' = values
  /\ pc' = "publish" /\ at' = 1
  /\ UNCHANGED <<node, last_values, values, commands, value, last_alarm_sequence,
                 requests, unread, phantom>>

ChangedBug == {n \in Nodes \ Writable : snapshot[n] # last_values[n]}

Changed == {n \in Nodes : snapshot[n] # last_values[n]}

\* _publish_snapshot writes the next changed node ...
PublishWrite ==
  /\ pc = "publish"
  /\ at' = NextAt(at, Changed)
  /\ IF at' > Len(NodeSpecs)
     THEN pc' = "announce" /\ UNCHANGED node
     ELSE pc' = "note" /\ node' = [node EXCEPT ![NodeSpecs[at']] = snapshot[NodeSpecs[at']]]
  /\ UNCHANGED <<last_values, values, commands, snapshot, value,
                 last_alarm_sequence, requests, unread, phantom>>

PublishNoteBug ==            \* only the harvest remembers values
  /\ pc = "note"
  /\ pc' = "publish" /\ at' = at + 1
  /\ UNCHANGED <<node, last_values, values, commands, snapshot, value,
                 last_alarm_sequence, requests, unread, phantom>>

\* ... and notes it in last_values when the write has returned.
PublishNote ==
  /\ pc = "note"
  /\ last_values' = [last_values EXCEPT ![NodeSpecs[at]] = snapshot[NodeSpecs[at]]]
  /\ pc' = "publish" /\ at' = at + 1
  /\ UNCHANGED <<node, values, commands, snapshot, value, last_alarm_sequence,
                 requests, unread, phantom>>

AnnounceBug ==               \* announces what the provider holds by now
  /\ pc = "announce"
  /\ last_alarm_sequence' = values["LastSequence"]
  /\ pc' = "sleep"
  /\ UNCHANGED <<node, last_values, values, commands, snapshot, at, value,
                 requests, unread, phantom>>

\* _publish_alarm_event_if_needed; whether the event is delivered is best effort.
Announce ==
  /\ pc = "announce"
  /\ last_alarm_sequence' = IF snapshot["LastSequence"] = 0 THEN last_alarm_sequence
                            ELSE snapshot["LastSequence"]
  /\ pc' = "sleep"
  /\ UNCHANGED <<node, last_values, values, commands, snapshot, at, value,
                 requests, unread, phantom>>

\* The sample period has passed.
Wake ==
  /\ pc = "sleep"
  /\ pc' = "harvest" /\ at' = 1
  /\ UNCHANGED <<node, last_values, values, commands, snapshot, value,
                 last_alarm_sequence, requests, unread, phantom>>

UpdateLoop ==
  HarvestRead \/ HarvestApply \/ ReadSnapshot \/ PublishWrite \/ PublishNote
    \/ Announce \/ Wake

------------------------------------------------------------------------------
(* The clients, between any two awaits of the loop.                          *)

loopVars == <<last_values, snapshot, pc, at, value, last_alarm_sequence>>

Request == requests < MaxRequests /\ requests' = requests + 1

\* A client writes a writable node.
ClientWrite(n, v) ==
  /\ Request
  /\ node' = [node EXCEPT ![n] = v]
  /\ unread' = unread \cup {n}
  /\ UNCHANGED <<loopVars, values, commands, phantom>>

\* load_recipe answers 0 to this request.
Accepted(id, speed) ==
  id \in ValidRecipeIds /\ (speed # 0 => speed \in MinSpeed..MaxSpeed)

LoadRecipeBug(id, speed) ==  \* the two arguments change places
  /\ Request
  /\ IF Accepted(id, speed)
     THEN values' = [values EXCEPT !["ActiveRecipeID"] = speed, !["TargetSpeed"] = id]
     ELSE UNCHANGED values
  /\ UNCHANGED <<loopVars, node, commands, unread, phantom>>

LoadRecipe(id, speed) ==
  /\ Request
  /\ IF Accepted(id, speed)
     THEN /\ values' = [values EXCEPT
                          !["ActiveRecipeID"] = id, !["TargetSpeed"] = speed,
                          !["SpeedSetpoint"] = IF speed > 0 THEN speed ELSE @]
          /\ commands' = commands \cup {"xLoadRecipeCommand"}
     ELSE UNCHANGED <<values, commands>>
  /\ UNCHANGED <<loopVars, node, unread, phantom>>

\* pulse_command: what it latches, and what it shows until the PLC answers
Latched ==
  [StartCell |-> {"xRemoteStart"}, StopCell |-> {"xRemoteStop"},
   ResetJam |-> {"xRemoteReset", "xManualResetJam"}]

Shown == [StartCell |-> "STARTING", StopCell |-> "STOPPING", ResetJam |-> "UNHOLDING"]

PulseCommand(command) ==
  /\ Request
  /\ commands' = commands \cup Latched[command]
  /\ values' = [values EXCEPT
                  !["CurrentState"] = Shown[command],
                  !["GeneralJamAlarm"] = IF command = "ResetJam" THEN FALSE ELSE @]
  /\ UNCHANGED <<loopVars, node, unread, phantom>>

------------------------------------------------------------------------------
(* The adapter to the PLC, which the repository leaves to the deployment: it *)
(* mirrors the command bits, clears them and brings the PLC's state.         *)

Adapter(state, jam) ==
  /\ values["LastSequence"] < MaxEvents
  /\ commands' = {}
  /\ values' = [values EXCEPT !["CurrentState"] = state, !["GeneralJamAlarm"] = jam,
                              !["LastSequence"] = @ + 1]
  /\ UNCHANGED <<loopVars, node, requests, unread, phantom>>

Clients ==
  \/ \E n \in Writable : \E v \in Domain[n] : ClientWrite(n, v)
  \/ \E id \in RecipeIds, speed \in Speeds : LoadRecipe(id, speed)
  \/ \E command \in DOMAIN Latched : PulseCommand(command)

Plc == Adapter("IDLE", FALSE) \/ Adapter("HELD", TRUE)

ServerNext == UpdateLoop \/ Clients \/ Plc

\* The event loop resumes the update loop whenever what it awaits is there; a
\* client or the PLC owes it nothing.  (A step changes pc or at exactly when it
\* is one of UpdateLoop.)
ServerSpec ==
  ServerInit /\ [][ServerNext]_serverVars /\ WF_<<pc, at>>(UpdateLoop)
------------------------------------------------------------------------------
(* Properties.                                                               *)

\* What the server has written into a node itself never comes back to the
\* provider as the command of a client, however writes of clients, methods and
\* the PLC fall between the awaits of the loop.
NoPhantomWrite == ~phantom

\* An event is announced only when the node that names it shows it or a later
\* one, so that a subscriber that reacts to the event finds it described.
AnnouncedAfterShown == last_alarm_sequence <= node["LastSequence"]

\* Once clients and PLC have come to rest, the address space and the provider
\* come to agree for good: no race of a client's write with the publication
\* leaves a node behind.  (The bounds bring them to rest.)
Converges == <>[](node = values)
==============================================================================
