---------------------------- MODULE EventTimeline ----------------------------
(* plc/F_EventTimeline.st: the ring buffer of alarm and command events.  Of  *)
(* an event its class and code are kept, and its sequence number.            *)
EXTENDS Integers

CONSTANTS
  Capacity,            \* events in the ring, 50 in the code
  SequenceModulus      \* numbers of a UDINT, 2^32 in the code

ASSUME TimelineAssumption ==
  /\ Capacity \in Nat \ {0}
  /\ SequenceModulus \in Nat /\ SequenceModulus >= 2

Events == {"ESTOP", "DIVERTER_1", "DIVERTER_2", "ROUTE_FAULT", "GENERAL_JAM",
           "AIR_PRESSURE", "VFD_FAULT", "CLEARED", "ACKNOWLEDGED", "RESET"}

NoEvent == [event |-> "NO_EVENT", udiSequence |-> 0]     \* xActive = FALSE

Record ==              \* ST_MHMCEventRecord
  [event : Events, udiSequence : 1..SequenceModulus - 1] \cup {NoEvent}

Timeline ==            \* ST_MHMCEventTimeline
  [arrEvents : [1..Capacity -> Record], iWriteIndex : 1..Capacity,
   iCount : 0..Capacity, udiNextSequence : 0..SequenceModulus - 1,
   xNewEvent : BOOLEAN, stLastEvent : Record]

\* F_EventTimeline_Clear
ClearTimeline ==
  [arrEvents |-> [i \in 1..Capacity |-> NoEvent], iWriteIndex |-> 1,
   iCount |-> 0, udiNextSequence |-> 1, xNewEvent |-> FALSE,
   stLastEvent |-> NoEvent]

\* F_EventTimeline_Append.  A sequence number of 0 means that the counter has
\* wrapped; 0 is never given to an event.
AppendEventBug(t, event) ==            \* wraps one slot late
  LET record == [event |-> event, udiSequence |-> t.udiNextSequence]
  IN [arrEvents |-> [i \in 1..Capacity |->
                       IF i = t.iWriteIndex THEN record ELSE t.arrEvents[i]],
      iWriteIndex |-> IF t.iWriteIndex > Capacity THEN 1 ELSE t.iWriteIndex + 1,
      iCount |-> IF t.iCount < Capacity THEN t.iCount + 1 ELSE t.iCount,
      udiNextSequence |-> (record.udiSequence + 1) % SequenceModulus,
      xNewEvent |-> TRUE,
      stLastEvent |-> record]

AppendEvent(t, event) ==
  LET record ==
        [event |-> event,
         udiSequence |-> IF t.udiNextSequence = 0 THEN 1 ELSE t.udiNextSequence]
  IN [arrEvents |-> [t.arrEvents EXCEPT ![t.iWriteIndex] = record],
      iWriteIndex |-> IF t.iWriteIndex >= Capacity THEN 1 ELSE t.iWriteIndex + 1,
      iCount |-> IF t.iCount < Capacity THEN t.iCount + 1 ELSE t.iCount,
      udiNextSequence |-> (record.udiSequence + 1) % SequenceModulus,
      xNewEvent |-> TRUE,
      stLastEvent |-> record]

\* Not in the code: the events of the ring from the oldest to the newest.
Contents(t) ==
  [i \in 1..t.iCount |->
     t.arrEvents[((t.iWriteIndex - 1 - t.iCount + i - 1) % Capacity) + 1].event]
==============================================================================
