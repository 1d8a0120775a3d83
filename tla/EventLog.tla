------------------------------- MODULE EventLog -------------------------------
(* What the alarm history promises, whatever the ring buffer does: it holds  *)
(* the latest events in order, an alarm is reported exactly when the shown   *)
(* alarm changes, its end exactly when none is left, and an acknowledgement  *)
(* only of an alarm.                                                         *)
EXTENDS Integers, Sequences

CONSTANTS
  Codes,               \* the alarm codes, without "NONE"
  Length               \* how many events are kept

VARIABLES
  active,              \* the alarm shown, or "NONE"
  log                  \* the latest events, oldest first

vars == <<active, log>>

Init == active = "NONE" /\ log = <<>>

Latest(events) ==
  IF Len(events) <= Length THEN events
  ELSE SubSeq(events, Len(events) - Length + 1, Len(events))

Report(code) ==
  IF code = active THEN <<>>
  ELSE IF code = "NONE" THEN <<"CLEARED">> ELSE <<code>>

\* One scan: the shown alarm is now code, and the operator may have
\* acknowledged it or asked for a reset.
Observe(code, acknowledged, reset) ==
  /\ acknowledged => code # "NONE"
  /\ active' = code
  /\ log' = Latest(log \o Report(code)
                       \o (IF acknowledged THEN <<"ACKNOWLEDGED">> ELSE <<>>)
                       \o (IF reset THEN <<"RESET">> ELSE <<>>))

Next ==
  \E code \in Codes \cup {"NONE"}, acknowledged, reset \in BOOLEAN :
    Observe(code, acknowledged, reset)

Spec == Init /\ [][Next]_vars
==============================================================================
