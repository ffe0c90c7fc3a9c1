--------------------------- MODULE MCStatusDisplay ---------------------------
(* Small instances of StatusDisplay for TLC.  LEDs 0 and 1 stand for the     *)
(* database's two.                                                           *)
EXTENDS StatusDisplay

DbLeds == [db_up |-> 0, db_active |-> 16]
DbColors == [db_up |-> {2}, db_active |-> {3}]
OneLed == [db_up |-> 16]
OneColor == [db_up |-> {2}]

\* A timeout command, a command for an LED that is not there, a short datagram.
OddMessages == {<<SET_LED_TIMEOUT, 1>>, <<16 * 12, 2>>, <<7>>}

NoMessages == {}

=============================================================================
