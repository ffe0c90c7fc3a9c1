----------------------------- MODULE MCSensorDb -----------------------------
(* Small instances of SensorDb for TLC. *)
EXTENDS SensorDb

Num(t, i) == [text |-> t, isInt |-> TRUE, int |-> i]
Word(t)   == [text |-> t, isInt |-> FALSE, int |-> 0]

Range1a == [lead |-> "R", body |-> <<Num("1", 1), Num("7", 7)>>]
Range1b == [lead |-> "R", body |-> <<Num("1", 1), Num("-8", -8)>>]
RangeBad == [lead |-> "R", body |-> <<Num("1", 1), Word("x"), Num("7", 7)>>]
Camera == [lead |-> "C", body |-> <<Word("L"), Word("N2"), Word("cone"),
             Num("1", 1), Num("2", 2), Num("3", 3), Num("4", 4)>>]
CameraR == [lead |-> "C", body |-> <<Word("R"), Word("N2"), Word("cone"),
             Num("5", 5), Num("2", 2), Num("3", 3), Num("4", 4)>>]

Ask(tag, type, sensor, id, subId) ==
  [tag |-> tag, type |-> type, sensor |-> sensor, id |-> id, subId |-> subId,
   fields |-> 5]

\* Two lists under one camera, one range list, a datagram that is dropped; a query
\* for everything and one without five fields.
CoreDatagrams == {Range1a, Camera, CameraR, RangeBad}
CoreQueries == {Ask("q1", "A", "C", "*", "*"),
                [Ask("q2", "L", "R", "1", "*") EXCEPT !.fields = 4]}
CoreTtl == [s \in Sensors |-> IF s = "C" THEN 2 ELSE 1]

\* For a clock that is set back and for a list longer than an answer, one list is
\* enough.
ClockDatagrams == {Range1a}
ClockQueries == {Ask("q1", "A", "R", "1", "*")}

=============================================================================
