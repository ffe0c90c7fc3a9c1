------------------------------ MODULE SensorMsg ------------------------------
(***************************************************************************)
(* The datagrams of the sensor database and what its parsers make of them  *)
(* (software/db/post.c, sensors.c, query.c).                               *)
(*                                                                         *)
(* A sensor datagram is its first character and the blank-separated tokens *)
(* that follow it.  A token is its text and what atoi and "%d" read in it. *)
(***************************************************************************)
EXTENDS Integers, Sequences

Sensors == {"C", "R", "G", "O", "M", "B"}

Token == [text : STRING, isInt : BOOLEAN, int : Int]

Datagram == [lead : STRING, body : Seq(Token)]

\* A datagram of no bytes.
Empty == [lead |-> "", body |-> <<>>]

\* Four integers, MAX_SENSOR_VALUES of them, whatever the sensor type uses.
Vals == Int \X Int \X Int \X Int

Zeros == <<0, 0, 0, 0>>

\* Stands for the empty string, the subId of every reading but a camera's.
NoSubId == "none"

-----------------------------------------------------------------------------
(* The parsers: the empty set when the datagram is dropped, and the set    *)
(* that holds the sensorRecAdd arguments when it is not.                    *)

\* JeVois record types.  The check of the type rejects a token only if its
\* first character is not N, its second is not 2 and it is not two characters
\* long: every one of these passes.
TwoCharTypes == {"N1", "N2", "N3", "D1", "D2", "T1", "T2"}

processCamData(d) ==
  LET b == d.body IN
  IF /\ Len(b) >= 7
     /\ b[2].text \in TwoCharTypes
     /\ \A i \in 4..7 : b[i].isInt
  THEN {[sensor |-> "C", id |-> b[3].text, subId |-> b[1].text,
         v |-> <<b[4].int, b[5].int, b[6].int, b[7].int>>]}
  ELSE {}

\* A value of 0 must start with the digit 0: a word reads as 0 and is dropped.
processOneValSensor(d) ==
  LET b == d.body IN
  IF Len(b) >= 2 /\ b[2].isInt
  THEN {[sensor |-> d.lead, id |-> b[1].text, subId |-> NoSubId,
         v |-> <<b[2].int, 0, 0, 0>>]}
  ELSE {}

process9DData(d) ==
  LET b == d.body IN
  IF Len(b) >= 4 /\ \A i \in 2..4 : b[i].isInt
  THEN {[sensor |-> d.lead, id |-> b[1].text, subId |-> NoSubId,
         v |-> <<b[2].int, b[3].int, b[4].int, 0>>]}
  ELSE {}

\* processSensorData's switch on the first character.
Parsed(d) ==
  CASE d.lead = "C"               -> processCamData(d)
    [] d.lead \in {"R", "B"}      -> processOneValSensor(d)
    [] d.lead \in {"G", "O", "M"} -> process9DData(d)
    [] OTHER                      -> {}

\* The values newSensorRecord copies: its switch has no obstacle case, so an
\* obstacle record keeps the zeros it was allocated with.
RawData(sensor, v) ==
  CASE sensor = "C"               -> v
    [] sensor = "R"               -> <<v[1], 0, 0, 0>>
    [] sensor \in {"G", "O", "M"} -> <<v[1], v[2], v[3], 0>>
    [] OTHER                      -> Zeros

-----------------------------------------------------------------------------
(* Queries: "tag type sensor id subId".  fields is what sscanf converts.   *)

Query == [tag : STRING, type : STRING, sensor : STRING,
          id : STRING, subId : STRING, fields : 0..5]

QueryTypes == {"L", "E", "A", "V"}

WellFormed(q) == q.fields = 5

\* processQuery's test of one name of the query against one of the database.  Only
\* the first character of a pattern is compared with "*": it stands for all such.
Matches(pattern, name) == pattern = "*" \/ pattern = name

=============================================================================
