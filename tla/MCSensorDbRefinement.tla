------------------------ MODULE MCSensorDbRefinement ------------------------
(* A small instance of SensorDbRefinement for TLC: two posts to one list, one *)
(* datagram that is dropped, any number of empty ones, a query for everything *)
(* and one for an average, with and without an answer.                        *)
EXTENDS SensorDbRefinement

Num(t, i) == [text |-> t, isInt |-> TRUE, int |-> i]

RangeMsg(i) == [lead |-> "R", body |-> <<Num("1", 1), i>>]

Ask(tag, type, sensor, id) ==
  [tag |-> tag, type |-> type, sensor |-> sensor, id |-> id, subId |-> "*",
   fields |-> 5]

MCDatagrams == {RangeMsg(Num("7", 7)), RangeMsg(Num("-8", -8)),
                RangeMsg([text |-> "x", isInt |-> FALSE, int |-> 0]), Empty}
MCQueries == {Ask("a", "A", "R", "*"), Ask("v", "V", "R", "1")}
MCTtl == [s \in Sensors |-> 1]

\* Sum is the fold of the library, for all lists of up to four small numbers.
ASSUME SumAssumption ==
  \A n \in 0..4 : \A values \in [1..n -> {<<-3>>, <<0>>, <<2>>}] :
    Sum(values, 1) = FoldLeft(LAMBDA acc, v : acc + v[1], 0, values)

=============================================================================
