--------------------------- MODULE MCSensorServers ---------------------------
(* Small instances of SensorServers for TLC: boards that print what the      *)
(* database's parsers accept (the first a line of software/test/ranger.data), *)
(* boards of this repository, and the 9dof board.                             *)
EXTENDS SensorServers

Num(t, i) == [text |-> t, isInt |-> TRUE, int |-> i]

\* "R id i", without a subId.
Plain(id, i) == [lead |-> "R", body |-> <<id, Num("", i)>>]

MCPrints == [plain |-> {Plain(Num("1", 1), 75)}, other |-> {Plain(Num("2", 2), -12)}]

\* One port set to hand over lines, and one that hands over bytes.
MCTty == [plain |-> "lines", other |-> "raw"]

\* One board on a port as Linux sets it up.
OnePrints == [plain |-> {Plain(Num("1", 1), 75)}]
OneTty == [plain |-> "icrnl"]

\* Two boards of this repository.
MCRepoPrints == [mb10xx |-> {RangeLine(Num("2", 2), 40)},
                 obstacle |-> {ObstacleLine(Num("4", 4), i) : i \in 0..1}]
MCRepoTty == [b \in DOMAIN MCRepoPrints |-> "lines"]

MCInner == {"2"}

\* A line that 9dof_server drops.
NoNinePrints == {[fields |-> 9, v |-> [i \in 1..9 |-> 0]]}

\* Two lines whose readings are far apart.
MCNinePrints ==
  {[fields |-> 10, v |-> <<1005, -1005, 530, 9, 8, 0, -29, -31, 150>>],
   [fields |-> 10, v |-> [i \in 1..9 |-> -12003 - 100 * i]]}

MCId == Num("3", 3)

\* -i "" and the default.
NoToken == <<>>
OneToken == <<DummySubId>>

=============================================================================
