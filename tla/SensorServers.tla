----------------------------- MODULE SensorServers -----------------------------
(***************************************************************************)
(* From the boards to the database: gen_sss reads lines from several       *)
(* serial ports, one thread each, and posts every line as it is;           *)
(* 9dof_server reads one port and posts three readings for each line.      *)
(* Both post over UDP to the database, whose parsers (SensorMsg) decide    *)
(* what is stored.                                                         *)
(*                                                                         *)
(* What one read gets of the lines a board prints depends on settings of   *)
(* its serial port that openSerialPort leaves as it finds them: "lines",   *)
(* one line a read, with its CR and LF; "icrnl", the CR made an LF, so     *)
(* that the line ends there and the LF is a line of its own; "raw", any    *)
(* stretch of what is printed.  The servers cut two characters off the end *)
(* whatever they are.  How many lines wait in a port is left out: a read   *)
(* gets a line that the board prints, or part of it.                       *)
(***************************************************************************)
EXTENDS SensorMsg

CONSTANTS
  Boards,      \* boards that gen_sss reads
  Prints,      \* Prints[b]: lines board b prints, as datagrams
  Tty,         \* Tty[b]: how its port is set
  Inner,       \* characters that lines have behind their first
  NinePrints,  \* lines the 9dof board prints
  NineTty,     \* how its port is set
  SensorId,    \* 9dof_server's -I option
  SensorSubId, \* its -i option: no token or one, by default the token x
  SockCap      \* datagrams the database's socket holds

\* Lines of the 9dof board: how many of the ten numbers sscanf gets, and the
\* nine readings in thousandths.
NineLine == [fields : 0..10, v : [1..9 -> Int]]

ASSUME BoardsAssumption == "9dof" \notin Boards
Settings == {"lines", "icrnl", "raw"}

\* A line has an id and a value at least, and no letter of a sensor behind its
\* first: the boards print digits, signs, blanks and the dummy subId x.
ASSUME PrintsAssumption ==
  /\ Prints \in [Boards -> SUBSET Datagram]
  /\ \A b \in Boards : \A line \in Prints[b] : Len(line.body) >= 2
  /\ Tty \in [Boards -> Settings]
  /\ Inner \cap Sensors = {}
ASSUME NineAssumption ==
  /\ NinePrints \subseteq NineLine /\ NineTty \in Settings
  /\ SensorId \in Token
  /\ SensorSubId \in Seq(Token) /\ Len(SensorSubId) <= 1
ASSUME CapAssumption == SockCap \in Nat \ {0}

VARIABLES
  fd,       \* the port as gen_sss has it: "opened" and not yet read, "open",
            \* "hup" (reads return nothing) or "error" (reads fail)
  sss,      \* gen_sss: "up" or "exited"
  thread,   \* its threads: "read", "send" or "ended"
  inBuffer, \* each thread's buffer
  nine,     \* 9dof_server, whose one thread is the process: "opened", "read",
            \* "send" or "exited"
  nineOut,  \* 9dof_server: messages of a line still to be sent
  sock,     \* the database's socket
  stored    \* the latest call of sensorRecAdd, and where its datagram is from

server == <<sss, thread, inBuffer>>
nineServer == <<nine, nineOut>>
vars == <<fd, server, nineServer, sock, stored>>

NotStored == [from |-> "none"]

-----------------------------------------------------------------------------
(* What the boards of this repository print: "R id x distance" and          *)
(* "B id x 0" or "B id x 1".  The id is set by switches.                     *)

DummySubId == [text |-> "x", isInt |-> FALSE, int |-> 0]

Number(i) == [text |-> "", isInt |-> TRUE, int |-> i]

RangeLine(id, distanceCm) ==
  [lead |-> "R", body |-> <<id, DummySubId, Number(distanceCm)>>]

ObstacleLine(id, obstacle) ==
  [lead |-> "B", body |-> <<id, DummySubId, Number(obstacle)>>]

-----------------------------------------------------------------------------
(* What is left of a line, when a read has given it to a server and the     *)
(* server has cut two characters off.                                       *)

\* The digits a number loses.  The boards count in 16 bits: five digits.
Powers == {10, 100, 1000, 10000}

\* i without its last digits.
Shortened(i, p) == IF i >= 0 THEN i \div p ELSE -((-i) \div p)

\* A sign, or letters.
NotANumber == [text |-> "-", isInt |-> FALSE, int |-> 0]

\* A token without some of its last characters, or without any.
AnyCut(t) ==
  {<<>>, <<NotANumber>>, <<t>>}
    \cup {<<Number(Shortened(t.int, p))>> :
             p \in {q \in Powers : t.isInt /\ (q <= t.int \/ q <= -t.int)}}

\* A token without its last character.
LastCut(t) ==
  IF t.isInt /\ (10 <= t.int \/ 10 <= -t.int)
  THEN {<<Number(Shortened(t.int, 10))>>}
  ELSE {<<>>, <<NotANumber>>}

\* The line cut in its token n.
CutAt(line, n, rest) == [line EXCEPT !.body = SubSeq(@, 1, n - 1) \o rest]

Heads(line) == UNION {{CutAt(line, n, rest) : rest \in AnyCut(line.body[n])} :
                        n \in DOMAIN line.body}

Shorter(line) == LET n == Len(line.body) IN {CutAt(line, n, rest) : rest \in LastCut(line.body[n])}

\* A text from any character behind its first.
TailsOf(text) == {[lead |-> c, body |-> SubSeq(text.body, n, Len(text.body))] :
                    c \in Inner, n \in 1..(Len(text.body) + 1)}

Tails(texts) == UNION {TailsOf(text) : text \in texts}

EndOfLine == [lead |-> "\n", body |-> <<>>]

HandedFaulty(b, line) == Shorter(line)

\* With one character at its end, a line loses that and its own last one.  Of the
\* stretches of "raw", what follows the first line is left out: the parsers find all
\* they look for in that line.
Handed(b, line) ==
  CASE Tty[b] = "lines" -> {line}
    [] Tty[b] = "icrnl" -> Shorter(line) \cup {EndOfLine}
    [] Tty[b] = "raw"   -> Heads(line) \cup Tails(Heads(line)) \cup {EndOfLine}

\* A port may be opened while its board prints.
HandedFirst(b, line) ==
  Handed(b, line) \cup Tails(Handed(b, line)) \cup {EndOfLine}

\* The same of a line of the 9dof board, which sscanf reads number by number up
\* to the first that is cut off; but the last one of a line may lose digits behind
\* its point, or behind and before it.  How many decimals it has is open.
Decimals == {10, 100, 1000}

LastDecimal(v) == {Shortened(v, p) * p : p \in {q \in Decimals : v % (q \div 10) = 0}}

ShortReadings(v) ==
  {Shortened(v, p) * p : p \in Decimals}
    \cup {Shortened(v, 1000 * p) * 1000 : p \in {q \in Powers : 1000 * q <= v \/ 1000 * q <= -v}}

Fewer(line) == {[line EXCEPT !.fields = n] : n \in 0..line.fields}

LastReading(line, values) == {[line EXCEPT !.v[9] = w] : w \in values}

NineHanded(line) ==
  CASE NineTty = "lines" -> {line}
    [] NineTty = "icrnl" -> LastReading(line, LastDecimal(line.v[9]))
    [] NineTty = "raw"   -> Fewer(line) \cup LastReading(line, ShortReadings(line.v[9]))

\* The first text starts anywhere: in the first number, the time, it has all ten.
NineHandedFirst(line) == UNION {Fewer(t) : t \in NineHanded(line)}

-----------------------------------------------------------------------------
Init ==
  /\ fd = [b \in Boards |-> "opened"]
  /\ sss = "up"
  /\ thread = [b \in Boards |-> "read"]
  /\ inBuffer = [b \in Boards |-> Empty]
  /\ nine = "opened"
  /\ nineOut = <<>>
  /\ sock = <<>>
  /\ stored = NotStored

-----------------------------------------------------------------------------
(* A board's cable is pulled: reads of its port return nothing, or fail,    *)
(* and go on so when the board is plugged in again.                         *)

Unplug(b) ==
  /\ fd[b] \in {"opened", "open"}
  /\ \E state \in {"hup", "error"} : fd' = [fd EXCEPT ![b] = state]
  /\ UNCHANGED <<server, nineServer, sock, stored>>

-----------------------------------------------------------------------------
(* UDP: what is sent arrives or is lost.                                    *)

Arrive(from, text) ==
  Len(sock) < SockCap /\ sock' = Append(sock, [from |-> from, text |-> text])

Post(from, text) == Arrive(from, text) \/ UNCHANGED sock

-----------------------------------------------------------------------------
(* gen_sss.                                                                 *)

BufferFaulty(b) == CHOOSE c \in Boards : TRUE

\* Every thread has its buffer on its own stack.
Buffer(b) == b

Read(b) ==
  /\ sss = "up" /\ thread[b] = "read" /\ fd[b] \in {"opened", "open"}
  /\ \E line \in Prints[b] :
       \E text \in IF fd[b] = "opened" THEN HandedFirst(b, line) ELSE Handed(b, line) :
         inBuffer' = [inBuffer EXCEPT ![Buffer(b)] = text]
  /\ fd' = [fd EXCEPT ![b] = "open"]
  /\ thread' = [thread EXCEPT ![b] = "send"]
  /\ UNCHANGED <<sss, nineServer, sock, stored>>

\* A read of no bytes is not an error: an empty datagram is sent.
ReadNothing(b) ==
  /\ sss = "up" /\ thread[b] = "read" /\ fd[b] = "hup"
  /\ inBuffer' = [inBuffer EXCEPT ![Buffer(b)] = Empty]
  /\ thread' = [thread EXCEPT ![b] = "send"]
  /\ UNCHANGED <<fd, sss, nineServer, sock, stored>>

ReadErrorFaulty(b) ==
  /\ sss = "up" /\ thread[b] = "read" /\ fd[b] = "error"
  /\ thread' = [c \in Boards |-> "ended"]
  /\ UNCHANGED <<fd, sss, inBuffer, nineServer, sock, stored>>

\* An error ends the thread, and only this thread.
ReadError(b) ==
  /\ sss = "up" /\ thread[b] = "read" /\ fd[b] = "error"
  /\ thread' = [thread EXCEPT ![b] = "ended"]
  /\ UNCHANGED <<fd, sss, inBuffer, nineServer, sock, stored>>

\* What is left in the buffer is not looked at again.
Sent(b) ==
  /\ sss = "up" /\ thread[b] = "send"
  /\ thread' = [thread EXCEPT ![b] = "read"]
  /\ inBuffer' = [inBuffer EXCEPT ![Buffer(b)] = Empty]
  /\ UNCHANGED <<fd, sss, nineServer, stored>>

Send(b) == Sent(b) /\ Post(b, inBuffer[Buffer(b)])

\* An error of sendto ends the process, with all its threads.
SendFail(b) ==
  /\ sss = "up" /\ thread[b] = "send"
  /\ sss' = "exited"
  /\ thread' = [c \in Boards |-> "ended"]
  /\ inBuffer' = [c \in Boards |-> Empty]
  /\ UNCHANGED <<fd, nineServer, sock, stored>>

\* gen_sss is started by hand, when all its boards are there: it exits if it
\* cannot open every port.
Start ==
  /\ sss = "exited"
  /\ sss' = "up"
  /\ fd' = [b \in Boards |-> "opened"]
  /\ thread' = [b \in Boards |-> "read"]
  /\ UNCHANGED <<inBuffer, nineServer, sock, stored>>

-----------------------------------------------------------------------------
(* 9dof_server.                                                             *)

ScaledFaulty(v) == {v \div 10}

\* A float times 100, cut to an int: thousandths to hundredths towards zero.
\* The product of a whole number of hundredths may fall just short of it, as
\* that of 0.53 does.
Scaled(v) ==
  LET sign == IF v >= 0 THEN 1 ELSE -1
      cut  == (sign * v) \div 10
  IN  {sign * cut} \cup (IF v # 0 /\ v % 10 = 0 THEN {sign * (cut - 1)} ELSE {})

\* One of the three logical sensors: readings first to first + 2 of the line.
setAndSend(lead, line, first) ==
  {[lead |-> lead, body |-> <<SensorId>> \o SensorSubId \o <<Number(x), Number(y), Number(z)>>] :
     x \in Scaled(line.v[first]), y \in Scaled(line.v[first + 1]), z \in Scaled(line.v[first + 2])}

\* What may be sent for a line; one that does not have ten numbers is dropped.
process9dofRecord(line) ==
  IF line.fields # 10 THEN {<<>>}
  ELSE {<<g, o, m>> : g \in setAndSend("G", line, 1),
                      o \in setAndSend("O", line, 4),
                      m \in setAndSend("M", line, 7)}

\* A read of no bytes, or of the end of a line, has no number.
NineRead ==
  /\ nine \in {"opened", "read"}
  /\ \E line \in NinePrints :
       \E text \in (IF nine = "opened" THEN NineHandedFirst(line) ELSE NineHanded(line))
                     \cup {[line EXCEPT !.fields = 0]} :
         nineOut' \in process9dofRecord(text)
  /\ nine' = IF nineOut' = <<>> THEN "read" ELSE "send"
  /\ UNCHANGED <<fd, server, sock, stored>>

NineSentFaulty ==
  /\ nine = "send"
  /\ nineOut' = Tail(nineOut)
  /\ nine' = "read"
  /\ UNCHANGED <<fd, server, stored>>

NineSent ==
  /\ nine = "send"
  /\ nineOut' = Tail(nineOut)
  /\ nine' = IF nineOut' = <<>> THEN "read" ELSE "send"
  /\ UNCHANGED <<fd, server, stored>>

NineSend == NineSent /\ Post("9dof", Head(nineOut))

\* An error of sendto, or of read, ends the process.
NineFail ==
  /\ nine # "exited"
  /\ nine' = "exited"
  /\ nineOut' = <<>>
  /\ UNCHANGED <<fd, server, sock, stored>>

NineStart ==
  /\ nine = "exited"
  /\ nine' = "opened"
  /\ UNCHANGED <<fd, server, nineOut, sock, stored>>

-----------------------------------------------------------------------------
(* The database's post thread.                                              *)

Receive ==
  /\ sock # <<>>
  /\ LET d == Head(sock) IN
       \/ /\ Parsed(d.text) = {}
          /\ UNCHANGED stored
       \/ \E a \in Parsed(d.text) : stored' = [from |-> d.from, add |-> a]
  /\ sock' = Tail(sock)
  /\ UNCHANGED <<fd, server, nineServer>>

-----------------------------------------------------------------------------
Thread(b) == Read(b) \/ ReadNothing(b) \/ ReadError(b) \/ Send(b)

Next ==
  \/ \E b \in Boards : Unplug(b) \/ Thread(b) \/ SendFail(b)
  \/ Start
  \/ NineRead \/ NineSend \/ NineFail \/ NineStart
  \/ Receive

Spec == Init /\ [][Next]_vars

\* Of what a thread sends again and again, not everything is lost.  So a hung up
\* port that floods the socket with empty datagrams does not keep others out: that
\* is assumed, and not shown.
FairLoss(b) ==
  []<><<Send(b)>>_vars => []<><<Sent(b) /\ Arrive(b, inBuffer[Buffer(b)])>>_vars

\* Boards print and threads run, so that every read ends; the database receives.
Fairness ==
  /\ \A b \in Boards : WF_vars(Thread(b)) /\ FairLoss(b)
  /\ WF_vars(Receive)

FairSpec == Spec /\ Fairness

-----------------------------------------------------------------------------
(* Properties.                                                              *)

\* What a read of a port may leave in the buffer.
Lines == [b \in Boards |-> {Empty} \cup UNION {HandedFirst(b, line) : line \in Prints[b]}]

NineTexts == UNION {NineHandedFirst(line) : line \in NinePrints}

NineMessages ==
  UNION {{m[i] : i \in DOMAIN m} : m \in UNION {process9dofRecord(t) : t \in NineTexts}}

\* Type correctness.
TypeOK ==
  /\ fd \in [Boards -> {"opened", "open", "hup", "error"}]
  /\ sss \in {"up", "exited"}
  /\ thread \in [Boards -> {"read", "send", "ended"}]
  /\ inBuffer \in [Boards -> UNION {Lines[b] : b \in Boards}]
  /\ nine \in {"opened", "read", "send", "exited"}
  /\ nineOut \in Seq(NineMessages) /\ (nineOut # <<>> <=> nine = "send")
  /\ Len(sock) <= SockCap

\* Whatever the threads of gen_sss do at the same time, each posts what it has
\* read from its own fd, and never what another thread has just read.
OwnLines ==
  \A i \in DOMAIN sock :
    sock[i].from \in Boards => sock[i].text \in Lines[sock[i].from]

\* The reading i, in hundredths, is no further from zero than v thousandths, and
\* on the same side.
Toward(i, v) == (v >= 0 => 10 * i \in 0..v) /\ (v <= 0 => 10 * i \in v..0)

\* It is at most one off, too.
Near(i, v) == Toward(i, v) /\ 10 * i - v \in -10..10

FirstOf(sensor) == CASE sensor = "G" -> 1 [] sensor = "O" -> 4 [] sensor = "M" -> 7

\* The arguments of sensorRecAdd with one value that may have lost digits.
WithLess(add) == {[add EXCEPT !.v[j] = Shortened(@, p)] : j \in 1..4, p \in {1} \cup Powers}

\* What the database stores is what a board measured: a line of a port of gen_sss
\* as the parser reads it, or three readings of one line of the 9dof port, of the
\* right kind and scaled.  Parts of lines, lost datagrams and restarts never mix
\* two lines, two boards or two places of a line; the worst they do, on a port that
\* is not set to hand over whole lines with CR and LF, is that the last value of a
\* line loses digits.
StoredIsMeasured ==
  stored # NotStored =>
    IF stored.from = "9dof"
    THEN \E line \in NinePrints :
           /\ line.fields = 10
           /\ stored.add.id = SensorId.text
           /\ \A i \in 1..3 :
                LET r == FirstOf(stored.add.sensor) + i - 1 IN
                IF r = 9 /\ NineTty # "lines"
                THEN Toward(stored.add.v[i], line.v[r])
                ELSE Near(stored.add.v[i], line.v[r])
    ELSE \E line \in Prints[stored.from] : \E add \in Parsed(line) :
           IF Tty[stored.from] = "lines" THEN stored.add = add
                                         ELSE stored.add \in WithLess(add)

\* A board whose thread runs is stored again and again, if its port hands over
\* lines and the parsers accept them, whatever becomes of the other boards.
BoardsGetThrough ==
  \A b \in {b \in Boards : Tty[b] = "lines" /\ \A line \in Prints[b] : Parsed(line) # {}} :
    <>[](sss = "up" /\ fd[b] = "open") => []<>(stored.from = b)

\* Every line a board of this repository prints, and every message of 9dof_server,
\* is one the database stores.
LinesAccepted ==
  \A i \in DOMAIN sock :
    sock[i].from = "9dof" \/ sock[i].text \in Prints[sock[i].from]
      => Parsed(sock[i].text) # {}

=============================================================================
