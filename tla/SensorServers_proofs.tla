------------------------ MODULE SensorServers_proofs ------------------------
EXTENDS SensorServers, SequenceTheorems, TLAPS

(***************************************************************************)
(* Theorems about the sensor servers, for every set of boards, everything  *)
(* they may print and every loss of datagrams, ports and processes.        *)
(***************************************************************************)

-----------------------------------------------------------------------------
(* Lines and messages.                                                       *)

\* What may be in the socket.
Posts == (UNION {{[from |-> b, text |-> l] : l \in Lines[b]} : b \in Boards})
           \cup {[from |-> "9dof", text |-> m] : m \in NineMessages}

\* A buffer holds what its own port may have handed over, and the socket what a
\* thread has posted from its buffer, or 9dof_server for a line.
Sources ==
  /\ \A b \in Boards : inBuffer[b] \in Lines[b]
  /\ sock \in Seq(Posts)

\* A text without any of its last numbers, or with all.
LEMMA FewerType ==
  ASSUME NEW t \in NineLine, NEW u \in Fewer(t)
  PROVE  u \in NineLine /\ u.v = t.v /\ u.fields \in 0..t.fields
<1>1. PICK n \in 0..t.fields : u = [t EXCEPT !.fields = n]
  BY DEF Fewer
<1>2. u.fields = n /\ u.v = t.v
  BY <1>1 DEF NineLine
<1>3. n \in 0..10
  BY DEF NineLine
<1> QED BY <1>1, <1>2, <1>3 DEF NineLine

LEMMA AllOfFewer ==
  ASSUME NEW t \in NineLine
  PROVE  t \in Fewer(t)
<1>1. t.fields \in 0..t.fields /\ t = [t EXCEPT !.fields = t.fields]
  BY DEF NineLine
<1> QED BY <1>1 DEF Fewer

\* The integer w is no further from zero than v, and on the same side.
TowardZero(w, v) == w \in Int /\ (v >= 0 => w \in 0..v) /\ (v <= 0 => w \in v..0)

\* A number of thousandths without its last digits is no further from zero.
LEMMA DigitsToward ==
  ASSUME NEW v \in Int, NEW p \in {10, 100, 1000}
  PROVE  TowardZero(Shortened(v, p) * p, v)
<1> DEFINE w == Shortened(v, p) * p
           u == IF v >= 0 THEN v ELSE -v
           q == u \div p
<1>1. u \in Nat /\ p \in Nat \ {0}
  OBVIOUS
<1>2. q \in Int /\ p * q <= u /\ 0 <= q
  BY <1>1, SMTT(30)
<1>3. p * q \in Int /\ q * p = p * q /\ 0 <= p * q
  BY <1>1, <1>2
<1>4. CASE v >= 0
  <2>1. u = v /\ w = q * p
    BY <1>4 DEF Shortened
  <2> HIDE DEF q, u, w
  <2>2. w \in Int /\ (v >= 0 => w \in 0..v) /\ (v <= 0 => w \in v..0)
    BY <1>2, <1>3, <1>4, <2>1
  <2> QED BY <2>2 DEF TowardZero, w
<1>5. CASE v < 0
  <2>1. u = -v /\ w = (-q) * p
    BY <1>5 DEF Shortened
  <2> HIDE DEF q, u, w
  <2>2. (-q) * p = -(q * p)
    BY <1>1, <1>2
  <2>3. w \in Int /\ (v >= 0 => w \in 0..v) /\ (v <= 0 => w \in v..0)
    BY <1>2, <1>3, <1>5, <2>1, <2>2
  <2> QED BY <2>3 DEF TowardZero, w
<1> QED BY <1>4, <1>5

\* What a server gets of a line of the 9dof board has its readings, but for the
\* last one, and that one is no further from zero.
LEMMA NineTextOf ==
  ASSUME NEW line \in NinePrints, NEW t \in NineHanded(line)
  PROVE  /\ t \in NineLine /\ t.fields <= line.fields
         /\ \A i \in 1..8 : t.v[i] = line.v[i]
         /\ TowardZero(t.v[9], line.v[9])
         /\ NineTty = "lines" => t.v = line.v
<1>1. line \in NineLine /\ line.v[9] \in Int /\ line.fields \in 0..10
  BY NineAssumption DEF NineLine
<1>2. ASSUME NEW w, TowardZero(w, line.v[9]), t = [line EXCEPT !.v[9] = w], NineTty # "lines"
      PROVE  /\ t \in NineLine /\ t.fields <= line.fields
             /\ \A i \in 1..8 : t.v[i] = line.v[i]
             /\ TowardZero(t.v[9], line.v[9])
             /\ NineTty = "lines" => t.v = line.v
  <2>1. t.fields = line.fields /\ t.v = [line.v EXCEPT ![9] = w] /\ line.v \in [1..9 -> Int]
    BY <1>1, <1>2 DEF NineLine
  <2>2. t.v[9] = w /\ (\A i \in 1..8 : t.v[i] = line.v[i]) /\ t.v \in [1..9 -> Int]
    BY <1>2, <2>1 DEF TowardZero
  <2>3. t \in NineLine
    BY <1>1, <1>2, <2>1, <2>2 DEF NineLine
  <2> QED BY <1>1, <1>2, <2>1, <2>2, <2>3
<1>3. CASE NineTty = "lines"
  BY <1>1, <1>3 DEF NineHanded, TowardZero
<1>4. ASSUME NineTty = "icrnl" \/ NineTty = "raw",
             NEW w \in LastDecimal(line.v[9]) \cup ShortReadings(line.v[9])
      PROVE  TowardZero(w, line.v[9])
  <2>1. CASE \E p \in Decimals : w = Shortened(line.v[9], p) * p
    <3>1. PICK p \in {10, 100, 1000} : w = Shortened(line.v[9], p) * p
      BY <2>1 DEF Decimals
    <3> QED BY <1>1, <3>1, DigitsToward
  <2>2. CASE \E p \in Powers : w = Shortened(line.v[9], 1000 * p) * 1000
    <3>1. PICK p \in Powers : w = Shortened(line.v[9], 1000 * p) * 1000
      BY <2>2
    <3> QED BY <1>1, <3>1 DEF Shortened, Powers, TowardZero
  <2> QED BY <2>1, <2>2 DEF LastDecimal, ShortReadings
<1>5. CASE NineTty = "icrnl"
  <2>1. PICK w \in LastDecimal(line.v[9]) : t = [line EXCEPT !.v[9] = w]
    BY <1>5 DEF NineHanded, LastReading
  <2> QED BY <1>2, <1>4, <1>5, <2>1
<1>6. CASE NineTty = "raw"
  <2>1. CASE t \in Fewer(line)
    <3>1. t \in NineLine /\ t.v = line.v /\ t.fields \in 0..line.fields
      BY <1>1, <2>1, FewerType
    <3> QED BY <1>1, <1>6, <3>1 DEF TowardZero
  <2>2. CASE t \notin Fewer(line)
    <3>1. PICK w \in ShortReadings(line.v[9]) : t = [line EXCEPT !.v[9] = w]
      BY <1>6, <2>2 DEF NineHanded, LastReading
    <3> QED BY <1>2, <1>4, <1>6, <3>1
  <2> QED BY <2>1, <2>2
<1> QED BY <1>3, <1>5, <1>6, NineAssumption DEF Settings

\* Every text of a read is one of NineTexts, the first or not.
LEMMA NineTextsOf ==
  ASSUME NEW line \in NinePrints
  PROVE  /\ NineHanded(line) \subseteq NineTexts
         /\ NineHandedFirst(line) \subseteq NineTexts
<1>1. NineHanded(line) \subseteq NineHandedFirst(line)
  BY NineTextOf, AllOfFewer DEF NineHandedFirst
<1>2. NineHandedFirst(line) \subseteq NineTexts
  BY DEF NineTexts
<1> QED BY <1>1, <1>2

\* The pieces 9dof_server sends for a text are messages of such a text.
LEMMA PiecesType ==
  ASSUME NEW line, line \in NineTexts \/ line.fields # 10,
         NEW out \in process9dofRecord(line)
  PROVE  out \in Seq(NineMessages)
<1>1. line.fields = 10 => {out[i] : i \in DOMAIN out} \subseteq NineMessages
  BY DEF NineMessages
<1>2. CASE line.fields # 10
  BY <1>2 DEF process9dofRecord
<1>3. CASE line.fields = 10
  <2>1. PICK g \in setAndSend("G", line, 1), o \in setAndSend("O", line, 4),
             m \in setAndSend("M", line, 7) : out = <<g, o, m>>
    BY <1>3 DEF process9dofRecord
  <2>2. /\ DOMAIN out = 1..3 /\ out[1] = g /\ out[2] = o /\ out[3] = m
    BY <2>1
  <2>3. g \in NineMessages /\ o \in NineMessages /\ m \in NineMessages
    BY <1>1, <1>3, <2>2
  <2> QED BY <2>1, <2>3
<1> QED BY <1>2, <1>3

-----------------------------------------------------------------------------
(* What a thread of gen_sss reads.                                           *)

\* Every text that a read leaves in a buffer is one of the port's Lines.
LEMMA HandedLines ==
  ASSUME NEW b \in Boards, NEW line \in Prints[b]
  PROVE  /\ HandedFirst(b, line) \subseteq Lines[b]
         /\ Handed(b, line) \subseteq Lines[b]
<1>1. HandedFirst(b, line) \subseteq Lines[b]
  BY DEF Lines
<1>2. Handed(b, line) \subseteq HandedFirst(b, line)
  BY DEF HandedFirst
<1> QED BY <1>1, <1>2

LEMMA EmptyLine == \A b \in Boards : Empty \in Lines[b]
BY DEF Lines

\* A read puts one of them into the thread's own buffer.
LEMMA ReadLines ==
  ASSUME TypeOK, NEW b \in Boards, Read(b)
  PROVE  \E text \in Lines[b] : inBuffer' = [inBuffer EXCEPT ![b] = text]
<1>1. PICK line \in Prints[b] :
        \E text \in IF fd[b] = "opened" THEN HandedFirst(b, line) ELSE Handed(b, line) :
          inBuffer' = [inBuffer EXCEPT ![b] = text]
  BY DEF Read, Buffer
<1> QED BY <1>1, HandedLines

-----------------------------------------------------------------------------
(* Type correctness.                                                         *)

\* The types hold when the servers start.
LEMMA TypeInit == Init => TypeOK
<1> SUFFICES ASSUME Init PROVE TypeOK
  OBVIOUS
<1>1. /\ fd \in [Boards -> {"opened", "open", "hup", "error"}]
      /\ sss \in {"up", "exited"}
      /\ thread \in [Boards -> {"read", "send", "ended"}]
      /\ nine \in {"opened", "read", "send", "exited"}
  BY DEF Init
<1>2. inBuffer \in [Boards -> UNION {Lines[b] : b \in Boards}]
  BY EmptyLine DEF Init
<1>3. nineOut \in Seq(NineMessages) /\ (nineOut # <<>> <=> nine = "send")
  BY DEF Init
<1>4. Len(sock) <= SockCap
  BY CapAssumption DEF Init
<1> QED BY <1>1, <1>2, <1>3, <1>4 DEF TypeOK

\* Every step keeps them.
LEMMA TypeNext == TypeOK /\ Sources /\ [Next]_vars => TypeOK'
<1> SUFFICES ASSUME TypeOK, Sources, [Next]_vars PROVE TypeOK'
  OBVIOUS
<1> USE DEF server, nineServer
<1>0. Len(sock) \in Nat /\ SockCap \in Nat /\ sock \in Seq(Posts)
  BY CapAssumption, LenProperties DEF Sources
<1>1. ASSUME NEW b \in Boards, Unplug(b) PROVE TypeOK'
  BY <1>1 DEF Unplug, TypeOK
<1>2. ASSUME NEW b \in Boards, Read(b) PROVE TypeOK'
  <2>1. PICK text \in Lines[b] : inBuffer' = [inBuffer EXCEPT ![b] = text]
    BY <1>2, ReadLines
  <2>2. inBuffer' \in [Boards -> UNION {Lines[c] : c \in Boards}]
    BY <2>1 DEF TypeOK
  <2> QED BY <1>2, <2>2 DEF Read, TypeOK
<1>3. ASSUME NEW b \in Boards, ReadNothing(b) PROVE TypeOK'
  BY <1>3, EmptyLine DEF ReadNothing, Buffer, TypeOK
<1>4. ASSUME NEW b \in Boards, ReadError(b) PROVE TypeOK'
  BY <1>4 DEF ReadError, TypeOK
<1>5. ASSUME NEW from, NEW text, Post(from, text) PROVE Len(sock') <= SockCap
  <2>1. CASE UNCHANGED sock
    BY <2>1 DEF TypeOK
  <2>2. CASE Arrive(from, text)
    <3>1. Len(sock') = Len(sock) + 1
      BY <1>0, <2>2 DEF Arrive
    <3> QED BY <1>0, <2>2, <3>1 DEF Arrive
  <2> QED BY <1>5, <2>1, <2>2 DEF Post
<1>6. ASSUME NEW b \in Boards, Send(b) PROVE TypeOK'
  <2>1. Len(sock') <= SockCap
    BY <1>5, <1>6 DEF Send
  <2> QED BY <1>6, <2>1, EmptyLine DEF Send, Sent, Buffer, TypeOK
<1>7. ASSUME NEW b \in Boards, SendFail(b) PROVE TypeOK'
  BY <1>7, EmptyLine DEF SendFail, TypeOK
<1>8. CASE Start
  BY <1>8 DEF Start, TypeOK
<1>9. CASE NineRead
  <2>1. nineOut' \in Seq(NineMessages)
    <3>1. PICK line \in NinePrints :
            \E text \in NineHandedFirst(line) \cup NineHanded(line) \cup {[line EXCEPT !.fields = 0]} :
              nineOut' \in process9dofRecord(text)
      BY <1>9 DEF NineRead
    <3>2. PICK text \in NineHandedFirst(line) \cup NineHanded(line) \cup {[line EXCEPT !.fields = 0]} :
            nineOut' \in process9dofRecord(text)
      BY <3>1
    <3>3. text \in NineTexts \/ text.fields # 10
      <4>1. [line EXCEPT !.fields = 0].fields = 0
        BY NineAssumption DEF NineLine
      <4>2. CASE text \in NineHandedFirst(line) \cup NineHanded(line)
        BY <4>2, NineTextsOf
      <4>3. CASE text = [line EXCEPT !.fields = 0]
        BY <4>1, <4>3
      <4> QED BY <3>2, <4>2, <4>3
    <3> QED BY <3>2, <3>3, PiecesType
  <2> QED BY <1>9, <2>1 DEF NineRead, TypeOK
<1>10. CASE NineSend
  <2>1. Len(sock') <= SockCap
    BY <1>5, <1>10 DEF NineSend
  <2>2. nineOut \in Seq(NineMessages) /\ nineOut # <<>>
    BY <1>10 DEF NineSend, NineSent, TypeOK
  <2>3. nineOut' \in Seq(NineMessages)
    BY <1>10, <2>2 DEF NineSend, NineSent
  <2> QED BY <1>10, <2>1, <2>3 DEF NineSend, NineSent, TypeOK
<1>11. CASE NineFail
  BY <1>11 DEF NineFail, TypeOK
<1>12. CASE NineStart
  BY <1>12 DEF NineStart, TypeOK
<1>13. CASE Receive
  <2>1. Len(sock') = Len(sock) - 1
    BY <1>0, <1>13 DEF Receive
  <2>2. Len(sock') <= SockCap
    BY <1>0, <2>1 DEF TypeOK
  <2> QED BY <1>13, <2>2 DEF Receive, TypeOK
<1>14. CASE UNCHANGED vars
  BY <1>14 DEF vars, TypeOK
<1> QED BY <1>1, <1>2, <1>3, <1>4, <1>6, <1>7, <1>8, <1>9, <1>10, <1>11, <1>12,
           <1>13, <1>14 DEF Next, Thread

-----------------------------------------------------------------------------
(* Where the datagrams come from.                                            *)

\* Nothing has been read or posted when the servers start.
LEMMA SourcesInit == Init => Sources
BY EmptyLine DEF Init, Sources, Posts

\* Every thread reads its own port into its own buffer and posts that.
LEMMA SourcesNext == TypeOK /\ Sources /\ [Next]_vars => Sources'
<1> SUFFICES ASSUME TypeOK, Sources, [Next]_vars PROVE Sources'
  OBVIOUS
<1> USE DEF server, nineServer
<1>0. /\ sock \in Seq(Posts) /\ \A b \in Boards : inBuffer[b] \in Lines[b]
      /\ DOMAIN inBuffer = Boards
  BY DEF Sources, TypeOK
<1>1. (sock' \in Seq(Posts) /\ \A b \in Boards : inBuffer'[b] \in Lines[b]) => Sources'
  BY DEF Sources, Posts
<1>2. ASSUME NEW from, NEW text, Post(from, text), [from |-> from, text |-> text] \in Posts
      PROVE  sock' \in Seq(Posts)
  <2> QED BY <1>0, <1>2 DEF Post, Arrive
<1>3. \A b \in Boards : \A l \in Lines[b] : [from |-> b, text |-> l] \in Posts
  BY DEF Posts
<1>4. \A m \in NineMessages : [from |-> "9dof", text |-> m] \in Posts
  BY DEF Posts
<1>5. ASSUME NEW b \in Boards, Read(b) PROVE Sources'
  <2>1. inBuffer'[b] \in Lines[b] /\ sock' = sock
        /\ \A c \in Boards : c # b => inBuffer'[c] = inBuffer[c]
    BY <1>0, <1>5, ReadLines DEF Read
  <2> QED BY <1>0, <1>1, <2>1
<1>6. ASSUME NEW b \in Boards, ReadNothing(b) PROVE Sources'
  <2>1. inBuffer'[b] \in Lines[b] /\ sock' = sock
        /\ \A c \in Boards : c # b => inBuffer'[c] = inBuffer[c]
    BY <1>0, <1>6, EmptyLine DEF ReadNothing, Buffer
  <2> QED BY <1>0, <1>1, <2>1
<1>7. ASSUME NEW b \in Boards, Send(b) PROVE Sources'
  <2>1. sock' \in Seq(Posts)
    BY <1>0, <1>2, <1>3, <1>7 DEF Send, Buffer
  <2>2. \A c \in Boards : inBuffer'[c] \in Lines[c]
    BY <1>0, <1>7, EmptyLine DEF Send, Sent, Buffer
  <2> QED BY <1>0, <1>1, <2>1, <2>2
<1>8. ASSUME NEW b \in Boards, SendFail(b) PROVE Sources'
  <2>1. sock' = sock /\ \A c \in Boards : inBuffer'[c] \in Lines[c]
    BY <1>8, EmptyLine DEF SendFail
  <2> QED BY <1>0, <1>1, <2>1
<1>9. CASE NineSend
  <2>1. nineOut \in Seq(NineMessages) /\ nineOut # <<>>
    BY <1>9 DEF NineSend, NineSent, TypeOK
  <2>2. Head(nineOut) \in NineMessages
    BY <2>1, HeadTailProperties
  <2>3. sock' \in Seq(Posts) /\ inBuffer' = inBuffer
    BY <1>2, <1>4, <1>9, <2>2 DEF NineSend, NineSent
  <2> QED BY <1>0, <1>1, <2>3
<1>10. CASE Receive
  <2>1. sock' \in Seq(Posts) /\ inBuffer' = inBuffer
    BY <1>0, <1>10, HeadTailProperties DEF Receive
  <2> QED BY <1>0, <1>1, <2>1
<1>11. CASE UNCHANGED <<inBuffer, sock>>
  BY <1>0, <1>1, <1>11
<1>12. ASSUME NEW b \in Boards, Unplug(b) \/ ReadError(b) PROVE Sources'
  BY <1>11, <1>12 DEF Unplug, ReadError
<1>13. CASE Start \/ NineRead \/ NineFail \/ NineStart \/ UNCHANGED vars
  BY <1>11, <1>13 DEF Start, NineRead, NineFail, NineStart, vars
<1> QED BY <1>5, <1>6, <1>7, <1>8, <1>9, <1>10, <1>12, <1>13 DEF Next, Thread

\* Types and sources keep each other.
LEMMA ServersInvariant == Spec => [](TypeOK /\ Sources)
BY TypeInit, TypeNext, SourcesInit, SourcesNext, PTL DEF Spec

\* Every variable of the servers keeps to its type, and 9dof_server has messages
\* to send exactly when it is sending.
THEOREM ServersTypeCorrect == Spec => []TypeOK
BY ServersInvariant, PTL

\* A datagram of the socket is of a board and one of its lines, or a message of
\* 9dof_server.
LEMMA SourceOf ==
  ASSUME Sources, NEW i \in DOMAIN sock
  PROVE  \/ sock[i].from \in Boards /\ sock[i].text \in Lines[sock[i].from]
         \/ sock[i].from = "9dof" /\ sock[i].text \in NineMessages
<1>1. sock \in Seq(Posts)
  BY DEF Sources
<1>2. sock[i] \in Posts
  BY <1>1, LenProperties, ElementOfSeq
<1> QED BY <1>2 DEF Posts

\* Whatever the threads of gen_sss do at the same time, what each posts is what a
\* read of its own port has handed over.
THEOREM LinesOwned == Spec => []OwnLines
<1>1. Sources => OwnLines
  BY SourceOf, BoardsAssumption DEF OwnLines
<1> QED BY <1>1, ServersInvariant, PTL

-----------------------------------------------------------------------------
(* What is stored.                                                           *)

\* The cut of a float times 100 is at most a hundredth off, and towards zero.
LEMMA ScaledNear ==
  ASSUME NEW v \in Int, NEW x \in Scaled(v)
  PROVE  x \in Int /\ Near(x, v)
<1>1. CASE v >= 0
  <2>1. x = v \div 10 \/ (v # 0 /\ v % 10 = 0 /\ x = (v \div 10) - 1)
    BY <1>1 DEF Scaled
  <2>2. v = 10 * (v \div 10) + (v % 10) /\ v % 10 \in 0..9 /\ v \div 10 \in Int
    OBVIOUS
  <2>3. x \in Int /\ 10 * x - v \in -10..10 /\ 10 * x \in 0..v
    BY <1>1, <2>1, <2>2
  <2> QED BY <1>1, <2>3 DEF Near, Toward
<1>2. CASE v < 0
  <2> DEFINE w == -v
  <2>1. x = -(w \div 10) \/ (v % 10 = 0 /\ x = -((w \div 10) - 1))
    BY <1>2 DEF Scaled
  <2>2. w = 10 * (w \div 10) + (w % 10) /\ w % 10 \in 0..9 /\ w \div 10 \in Int
    OBVIOUS
  <2>3. v % 10 = 0 => w % 10 = 0
    OBVIOUS
  <2>4. x \in Int /\ 10 * x - v \in -10..10 /\ 10 * x \in v..0
    BY <1>2, <2>1, <2>2, <2>3
  <2> QED BY <1>2, <2>4 DEF Near, Toward
<1> QED BY <1>1, <1>2

\* A message of 9dof_server is three scaled readings of one text with ten numbers.
LEMMA NineMessage ==
  ASSUME NEW m \in NineMessages
  PROVE  \E line \in NineTexts : \E lead \in {"G", "O", "M"} :
           /\ line.fields = 10
           /\ m \in setAndSend(lead, line, FirstOf(lead))
<1>1. PICK line \in NineTexts : \E out \in process9dofRecord(line) :
        \E i \in DOMAIN out : m = out[i]
  BY DEF NineMessages
<1>2. PICK out \in process9dofRecord(line) : \E i \in DOMAIN out : m = out[i]
  BY <1>1
<1>3. line.fields = 10
  BY <1>2 DEF process9dofRecord
<1>4. PICK g \in setAndSend("G", line, 1), o \in setAndSend("O", line, 4),
           n \in setAndSend("M", line, 7) : out = <<g, o, n>>
  BY <1>2, <1>3 DEF process9dofRecord
<1>5. m \in {g, o, n}
  BY <1>2, <1>4
<1>6. FirstOf("G") = 1 /\ FirstOf("O") = 4 /\ FirstOf("M") = 7
  BY DEF FirstOf
<1> QED BY <1>3, <1>4, <1>5, <1>6

\* The tokens of a message: the id, the token of -i if there is one, the values.
LEMMA MessageTokens ==
  ASSUME NEW S, NEW id \in S, NEW sub \in Seq(S), NEW x \in S, NEW y \in S, NEW z \in S
  PROVE  LET body == <<id>> \o sub \o <<x, y, z>> IN
         /\ Len(body) = Len(sub) + 4 /\ body[1] = id
         /\ sub = <<>> => body[2] = x /\ body[3] = y /\ body[4] = z
         /\ sub # <<>> => body[2] = sub[1]
<1> DEFINE head == <<id>> \o sub
           body == head \o <<x, y, z>>
<1>1. /\ <<id>> \in Seq(S) /\ Len(<<id>>) = 1
      /\ <<x, y, z>> \in Seq(S) /\ Len(<<x, y, z>>) = 3
  OBVIOUS
<1>2. Len(sub) \in Nat /\ (sub # <<>> => Len(sub) >= 1) /\ Len(<<>>) = 0
  <2>1. Len(sub) \in Nat /\ (Len(sub) = 0 => sub = <<>>)
    BY LenProperties, EmptySeq
  <2> QED BY <2>1
<1>3. /\ head \in Seq(S) /\ Len(head) = 1 + Len(sub)
      /\ \A i \in 1..(1 + Len(sub)) : head[i] = IF i <= 1 THEN <<id>>[i] ELSE sub[i - 1]
  BY <1>1, ConcatProperties
<1> HIDE DEF head
<1>4. /\ Len(body) = Len(head) + 3
      /\ \A i \in 1..(Len(head) + 3) :
           body[i] = IF i <= Len(head) THEN head[i] ELSE <<x, y, z>>[i - Len(head)]
  BY <1>1, <1>3, ConcatProperties
<1> HIDE DEF body
<1>5. Len(body) = Len(sub) + 4 /\ body[1] = id
  BY <1>2, <1>3, <1>4
<1>6. sub = <<>> => body[2] = x /\ body[3] = y /\ body[4] = z
  BY <1>2, <1>3, <1>4
<1>7. sub # <<>> => body[2] = sub[1]
  BY <1>2, <1>3, <1>4
<1> QED BY <1>5, <1>6, <1>7 DEF body, head

\* The parser of three values finds in such a message what was put there, if the
\* subId of -i is absent or does not read as a number.
LEMMA NineParsed ==
  ASSUME SensorSubId = <<>> \/ ~SensorSubId[1].isInt,
         NEW line \in NineLine, NEW lead \in {"G", "O", "M"},
         NEW m \in setAndSend(lead, line, FirstOf(lead)), NEW a \in Parsed(m)
  PROVE  /\ a.id = SensorId.text /\ FirstOf(a.sensor) \in {1, 4, 7}
         /\ \A i \in 1..3 : a.v[i] \in Int /\ Near(a.v[i], line.v[FirstOf(a.sensor) + i - 1])
<1> DEFINE f == FirstOf(lead)
<1>1. PICK x \in Scaled(line.v[f]), y \in Scaled(line.v[f + 1]), z \in Scaled(line.v[f + 2]) :
        m = [lead |-> lead,
             body |-> <<SensorId>> \o SensorSubId \o <<Number(x), Number(y), Number(z)>>]
  BY DEF setAndSend
<1>2. f \in {1, 4, 7}
  BY DEF FirstOf
<1>3. line.v \in [1..9 -> Int]
  BY DEF NineLine
<1>4. line.v[f] \in Int /\ line.v[f + 1] \in Int /\ line.v[f + 2] \in Int
  <2>1. f \in 1..9 /\ f + 1 \in 1..9 /\ f + 2 \in 1..9
    BY <1>2
  <2> QED BY <1>3, <2>1
<1> HIDE DEF f
<1>5. x \in Int /\ y \in Int /\ z \in Int /\ Near(x, line.v[f]) /\ Near(y, line.v[f + 1]) /\ Near(z, line.v[f + 2])
  BY <1>1, <1>4, ScaledNear
<1>6. m.lead = lead /\ a \in process9DData(m)
  BY <1>1 DEF Parsed
<1> DEFINE b == m.body
<1> DEFINE S == Token \cup {Number(x), Number(y), Number(z)}
<1>7. /\ SensorId \in S /\ SensorSubId \in Seq(S)
      /\ Number(x) \in S /\ Number(y) \in S /\ Number(z) \in S
  <2>1. /\ \A i \in 1..Len(SensorSubId) : SensorSubId[i] \in Token
        /\ Len(SensorSubId) \in Nat /\ SensorSubId = [i \in 1..Len(SensorSubId) |-> SensorSubId[i]]
    BY NineAssumption, ElementOfSeq, LenProperties
  <2> QED BY <2>1, NineAssumption
<1> HIDE DEF S
<1>8. b = <<SensorId>> \o SensorSubId \o <<Number(x), Number(y), Number(z)>>
  BY <1>1
<1> HIDE DEF b
<1>9. /\ Len(b) = Len(SensorSubId) + 4 /\ b[1] = SensorId
      /\ SensorSubId = <<>> => b[2] = Number(x) /\ b[3] = Number(y) /\ b[4] = Number(z)
      /\ SensorSubId # <<>> => b[2] = SensorSubId[1]
  BY <1>7, <1>8, MessageTokens
<1>10. /\ \A i \in 2..4 : b[i].isInt
       /\ a = [sensor |-> lead, id |-> b[1].text, subId |-> NoSubId,
               v |-> <<b[2].int, b[3].int, b[4].int, 0>>]
  BY <1>6 DEF process9DData, b
<1>11. CASE SensorSubId = <<>>
  <2>1. b[2].int = x /\ b[3].int = y /\ b[4].int = z
    <3>1. \A i : Number(i).int = i
      BY DEF Number
    <3> QED BY <1>9, <1>11, <3>1, Zenon
  <2>2. /\ a.sensor = lead /\ a.id = SensorId.text
        /\ a.v[1] = x /\ a.v[2] = y /\ a.v[3] = z
        /\ x \in Int /\ y \in Int /\ z \in Int
    BY <1>5, <1>9, <1>10, <2>1
  <2>3. /\ f + 1 - 1 = f /\ f + 2 - 1 = f + 1 /\ f + 3 - 1 = f + 2
    BY <1>2
  <2>4. /\ Near(a.v[1], line.v[f + 1 - 1]) /\ Near(a.v[2], line.v[f + 2 - 1])
        /\ Near(a.v[3], line.v[f + 3 - 1])
    BY <1>5, <2>2, <2>3
  <2>5. \A i \in 1..3 : i = 1 \/ i = 2 \/ i = 3
    OBVIOUS
  <2> QED BY <1>2, <2>2, <2>4, <2>5 DEF f
<1>12. CASE SensorSubId # <<>>
  <2>1. ~b[2].isInt
    BY <1>9, <1>12
  <2>2. 2 \in 2..4
    OBVIOUS
  <2> QED BY <1>10, <2>1, <2>2, Zenon
<1> QED BY <1>11, <1>12

\* Texts that do not begin with the name of a sensor are dropped by the parsers.
LEMMA Unnamed ==
  ASSUME NEW text, text.lead \notin Sensors
  PROVE  Parsed(text) = {}
BY DEF Parsed, Sensors

LEMMA TailsDropped ==
  ASSUME NEW texts, NEW t \in Tails(texts)
  PROVE  Parsed(t) = {}
<1>1. PICK text \in texts : t \in TailsOf(text)
  BY DEF Tails
<1>2. t.lead \in Inner
  BY <1>1 DEF TailsOf
<1> QED BY <1>2, Unnamed, PrintsAssumption

LEMMA EndsDropped == Parsed(EndOfLine) = {} /\ Parsed(Empty) = {}
<1>1. EndOfLine.lead \notin Sensors /\ Empty.lead \notin Sensors
  BY DEF EndOfLine, Empty, Sensors
<1> QED BY <1>1, Unnamed

\* What is left of a token is a number only if the token is one, and then it has
\* its first digits.
LEMMA CutToken ==
  ASSUME NEW t \in Token, NEW rest \in AnyCut(t)
  PROVE  /\ \E S : rest \in Seq(S)
         /\ Len(rest) \in 0..1
         /\ (Len(rest) = 1 /\ rest[1].isInt) =>
              /\ t.isInt
              /\ \E p \in {1} \cup Powers : rest[1].int = Shortened(t.int, p)
<1>0. t.int \in Int /\ Shortened(t.int, 1) = t.int
  BY DEF Token, Shortened
<1>1. CASE rest = <<>>
  <2>1. rest \in Seq({}) /\ Len(rest) = 0
    BY <1>1
  <2> QED BY <2>1
<1>2. ASSUME NEW e, rest = <<e>>
      PROVE  rest \in Seq({e}) /\ Len(rest) = 1 /\ rest[1] = e
  BY <1>2
<1>3. CASE rest = <<NotANumber>>
  <2>1. rest \in Seq({NotANumber}) /\ Len(rest) = 1 /\ ~rest[1].isInt
    BY <1>2, <1>3 DEF NotANumber
  <2> QED BY <2>1
<1>4. CASE rest = <<t>>
  <2>1. rest \in Seq({t}) /\ Len(rest) = 1 /\ rest[1] = t
    BY <1>2, <1>4
  <2> QED BY <1>0, <2>1
<1>5. CASE \E p \in Powers : t.isInt /\ rest = <<Number(Shortened(t.int, p))>>
  <2>1. PICK p \in Powers : t.isInt /\ rest = <<Number(Shortened(t.int, p))>>
    BY <1>5
  <2> DEFINE e == Number(Shortened(t.int, p))
  <2>2. e.int = Shortened(t.int, p)
    BY DEF Number
  <2> HIDE DEF e
  <2>3. rest \in Seq({e}) /\ Len(rest) = 1 /\ rest[1] = e
    BY <1>2, <2>1 DEF e
  <2>4. rest[1].int = Shortened(t.int, p) /\ p \in {1} \cup Powers /\ t.isInt
    BY <2>1, <2>2, <2>3
  <2>5. Len(rest) \in 0..1
    BY <2>3
  <2> QED BY <2>3, <2>4, <2>5, Zenon
<1> QED BY <1>1, <1>3, <1>4, <1>5 DEF AnyCut

\* A line cut in its token n has the tokens before it, and what is left of it.
LEMMA CutTokens ==
  ASSUME NEW line \in Datagram, NEW n \in 1..Len(line.body),
         NEW rest \in AnyCut(line.body[n])
  PROVE  LET h == CutAt(line, n, rest) IN
         /\ h.lead = line.lead /\ Len(h.body) \in Nat /\ Len(h.body) <= n
         /\ \A i \in 1..(n - 1) : h.body[i] = line.body[i]
         /\ (Len(h.body) = n /\ h.body[n].isInt) =>
              /\ line.body[n].isInt
              /\ \E p \in {1} \cup Powers : h.body[n].int = Shortened(line.body[n].int, p)
<1> DEFINE body == line.body
           first == SubSeq(body, 1, n - 1)
<1>1. body \in Seq(Token) /\ Len(body) \in Nat /\ DOMAIN body = 1..Len(body)
  BY LenProperties DEF Datagram
<1>2. body[n] \in Token /\ n \in Nat \ {0} /\ n <= Len(body)
  BY <1>1, ElementOfSeq
<1>3. /\ first \in Seq(Token) /\ Len(first) = n - 1
      /\ \A i \in 1..(n - 1) : first[i] = body[i]
  <2>1. 1 \in 1..(Len(body) + 1) /\ n - 1 \in (1 - 1)..Len(body)
    BY <1>2
  <2> QED BY <1>1, <1>2, <2>1, SubSeqProperties
<1> HIDE DEF first
<1>0. /\ Len(rest) \in 0..1
      /\ (Len(rest) = 1 /\ rest[1].isInt) =>
           /\ body[n].isInt
           /\ \E p \in {1} \cup Powers : rest[1].int = Shortened(body[n].int, p)
  BY <1>2, CutToken
<1>4. PICK S : rest \in Seq(S) /\ first \in Seq(S)
  <2>1. PICK T : rest \in Seq(T)
    BY <1>2, CutToken
  <2>2. rest \in Seq(T \cup Token) /\ first \in Seq(T \cup Token)
    BY <1>3, <2>1
  <2> QED BY <2>2
<1>5. /\ Len(first \o rest) = n - 1 + Len(rest)
      /\ \A i \in 1..(n - 1 + Len(rest)) :
           (first \o rest)[i] = IF i <= n - 1 THEN first[i] ELSE rest[i - (n - 1)]
  <2>1. /\ Len(first \o rest) = Len(first) + Len(rest)
        /\ \A i \in 1..(Len(first) + Len(rest)) :
             (first \o rest)[i] = IF i <= Len(first) THEN first[i] ELSE rest[i - Len(first)]
    BY <1>4, ConcatProperties
  <2> QED BY <1>3, <2>1
<1>6. CutAt(line, n, rest).body = first \o rest /\ CutAt(line, n, rest).lead = line.lead
  BY DEF CutAt, Datagram, first
<1>7. \A i \in 1..(n - 1) : (first \o rest)[i] = body[i]
  BY <1>0, <1>2, <1>3, <1>5
<1>8. Len(first \o rest) = n => Len(rest) = 1 /\ (first \o rest)[n] = rest[1]
  <2> HAVE Len(first \o rest) = n
  <2>1. Len(rest) = 1
    BY <1>0, <1>2, <1>5
  <2>2. n \in 1..(n - 1 + Len(rest)) /\ ~(n <= n - 1) /\ n - (n - 1) = 1
    BY <1>2, <2>1
  <2> QED BY <1>5, <2>1, <2>2
<1>9. Len(first \o rest) \in Nat /\ Len(first \o rest) <= n
  <2> DEFINE k == Len(first \o rest)
             r == Len(rest)
  <2>1. k = n - 1 + r
    BY <1>5
  <2>2. r \in 0..1 /\ n \in Nat /\ n > 0
    BY <1>0, <1>2
  <2> HIDE DEF k, r
  <2>3. k \in Nat /\ k <= n
    BY <2>1, <2>2
  <2> QED BY <2>3 DEF k
<1>10. (Len(first \o rest) = n /\ (first \o rest)[n].isInt) =>
         /\ body[n].isInt
         /\ \E p \in {1} \cup Powers : (first \o rest)[n].int = Shortened(body[n].int, p)
  BY <1>0, <1>8
<1> QED BY <1>6, <1>7, <1>9, <1>10

\* One value of four with fewer digits, or none.
LEMMA LessAt ==
  ASSUME NEW s, NEW id, NEW sub, NEW p \in {1} \cup Powers,
         NEW a1 \in Int, NEW a2 \in Int, NEW a3 \in Int, NEW a4 \in Int
  PROVE  /\ [sensor |-> s, id |-> id, subId |-> sub, v |-> <<a1, a2, a3, a4>>]
              \in WithLess([sensor |-> s, id |-> id, subId |-> sub, v |-> <<a1, a2, a3, a4>>])
         /\ [sensor |-> s, id |-> id, subId |-> sub, v |-> <<Shortened(a1, p), a2, a3, a4>>]
              \in WithLess([sensor |-> s, id |-> id, subId |-> sub, v |-> <<a1, a2, a3, a4>>])
         /\ [sensor |-> s, id |-> id, subId |-> sub, v |-> <<a1, a2, Shortened(a3, p), a4>>]
              \in WithLess([sensor |-> s, id |-> id, subId |-> sub, v |-> <<a1, a2, a3, a4>>])
         /\ [sensor |-> s, id |-> id, subId |-> sub, v |-> <<a1, a2, a3, Shortened(a4, p)>>]
              \in WithLess([sensor |-> s, id |-> id, subId |-> sub, v |-> <<a1, a2, a3, a4>>])
<1> DEFINE A(x1, x2, x3, x4) ==
             [sensor |-> s, id |-> id, subId |-> sub, v |-> <<x1, x2, x3, x4>>]
           add == A(a1, a2, a3, a4)
<1>1. \A j \in 1..4, q \in {1} \cup Powers :
        [add EXCEPT !.v[j] = Shortened(@, q)] \in WithLess(add)
  BY DEF WithLess
<1>2. \A q \in {1} \cup Powers :
        /\ [add EXCEPT !.v[1] = Shortened(@, q)] = A(Shortened(a1, q), a2, a3, a4)
        /\ [add EXCEPT !.v[3] = Shortened(@, q)] = A(a1, a2, Shortened(a3, q), a4)
        /\ [add EXCEPT !.v[4] = Shortened(@, q)] = A(a1, a2, a3, Shortened(a4, q))
  OBVIOUS
<1>3. Shortened(a1, 1) = a1
  BY DEF Shortened
<1> HIDE DEF A
<1>4. /\ A(Shortened(a1, p), a2, a3, a4) \in WithLess(add)
      /\ A(a1, a2, Shortened(a3, p), a4) \in WithLess(add)
      /\ A(a1, a2, a3, Shortened(a4, p)) \in WithLess(add)
  BY <1>1, <1>2
<1>5. A(a1, a2, a3, a4) \in WithLess(add)
  <2>1. A(Shortened(a1, 1), a2, a3, a4) \in WithLess(add)
    BY <1>1, <1>2
  <2> QED BY <1>3, <2>1
<1> QED BY <1>4, <1>5 DEF A

\* What the parsers read in the first part of a line is what they read in the
\* line, but for the digits of one value.
LEMMA HeadParsed ==
  ASSUME NEW line \in Datagram, NEW h \in Heads(line), NEW a \in Parsed(h)
  PROVE  \E add \in Parsed(line) : a \in WithLess(add)
<1> DEFINE l == line.body
           g == h.body
<1>1. l \in Seq(Token) /\ Len(l) \in Nat /\ DOMAIN l = 1..Len(l)
  BY LenProperties DEF Datagram
<1>2. PICK n \in 1..Len(l) : \E rest \in AnyCut(l[n]) : h = CutAt(line, n, rest)
  BY <1>1 DEF Heads
<1>3. /\ h.lead = line.lead /\ Len(g) \in Nat /\ Len(g) <= n
      /\ \A i \in 1..(n - 1) : g[i] = l[i]
  <2>1. PICK rest \in AnyCut(l[n]) : h = CutAt(line, n, rest)
    BY <1>2
  <2> QED BY <2>1, CutTokens
<1>11. Len(g) \in Nat /\ n \in Nat /\ Len(g) <= n
  BY <1>1, <1>3
<1>10. ASSUME Len(g) = n, g[n].isInt
       PROVE  /\ l[n].isInt
              /\ \E p \in {1} \cup Powers : g[n].int = Shortened(l[n].int, p)
  <2>1. PICK rest \in AnyCut(l[n]) : h = CutAt(line, n, rest)
    BY <1>2
  <2> QED BY <1>10, <2>1, CutTokens
<1>4. \A i \in 1..Len(l) : l[i] \in Token /\ l[i].int \in Int
  <2>1. \A i \in 1..Len(l) : l[i] \in Token
    BY <1>1, ElementOfSeq
  <2> QED BY <2>1 DEF Token
<1>5. n \in Nat /\ n <= Len(l)
  BY <1>1, <1>2
<1> HIDE DEF l, g
<1>6. CASE line.lead \in {"R", "B"}
  <2>1. a \in processOneValSensor(h) /\ Parsed(line) = processOneValSensor(line)
    BY <1>3, <1>6 DEF Parsed
  <2>2. /\ Len(g) >= 2 /\ g[2].isInt
        /\ a = [sensor |-> line.lead, id |-> g[1].text, subId |-> NoSubId,
                v |-> <<g[2].int, 0, 0, 0>>]
    BY <1>3, <2>1 DEF processOneValSensor, g
  <2>3. g[1] = l[1] /\ Len(l) >= 2 /\ n >= 2 /\ l[2].int \in Int
    BY <1>3, <1>4, <1>5, <2>2
  <2>4. l[2].isInt /\ \E p \in {1} \cup Powers : g[2].int = Shortened(l[2].int, p)
    <3>1. CASE n = 2
      <4>1. Len(g) = n
        <5>1. Len(g) >= n
          BY <2>2, <3>1
        <5> QED BY <1>11, <5>1
      <4>2. g[n].isInt
        BY <2>2, <3>1
      <4> QED BY <1>10, <3>1, <4>1, <4>2
    <3>2. CASE n > 2
      <4>1. g[2] = l[2]
        BY <1>3, <1>5, <3>2
      <4> QED BY <2>2, <2>3, <4>1 DEF Shortened
    <3>3. n = 2 \/ n > 2
      BY <1>5, <2>3
    <3> QED BY <3>1, <3>2, <3>3
  <2> DEFINE add == [sensor |-> line.lead, id |-> l[1].text, subId |-> NoSubId,
                     v |-> <<l[2].int, 0, 0, 0>>]
  <2>5. add \in Parsed(line)
    BY <2>1, <2>3, <2>4 DEF processOneValSensor, l
  <2>6. PICK p \in {1} \cup Powers : g[2].int = Shortened(l[2].int, p)
    BY <2>4
  <2>7. a \in WithLess(add)
    <3>1. a = [sensor |-> line.lead, id |-> l[1].text, subId |-> NoSubId,
               v |-> <<Shortened(l[2].int, p), 0, 0, 0>>]
      BY <2>2, <2>3, <2>6
    <3>2. 0 \in Int
      OBVIOUS
    <3> QED BY <2>3, <3>1, <3>2, LessAt
  <2> QED BY <2>5, <2>7
<1>7. CASE line.lead \in {"G", "O", "M"}
  <2>1. a \in process9DData(h) /\ Parsed(line) = process9DData(line)
    BY <1>3, <1>7 DEF Parsed
  <2>2. /\ Len(g) >= 4 /\ g[2].isInt /\ g[3].isInt /\ g[4].isInt
        /\ a = [sensor |-> line.lead, id |-> g[1].text, subId |-> NoSubId,
                v |-> <<g[2].int, g[3].int, g[4].int, 0>>]
    BY <1>3, <2>1 DEF process9DData, g
  <2>3. /\ g[1] = l[1] /\ g[2] = l[2] /\ g[3] = l[3] /\ Len(l) >= 4 /\ n >= 4
        /\ l[2].int \in Int /\ l[3].int \in Int /\ l[4].int \in Int
    BY <1>3, <1>4, <1>5, <2>2
  <2>4. l[4].isInt /\ \E p \in {1} \cup Powers : g[4].int = Shortened(l[4].int, p)
    <3>1. CASE n = 4
      <4>1. Len(g) = n
        <5>1. Len(g) >= n
          BY <2>2, <3>1
        <5> QED BY <1>11, <5>1
      <4>2. g[n].isInt
        BY <2>2, <3>1
      <4> QED BY <1>10, <3>1, <4>1, <4>2
    <3>2. CASE n > 4
      <4>1. g[4] = l[4]
        BY <1>3, <1>5, <3>2
      <4> QED BY <2>2, <2>3, <4>1 DEF Shortened
    <3>3. n = 4 \/ n > 4
      BY <1>5, <2>3
    <3> QED BY <3>1, <3>2, <3>3
  <2> DEFINE add == [sensor |-> line.lead, id |-> l[1].text, subId |-> NoSubId,
                     v |-> <<l[2].int, l[3].int, l[4].int, 0>>]
  <2>5. add \in Parsed(line)
    <3>1. \A i \in 2..4 : l[i].isInt
      <4>1. \A i \in 2..4 : i = 2 \/ i = 3 \/ i = 4
        OBVIOUS
      <4> QED BY <2>2, <2>3, <2>4, <4>1
    <3> QED BY <2>1, <2>3, <3>1 DEF process9DData, l
  <2>6. PICK p \in {1} \cup Powers : g[4].int = Shortened(l[4].int, p)
    BY <2>4
  <2>7. a \in WithLess(add)
    <3>1. a = [sensor |-> line.lead, id |-> l[1].text, subId |-> NoSubId,
               v |-> <<l[2].int, l[3].int, Shortened(l[4].int, p), 0>>]
      BY <2>2, <2>3, <2>6
    <3>2. 0 \in Int
      OBVIOUS
    <3> QED BY <2>3, <3>1, <3>2, LessAt
  <2> QED BY <2>5, <2>7
<1>8. CASE line.lead = "C"
  <2>1. a \in processCamData(h) /\ Parsed(line) = processCamData(line)
    BY <1>3, <1>8 DEF Parsed
  <2>2. /\ Len(g) >= 7 /\ g[2].text \in TwoCharTypes
        /\ g[4].isInt /\ g[5].isInt /\ g[6].isInt /\ g[7].isInt
        /\ a = [sensor |-> "C", id |-> g[3].text, subId |-> g[1].text,
                v |-> <<g[4].int, g[5].int, g[6].int, g[7].int>>]
    BY <2>1 DEF processCamData, g
  <2>3. /\ g[1] = l[1] /\ g[2] = l[2] /\ g[3] = l[3] /\ g[4] = l[4] /\ g[5] = l[5]
        /\ g[6] = l[6] /\ Len(l) >= 7 /\ n >= 7
        /\ l[4].int \in Int /\ l[5].int \in Int /\ l[6].int \in Int /\ l[7].int \in Int
    BY <1>3, <1>4, <1>5, <2>2
  <2>4. l[7].isInt /\ \E p \in {1} \cup Powers : g[7].int = Shortened(l[7].int, p)
    <3>1. CASE n = 7
      <4>1. Len(g) = n
        <5>1. Len(g) >= n
          BY <2>2, <3>1
        <5> QED BY <1>11, <5>1
      <4>2. g[n].isInt
        BY <2>2, <3>1
      <4> QED BY <1>10, <3>1, <4>1, <4>2
    <3>2. CASE n > 7
      <4>1. g[7] = l[7]
        BY <1>3, <1>5, <3>2
      <4> QED BY <2>2, <2>3, <4>1 DEF Shortened
    <3>3. n = 7 \/ n > 7
      BY <1>5, <2>3
    <3> QED BY <3>1, <3>2, <3>3
  <2> DEFINE add == [sensor |-> "C", id |-> l[3].text, subId |-> l[1].text,
                     v |-> <<l[4].int, l[5].int, l[6].int, l[7].int>>]
  <2>5. add \in Parsed(line)
    <3>1. \A i \in 4..7 : l[i].isInt
      <4>1. \A i \in 4..7 : i = 4 \/ i = 5 \/ i = 6 \/ i = 7
        OBVIOUS
      <4> QED BY <2>2, <2>3, <2>4, <4>1
    <3> QED BY <2>1, <2>2, <2>3, <3>1 DEF processCamData, l
  <2>6. PICK p \in {1} \cup Powers : g[7].int = Shortened(l[7].int, p)
    BY <2>4
  <2>7. a \in WithLess(add)
    <3>1. a = [sensor |-> "C", id |-> l[3].text, subId |-> l[1].text,
               v |-> <<l[4].int, l[5].int, l[6].int, Shortened(l[7].int, p)>>]
      BY <2>2, <2>3, <2>6
    <3>2. 0 \in Int
      OBVIOUS
    <3> QED BY <2>3, <3>1, <3>2, LessAt
  <2> QED BY <2>5, <2>7
<1>9. h.lead \in Sensors
  BY Unnamed
<1> QED BY <1>3, <1>6, <1>7, <1>8, <1>9 DEF Sensors

\* A line without its last character is a first part of it.
LEMMA ShorterHead ==
  ASSUME NEW line \in Datagram, Len(line.body) >= 2
  PROVE  Shorter(line) \subseteq Heads(line)
<1> DEFINE n == Len(line.body)
<1>1. n \in Nat /\ n \in DOMAIN line.body
  BY LenProperties DEF Datagram
<1>2. LastCut(line.body[n]) \subseteq AnyCut(line.body[n])
  BY DEF LastCut, AnyCut, Powers
<1> QED BY <1>1, <1>2 DEF Shorter, Heads

\* What the parsers read in a text of a port is a line of its board, whole if the
\* port hands over lines.
LEMMA LineParsed ==
  ASSUME NEW b \in Boards, NEW text \in Lines[b], NEW a \in Parsed(text)
  PROVE  \E line \in Prints[b] : \E add \in Parsed(line) :
           IF Tty[b] = "lines" THEN a = add ELSE a \in WithLess(add)
<1>1. PICK line \in Prints[b] : text \in HandedFirst(b, line)
  BY EndsDropped DEF Lines
<1>2. line \in Datagram /\ Len(line.body) >= 2
  BY <1>1, PrintsAssumption
<1>3. text \in Handed(b, line) \ {EndOfLine}
  <2>1. text # EndOfLine /\ text \notin Tails(Handed(b, line))
    BY EndsDropped, TailsDropped
  <2> QED BY <1>1, <2>1 DEF HandedFirst
<1>4. CASE Tty[b] = "lines"
  BY <1>1, <1>3, <1>4 DEF Handed
<1>5. CASE Tty[b] # "lines"
  <2>1. text \in Heads(line)
    <3>1. CASE Tty[b] = "icrnl"
      BY <1>2, <1>3, <3>1, ShorterHead DEF Handed
    <3>2. CASE Tty[b] = "raw"
      <4>1. text \notin Tails(Heads(line))
        BY TailsDropped
      <4> QED BY <1>3, <3>2, <4>1 DEF Handed
    <3> QED BY <1>5, <3>1, <3>2, PrintsAssumption DEF Settings
  <2> QED BY <1>1, <1>2, <1>5, <2>1, HeadParsed
<1> QED BY <1>4, <1>5

\* A scaled reading of what is left of a number is on the number's side of zero.
LEMMA TowardToo ==
  ASSUME NEW v \in Int, NEW w, TowardZero(w, v),
         NEW i \in Int, Near(i, w)
  PROVE  Toward(i, v)
BY DEF Near, Toward, TowardZero

\* What is stored of a message of 9dof_server is three readings of a line.
LEMMA NineStored ==
  ASSUME SensorSubId = <<>> \/ ~SensorSubId[1].isInt,
         NEW m \in NineMessages, NEW a \in Parsed(m)
  PROVE  \E line \in NinePrints :
           /\ line.fields = 10
           /\ a.id = SensorId.text
           /\ \A i \in 1..3 :
                LET r == FirstOf(a.sensor) + i - 1 IN
                IF r = 9 /\ NineTty # "lines"
                THEN Toward(a.v[i], line.v[r])
                ELSE Near(a.v[i], line.v[r])
<1>1. PICK t \in NineTexts, lead \in {"G", "O", "M"} :
        t.fields = 10 /\ m \in setAndSend(lead, t, FirstOf(lead))
  BY NineMessage
<1>2. PICK line \in NinePrints : \E u \in NineHanded(line) : t \in Fewer(u)
  BY DEF NineTexts, NineHandedFirst
<1>3. PICK u \in NineHanded(line) : t \in Fewer(u)
  BY <1>2
<1>4. /\ u \in NineLine /\ u.fields <= line.fields
      /\ \A i \in 1..8 : u.v[i] = line.v[i]
      /\ TowardZero(u.v[9], line.v[9])
      /\ NineTty = "lines" => u.v = line.v
  BY NineTextOf
<1>5. t \in NineLine /\ t.v = u.v /\ t.fields \in 0..u.fields
  BY <1>3, <1>4, FewerType
<1>6. line.fields = 10 /\ line.v \in [1..9 -> Int] /\ u.v \in [1..9 -> Int]
  <2>1. line \in NineLine
    BY NineAssumption
  <2>2. line.v \in [1..9 -> Int] /\ u.v \in [1..9 -> Int]
    BY <1>4, <2>1 DEF NineLine
  <2>5. line.fields \in 0..10 /\ u.fields \in 0..10
    BY <1>4, <2>1 DEF NineLine
  <2>3. u.fields <= line.fields /\ t.fields \in 0..u.fields /\ t.fields = 10
    BY <1>1, <1>4, <1>5
  <2>4. line.fields = 10
    BY <2>3, <2>5
  <2> QED BY <2>2, <2>4
<1>7. /\ a.id = SensorId.text /\ FirstOf(a.sensor) \in {1, 4, 7}
      /\ \A i \in 1..3 : a.v[i] \in Int /\ Near(a.v[i], t.v[FirstOf(a.sensor) + i - 1])
  BY <1>1, <1>5, NineParsed
<1> DEFINE f == FirstOf(a.sensor)
<1>8. ASSUME NEW i \in 1..3
      PROVE  IF f + i - 1 = 9 /\ NineTty # "lines"
             THEN Toward(a.v[i], line.v[f + i - 1])
             ELSE Near(a.v[i], line.v[f + i - 1])
  <2> DEFINE r == f + i - 1
  <2>1. r \in 1..9 /\ a.v[i] \in Int /\ Near(a.v[i], u.v[r])
    BY <1>5, <1>7
  <2> HIDE DEF r
  <2>2. CASE r = 9 /\ NineTty # "lines"
    <3>1. line.v[9] \in Int /\ u.v[9] \in Int
      <4>1. 9 \in 1..9
        OBVIOUS
      <4> QED BY <1>6, <4>1
    <3>2. Toward(a.v[i], line.v[9])
      BY <1>4, <2>1, <2>2, <3>1, TowardToo
    <3> QED BY <2>2, <3>2 DEF r
  <2>3. CASE ~(r = 9 /\ NineTty # "lines")
    <3>1. u.v[r] = line.v[r]
      <4>1. r \in 1..8 \/ r = 9
        BY <2>1
      <4> QED BY <1>4, <2>3, <4>1
    <3> QED BY <2>1, <2>3, <3>1 DEF r
  <2> QED BY <2>2, <2>3
<1> QED BY <1>6, <1>7, <1>8

\* Every step stores only what a board has measured.
LEMMA StoredNext ==
  ASSUME SensorSubId = <<>> \/ ~SensorSubId[1].isInt
  PROVE  Sources /\ StoredIsMeasured /\ [Next]_vars => StoredIsMeasured'
<1> SUFFICES ASSUME Sources, StoredIsMeasured, [Next]_vars
             PROVE  StoredIsMeasured'
  OBVIOUS
<1> USE DEF server, nineServer
<1>1. CASE UNCHANGED stored
  BY <1>1 DEF StoredIsMeasured
<1>2. CASE Receive
  <2> SUFFICES ASSUME ~UNCHANGED stored PROVE StoredIsMeasured'
    BY <1>1
  <2>1. sock # <<>> /\ sock \in Seq(Posts)
    BY <1>2 DEF Receive, Sources
  <2>2. 1 \in DOMAIN sock /\ Head(sock) = sock[1]
    BY <2>1, EmptySeq, LenProperties
  <2> DEFINE d == sock[1]
  <2>3. PICK a \in Parsed(d.text) : stored' = [from |-> d.from, add |-> a]
    BY <1>2, <2>2 DEF Receive
  <2>4. stored'.from = d.from /\ stored'.add = a
    BY <2>3
  <2>5. \/ d.from \in Boards /\ d.text \in Lines[d.from]
        \/ d.from = "9dof" /\ d.text \in NineMessages
    BY <2>2, SourceOf
  <2> HIDE DEF d
  <2>6. CASE d.from \in Boards /\ d.text \in Lines[d.from]
    <3>1. d.from # "9dof"
      BY <2>6, BoardsAssumption
    <3>2. \E line \in Prints[d.from] : \E add \in Parsed(line) :
            IF Tty[d.from] = "lines" THEN a = add ELSE a \in WithLess(add)
      BY <2>3, <2>6, LineParsed
    <3> QED BY <2>4, <3>1, <3>2 DEF StoredIsMeasured
  <2>7. CASE d.from = "9dof" /\ d.text \in NineMessages
    <3>1. \E line \in NinePrints :
            /\ line.fields = 10
            /\ a.id = SensorId.text
            /\ \A i \in 1..3 :
                 LET r == FirstOf(a.sensor) + i - 1 IN
                 IF r = 9 /\ NineTty # "lines"
                 THEN Toward(a.v[i], line.v[r])
                 ELSE Near(a.v[i], line.v[r])
      BY <2>3, <2>7, NineStored
    <3> QED BY <2>4, <2>7, <3>1 DEF StoredIsMeasured
  <2> QED BY <2>5, <2>6, <2>7
<1>3. ASSUME NEW b \in Boards, Unplug(b) \/ Thread(b) \/ SendFail(b)
      PROVE  UNCHANGED stored
  BY <1>3 DEF Unplug, Thread, Read, ReadNothing, ReadError, Send, Sent, SendFail
<1>4. CASE Start \/ NineRead \/ NineSend \/ NineFail \/ NineStart \/ UNCHANGED vars
  BY <1>1, <1>4 DEF Start, NineRead, NineSend, NineSent, NineFail, NineStart, vars
<1> QED BY <1>1, <1>2, <1>3, <1>4 DEF Next

\* What the database stores is what a board measured, but for the digits that the
\* last value of a line may lose on a port that is not set to hand over whole lines,
\* whatever is lost, cut, unplugged or restarted, if the subId of 9dof_server's -i
\* does not read as a number: else the parser takes it for the first of the three
\* values, as the run of that option shows.
THEOREM MeasuredStored ==
  ASSUME SensorSubId = <<>> \/ ~SensorSubId[1].isInt
  PROVE  Spec => []StoredIsMeasured
<1>1. Init => StoredIsMeasured
  BY DEF Init, StoredIsMeasured
<1> QED BY <1>1, ServersInvariant, StoredNext, PTL DEF Spec

=============================================================================
