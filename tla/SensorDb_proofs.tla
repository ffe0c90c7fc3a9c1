--------------------------- MODULE SensorDb_proofs ---------------------------
EXTENDS SensorDb, SequenceTheorems, WellFoundedInduction, TLAPS

USE DEF clocks

(***************************************************************************)
(* Theorems about the database process, for every set of datagrams and      *)
(* queries, every time to live and every bound.                             *)
(***************************************************************************)

\* Every non-empty set of naturals has a least element.
LEMMA LeastNat ==
  ASSUME NEW S, S \subseteq Nat, S # {}
  PROVE  \E n \in S : \A m \in S : n <= m
<1> DEFINE R == OpToRel(<, Nat)
<1>0. \A m, n \in Nat : m < n => <<m, n>> \in R
  <2> SUFFICES ASSUME NEW m \in Nat, NEW n \in Nat, m < n PROVE <<m,n>> \in R
    OBVIOUS
  <2>1. <<m, n>> \in Nat \X Nat OBVIOUS
  <2>2. <<m, n>>[1] < <<m, n>>[2] OBVIOUS
  <2> QED BY <2>1, <2>2 DEF OpToRel
<1> HIDE DEF R
<1>1. \E n \in S : \A m \in S : ~(<<m, n>> \in R)
  BY WFMin, NatLessThanWellFounded, Zenon DEF R
<1>2. PICK n \in S : \A m \in S : ~(<<m, n>> \in R)
  BY <1>1
<1>3. ASSUME NEW m \in S PROVE n <= m
  <2>1. m \in Nat /\ n \in Nat
    BY <1>2, <1>3
  <2>2. ~(m < n)
    BY <1>0, <1>2, <1>3, <2>1, Zenon
  <2> QED BY <2>1, <2>2
<1> QED BY <1>2, <1>3

\* What the parsers pass on is always well-typed arguments of sensorRecAdd.
LEMMA AddsType ==
  ASSUME NEW a \in Adds PROVE a.sensor \in Sensors /\ a.v \in Vals
<1>0. PICK d \in Datagrams : a \in Parsed(d)
  BY DEF Adds
<1> DEFINE b == d.body
<1>1. d \in Datagram
  BY DatagramsAssumption
<1>2. Len(b) \in Nat /\ \A i \in 1..Len(b) : b[i].int \in Int
  <2>1. b \in Seq(Token)
    BY <1>1 DEF Datagram
  <2>2. \A i \in 1..Len(b) : b[i] \in Token
    BY <2>1, ElementOfSeq
  <2> QED BY <2>1, <2>2, LenProperties DEF Token
<1> HIDE DEF b
<1>3. CASE d.lead = "C"
  <2>1. a \in processCamData(d)
    BY <1>0, <1>3 DEF Parsed
  <2>2. /\ Len(b) >= 7
        /\ a = [sensor |-> "C", id |-> b[3].text, subId |-> b[1].text,
                v |-> <<b[4].int, b[5].int, b[6].int, b[7].int>>]
    BY <2>1 DEF processCamData, b
  <2> QED BY <1>2, <2>2 DEF Vals, Sensors
<1>4. CASE d.lead \in {"R", "B"}
  <2>1. a \in processOneValSensor(d)
    BY <1>0, <1>4 DEF Parsed
  <2>2. /\ Len(b) >= 2
        /\ a = [sensor |-> d.lead, id |-> b[1].text, subId |-> NoSubId,
                v |-> <<b[2].int, 0, 0, 0>>]
    BY <2>1 DEF processOneValSensor, b
  <2>3. a.sensor \in Sensors
    BY <1>4, <2>2 DEF Sensors
  <2>4. b[2].int \in Int
    <3>1. 2 \in 1..Len(b)
      BY <1>2, <2>2
    <3> QED BY <1>2, <3>1, Zenon
  <2>5. a.v = <<b[2].int, 0, 0, 0>>
    BY <2>2
  <2> QED BY <2>3, <2>4, <2>5 DEF Vals
<1>5. CASE d.lead \in {"G", "O", "M"}
  <2>1. a \in process9DData(d)
    BY <1>0, <1>5 DEF Parsed
  <2>2. /\ Len(b) >= 4
        /\ a = [sensor |-> d.lead, id |-> b[1].text, subId |-> NoSubId,
                v |-> <<b[2].int, b[3].int, b[4].int, 0>>]
    BY <2>1 DEF process9DData, b
  <2>3. a.sensor \in Sensors
    BY <1>5, <2>2 DEF Sensors
  <2>4. b[2].int \in Int /\ b[3].int \in Int /\ b[4].int \in Int
    <3>1. 2 \in 1..Len(b) /\ 3 \in 1..Len(b) /\ 4 \in 1..Len(b)
      BY <1>2, <2>2
    <3> QED BY <1>2, <3>1, Zenon
  <2>5. a.v = <<b[2].int, b[3].int, b[4].int, 0>>
    BY <2>2
  <2> QED BY <2>3, <2>4, <2>5 DEF Vals
<1>6. CASE d.lead \notin {"C", "R", "B", "G", "O", "M"}
  BY <1>0, <1>6 DEF Parsed
<1> QED BY <1>3, <1>4, <1>5, <1>6

\* What newSensorRecord copies is four integers.
LEMMA RawDataType ==
  ASSUME NEW s, NEW v \in Vals PROVE RawData(s, v) \in Vals
BY DEF RawData, Vals, Zeros

\* The names of accepted readings are names of lists.
LEMMA KeyType ==
  ASSUME NEW a \in Adds
  PROVE  /\ a.sensor \in Sensors /\ a.id \in Ids /\ a.subId \in SubIds
         /\ KeyOf(a) \in Keys
         /\ <<a.sensor, a.id>> \in Sensors \X Ids
BY AddsType DEF KeyOf, Keys, Ids, SubIds

\* The cut of sensorRecPruneAll: a prefix of the list without any record older
\* than its time to live, and if anything is cut, the record after the prefix
\* is too old.
LEMMA KeptIsPrefix ==
  ASSUME NEW S, NEW list \in Seq(S), NEW t, NEW ttl
  PROVE  \E n \in 0..Len(list) :
           /\ Kept(list, t, ttl) = SubSeq(list, 1, n)
           /\ \A i \in 1..n : ~Expired(list[i], t, ttl)
           /\ n < Len(list) => Expired(list[n + 1], t, ttl)
<1> DEFINE E == {i \in 1..Len(list) : Expired(list[i], t, ttl)}
           Least(i) == i \in E /\ \A j \in 1..(i - 1) : ~Expired(list[j], t, ttl)
<1>0. DOMAIN list = 1..Len(list) /\ Len(list) \in Nat
  BY LenProperties
<1>1. CASE E = {}
  <2>1. Kept(list, t, ttl) = list
    BY <1>0, <1>1, Zenon DEF Kept
  <2>2. list = SubSeq(list, 1, Len(list))
    BY SubSeqFull
  <2>3. Len(list) \in 0..Len(list) /\ ~(Len(list) < Len(list))
    BY <1>0
  <2>4. \A i \in 1..Len(list) : ~Expired(list[i], t, ttl)
    BY <1>1
  <2> QED BY <2>1, <2>2, <2>3, <2>4, Zenon
<1>2. CASE E # {}
  <2>1. E \subseteq Nat
    OBVIOUS
  <2>2. PICK f \in E : \A m \in E : f <= m
    BY <2>1, <1>2, LeastNat
  <2>3. \A j \in 1..(f - 1) : ~Expired(list[j], t, ttl)
    BY <2>2, <1>0
  <2>4. \E i \in DOMAIN list : Least(i)
    BY <2>2, <2>3, <1>0, Zenon
  <2> DEFINE first == CHOOSE i \in DOMAIN list : Least(i)
  <2>5. first \in 1..Len(list) /\ Least(first)
    BY <2>4, <1>0, Zenon
  <2>6. Kept(list, t, ttl) = SubSeq(list, 1, first - 1)
    <3>1. \E i \in DOMAIN list : Expired(list[i], t, ttl)
      BY <1>0, <1>2, Zenon
    <3>2. first = CHOOSE i \in DOMAIN list :
                      /\ Expired(list[i], t, ttl)
                      /\ \A j \in 1..(i - 1) : ~Expired(list[j], t, ttl)
      <4>1. \A i \in DOMAIN list : Least(i) <=>
                      /\ Expired(list[i], t, ttl)
                      /\ \A j \in 1..(i - 1) : ~Expired(list[j], t, ttl)
        BY <1>0, Zenon
      <4> QED BY <4>1, Zenon
    <3> HIDE DEF first
    <3> QED BY <3>1, <3>2, Zenon DEF Kept
  <2> HIDE DEF first
  <2>7. first - 1 \in 0..Len(list) /\ (first - 1) + 1 = first
    BY <2>5, <1>0
  <2>8. Expired(list[(first - 1) + 1], t, ttl)
    BY <2>5, <2>7, Zenon
  <2> QED BY <2>5, <2>6, <2>7, <2>8, Zenon
<1> QED BY <1>1, <1>2

\* Pruning a list of records leaves a list of records.
LEMMA KeptType ==
  ASSUME NEW S, NEW list \in Seq(S), NEW t, NEW ttl
  PROVE  Kept(list, t, ttl) \in Seq(S)
<1>1. PICK n \in 0..Len(list) : Kept(list, t, ttl) = SubSeq(list, 1, n)
  BY KeptIsPrefix, Zenon
<1>2. \A i \in 1..n : list[i] \in S
  BY ElementOfSeq, LenProperties
<1>3. SubSeq(list, 1, n) \in Seq(S)
  BY <1>2, SubSeqProperties
<1> QED BY <1>1, <1>3

\* Induction, over a set of naturals.
LEMMA SetInduction ==
  ASSUME NEW S \in SUBSET Nat, 0 \in S, \A n \in S : n + 1 \in S
  PROVE  S = Nat
<1> SUFFICES ASSUME Nat \ S # {} PROVE FALSE
  OBVIOUS
<1>1. PICK n \in Nat \ S : \A m \in Nat \ S : n <= m
  BY LeastNat
<1>2. n - 1 \in Nat /\ ~(n <= n - 1) /\ (n - 1) + 1 = n
  BY <1>1
<1>3. n - 1 \in S
  BY <1>1, <1>2
<1> QED BY <1>1, <1>2, <1>3

\* There is a function that is the running sum of m integers.
LEMMA RunningSum ==
  ASSUME NEW x, NEW m \in Nat, \A i \in 1..m : x[i] \in Int
  PROVE  \E f \in [0..m -> Int] :
           f = [n \in 0..m |-> IF n = 0 THEN 0 ELSE f[n - 1] + x[n]]
<1> DEFINE IsSum(f, n) ==
             \A i \in 0..n : f[i] = IF i = 0 THEN 0 ELSE f[i - 1] + x[i]
           Exists(n) == \E f \in [0..n -> Int] : IsSum(f, n)
           S == {n \in Nat : n <= m => Exists(n)}
<1>1. Exists(0)
  <2>1. [i \in 0..0 |-> 0] \in [0..0 -> Int] /\ IsSum([i \in 0..0 |-> 0], 0)
    OBVIOUS
  <2> QED BY <2>1
<1>2. ASSUME NEW n \in Nat, n + 1 <= m, Exists(n) PROVE Exists(n + 1)
  <2>1. PICK f \in [0..n -> Int] : IsSum(f, n)
    BY <1>2
  <2> DEFINE g == [i \in 0..(n + 1) |-> IF i <= n THEN f[i] ELSE f[n] + x[n + 1]]
  <2>2. f[n] \in Int /\ x[n + 1] \in Int
    BY <1>2, <2>1
  <2>3. g \in [0..(n + 1) -> Int]
    BY <1>2, <2>1, <2>2
  <2>4. ASSUME NEW i \in 0..(n + 1)
        PROVE  g[i] = IF i = 0 THEN 0 ELSE g[i - 1] + x[i]
    <3>1. CASE i <= n
      <4>1. g[i] = f[i] /\ (i # 0 => g[i - 1] = f[i - 1])
        BY <3>1
      <4>2. f[i] = IF i = 0 THEN 0 ELSE f[i - 1] + x[i]
        BY <2>1, <3>1
      <4> QED BY <4>1, <4>2
    <3>2. CASE i = n + 1
      BY <3>2
    <3> QED BY <3>1, <3>2
  <2> QED BY <2>3, <2>4
<1> HIDE DEF Exists
<1>3. 0 \in S /\ \A n \in S : n + 1 \in S
  BY <1>1, <1>2
<1> HIDE DEF S
<1>4. S = Nat
  BY <1>3, SetInduction DEF S
<1>5. PICK f \in [0..m -> Int] : IsSum(f, m)
  BY <1>4 DEF S, Exists
<1>6. f = [n \in 0..m |-> IF n = 0 THEN 0 ELSE f[n - 1] + x[n]]
  BY <1>5
<1> QED BY <1>6

\* Sum is the last of the running sums.
LEMMA SumDef ==
  ASSUME NEW values, NEW c, Len(values) \in Nat,
         \A i \in 1..Len(values) : values[i][c] \in Int
  PROVE  \E f \in [0..Len(values) -> Int] :
           /\ f[0] = 0
           /\ \A n \in 1..Len(values) : f[n] = f[n - 1] + values[n][c]
           /\ Sum(values, c) = f[Len(values)]
<1> DEFINE m == Len(values)
           x == [i \in 1..m |-> values[i][c]]
           Def(f) == f = [n \in 0..m |-> IF n = 0 THEN 0 ELSE f[n - 1] + values[n][c]]
           sum == CHOOSE f : Def(f)
<1>1. PICK g \in [0..m -> Int] : g = [n \in 0..m |-> IF n = 0 THEN 0 ELSE g[n - 1] + x[n]]
  BY RunningSum
<1>2. Def(g)
  <2>1. \A n \in 1..m : x[n] = values[n][c]
    OBVIOUS
  <2>2. \A n \in 0..m : g[n] = IF n = 0 THEN 0 ELSE g[n - 1] + values[n][c]
    <3> HIDE DEF x, m
    <3>1. ASSUME NEW n \in 0..m
          PROVE  g[n] = IF n = 0 THEN 0 ELSE g[n - 1] + x[n]
      BY <1>1
    <3>2. \A n \in 0..m : n # 0 => n \in 1..m
      BY DEF m
    <3> QED BY <2>1, <3>1, <3>2
  <2>3. g = [n \in 0..m |-> g[n]]
    BY <1>1
  <2> QED BY <2>2, <2>3
<1>3. Def(sum)
  <2> HIDE DEF Def
  <2> QED BY <1>2, Zenon
<1>4. Sum(values, c) = sum[m]
  BY Zenon DEF Sum
<1> HIDE DEF sum
<1> DEFINE S == {n \in Nat : n <= m => sum[n] \in Int}
<1>5. sum[0] = 0 /\ \A n \in 1..m : sum[n] = sum[n - 1] + values[n][c]
  BY <1>3
<1>6. 0 \in S
  BY <1>5
<1>7. ASSUME NEW n \in S PROVE n + 1 \in S
  BY <1>5, <1>7
<1> HIDE DEF S
<1>8. S = Nat
  BY <1>6, <1>7, SetInduction DEF S
<1>9. \A n \in 0..m : sum[n] \in Int
  BY <1>8 DEF S
<1>10. sum = [n \in 0..m |-> sum[n]]
  BY <1>3
<1>11. sum \in [0..m -> Int]
  BY <1>9, <1>10
<1> QED BY <1>4, <1>5, <1>11

\* The sums of a list of values are values.
LEMMA SumsType ==
  ASSUME NEW values, Len(values) \in Nat, \A i \in 1..Len(values) : values[i] \in Vals
  PROVE  Sums(values) \in Vals /\ \A c \in 1..4 : Sum(values, c) \in Int
<1>1. ASSUME NEW c \in 1..4 PROVE Sum(values, c) \in Int
  <2>1. \A i \in 1..Len(values) : values[i][c] \in Int
    BY DEF Vals
  <2>2. PICK f \in [0..Len(values) -> Int] : Sum(values, c) = f[Len(values)]
    BY <2>1, SumDef
  <2> QED BY <2>2
<1> QED BY <1>1 DEF Sums, Vals

\* The rows that one list adds to the Ret arrays.
LEMMA RowsType ==
  ASSUME TypeOK, NEW k \in Keys, NEW type
  PROVE  Rows(k, type) \in Seq(RetRow)
<1> DEFINE list == data[k]
           row(p) == [id |-> k[2], subId |-> k[3], ref |-> p, sums |-> Zeros, count |-> 0]
           raws == [i \in 1..Len(list) |-> list[i].raw]
           avg == [id |-> k[2], subId |-> k[3], ref |-> NoRef,
                   sums |-> Sums(raws), count |-> Len(list)]
<1>1. list \in Seq(Record) /\ k[2] \in Ids /\ k[3] \in SubIds
  BY DEF TypeOK, Keys
<1>2. Len(list) \in Nat /\ \A i \in 1..Len(list) : list[i].serial \in Nat /\ list[i].raw \in Vals
  <2>1. \A i \in 1..Len(list) : list[i] \in Record
    BY <1>1, ElementOfSeq
  <2> QED BY <1>1, <2>1, LenProperties DEF Record
<1>3. list # <<>> => 1 \in 1..Len(list) /\ Len(list) \in 1..Len(list)
  BY <1>1, EmptySeq
<1> HIDE DEF list
<1>4. \A p \in Nat : row(p) \in RetRow
  BY <1>1 DEF RetRow, Zeros, Vals
<1>5. avg \in RetRow
  <2>1. Len(raws) = Len(list) /\ \A i \in 1..Len(list) : raws[i] \in Vals
    BY <1>2
  <2>2. Sums(raws) \in Vals
    BY <1>2, <2>1, SumsType
  <2> HIDE DEF raws
  <2> QED BY <1>1, <1>2, <2>2 DEF RetRow, NoRef
<1> HIDE DEF avg, row
<1>6. <<avg>> \in Seq(RetRow) /\ <<>> \in Seq(RetRow)
  BY <1>5
<1>7. list # <<>> => /\ <<row(list[1].serial)>> \in Seq(RetRow)
                     /\ <<row(list[Len(list)].serial)>> \in Seq(RetRow)
  BY <1>2, <1>3, <1>4
<1>8. [i \in 1..Len(list) |-> row(list[i].serial)] \in Seq(RetRow)
  <2>1. \A i \in 1..Len(list) : row(list[i].serial) \in RetRow
    BY <1>2, <1>4, Zenon
  <2> QED BY <1>2, <2>1
<1>9. /\ Rows(k, type) \in {<<>>, <<row(list[1].serial)>>, <<row(list[Len(list)].serial)>>,
                            <<avg>>, [i \in 1..Len(list) |-> row(list[i].serial)]}
      /\ list = <<>> => Rows(k, type) = <<>>
  BY DEF Rows, list, row, avg, raws
<1> QED BY <1>6, <1>7, <1>8, <1>9, Zenon

\* Adding a header for a name keeps a list a list of names.
LEMMA HeaderType ==
  ASSUME NEW S, NEW list \in Seq(S), NEW name \in S
  PROVE  AddHeader(list, name) \in Seq(S)
<1>1. <<name>> \o list \in Seq(S)
  BY ConcatProperties
<1> QED BY <1>1 DEF AddHeader

\* Linking a record, and setting a field of the front record, keep a list a
\* list of records.
LEMMA FrontType ==
  ASSUME NEW list \in Seq(Record), NEW r \in Record, NEW t \in Nat, NEW v \in Vals
  PROVE  /\ Hooked(list, r) \in Seq(Record)
         /\ [list EXCEPT ![1].time = t] \in Seq(Record)
         /\ [list EXCEPT ![1].raw = v] \in Seq(Record)
<1>1. Len(list) \in Nat /\ DOMAIN list = 1..Len(list)
  BY LenProperties
<1>2. \A i \in 1..Len(list) : list[i] \in Record
  BY ElementOfSeq
<1>3. Hooked(list, r) \in Seq(Record)
  BY ConcatProperties DEF Hooked
<1> DEFINE f == [list EXCEPT ![1].time = t]
           g == [list EXCEPT ![1].raw = v]
<1>4. /\ DOMAIN f = 1..Len(list) /\ \A i \in 1..Len(list) : f[i] \in Record
      /\ f = [i \in 1..Len(list) |-> f[i]]
  <2>1. DOMAIN f = 1..Len(list) /\ f = [i \in 1..Len(list) |-> f[i]]
    BY <1>1
  <2>2. ASSUME NEW i \in 1..Len(list) PROVE f[i] \in Record
    BY <1>1, <1>2 DEF Record
  <2> QED BY <2>1, <2>2
<1>5. /\ DOMAIN g = 1..Len(list) /\ \A i \in 1..Len(list) : g[i] \in Record
      /\ g = [i \in 1..Len(list) |-> g[i]]
  <2>1. DOMAIN g = 1..Len(list) /\ g = [i \in 1..Len(list) |-> g[i]]
    BY <1>1
  <2>2. ASSUME NEW i \in 1..Len(list) PROVE g[i] \in Record
    BY <1>1, <1>2 DEF Record
  <2> QED BY <2>1, <2>2
<1>6. \A h : (DOMAIN h = 1..Len(list) /\ (\A i \in 1..Len(list) : h[i] \in Record)
              /\ h = [i \in 1..Len(list) |-> h[i]]) => h \in Seq(Record)
  BY <1>1
<1> HIDE DEF f, g
<1>7. f \in Seq(Record) /\ g \in Seq(Record)
  BY <1>4, <1>5, <1>6
<1> QED BY <1>3, <1>7 DEF f, g

-----------------------------------------------------------------------------
(* Type correctness.                                                         *)

\* The types hold when the threads start.
LEMMA TypeInit == Init => TypeOK
<1> SUFFICES ASSUME Init PROVE TypeOK
  OBVIOUS
<1>1. clock = 1 /\ wentBack = FALSE
  BY DEF Init
<1>2. postSock = <<>> /\ querySock = <<>>
  BY DEF Init
<1>3. posted = 0 /\ asked = 0 /\ MsgNum = 0 /\ now = 0 /\ dbActive = "OFF"
  BY DEF Init
<1>4. /\ idList \in [Sensors -> Seq(Ids)]
      /\ subIdList \in [Sensors \X Ids -> Seq(SubIds)]
      /\ data \in [Keys -> Seq(Record)]
  BY DEF Init
<1>5. /\ mainListLock = "free"
      /\ pc = [post |-> "recv", query |-> "recv", prune |-> "sleep"]
  BY DEF Init
<1>6. /\ mainListLock \in Threads \cup {"free"}
      /\ pc \in [Threads -> AllLabels]
      /\ \A t \in Threads : pc[t] \in Labels(t)
      /\ pc["post"] = "recv"
  BY <1>5 DEF Threads, AllLabels, Labels
<1>7. add = NoAdd /\ query = NoQuery /\ ret = <<>>
  BY DEF Init
<1>8. pruneTodo = {} /\ queryTodo = {}
  BY DEF Init
<1>9. <<>> \in Seq(Datagrams) /\ <<>> \in Seq(Queries) /\ <<>> \in Seq(RetRow)
  OBVIOUS
<1>10. /\ clock \in Nat \ {0} /\ wentBack \in BOOLEAN
       /\ postSock \in Seq(Datagrams) /\ querySock \in Seq(Queries)
  <2>1. clock \in Nat \ {0}
    BY <1>1
  <2>2. wentBack \in BOOLEAN
    BY <1>1, Zenon
  <2> QED BY <1>2, <1>9, <2>1, <2>2, Zenon
<1>11. /\ posted \in Nat /\ asked \in Nat /\ MsgNum \in Nat
       /\ dbActive \in {"OFF", "GREEN", "BLUE"} /\ now \in Nat
  BY <1>3
<1>12. /\ add \in Adds \cup {NoAdd} /\ pruneTodo \subseteq Keys
       /\ query \in Queries \cup {NoQuery} /\ queryTodo \subseteq Keys
       /\ ret \in Seq(RetRow)
  BY <1>7, <1>8, <1>9, Zenon
<1> QED BY <1>4, <1>6, <1>10, <1>11, <1>12, Zenon DEF TypeOK

\* Every step of every thread and of the environment keeps them.
LEMMA TypeNext == TypeOK /\ [Next]_vars => TypeOK'
<1> SUFFICES ASSUME TypeOK, [Next]_vars PROVE TypeOK'
  OBVIOUS
<1> USE DEF TypeOK, network, store, postVars, pruneVars, queryVars
<1>1. ASSUME NEW d \in Datagrams, SendPost(d) PROVE TypeOK'
  BY <1>1 DEF SendPost
<1>2. ASSUME NEW q \in Queries, SendQuery(q) PROVE TypeOK'
  BY <1>2 DEF SendQuery
<1>3. CASE Tick
  BY <1>3 DEF Tick
<1>4. CASE SetBack
  BY <1>4 DEF SetBack
<1>5. CASE PostReject
  BY <1>5 DEF PostReject
<1>6. CASE PostReceive
  BY <1>6 DEF PostReceive, Goto, Threads, AllLabels, Labels, Adds
<1>7. CASE PostLock
  BY <1>7 DEF PostLock, getLock, Goto, Threads, AllLabels, Labels
<1>8. CASE PostHook
  <2>1. pc["post"] = "hook" /\ add \in Adds
    BY <1>8 DEF PostHook
  <2>2. /\ add.sensor \in Sensors /\ add.id \in Ids /\ add.subId \in SubIds
        /\ KeyOf(add) \in Keys /\ <<add.sensor, add.id>> \in Sensors \X Ids
    BY <2>1, KeyType
  <2>3. idList' \in [Sensors -> Seq(Ids)]
    <3>1. AddHeader(idList[add.sensor], add.id) \in Seq(Ids)
      BY <2>2, HeaderType
    <3> QED BY <1>8, <3>1 DEF PostHook
  <2>4. subIdList' \in [Sensors \X Ids -> Seq(SubIds)]
    <3>1. AddHeader(subIdList[<<add.sensor, add.id>>], add.subId) \in Seq(SubIds)
      BY <2>2, HeaderType
    <3> QED BY <1>8, <3>1 DEF PostHook
  <2>5. data' \in [Keys -> Seq(Record)]
    <3> DEFINE r == [serial |-> MsgNum, time |-> 0, raw |-> Zeros]
    <3>1. r \in Record
      BY DEF Record, Zeros, Vals
    <3>2. Hooked(data[KeyOf(add)], r) \in Seq(Record)
      BY <2>2, <3>1, FrontType, RawDataType DEF Record
    <3> QED BY <1>8, <3>2 DEF PostHook
  <2>6. pc' \in [Threads -> AllLabels] /\ \A t \in Threads : pc'[t] \in Labels(t)
    BY <1>8 DEF PostHook, Goto, Threads, AllLabels, Labels
  <2> QED BY <1>8, <2>1, <2>3, <2>4, <2>5, <2>6 DEF PostHook
<1>9. CASE PostStamp
  <2>1. pc["post"] # "recv" /\ add \in Adds
    BY <1>9 DEF PostStamp
  <2>2. KeyOf(add) \in Keys /\ RawData(add.sensor, add.v) \in Vals
    BY <2>1, KeyType, AddsType, RawDataType
  <2>3. data' \in [Keys -> Seq(Record)]
    <3>1. [data[KeyOf(add)] EXCEPT ![1].time = clock] \in Seq(Record)
      <4>1. data[KeyOf(add)] \in Seq(Record) /\ clock \in Nat
        BY <2>2
      <4>2. [serial |-> 0, time |-> 0, raw |-> RawData(add.sensor, add.v)] \in Record
        BY <2>2 DEF Record
      <4> QED BY <2>2, <4>1, <4>2, FrontType
    <3> QED BY <1>9, <3>1 DEF PostStamp
  <2>4. pc' \in [Threads -> AllLabels] /\ \A t \in Threads : pc'[t] \in Labels(t)
    BY <1>9 DEF PostStamp, Goto, Threads, AllLabels, Labels
  <2> QED BY <1>9, <2>1, <2>3, <2>4 DEF PostStamp
<1>10. CASE PostFill
  <2>1. pc["post"] # "recv" /\ add \in Adds
    BY <1>10 DEF PostFill
  <2>2. KeyOf(add) \in Keys /\ RawData(add.sensor, add.v) \in Vals
    BY <2>1, KeyType, AddsType, RawDataType
  <2>3. data' \in [Keys -> Seq(Record)]
    <3>1. [data[KeyOf(add)] EXCEPT ![1].raw = RawData(add.sensor, add.v)] \in Seq(Record)
      <4>1. data[KeyOf(add)] \in Seq(Record) /\ clock \in Nat
        BY <2>2
      <4>2. [serial |-> 0, time |-> 0, raw |-> RawData(add.sensor, add.v)] \in Record
        BY <2>2 DEF Record
      <4> QED BY <2>2, <4>1, <4>2, FrontType
    <3> QED BY <1>10, <3>1 DEF PostFill
  <2>4. pc' \in [Threads -> AllLabels] /\ \A t \in Threads : pc'[t] \in Labels(t)
    BY <1>10 DEF PostFill, Goto, Threads, AllLabels, Labels
  <2> QED BY <1>10, <2>1, <2>3, <2>4 DEF PostFill
<1>11. CASE PostUnlock
  BY <1>11 DEF PostUnlock, releaseLock, Goto, Threads, AllLabels, Labels
<1>12. CASE PruneWake
  BY <1>12 DEF PruneWake, Goto, Threads, AllLabels, Labels
<1>13. CASE PruneLock
  BY <1>13 DEF PruneLock, getLock, Goto, Threads, AllLabels, Labels
<1>14. CASE PruneList
  <2>1. PICK k \in pruneTodo :
          /\ data' = [data EXCEPT ![k] = Kept(@, now, Ttl[k[1]])]
          /\ pruneTodo' = pruneTodo \ {k}
    BY <1>14 DEF PruneList
  <2>2. k \in Keys /\ data[k] \in Seq(Record)
    BY <2>1
  <2>3. data' \in [Keys -> Seq(Record)]
    <3>1. Kept(data[k], now, Ttl[k[1]]) \in Seq(Record)
      BY <2>2, KeptType
    <3> QED BY <2>1, <3>1
  <2> QED BY <1>14, <2>1, <2>3 DEF PruneList
<1>15. CASE PruneUnlock
  BY <1>15 DEF PruneUnlock, releaseLock, Goto, Threads, AllLabels, Labels
<1>16. CASE QueryReject
  BY <1>16 DEF QueryReject, Goto, Threads, AllLabels, Labels
<1>17. CASE QueryReceive
  BY <1>17 DEF QueryReceive, Goto, Threads, AllLabels, Labels
<1>18. CASE QueryLock
  <2>1. Selected(query) \subseteq Keys
    BY DEF Selected
  <2>2. <<>> \in Seq(RetRow)
    OBVIOUS
  <2> QED BY <1>18, <2>1, <2>2
        DEF QueryLock, getLock, Goto, Threads, AllLabels, Labels
<1>19. CASE QueryList
  <2>1. PICK k \in queryTodo : /\ ret' = ret \o Rows(k, query.type)
                                /\ queryTodo' = queryTodo \ {k}
    BY <1>19 DEF QueryList
  <2>2. Rows(k, query.type) \in Seq(RetRow)
    BY <2>1, RowsType
  <2>3. ret' \in Seq(RetRow)
    BY <2>1, <2>2, ConcatProperties
  <2> QED BY <1>19, <2>1, <2>3 DEF QueryList
<1>20. CASE QueryUnlock
  BY <1>20 DEF QueryUnlock, releaseLock, Goto, Threads, AllLabels, Labels
<1>21. CASE QuerySend
  BY <1>21 DEF QuerySend, Goto, Threads, AllLabels, Labels
<1>22. CASE QueryWake
  BY <1>22 DEF QueryWake, Goto, Threads, AllLabels, Labels
<1>23. CASE UNCHANGED vars
  BY <1>23 DEF vars
<1> QED
  BY <1>1, <1>2, <1>3, <1>4, <1>5, <1>6, <1>7, <1>8, <1>9, <1>10, <1>11, <1>12,
     <1>13, <1>14, <1>15, <1>16, <1>17, <1>18, <1>19, <1>20, <1>21, <1>22, <1>23
  DEF Next, Environment, PostThread, PruneThread, QueryThread

\* Every variable of the process keeps to its type: the post thread only ever
\* adds readings a parser accepted, and every list stays a list of records.
THEOREM TypeCorrect == Spec => []TypeOK
BY TypeInit, TypeNext, PTL DEF Spec

-----------------------------------------------------------------------------
(* The mutex.                                                                *)

\* No thread starts with the mutex.
LEMMA MutexInit == Init => MutualExclusion
BY DEF Init, MutualExclusion, Critical, Threads

\* A step that leaves the mutex and the threads' places alone.
LEMMA MutexStutter ==
  ASSUME MutualExclusion, UNCHANGED <<mainListLock, pc>>
  PROVE  MutualExclusion'
BY DEF MutualExclusion

\* A step of one thread that neither enters nor leaves its critical section.
LEMMA MutexLocal ==
  ASSUME TypeOK, MutualExclusion, NEW t \in Threads, NEW label,
         Goto(t, label), UNCHANGED mainListLock,
         pc[t] \in Critical(t) <=> label \in Critical(t)
  PROVE  MutualExclusion'
<1>1. pc' = [pc EXCEPT ![t] = label] /\ mainListLock' = mainListLock
      /\ DOMAIN pc = Threads
  BY DEF Goto, TypeOK
<1>2. ASSUME NEW u \in Threads
      PROVE  pc'[u] \in Critical(u) <=> mainListLock' = u
  <2>1. pc[u] \in Critical(u) <=> mainListLock = u
    BY DEF MutualExclusion
  <2>2. CASE u = t
    BY <1>1, <2>1, <2>2
  <2>3. CASE u # t
    BY <1>1, <2>1, <2>3
  <2> QED BY <2>2, <2>3
<1> QED BY <1>2 DEF MutualExclusion

\* A thread that takes the free mutex enters its critical section.
LEMMA MutexEnter ==
  ASSUME TypeOK, MutualExclusion, NEW t \in Threads, NEW label,
         Goto(t, label), getLock(t), label \in Critical(t)
  PROVE  MutualExclusion'
<1>1. pc' = [pc EXCEPT ![t] = label] /\ mainListLock' = t
      /\ mainListLock = "free" /\ DOMAIN pc = Threads
  BY DEF Goto, TypeOK, getLock
<1>2. \A u \in Threads : u # "free"
  BY DEF Threads
<1>3. ASSUME NEW u \in Threads
      PROVE  pc'[u] \in Critical(u) <=> mainListLock' = u
  <2>1. pc[u] \notin Critical(u)
    BY <1>1, <1>2 DEF MutualExclusion
  <2>2. CASE u = t
    BY <1>1, <2>2
  <2>3. CASE u # t
    BY <1>1, <2>1, <2>3
  <2> QED BY <2>2, <2>3
<1> QED BY <1>3 DEF MutualExclusion

\* A thread that releases the mutex it holds leaves its critical section.
LEMMA MutexLeave ==
  ASSUME TypeOK, MutualExclusion, NEW t \in Threads, NEW label,
         Goto(t, label), releaseLock,
         pc[t] \in Critical(t), label \notin Critical(t)
  PROVE  MutualExclusion'
<1>1. pc' = [pc EXCEPT ![t] = label] /\ mainListLock' = "free"
      /\ DOMAIN pc = Threads
  BY DEF Goto, TypeOK, releaseLock
<1>2. mainListLock = t /\ \A u \in Threads : u # "free"
  BY DEF MutualExclusion, Threads
<1>3. ASSUME NEW u \in Threads
      PROVE  pc'[u] \in Critical(u) <=> mainListLock' = u
  <2>1. CASE u = t
    BY <1>1, <1>2, <2>1
  <2>2. CASE u # t
    <3>1. pc[u] \notin Critical(u)
      BY <1>2, <2>2 DEF MutualExclusion
    <3> QED BY <1>1, <1>2, <2>2, <3>1
  <2> QED BY <2>1, <2>2
<1> QED BY <1>3 DEF MutualExclusion

\* Every step keeps the mutex with the thread inside its critical section.
LEMMA MutexNext == TypeOK /\ MutualExclusion /\ [Next]_vars => MutualExclusion'
<1> SUFFICES ASSUME TypeOK, MutualExclusion, [Next]_vars
             PROVE  MutualExclusion'
  OBVIOUS
<1> USE DEF Threads, Critical
<1>1. ASSUME NEW d \in Datagrams, SendPost(d) PROVE MutualExclusion'
  BY <1>1, MutexStutter DEF SendPost
<1>2. ASSUME NEW q \in Queries, SendQuery(q) PROVE MutualExclusion'
  BY <1>2, MutexStutter DEF SendQuery
<1>3. CASE Tick
  BY <1>3, MutexStutter DEF Tick
<1>4. CASE SetBack
  BY <1>4, MutexStutter DEF SetBack
<1>5. CASE PostReject
  BY <1>5, MutexStutter DEF PostReject
<1>6. CASE PostReceive
  BY <1>6, MutexLocal DEF PostReceive
<1>7. CASE PostLock
  BY <1>7, MutexEnter DEF PostLock
<1>8. CASE PostHook
  BY <1>8, MutexLocal DEF PostHook
<1>9. CASE PostStamp
  BY <1>9, MutexLocal DEF PostStamp
<1>10. CASE PostFill
  BY <1>10, MutexLocal DEF PostFill
<1>11. CASE PostUnlock
  BY <1>11, MutexLeave DEF PostUnlock
<1>12. CASE PruneWake
  BY <1>12, MutexLocal DEF PruneWake
<1>13. CASE PruneLock
  BY <1>13, MutexEnter DEF PruneLock
<1>14. CASE PruneList
  BY <1>14, MutexStutter DEF PruneList
<1>15. CASE PruneUnlock
  BY <1>15, MutexLeave DEF PruneUnlock
<1>16. CASE QueryReject
  BY <1>16, MutexLocal DEF QueryReject
<1>17. CASE QueryReceive
  BY <1>17, MutexLocal DEF QueryReceive
<1>18. CASE QueryLock
  BY <1>18, MutexEnter DEF QueryLock
<1>19. CASE QueryList
  BY <1>19, MutexStutter DEF QueryList
<1>20. CASE QueryUnlock
  BY <1>20, MutexLeave DEF QueryUnlock
<1>21. CASE QuerySend
  BY <1>21, MutexLocal DEF QuerySend
<1>22. CASE QueryWake
  BY <1>22, MutexLocal DEF QueryWake
<1>23. CASE UNCHANGED vars
  BY <1>23, MutexStutter DEF vars
<1> QED
  BY <1>1, <1>2, <1>3, <1>4, <1>5, <1>6, <1>7, <1>8, <1>9, <1>10, <1>11, <1>12,
     <1>13, <1>14, <1>15, <1>16, <1>17, <1>18, <1>19, <1>20, <1>21, <1>22, <1>23
  DEF Next, Environment, PostThread, PruneThread, QueryThread

\* At any time exactly the thread that holds mainListLock is between its
\* LOCK_SENSOR_LIST and its UNLOCK_SENSOR_LIST.
THEOREM MutexCorrect == Spec => []MutualExclusion
BY TypeCorrect, MutexInit, MutexNext, PTL DEF Spec

-----------------------------------------------------------------------------
(* Records are whole when another thread can see them.                       *)

\* The inductive part: only the record the post thread has just linked, and
\* not yet stamped, is without a time.
StampInv ==
  \A k \in Keys : \A i \in DOMAIN data[k] :
    \/ data[k][i].time > 0
    \/ pc["post"] = "stamp" /\ k = KeyOf(add) /\ i = 1

\* No list holds a record when the threads start.
LEMMA StampInit == Init => StampInv
BY DEF Init, StampInv

\* A step that leaves the lists alone, and the post thread if it is about to
\* stamp a record.
LEMMA StampKeep ==
  ASSUME StampInv, UNCHANGED data,
         pc["post"] # "stamp" \/ (pc'["post"] = "stamp" /\ add' = add)
  PROVE  StampInv'
BY DEF StampInv, KeyOf

\* Cutting a list leaves a prefix of it.
LEMMA KeptRecords ==
  ASSUME NEW S, NEW list \in Seq(S), NEW t, NEW ttl
  PROVE  LET cut == Kept(list, t, ttl) IN
         /\ Len(cut) \in 0..Len(list)
         /\ DOMAIN cut = 1..Len(cut)
         /\ \A i \in DOMAIN cut : i \in DOMAIN list /\ cut[i] = list[i]
         /\ \A i \in DOMAIN cut : ~Expired(list[i], t, ttl)
         /\ Len(cut) < Len(list) => Expired(list[Len(cut) + 1], t, ttl)
<1>1. Len(list) \in Nat /\ DOMAIN list = 1..Len(list)
  BY LenProperties
<1>2. PICK n \in 0..Len(list) :
        /\ Kept(list, t, ttl) = SubSeq(list, 1, n)
        /\ \A i \in 1..n : ~Expired(list[i], t, ttl)
        /\ n < Len(list) => Expired(list[n + 1], t, ttl)
  BY KeptIsPrefix, Zenon
<1> DEFINE cut == SubSeq(list, 1, n)
<1>3. \A i \in 1..n : list[i] \in S
  BY <1>1, ElementOfSeq
<1>4. /\ cut \in Seq(S) /\ Len(cut) = n
      /\ \A i \in 1..n : cut[i] = list[i]
  BY <1>1, <1>3, SubSeqProperties
<1>5. DOMAIN cut = 1..n
  BY <1>4, LenProperties
<1> HIDE DEF cut
<1>6. /\ Len(cut) \in 0..Len(list) /\ DOMAIN cut = 1..Len(cut)
      /\ \A i \in DOMAIN cut : i \in DOMAIN list /\ cut[i] = list[i]
  BY <1>1, <1>2, <1>4, <1>5
<1>7. /\ \A i \in DOMAIN cut : ~Expired(list[i], t, ttl)
      /\ Len(cut) < Len(list) => Expired(list[Len(cut) + 1], t, ttl)
  BY <1>2, <1>4, <1>5, Zenon
<1>8. Kept(list, t, ttl) = cut
  BY <1>2 DEF cut
<1> QED BY <1>6, <1>7, <1>8, Zenon

\* Linking a record shifts the others down by one.
LEMMA HookedRecords ==
  ASSUME NEW S, NEW list \in Seq(S), NEW r \in S
  PROVE  LET new == Hooked(list, r) IN
         /\ DOMAIN new = 1..(Len(list) + 1)
         /\ new[1] = r
         /\ \A i \in 2..(Len(list) + 1) : i - 1 \in DOMAIN list /\ new[i] = list[i - 1]
<1>1. <<r>> \in Seq(S) /\ Len(<<r>>) = 1 /\ <<r>>[1] = r
  OBVIOUS
<1>2. Len(list) \in Nat /\ DOMAIN list = 1..Len(list)
  BY LenProperties
<1> DEFINE new == <<r>> \o list
<1>3. /\ new \in Seq(S) /\ Len(new) = 1 + Len(list)
      /\ \A i \in 1..(1 + Len(list)) :
           new[i] = IF i <= 1 THEN <<r>>[i] ELSE list[i - 1]
  BY <1>1, ConcatProperties
<1>4. DOMAIN new = 1..(Len(list) + 1)
  BY <1>2, <1>3, LenProperties
<1> HIDE DEF new
<1>5. new[1] = r
  BY <1>1, <1>2, <1>3
<1>6. \A i \in 2..(Len(list) + 1) : i - 1 \in DOMAIN list /\ new[i] = list[i - 1]
  BY <1>2, <1>3
<1>7. Hooked(list, r) = new
  BY DEF Hooked, new
<1> QED BY <1>4, <1>5, <1>6, <1>7, Zenon

\* Every step keeps unstamped records to the post thread's critical section.
LEMMA StampNext == TypeOK /\ StampInv /\ [Next]_vars => StampInv'
<1> SUFFICES ASSUME TypeOK, StampInv, [Next]_vars
             PROVE  StampInv'
  OBVIOUS
<1>0. DOMAIN pc = Threads /\ "post" \in Threads
  BY DEF TypeOK, Threads
<1> USE DEF store, postVars
<1>1. ASSUME NEW d \in Datagrams, SendPost(d) PROVE StampInv'
  BY <1>1, StampKeep DEF SendPost
<1>2. ASSUME NEW q \in Queries, SendQuery(q) PROVE StampInv'
  BY <1>2, StampKeep DEF SendQuery
<1>3. CASE Tick
  BY <1>3, StampKeep DEF Tick
<1>4. CASE SetBack
  BY <1>4, StampKeep DEF SetBack
<1>5. CASE PostReject
  BY <1>5, StampKeep DEF PostReject
<1>6. CASE PostReceive
  BY <1>6, StampKeep DEF PostReceive
<1>7. CASE PostLock
  BY <1>7, StampKeep DEF PostLock
<1>8. CASE PostHook
  <2> DEFINE h == KeyOf(add)
             r == [serial |-> MsgNum, time |-> 0, raw |-> Zeros]
  <2>1. /\ add \in Adds /\ h \in Keys /\ r \in Record
    BY <1>8, KeyType DEF PostHook, TypeOK, Record, Zeros, Vals
  <2>2. data' = [data EXCEPT ![h] = Hooked(@, r)] /\ add' = add
        /\ pc'["post"] = "stamp"
    BY <1>0, <1>8 DEF PostHook, Goto
  <2>3. DOMAIN data = Keys /\ data[h] \in Seq(Record)
    BY <2>1 DEF TypeOK
  <2> HIDE DEF h, r
  <2>4. ASSUME NEW k \in Keys, NEW i \in DOMAIN data'[k], i # 1 \/ k # h
        PROVE  data'[k][i].time > 0
    <3>1. CASE k # h
      BY <1>8, <2>2, <2>3, <2>4, <3>1 DEF StampInv, PostHook
    <3>2. CASE k = h
      <4>1. data'[k] = Hooked(data[h], r)
        BY <2>1, <2>2, <2>3, <3>2
      <4>2. i \in 2..(Len(data[h]) + 1)
        BY <2>1, <2>3, <2>4, <3>2, <4>1, HookedRecords, LenProperties
      <4>3. i - 1 \in DOMAIN data[h] /\ data'[k][i] = data[h][i - 1]
        BY <2>1, <2>3, <4>1, <4>2, HookedRecords
      <4> QED BY <1>8, <2>1, <4>3 DEF StampInv, PostHook
    <3> QED BY <3>1, <3>2
  <2> QED BY <2>2, <2>4 DEF StampInv, h
<1>9. CASE PostStamp
  <2> DEFINE h == KeyOf(add)
  <2>1. pc["post"] = "stamp" /\ pc'["post"] = "fill" /\ add \in Adds /\ clock > 0
    BY <1>0, <1>9 DEF PostStamp, Goto, TypeOK
  <2>2. h \in Keys
    BY <2>1, KeyType
  <2>3. data' = [data EXCEPT ![h][1].time = clock]
    BY <1>9 DEF PostStamp
  <2> HIDE DEF h
  <2>4. DOMAIN data = Keys /\ \A k \in Keys : data[k] \in Seq(Record)
    BY DEF TypeOK
  <2>5. /\ data'[h] = [data[h] EXCEPT ![1].time = clock]
        /\ \A k \in Keys : k # h => data'[k] = data[k]
    BY <2>2, <2>3, <2>4
  <2>6. DOMAIN data'[h] = DOMAIN data[h]
    BY <2>5
  <2>7. ASSUME NEW i \in DOMAIN data[h]
        PROVE  data'[h][i].time > 0
    <3>1. data[h][i] \in Record
      BY <2>2, <2>4, ElementOfSeq, LenProperties
    <3>2. CASE i = 1
      BY <2>1, <2>5, <3>1, <3>2 DEF Record
    <3>3. CASE i # 1
      BY <2>2, <2>5, <3>3 DEF StampInv, h
    <3> QED BY <3>2, <3>3
  <2>8. \A k \in Keys : \A i \in DOMAIN data[k] : k # h => data[k][i].time > 0
    BY DEF StampInv, h
  <2> QED BY <2>5, <2>6, <2>7, <2>8 DEF StampInv
<1>10. CASE PostFill
  <2> DEFINE h == KeyOf(add)
             v == RawData(add.sensor, add.v)
  <2>1. pc["post"] = "fill" /\ add \in Adds
    BY <1>10 DEF PostFill, TypeOK
  <2>2. h \in Keys
    BY <2>1, KeyType
  <2>3. data' = [data EXCEPT ![h][1].raw = v]
    BY <1>10 DEF PostFill
  <2> HIDE DEF h, v
  <2>4. DOMAIN data = Keys /\ \A k \in Keys : data[k] \in Seq(Record)
    BY DEF TypeOK
  <2>5. /\ data'[h] = [data[h] EXCEPT ![1].raw = v]
        /\ \A k \in Keys : k # h => data'[k] = data[k]
    BY <2>2, <2>3, <2>4
  <2>6. DOMAIN data'[h] = DOMAIN data[h]
    BY <2>5
  <2>7. \A k \in Keys : \A i \in DOMAIN data[k] : data[k][i].time > 0
    BY <2>1 DEF StampInv
  <2>8. ASSUME NEW i \in DOMAIN data[h]
        PROVE  data'[h][i].time > 0
    <3>1. data[h][i] \in Record
      BY <2>2, <2>4, ElementOfSeq, LenProperties
    <3>2. data'[h][i].time = data[h][i].time
      BY <2>5, <3>1 DEF Record
    <3> QED BY <2>2, <2>7, <3>2
  <2> QED BY <2>5, <2>6, <2>7, <2>8 DEF StampInv
<1>11. CASE PostUnlock
  BY <1>11, StampKeep DEF PostUnlock
<1>12. CASE PruneWake
  BY <1>0, <1>12, StampKeep DEF PruneWake, Goto
<1>13. CASE PruneLock
  BY <1>0, <1>13, StampKeep DEF PruneLock, Goto
<1>14. CASE PruneList
  <2>1. PICK c \in pruneTodo : data' = [data EXCEPT ![c] = Kept(@, now, Ttl[c[1]])]
    BY <1>14 DEF PruneList
  <2>2. c \in Keys /\ DOMAIN data = Keys /\ data[c] \in Seq(Record)
        /\ pc' = pc /\ add' = add
    BY <1>14, <2>1 DEF TypeOK, PruneList
  <2>3. ASSUME NEW k \in Keys, NEW i \in DOMAIN data'[k]
        PROVE  i \in DOMAIN data[k] /\ data'[k][i] = data[k][i]
    <3>1. CASE k = c
      <4>1. data'[k] = Kept(data[c], now, Ttl[c[1]])
        BY <2>1, <2>2, <3>1
      <4> QED BY <2>2, <2>3, <3>1, <4>1, KeptRecords
    <3>2. CASE k # c
      BY <2>1, <2>2, <2>3, <3>2
    <3> QED BY <3>1, <3>2
  <2> QED BY <2>2, <2>3 DEF StampInv, KeyOf
<1>15. CASE PruneUnlock
  BY <1>0, <1>15, StampKeep DEF PruneUnlock, Goto
<1>16. CASE QueryReject
  BY <1>0, <1>16, StampKeep DEF QueryReject, Goto
<1>17. CASE QueryReceive
  BY <1>0, <1>17, StampKeep DEF QueryReceive, Goto
<1>18. CASE QueryLock
  BY <1>0, <1>18, StampKeep DEF QueryLock, Goto
<1>19. CASE QueryList
  BY <1>19, StampKeep DEF QueryList
<1>20. CASE QueryUnlock
  BY <1>0, <1>20, StampKeep DEF QueryUnlock, Goto
<1>21. CASE QuerySend
  BY <1>0, <1>21, StampKeep DEF QuerySend, Goto
<1>22. CASE QueryWake
  BY <1>0, <1>22, StampKeep DEF QueryWake, Goto
<1>23. CASE UNCHANGED vars
  BY <1>23, StampKeep DEF vars
<1> QED
  BY <1>1, <1>2, <1>3, <1>4, <1>5, <1>6, <1>7, <1>8, <1>9, <1>10, <1>11, <1>12,
     <1>13, <1>14, <1>15, <1>16, <1>17, <1>18, <1>19, <1>20, <1>21, <1>22, <1>23
  DEF Next, Environment, PostThread, PruneThread, QueryThread

\* With the mutex, what holds for the post thread's section holds for readers.
LEMMA StampedForReaders == MutualExclusion /\ StampInv => WalkersSeeWholeRecords
<1> SUFFICES ASSUME MutualExclusion, StampInv,
                    pc["prune"] = "walk" \/ pc["query"] = "walk"
             PROVE  pc["post"] \notin {"stamp", "fill"}
  BY DEF WalkersSeeWholeRecords, StampInv, Building
<1>1. mainListLock = "prune" \/ mainListLock = "query"
  BY DEF MutualExclusion, Threads, Critical
<1> QED BY <1>1 DEF MutualExclusion, Threads, Critical

\* While the prune or the query thread walks the lists, every record it can
\* reach has its time stamp and its values, although newSensorRecord links a
\* record before it sets them.
THEOREM RecordsWhole == Spec => []WalkersSeeWholeRecords
BY TypeCorrect, MutexCorrect, StampInit, StampNext, StampedForReaders, PTL DEF Spec

=============================================================================
