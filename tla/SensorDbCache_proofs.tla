------------------------- MODULE SensorDbCache_proofs -------------------------
EXTENDS SensorDbStore_proofs, FiniteSetTheorems

USE DEF clocks

(***************************************************************************)
(* The threads of the database implement ReadingCache: besides what        *)
(* SensorDbStore_proofs shows of the store, every query is answered from    *)
(* the store as it is at one instant, although the answer is collected      *)
(* list by list and formatted from pointers into the lists.                 *)
(***************************************************************************)

-----------------------------------------------------------------------------
(* Averages.                                                                 *)

\* The average the reply is formatted from is the mean, cut towards zero.
LEMMA MeanCut ==
  ASSUME NEW values, NEW c, Sum(values, c) \in Int, Len(values) \in Nat \ {0}
  PROVE  MeanOf(values, c) = CDiv(Sum(values, c), Len(values))
BY DEF MeanOf, CDiv

\* A sum is between as many times the least and as many times the greatest
\* value.
LEMMA SumBound ==
  ASSUME NEW values, NEW c, Len(values) \in Nat, NEW lo \in Int, NEW hi \in Int,
         \A i \in 1..Len(values) : values[i][c] \in lo..hi
  PROVE  /\ Sum(values, c) \in Int
         /\ lo * Len(values) <= Sum(values, c) /\ Sum(values, c) <= hi * Len(values)
<1> DEFINE m == Len(values)
<1>1. PICK f \in [0..m -> Int] :
        /\ f[0] = 0
        /\ \A n \in 1..m : f[n] = f[n - 1] + values[n][c]
        /\ Sum(values, c) = f[m]
  <2>1. \A i \in 1..Len(values) : values[i][c] \in Int
    OBVIOUS
  <2> QED BY <2>1, SumDef
<1> DEFINE S == {n \in Nat : n <= m => lo * n <= f[n] /\ f[n] <= hi * n}
<1>2. 0 \in S
  BY <1>1
<1>3. ASSUME NEW n \in S PROVE n + 1 \in S
  <2> SUFFICES ASSUME n + 1 <= m
               PROVE  lo * (n + 1) <= f[n + 1] /\ f[n + 1] <= hi * (n + 1)
    OBVIOUS
  <2>1. n \in Nat /\ lo * n <= f[n] /\ f[n] <= hi * n
    OBVIOUS
  <2>2. f[n + 1] = f[n] + values[n + 1][c] /\ values[n + 1][c] \in lo..hi /\ f[n] \in Int
    <3>1. n + 1 \in 1..m /\ (n + 1) - 1 = n /\ n \in 0..m
      BY <2>1
    <3> QED BY <1>1, <3>1
  <2>3. lo * (n + 1) = lo * n + lo /\ hi * (n + 1) = hi * n + hi
    BY <2>1
  <2>4. lo * n \in Int /\ hi * n \in Int
    BY <2>1
  <2>5. \A l, h \in Int : l <= f[n] /\ f[n] <= h =>
          /\ l + lo <= f[n] + values[n + 1][c]
          /\ f[n] + values[n + 1][c] <= h + hi
    BY <2>2
  <2> QED BY <2>1, <2>2, <2>3, <2>4, <2>5
<1> HIDE DEF S
<1>4. S = Nat
  BY <1>2, <1>3, SetInduction DEF S
<1> QED BY <1>1, <1>4 DEF S

\* Division keeps a quotient between two integers.
LEMMA DivBound ==
  ASSUME NEW a \in Int, NEW n \in Nat \ {0}, NEW lo \in Int, NEW hi \in Int,
         lo * n <= a, a <= hi * n
  PROVE  a \div n \in lo..hi
<1> DEFINE q == a \div n
<1>1. q \in Int /\ n * q <= a /\ a < n * q + n
  OBVIOUS
<1> HIDE DEF q
<1>2. CASE q < lo
  <2>1. n * (q + 1) <= n * lo
    BY <1>1, <1>2
  <2>2. n * (q + 1) = n * q + n /\ n * lo = lo * n
    BY <1>1
  <2> QED BY <1>1, <2>1, <2>2
<1>3. CASE q > hi
  <2>1. n * (hi + 1) <= n * q
    BY <1>1, <1>3
  <2>2. n * (hi + 1) = hi * n + n
    BY <1>1
  <2> QED BY <1>1, <2>1, <2>2
<1>4. q \in lo..hi
  BY <1>1, <1>2, <1>3
<1> QED BY <1>4 DEF q

\* And so does C's.
LEMMA CDivBound ==
  ASSUME NEW a \in Int, NEW n \in Nat \ {0}, NEW lo \in Int, NEW hi \in Int,
         lo * n <= a, a <= hi * n
  PROVE  CDiv(a, n) \in lo..hi
<1>1. CASE a >= 0
  BY <1>1, DivBound DEF CDiv
<1>2. CASE a < 0
  <2>1. (-hi) * n <= -a /\ -a <= (-lo) * n
    <3>1. (-hi) * n = -(hi * n) /\ (-lo) * n = -(lo * n)
      OBVIOUS
    <3>2. hi * n \in Int /\ lo * n \in Int
      OBVIOUS
    <3> QED BY <3>1, <3>2
  <2>2. -a \in Int /\ -lo \in Int /\ -hi \in Int
    OBVIOUS
  <2>3. (-a) \div n \in (-hi)..(-lo)
    BY <2>1, <2>2, DivBound
  <2> QED BY <1>2, <2>3 DEF CDiv
<1> QED BY <1>1, <1>2

\* The values of the records of a list.
Raws(k) == [i \in 1..Len(data[k]) |-> data[k][i].raw]

LEMMA RawsType ==
  ASSUME TypeOK, NEW k \in Keys
  PROVE  /\ Raws(k) \in Seq(Vals) /\ Len(Raws(k)) = Len(data[k])
         /\ \A i \in 1..Len(data[k]) : Raws(k)[i] = data[k][i].raw /\ Raws(k)[i] \in Vals
<1>1. /\ data[k] \in Seq(Record) /\ Len(data[k]) \in Nat
      /\ DOMAIN data[k] = 1..Len(data[k])
  BY ListLength
<1>2. ASSUME NEW i \in 1..Len(data[k]) PROVE data[k][i].raw \in Vals
  <2>1. data[k][i] \in Record
    BY <1>1, ElementOfSeq
  <2> QED BY <2>1 DEF Record
<1> DEFINE s == [i \in 1..Len(data[k]) |-> data[k][i].raw]
<1>3. s \in Seq(Vals) /\ DOMAIN s = 1..Len(data[k])
  BY <1>1, <1>2, SeqDef
<1>4. \A i \in 1..Len(data[k]) : s[i] = data[k][i].raw
  OBVIOUS
<1> HIDE DEF s
<1>5. Len(s) = Len(data[k])
  BY <1>1, <1>3, LenProperties
<1> QED BY <1>2, <1>3, <1>4, <1>5 DEF Raws, s

\* What an average reports lies between the least and the greatest of the values
\* it is made from, in every component and for lists of any length: the sums that
\* processQuery keeps and the division of the formatting belong together.
THEOREM AverageBetween ==
  ASSUME TypeOK, NEW k \in Keys, data[k] # <<>>,
         NEW c \in 1..4, NEW lo \in Int, NEW hi \in Int,
         \A i \in DOMAIN data[k] : data[k][i].raw[c] \in lo..hi
  PROVE  Len(Rows(k, "V")) = 1 /\ Average(Rows(k, "V")[1])[c] \in lo..hi
<1> DEFINE row == [id |-> k[2], subId |-> k[3], ref |-> NoRef,
                   sums |-> Sums(Raws(k)), count |-> Len(data[k])]
<1>1. Len(data[k]) \in Nat \ {0} /\ DOMAIN data[k] = 1..Len(data[k])
  BY ListLength
<1>2. Rows(k, "V") = <<row>>
  BY DEF Rows, Raws
<1>3. /\ Len(Raws(k)) = Len(data[k])
      /\ \A i \in 1..Len(data[k]) : Raws(k)[i] = data[k][i].raw
  BY RawsType
<1>4. \A i \in 1..Len(Raws(k)) : Raws(k)[i][c] \in lo..hi
  BY <1>1, <1>3
<1>5. /\ Sum(Raws(k), c) \in Int
      /\ lo * Len(data[k]) <= Sum(Raws(k), c) /\ Sum(Raws(k), c) <= hi * Len(data[k])
  BY <1>1, <1>3, <1>4, SumBound
<1>6. CDiv(Sum(Raws(k), c), Len(data[k])) \in lo..hi
  BY <1>1, <1>5, CDivBound
<1>7. row.count = Len(data[k]) /\ row.sums[c] = Sum(Raws(k), c)
  BY DEF Sums
<1> HIDE DEF row
<1>8. Average(row)[c] = CDiv(row.sums[c], row.count)
  BY <1>1, <1>7 DEF Average
<1> QED BY <1>2, <1>6, <1>7, <1>8

-----------------------------------------------------------------------------
(* The walk of a query collects the answer in blocks.                        *)

RowKey(n) == <<query.sensor, ret[n].id, ret[n].subId>>

\* What the walk has collected of list k so far.
Part(k) == IF k \in Selected(query) \ queryTodo THEN Rows(k, query.type) ELSE <<>>

\* Positions o + 1 to o + Len(Part(k)) of the Ret arrays, and no others, hold the
\* rows of list k.
BlockAt(k, o) ==
  /\ o + Len(Part(k)) <= Len(ret)
  /\ \A n \in 1..Len(ret) : RowKey(n) = k <=> n > o /\ n <= o + Len(Part(k))
  /\ \A i \in 1..Len(Part(k)) : ret[o + i] = Part(k)[i]

BlockInv ==
  pc["query"] = "walk" =>
    /\ queryTodo \subseteq Selected(query)
    /\ \A k \in Keys : \E o \in Nat : BlockAt(k, o)

\* A key is its three names.
LEMMA KeyParts == ASSUME NEW k \in Keys PROVE k = <<k[1], k[2], k[3]>>
BY DEF Keys

LEMMA PartType ==
  ASSUME TypeOK, NEW k \in Keys
  PROVE  /\ Part(k) \in Seq(RetRow) /\ Len(Part(k)) \in Nat
         /\ DOMAIN Part(k) = 1..Len(Part(k))
<1>1. Part(k) \in Seq(RetRow)
  BY RowsType DEF Part
<1> QED BY <1>1, LenProperties

\* While a query walks, the other threads leave the lists and their headers alone.
LEMMA QueryAlone ==
  ASSUME TypeOK, MutualExclusion, [Next]_vars, ~QueryThread, pc'["query"] = "walk"
  PROVE  /\ UNCHANGED <<query, queryTodo, ret, idList, subIdList, data>>
         /\ pc["query"] = "walk"
<1>1. UNCHANGED <<query, queryTodo, ret>> /\ pc["query"] = "walk"
  BY NotQuery
<1>2. mainListLock = "query"
  BY <1>1 DEF MutualExclusion, Threads, Critical
<1>3. pc["post"] \notin {"hook", "stamp", "fill"} /\ pc["prune"] # "walk"
  BY <1>2 DEF MutualExclusion, Threads, Critical
<1>4. ~PostHook /\ ~PostStamp /\ ~PostFill /\ ~PruneList
  BY <1>3 DEF PostHook, PostStamp, PostFill, PruneList
<1>5. UNCHANGED <<idList, subIdList, data>>
  <2>1. CASE PostThread
    BY <1>4, <2>1 DEF PostThread, PostReject, PostReceive, PostLock, PostUnlock, store
  <2>2. CASE ~PostThread
    BY <1>4, <2>2, NotPost
  <2> QED BY <2>1, <2>2
<1> QED BY <1>1, <1>5

\* Every step of the walk appends one block.
LEMMA BlockNext == TypeOK /\ MutualExclusion /\ BlockInv /\ [Next]_vars => BlockInv'
<1> SUFFICES ASSUME TypeOK, MutualExclusion, BlockInv, [Next]_vars,
                    pc'["query"] = "walk"
             PROVE  BlockInv'
  BY DEF BlockInv
<1>0. DOMAIN pc = Threads /\ "query" \in Threads
  BY DEF TypeOK, Threads
<1>1. CASE QueryLock
  <2>1. /\ ret' = <<>> /\ query' = query /\ UNCHANGED <<idList, subIdList>>
        /\ queryTodo' = Selected(query)
    BY <1>1 DEF QueryLock, store
  <2>2. Selected(query)' = Selected(query)
    BY <2>1 DEF Selected, Listed
  <2>3. ASSUME NEW k \in Keys PROVE BlockAt(k, 0)'
    <3>1. Part(k)' = <<>>
      BY <2>1, <2>2 DEF Part
    <3> QED BY <2>1, <3>1 DEF BlockAt
  <2> QED BY <2>1, <2>2, <2>3 DEF BlockInv
<1>2. CASE QueryList
  <2>1. PICK k \in queryTodo : /\ ret' = ret \o Rows(k, query.type)
                               /\ queryTodo' = queryTodo \ {k}
    BY <1>2 DEF QueryList
  <2>2. /\ pc["query"] = "walk" /\ query' = query
        /\ UNCHANGED <<idList, subIdList, data>>
    BY <1>2 DEF QueryList, store
  <2>3. Selected(query)' = Selected(query)
    BY <2>2 DEF Selected, Listed
  <2>4. /\ queryTodo \subseteq Selected(query)
        /\ k \in Keys /\ k[1] = query.sensor /\ k \in Selected(query)
    BY <2>1, <2>2 DEF BlockInv, Selected
  <2> DEFINE new == Rows(k, query.type)
  <2>5. Part(k) = <<>> /\ Part(k)' = new
    BY <2>1, <2>2, <2>3, <2>4 DEF Part, Rows
  <2>6. ASSUME NEW j \in Keys, j # k PROVE Part(j)' = Part(j)
    BY <2>1, <2>2, <2>3, <2>6 DEF Part, Rows
  <2>7. /\ ret \in Seq(RetRow) /\ new \in Seq(RetRow)
        /\ Len(ret) \in Nat /\ Len(new) \in Nat /\ DOMAIN new = 1..Len(new)
    BY <2>4, RowsType, LenProperties DEF TypeOK
  <2>8. ASSUME NEW n \in 1..Len(new)
        PROVE  new[n].id = k[2] /\ new[n].subId = k[3]
    BY <2>4, <2>7, RowsPoint
  <2> HIDE DEF new
  <2>9. /\ Len(ret') = Len(ret) + Len(new)
        /\ \A n \in 1..(Len(ret) + Len(new)) :
             ret'[n] = IF n <= Len(ret) THEN ret[n] ELSE new[n - Len(ret)]
    BY <2>1, <2>7, ConcatProperties DEF new
  <2>10. ASSUME NEW n \in 1..Len(ret')
         PROVE  /\ n <= Len(ret) => RowKey(n)' = RowKey(n) /\ ret'[n] = ret[n]
                /\ n > Len(ret) => RowKey(n)' = k /\ ret'[n] = new[n - Len(ret)]
    <3>1. CASE n <= Len(ret)
      BY <2>2, <2>7, <2>9, <3>1 DEF RowKey
    <3>2. CASE n > Len(ret)
      <4>1. n - Len(ret) \in 1..Len(new) /\ ret'[n] = new[n - Len(ret)]
        BY <2>7, <2>9, <3>2
      <4>2. ret'[n].id = k[2] /\ ret'[n].subId = k[3]
        BY <2>8, <4>1
      <4> QED BY <2>2, <2>4, <2>7, <3>2, <4>1, <4>2, KeyParts DEF RowKey
    <3> QED BY <2>7, <2>9, <3>1, <3>2
  <2>11. \E o \in Nat : BlockAt(k, o)'
    <3>1. PICK o \in Nat : BlockAt(k, o)
      BY <2>2, <2>4 DEF BlockInv
    <3>2. \A n \in 1..Len(ret) : RowKey(n) # k
      BY <2>5, <3>1 DEF BlockAt
    <3>3. \A n \in 1..Len(ret') : RowKey(n)' = k <=> n > Len(ret)
      BY <2>7, <2>9, <2>10, <3>2
    <3>4. \A i \in 1..Len(new) : Len(ret) + i \in 1..Len(ret')
                                 /\ Len(ret) + i > Len(ret) /\ (Len(ret) + i) - Len(ret) = i
      BY <2>7, <2>9
    <3>5. \A i \in 1..Len(new) : ret'[Len(ret) + i] = new[i]
      BY <2>10, <3>4
    <3>6. /\ Len(ret) + Len(new) <= Len(ret')
          /\ \A n \in 1..Len(ret') : n <= Len(ret) + Len(new)
      BY <2>7, <2>9
    <3>7. PICK l \in Nat : l = Len(ret)
      BY <2>7
    <3>8. /\ l + Len(Part(k)') <= Len(ret')
          /\ \A n \in 1..Len(ret') : RowKey(n)' = k <=> n > l /\ n <= l + Len(Part(k)')
          /\ \A i \in 1..Len(Part(k)') : ret'[l + i] = Part(k)'[i]
      BY <2>5, <3>3, <3>5, <3>6, <3>7
    <3>9. BlockAt(k, l)'
      BY <3>8 DEF BlockAt
    <3> QED BY <3>9
  <2>12. ASSUME NEW j \in Keys, j # k PROVE \E o \in Nat : BlockAt(j, o)'
    <3>1. PICK o \in Nat : BlockAt(j, o)
      BY <2>2 DEF BlockInv
    <3>2. Part(j)' = Part(j) /\ Len(Part(j)) \in Nat
      BY <2>6, <2>12, PartType
    <3>3. /\ o + Len(Part(j)) <= Len(ret) /\ Len(ret) <= Len(ret')
          /\ Len(ret') \in Nat
      BY <2>7, <2>9, <3>1 DEF BlockAt
    <3>4. ASSUME NEW n \in 1..Len(ret')
          PROVE  RowKey(n)' = j <=> n > o /\ n <= o + Len(Part(j))
      <4>1. CASE n <= Len(ret)
        <5>1. n \in 1..Len(ret) /\ RowKey(n)' = RowKey(n)
          BY <2>7, <2>10, <4>1
        <5> QED BY <3>1, <5>1 DEF BlockAt
      <4>2. CASE n > Len(ret)
        BY <2>7, <2>10, <2>12, <3>2, <3>3, <4>2
      <4> QED BY <2>7, <3>3, <4>1, <4>2
    <3>5. ASSUME NEW i \in 1..Len(Part(j)) PROVE ret'[o + i] = Part(j)[i]
      <4>1. o + i \in 1..Len(ret') /\ o + i <= Len(ret)
        BY <2>7, <3>2, <3>3
      <4> QED BY <2>10, <3>1, <4>1 DEF BlockAt
    <3>6. BlockAt(j, o)'
      BY <3>2, <3>3, <3>4, <3>5 DEF BlockAt
    <3> QED BY <3>6
  <2>13. queryTodo' \subseteq Selected(query)'
    BY <2>1, <2>3, <2>4
  <2>14. \A j \in Keys : \E o \in Nat : BlockAt(j, o)'
    BY <2>11, <2>12
  <2> QED BY <2>13, <2>14 DEF BlockInv
<1>3. CASE QueryReject \/ QueryReceive \/ QueryUnlock \/ QuerySend \/ QueryWake
  BY <1>0, <1>3 DEF QueryReject, QueryReceive, QueryUnlock, QuerySend, QueryWake, Goto
<1>4. CASE ~QueryThread
  <2>1. /\ UNCHANGED <<query, queryTodo, ret, idList, subIdList, data>>
        /\ pc["query"] = "walk"
    BY <1>4, QueryAlone
  <2>2. Selected(query)' = Selected(query)
    BY <2>1 DEF Selected, Listed
  <2>3. ASSUME NEW k \in Keys PROVE \E o \in Nat : BlockAt(k, o)'
    <3>1. PICK o \in Nat : BlockAt(k, o)
      BY <2>1 DEF BlockInv
    <3>2. Part(k)' = Part(k)
      BY <2>1, <2>2 DEF Part, Rows
    <3>3. BlockAt(k, o)'
      BY <2>1, <3>1, <3>2 DEF BlockAt, RowKey
    <3> QED BY <3>3
  <2> QED BY <2>1, <2>2, <2>3 DEF BlockInv
<1> QED BY <1>1, <1>2, <1>3, <1>4 DEF QueryThread

-----------------------------------------------------------------------------
(* What the reply says of a list.                                            *)

\* A value pointer leads to the record it was taken from: no two records of a
\* list have the same serial.
LEMMA ReferentFound ==
  ASSUME TypeOK, SerialInv, NEW k \in Keys, k[1] = query.sensor, NEW i \in DOMAIN data[k],
         NEW row, row.id = k[2], row.subId = k[3], row.ref = data[k][i].serial
  PROVE  Referent(row) = data[k][i]
<1>1. <<query.sensor, row.id, row.subId>> = k
  BY KeyParts
<1>2. ASSUME NEW j \in DOMAIN data[k], data[k][j].serial = data[k][i].serial
      PROVE  j = i
  <2>1. /\ data[k][i].serial \in Nat /\ i \in Int /\ j \in Int
        /\ DOMAIN data[k] = 1..Len(data[k]) /\ Len(data[k]) \in Nat
    BY RecordTypes
  <2>2. /\ i < j => data[k][i].serial > data[k][j].serial
        /\ j < i => data[k][j].serial > data[k][i].serial
    BY DEF SerialInv
  <2> QED BY <1>2, <2>1, <2>2
<1> DEFINE found == CHOOSE j \in DOMAIN data[k] : data[k][j].serial = row.ref
<1>3. found \in DOMAIN data[k] /\ data[k][found].serial = row.ref
  OBVIOUS
<1>4. Referent(row) = data[k][found]
  BY <1>1 DEF Referent
<1> HIDE DEF found
<1> QED BY <1>2, <1>3, <1>4

\* The lines about a list carry what the query picks of its values.
LEMMA LineVals ==
  ASSUME TypeOK, SerialInv, NEW k \in Keys, k[1] = query.sensor,
         data[k] # <<>>, query.type \in QueryTypes
  PROVE  LET rows == Rows(k, query.type) IN
         /\ Len(rows) \in Nat \ {0}
         /\ [i \in 1..Len(rows) |-> Line(rows[i]).vals] = PickedBy(query, Raws(k))
<1> DEFINE list == data[k]
           row(p) == [id |-> k[2], subId |-> k[3], ref |-> p, sums |-> Zeros, count |-> 0]
           rows == Rows(k, query.type)
<1>1. Len(list) \in Nat \ {0} /\ DOMAIN list = 1..Len(list)
  BY ListLength
<1>2. /\ Raws(k) \in Seq(Vals) /\ Len(Raws(k)) = Len(list)
      /\ \A i \in 1..Len(list) : Raws(k)[i] = list[i].raw
  BY RawsType
<1>3. ASSUME query.type # "V", NEW i \in DOMAIN list
      PROVE  Line(row(list[i].serial)).vals = list[i].raw
  <2>1. PICK r : r = row(list[i].serial)
    OBVIOUS
  <2>2. r.id = k[2] /\ r.subId = k[3] /\ r.ref = list[i].serial
    BY <2>1
  <2>3. Referent(r) = list[i]
    BY <2>2, ReferentFound
  <2>4. Line(r).vals = list[i].raw
    BY <1>3, <2>3 DEF Line
  <2> QED BY <2>1, <2>4
<1> HIDE DEF list, row
<1>4. CASE query.type = "L"
  <2>1. rows = <<row(list[1].serial)>> /\ 1 \in DOMAIN list
    BY <1>1, <1>4 DEF Rows, list, row
  <2>2. Len(rows) = 1 /\ rows[1] = row(list[1].serial)
    BY <2>1
  <2>3. PickedBy(query, Raws(k)) = <<list[1].raw>>
    BY <1>1, <1>2, <1>4 DEF PickedBy
  <2>4. Line(rows[1]).vals = list[1].raw
    BY <1>3, <1>4, <2>1, <2>2
  <2> HIDE DEF rows
  <2>5. [i \in 1..Len(rows) |-> Line(rows[i]).vals] = <<list[1].raw>>
    BY <2>2, <2>4
  <2> QED BY <2>2, <2>3, <2>5 DEF rows
<1>5. CASE query.type = "E"
  <2>1. rows = <<row(list[Len(list)].serial)>> /\ Len(list) \in DOMAIN list
    BY <1>1, <1>5 DEF Rows, list, row
  <2>2. Len(rows) = 1 /\ rows[1] = row(list[Len(list)].serial)
    BY <2>1
  <2>3. PickedBy(query, Raws(k)) = <<list[Len(list)].raw>>
    BY <1>1, <1>2, <1>5 DEF PickedBy
  <2>4. Line(rows[1]).vals = list[Len(list)].raw
    BY <1>3, <1>5, <2>1, <2>2
  <2> HIDE DEF rows
  <2>5. [i \in 1..Len(rows) |-> Line(rows[i]).vals] = <<list[Len(list)].raw>>
    BY <2>2, <2>4
  <2> QED BY <2>2, <2>3, <2>5 DEF rows
<1>6. CASE query.type = "A"
  <2>1. rows = [i \in 1..Len(list) |-> row(list[i].serial)]
    BY <1>6 DEF Rows, list, row
  <2>2. Len(rows) = Len(list) /\ \A i \in 1..Len(list) : rows[i] = row(list[i].serial)
    BY <1>1, <2>1
  <2>3. PickedBy(query, Raws(k)) = Raws(k)
    BY <1>6 DEF PickedBy
  <2>4. \A i \in 1..Len(list) : Line(rows[i]).vals = list[i].raw
    BY <1>1, <1>3, <1>6, <2>2
  <2> HIDE DEF rows
  <2>5. [i \in 1..Len(rows) |-> Line(rows[i]).vals] = Raws(k)
    BY <1>1, <2>2, <2>4 DEF Raws, list
  <2> QED BY <1>1, <2>2, <2>3, <2>5 DEF rows
<1>7. CASE query.type = "V"
  <2> DEFINE avg == [id |-> k[2], subId |-> k[3], ref |-> NoRef,
                     sums |-> Sums(Raws(k)), count |-> Len(list)]
             raws == Raws(k)
             means == <<MeanOf(raws, 1), MeanOf(raws, 2), MeanOf(raws, 3), MeanOf(raws, 4)>>
  <2>1. rows = <<avg>>
    BY <1>1, <1>7 DEF Rows, Raws, list
  <2>2. avg.count = Len(list) /\ \A c \in 1..4 : avg.sums[c] = Sum(raws, c)
    BY DEF Sums
  <2> HIDE DEF avg
  <2>3. \A c \in 1..4 : MeanOf(raws, c) = CDiv(Sum(raws, c), Len(list))
    <3>1. \A i \in 1..Len(raws) : raws[i] \in Vals
      BY <1>2, RawsType DEF list
    <3>2. \A c \in 1..4 : Sum(raws, c) \in Int
      BY <1>1, <1>2, <3>1, SumsType
    <3> QED BY <1>1, <1>2, <3>2, MeanCut
  <2>4. Average(avg) = means
    <3>1. \A c \in 1..4 : (IF avg.count # 0 THEN CDiv(avg.sums[c], avg.count) ELSE 0)
                          = MeanOf(raws, c)
      BY <1>1, <2>2, <2>3
    <3> QED BY <3>1 DEF Average
  <2>5. Len(rows) = 1 /\ rows[1] = avg
    BY <2>1
  <2>6. Line(rows[1]).vals = means
    BY <1>7, <2>4, <2>5 DEF Line
  <2>7. PickedBy(query, raws) = <<means>>
    BY <1>7 DEF PickedBy
  <2> HIDE DEF rows, means, raws
  <2>8. [i \in 1..Len(rows) |-> Line(rows[i]).vals] = <<means>>
    BY <2>5, <2>6
  <2> QED BY <2>5, <2>7, <2>8 DEF rows, raws
<1> QED BY <1>4, <1>5, <1>6, <1>7 DEF QueryTypes

\* The list is part of the answer exactly if the query is about it and it is not
\* empty: a list that is not empty has its headers.
LEMMA PartAsked ==
  ASSUME TypeOK, SerialInv, HeadersConsistent, BlockInv, pc["query"] = "walk",
         queryTodo = {}, NEW k \in Keys
  PROVE  /\ Len(Part(k)) \in Nat
         /\ Len(Part(k)) # 0 <=> AsksFor(query, k) /\ data[k] # <<>>
         /\ Len(Part(k)) # 0 =>
              [i \in 1..Len(Part(k)) |-> Line(Part(k)[i]).vals] = PickedBy(query, Raws(k))
<1>1. k \in Selected(query) <=>
        k[1] = query.sensor /\ Listed(k) /\ Matches(query.id, k[2]) /\ Matches(query.subId, k[3])
  BY DEF Selected
<1>2. data[k] # <<>> => Listed(k)
  BY DEF HeadersConsistent
<1>3. CASE AsksFor(query, k) /\ data[k] # <<>>
  <2>1. Part(k) = Rows(k, query.type)
    BY <1>1, <1>2, <1>3 DEF Part, AsksFor
  <2> QED BY <1>3, <2>1, LineVals DEF AsksFor
<1>4. CASE ~(AsksFor(query, k) /\ data[k] # <<>>)
  <2>1. Part(k) = <<>>
    <3>1. CASE k \in Selected(query)
      <4>1. data[k] = <<>> \/ query.type \notin QueryTypes
        BY <1>1, <1>4, <3>1 DEF AsksFor
      <4>2. Rows(k, query.type) = <<>>
        BY <4>1 DEF Rows, QueryTypes
      <4> QED BY <4>2 DEF Part
    <3>2. CASE k \notin Selected(query)
      BY <3>2 DEF Part
    <3> QED BY <3>1, <3>2
  <2> QED BY <1>4, <2>1
<1> QED BY <1>3, <1>4

\* The ends of an interval.
LEMMA Interval ==
  ASSUME NEW o \in Nat, NEW m \in Nat \ {0}
  PROVE  Min((o + 1)..(o + m)) = o + 1 /\ Max((o + 1)..(o + m)) = o + m
<1> DEFINE S == (o + 1)..(o + m)
<1>1. o + 1 \in S /\ o + m \in S /\ \A x \in S : o + 1 <= x /\ x <= o + m /\ x \in Int
  OBVIOUS
<1> HIDE DEF S
<1>2. \A x \in S : (\A y \in S : x <= y) <=> x = o + 1
  BY <1>1
<1>3. \A x \in S : (\A y \in S : x >= y) <=> x = o + m
  BY <1>1
<1>4. Min(S) = o + 1
  BY <1>1, <1>2 DEF Min
<1>5. Max(S) = o + m
  BY <1>1, <1>3 DEF Max
<1> QED BY <1>4, <1>5 DEF S

\* The reply that is formatted when the walk is over says what the cache answers:
\* it has lines for the lists the query asks about that are not empty, and for
\* each of them the lines the query picks, in order.
LEMMA FormattedAnswers ==
  ASSUME TypeOK, MutualExclusion, SerialInv, HeadersConsistent, BlockInv,
         pc["query"] = "walk", queryTodo = {}
  PROVE  RowsOf(Formatted) = Cache!Answer(query)
<1> DEFINE wanted(k) == AsksFor(query, k) /\ data[k] # <<>>
<1>0. /\ Formatted.sensor = query.sensor /\ Len(ret) \in Nat
      /\ DOMAIN Formatted.lines = 1..Len(ret)
      /\ \A n \in 1..Len(ret) :
           /\ Formatted.lines[n] = Line(ret[n])
           /\ Formatted.lines[n].id = ret[n].id /\ Formatted.lines[n].subId = ret[n].subId
  BY LenProperties DEF Formatted, Line, TypeOK
<1>1. ASSUME NEW k \in Keys
      PROVE  \E o \in Nat :
               /\ BlockAt(k, o)
               /\ LinesAt(Formatted, k) = (o + 1)..(o + Len(Part(k)))
  <2>1. PICK o \in Nat : BlockAt(k, o)
    BY DEF BlockInv
  <2>2. Len(Part(k)) \in Nat
    BY PartType
  <2>3. LinesAt(Formatted, k) = {n \in 1..Len(ret) : RowKey(n) = k}
    BY <1>0 DEF LinesAt, RowKey
  <2>4. {n \in 1..Len(ret) : RowKey(n) = k} = (o + 1)..(o + Len(Part(k)))
    BY <1>0, <2>1, <2>2 DEF BlockAt
  <2> QED BY <2>1, <2>3, <2>4
<1>2. ASSUME NEW k \in Keys PROVE LinesAt(Formatted, k) # {} <=> wanted(k)
  <2>1. PICK o \in Nat : LinesAt(Formatted, k) = (o + 1)..(o + Len(Part(k)))
    BY <1>1
  <2>2. Len(Part(k)) \in Nat /\ (Len(Part(k)) # 0 <=> wanted(k))
    BY PartAsked
  <2>3. LinesAt(Formatted, k) # {} <=> Len(Part(k)) # 0
    <3>1. CASE Len(Part(k)) = 0
      BY <2>1, <3>1
    <3>2. CASE Len(Part(k)) # 0
      <4>1. o + 1 \in (o + 1)..(o + Len(Part(k)))
        BY <2>2, <3>2
      <4> QED BY <2>1, <3>2, <4>1
    <3> QED BY <3>1, <3>2
  <2> QED BY <2>2, <2>3
<1> DEFINE value(k) ==
             LET from == Min(LinesAt(Formatted, k))
                 to   == Max(LinesAt(Formatted, k))
             IN [i \in 1..(to - from + 1) |-> Formatted.lines[from + i - 1].vals]
<1>3. ASSUME NEW k \in Keys, wanted(k) PROVE value(k) = PickedBy(query, Raws(k))
  <2>1. PICK o \in Nat : /\ BlockAt(k, o)
                         /\ LinesAt(Formatted, k) = (o + 1)..(o + Len(Part(k)))
    BY <1>1
  <2>2. /\ Len(Part(k)) \in Nat \ {0}
        /\ [i \in 1..Len(Part(k)) |-> Line(Part(k)[i]).vals] = PickedBy(query, Raws(k))
    BY <1>3, PartAsked
  <2>3. /\ Min(LinesAt(Formatted, k)) = o + 1
        /\ Max(LinesAt(Formatted, k)) = o + Len(Part(k))
    BY <2>1, <2>2, Interval
  <2>4. (o + Len(Part(k))) - (o + 1) + 1 = Len(Part(k))
    BY <2>2
  <2>5. ASSUME NEW i \in 1..Len(Part(k))
        PROVE  Formatted.lines[(o + 1) + i - 1].vals = Line(Part(k)[i]).vals
    <3>1. (o + 1) + i - 1 = o + i /\ o + i \in 1..Len(ret)
      BY <1>0, <2>1, <2>2 DEF BlockAt
    <3>2. ret[o + i] = Part(k)[i]
      BY <2>1 DEF BlockAt
    <3> QED BY <1>0, <3>1, <3>2
  <2> QED BY <2>2, <2>3, <2>4, <2>5
<1>4. ASSUME NEW k \in Keys
      PROVE  /\ wanted(k) <=> AsksFor(query, k) /\ Shown[k] # <<>>
             /\ [i \in 1..Len(Shown[k]) |-> Shown[k][i].raw] = Raws(k)
  <2>1. pc["post"] \notin {"stamp", "fill"}
    BY DEF MutualExclusion, Threads, Critical
  <2>2. /\ Visible(k) \in Seq(Reading) /\ Len(Visible(k)) = Len(data[k])
        /\ \A i \in 1..Len(data[k]) :
             Visible(k)[i] = [time |-> data[k][i].time, raw |-> data[k][i].raw]
    BY <2>1, AllSeen
  <2>3. Shown[k] = Visible(k)
    BY DEF Shown
  <2>4. Shown[k] # <<>> <=> data[k] # <<>>
    BY <2>2, <2>3, ListLength, EmptySeq
  <2>5. ASSUME NEW i \in 1..Len(data[k]) PROVE Shown[k][i].raw = data[k][i].raw
    <3>1. Shown[k][i] = [time |-> data[k][i].time, raw |-> data[k][i].raw]
      BY <2>2, <2>3
    <3> QED BY ONLY <3>1
  <2> QED BY <2>2, <2>3, <2>4, <2>5 DEF Raws
<1>5. RowsOf(Formatted) = [k \in {k \in Keys : LinesAt(Formatted, k) # {}} |-> value(k)]
  BY DEF RowsOf
<1> HIDE DEF value
<1>6. {k \in Keys : LinesAt(Formatted, k) # {}}
        = {k \in Keys : AsksFor(query, k) /\ Shown[k] # <<>>}
  BY <1>2, <1>4
<1>7. \A k \in {k \in Keys : AsksFor(query, k) /\ Shown[k] # <<>>} :
        value(k) = PickedBy(query, [i \in 1..Len(Shown[k]) |-> Shown[k][i].raw])
  BY <1>3, <1>4
<1> QED BY <1>5, <1>6, <1>7 DEF Cache!Answer, Cache!Values

-----------------------------------------------------------------------------
(* The answers given.                                                        *)

RepliesInv == \E S : replies \in Seq(S)

\* A query that is being worked on is one that was sent.
AskedInv == pc["query"] \in {"lock", "walk", "send"} => query \in Queries

\* Only the query thread's last two steps touch the replies.
LEMMA ReplySteps ==
  ASSUME TypeOK, [Next]_vars, ~QueryUnlock, ~QuerySend
  PROVE  /\ UNCHANGED <<replies, retBuffer>>
         /\ pc'["query"] = "send" <=> pc["query"] = "send"
<1>0. DOMAIN pc = Threads /\ "query" \in Threads
  BY DEF TypeOK, Threads
<1>1. CASE QueryReject \/ QueryReceive \/ QueryLock \/ QueryList \/ QueryWake
  BY <1>0, <1>1 DEF QueryReject, QueryReceive, QueryLock, QueryList, QueryWake,
                    Goto, queryVars
<1>2. CASE ~QueryThread
  <2>1. pc'["query"] = pc["query"]
    BY <1>2, NotQuery
  <2>2. CASE Environment
    <3>1. CASE \E d \in Datagrams : SendPost(d)
      BY <3>1 DEF SendPost, queryVars
    <3>2. CASE \E q \in Queries : SendQuery(q)
      BY <3>2 DEF SendQuery, queryVars
    <3>3. CASE Tick \/ SetBack
      BY <3>3 DEF Tick, SetBack, queryVars
    <3> QED BY <2>1, <2>2, <3>1, <3>2, <3>3 DEF Environment
  <2>3. CASE PostThread
    BY <2>1, <2>3 DEF PostThread, PostReject, PostReceive, PostLock, PostHook, PostStamp,
                      PostFill, PostUnlock, queryVars
  <2>4. CASE PruneThread
    BY <2>1, <2>4 DEF PruneThread, PruneWake, PruneLock, PruneList, PruneUnlock, queryVars
  <2>5. CASE UNCHANGED vars
    BY <2>1, <2>5 DEF vars, queryVars
  <2> QED BY <1>2, <2>2, <2>3, <2>4, <2>5 DEF Next
<1> QED BY <1>1, <1>2 DEF QueryThread

LEMMA RepliesNext == TypeOK /\ RepliesInv /\ [Next]_vars => RepliesInv'
<1> SUFFICES ASSUME TypeOK, RepliesInv, [Next]_vars PROVE RepliesInv'
  OBVIOUS
<1>1. PICK S : replies \in Seq(S)
  BY DEF RepliesInv
<1>2. CASE QuerySend
  <2>1. replies' = Append(replies, retBuffer)
    BY <1>2 DEF QuerySend
  <2>2. replies' \in Seq(S \cup {retBuffer})
    BY <1>1, <2>1
  <2> QED BY <2>2 DEF RepliesInv
<1>3. CASE ~QuerySend
  <2>1. replies' = replies
    BY <1>3, ReplySteps DEF QueryUnlock
  <2> QED BY <1>1, <2>1 DEF RepliesInv
<1> QED BY <1>2, <1>3

LEMMA AskedNext == TypeOK /\ AskedInv /\ [Next]_vars => AskedInv'
<1> SUFFICES ASSUME TypeOK, AskedInv, [Next]_vars PROVE AskedInv'
  OBVIOUS
<1>0. DOMAIN pc = Threads /\ "query" \in Threads
  BY DEF TypeOK, Threads
<1>1. CASE QueryReceive
  <2>1. querySock \in Seq(Queries) /\ querySock # <<>> /\ query' = Head(querySock)
    BY <1>1 DEF QueryReceive, TypeOK
  <2>2. query' \in Queries
    BY <2>1
  <2> QED BY <2>2 DEF AskedInv
<1>2. CASE QueryReject \/ QuerySend \/ QueryWake
  BY <1>0, <1>2 DEF QueryReject, QuerySend, QueryWake, Goto, AskedInv
<1>3. CASE QueryLock \/ QueryList \/ QueryUnlock
  BY <1>0, <1>3 DEF QueryLock, QueryList, QueryUnlock, Goto, AskedInv
<1>4. CASE ~QueryThread
  BY <1>4, NotQuery DEF AskedInv
<1> QED BY <1>1, <1>2, <1>3, <1>4 DEF QueryThread

\* Nothing but formatting the reply gives an answer: sending it does not.
LEMMA GivenSame ==
  ASSUME TypeOK, [Next]_vars, ~QueryUnlock
  PROVE  Given' = Given
<1>0. DOMAIN pc = Threads /\ "query" \in Threads
  BY DEF TypeOK, Threads
<1>1. CASE QuerySend
  <2>1. /\ pc["query"] = "send" /\ pc'["query"] = "nap"
        /\ replies' = Append(replies, retBuffer)
    BY <1>0, <1>1 DEF QuerySend, Goto
  <2> QED BY <2>1 DEF Given
<1>2. CASE ~QuerySend
  BY <1>2, ReplySteps DEF Given
<1> QED BY <1>1, <1>2

\* Formatting the reply is the step of the cache that answers.
LEMMA UnlockReplies ==
  ASSUME TypeOK, MutualExclusion, FrontInv, SerialInv, HeadersConsistent, BlockInv,
         AskedInv, RepliesInv, [Next]_vars, QueryUnlock
  PROVE  query \in Queries /\ Cache!Reply(query)
<1>0. DOMAIN pc = Threads /\ "query" \in Threads
  BY DEF TypeOK, Threads
<1>1. /\ pc["query"] = "walk" /\ pc'["query"] = "send" /\ queryTodo = {}
      /\ replies' = replies /\ retBuffer' = Formatted /\ clock' = clock
      /\ query \in Queries
  BY <1>0 DEF QueryUnlock, Goto, AskedInv
<1>2. PICK S : replies \in Seq(S)
  BY DEF RepliesInv
<1> DEFINE given(r) == [tag |-> r.tag, rows |-> RowsOf(r)]
           all == S \cup {Formatted}
           T == {given(r) : r \in all}
           sent == Append(replies, Formatted)
<1>3. /\ replies \in Seq(all) /\ Len(replies) \in Nat
      /\ sent \in Seq(all) /\ Len(sent) = Len(replies) + 1
      /\ \A i \in 1..Len(replies) : sent[i] = replies[i]
      /\ sent[Len(replies) + 1] = Formatted
  BY <1>2, AppendProperties, LenProperties
<1>4. /\ Given = [i \in 1..Len(replies) |-> given(replies[i])]
      /\ Given' = [i \in 1..Len(sent) |-> given(sent[i])]
  BY <1>1 DEF Given
<1> HIDE DEF given, T, all, sent
<1>5. \A r \in all : given(r) \in T
  BY DEF T
<1>6. ASSUME NEW s \in Seq(all)
      PROVE  /\ [i \in 1..Len(s) |-> given(s[i])] \in Seq(T)
             /\ Len([i \in 1..Len(s) |-> given(s[i])]) = Len(s)
  <2>1. Len(s) \in Nat /\ \A i \in 1..Len(s) : given(s[i]) \in T
    BY <1>5, ElementOfSeq, LenProperties
  <2> DEFINE g == [i \in 1..Len(s) |-> given(s[i])]
  <2>2. g \in Seq(T) /\ DOMAIN g = 1..Len(s)
    BY <2>1, SeqDef
  <2> HIDE DEF g
  <2>3. Len(g) = Len(s)
    BY <2>1, <2>2, LenProperties
  <2> QED BY <2>2, <2>3 DEF g
<1>7. /\ Given \in Seq(T) /\ Len(Given) = Len(replies)
      /\ Given' \in Seq(T) /\ Len(Given') = Len(replies) + 1
  BY <1>3, <1>4, <1>6
<1>8. given(Formatted) \in T
  BY <1>5 DEF all
<1>9. /\ Append(Given, given(Formatted)) \in Seq(T)
      /\ Len(Append(Given, given(Formatted))) = Len(replies) + 1
      /\ \A i \in 1..Len(replies) : Append(Given, given(Formatted))[i] = Given[i]
      /\ Append(Given, given(Formatted))[Len(replies) + 1] = given(Formatted)
  BY <1>7, <1>8, AppendProperties
<1>10. \A i \in 1..(Len(replies) + 1) : Given'[i] = Append(Given, given(Formatted))[i]
  <2> SUFFICES ASSUME NEW i \in 1..(Len(replies) + 1)
               PROVE  Given'[i] = Append(Given, given(Formatted))[i]
    OBVIOUS
  <2>1. CASE i <= Len(replies)
    BY <1>3, <1>4, <1>9, <2>1
  <2>2. CASE i = Len(replies) + 1
    BY <1>3, <1>4, <1>9, <2>2
  <2>3. Len(replies) \in Nat
    BY <1>3
  <2>4. i <= Len(replies) \/ i = Len(replies) + 1
    BY <2>3
  <2> QED BY <2>1, <2>2, <2>4
<1>11. Given' = Append(Given, given(Formatted))
  BY <1>7, <1>9, <1>10, SeqEqual
<1>12. given(Formatted) = [tag |-> query.tag, rows |-> Cache!Answer(query)]
  <2>1. RowsOf(Formatted) = Cache!Answer(query)
    BY <1>1, FormattedAnswers
  <2>2. Formatted.tag = query.tag
    BY DEF Formatted
  <2> QED BY <2>1, <2>2 DEF given
<1>13. Shown' = Shown
  <2>1. ~PostStamp /\ ~PruneList
    BY <1>1, <1>0 DEF QueryUnlock, PostStamp, PruneList, releaseLock, Goto, MutualExclusion, Critical, Threads
  <2> QED BY <2>1, Unseen DEF Shown
<1>14. Cache!Reply(query)
  BY <1>1, <1>11, <1>12, <1>13 DEF Cache!Reply, Cache!storeVars
<1> QED BY <1>1, <1>14

\* Every step is one of ReadingCache or cannot be seen.
LEMMA StepCaches ==
  TypeOK /\ MutualExclusion /\ FrontInv /\ TimeInv /\ NowInv
    /\ Forward /\ Forward' /\ SerialInv /\ HeadersConsistent /\ BlockInv
    /\ AskedInv /\ RepliesInv /\ [Next]_vars
  => [Cache!CacheNext]_<<<<clock, Shown>>, Given>>
<1> SUFFICES ASSUME TypeOK, MutualExclusion, FrontInv, TimeInv, NowInv,
                    Forward, Forward', SerialInv, HeadersConsistent, BlockInv,
                    AskedInv, RepliesInv, [Next]_vars
             PROVE  Cache!CacheNext \/ UNCHANGED <<<<clock, Shown>>, Given>>
  BY DEF Cache!CacheNext
<1>1. CASE QueryUnlock
  BY <1>1, UnlockReplies DEF Cache!CacheNext
<1>2. CASE ~QueryUnlock
  <2>1. Given' = Given
    BY <1>2, GivenSame
  <2>2. TheStore!StoreNext \/ UNCHANGED <<clock, Shown>>
    BY StepStores
  <2>3. TheStore!StoreNext <=> Cache!StoreNext
    BY DEF TheStore!StoreNext, Cache!StoreNext, TheStore!Advance, Cache!Advance,
           TheStore!Store, Cache!Store, TheStore!Forget, Cache!Forget
  <2> QED BY <2>1, <2>2, <2>3 DEF Cache!CacheNext
<1> QED BY <1>1, <1>2

\* The invariants the answers rest on, none of which is about the clock.
LEMMA AnswerInvs ==
  Spec => [](FrontInv /\ SerialInv /\ BlockInv /\ AskedInv /\ RepliesInv)
<1>1. Init => FrontInv /\ BlockInv /\ AskedInv
  BY DEF Init, FrontInv, BlockInv, AskedInv
<1>2. Init => SerialInv
  BY DEF Init, SerialInv
<1>3. Init => RepliesInv
  <2>1. Init => replies \in Seq({})
    BY DEF Init
  <2> QED BY <2>1 DEF RepliesInv
<1> QED BY <1>1, <1>2, <1>3, TypeCorrect, MutexCorrect, FrontNext, SerialNext, BlockNext,
           AskedNext, RepliesNext, PTL DEF Spec

\* Whatever the clock does, the step that formats a reply answers the query from
\* the lists as they are at that instant, as the cache does, although the rows
\* were collected list by list before; no other step gives an answer.
THEOREM AnswersFromOneInstant ==
  Spec => [][IF QueryUnlock THEN Cache!Reply(query) ELSE UNCHANGED Given]_vars
<1>1. TypeOK /\ MutualExclusion /\ HeadersConsistent
        /\ FrontInv /\ SerialInv /\ BlockInv /\ AskedInv /\ RepliesInv /\ [Next]_vars
      => [IF QueryUnlock THEN Cache!Reply(query) ELSE UNCHANGED Given]_vars
  BY UnlockReplies, GivenSame
<1> QED BY <1>1, AnswerInvs, TypeCorrect, MutexCorrect, HeadersCorrect, PTL DEF Spec

\* As long as the clock is not set back, all that can be seen of the database, its
\* answers included, is a cache that stores, forgets and answers in single steps:
\* every query is answered once, from the lists as they are at one instant, with
\* a line or lines for every list it asks about that is not empty.
THEOREM CacheImplemented ==
  ASSUME MaxStepBack = 0
  PROVE  Spec => ImplementsCache
<1>1. Init => Cache!CacheInit
  <2> SUFFICES ASSUME Init
               PROVE  clock = 1 /\ Shown = [k \in Keys |-> <<>>] /\ Given = <<>>
    BY DEF Cache!CacheInit, Cache!StoreInit
  <2>1. TypeOK /\ pc["post"] = "recv" /\ pc["query"] = "recv" /\ replies = <<>>
    BY TypeInit DEF Init
  <2>2. ASSUME NEW k \in Keys PROVE Visible(k) = <<>>
    <3>1. Visible(k) \in Seq(Reading) /\ Len(Visible(k)) = 0
      BY <2>1, AllSeen DEF Init
    <3> QED BY <3>1, EmptySeq
  <2>3. Given = <<>>
    <3> DEFINE given(i) == [tag |-> replies[i].tag, rows |-> RowsOf(replies[i])]
    <3>1. Given = [i \in 1..Len(replies) |-> given(i)]
      BY <2>1 DEF Given
    <3> HIDE DEF given
    <3>2. Len(replies) = 0
      BY <2>1
    <3> QED BY <3>1, <3>2
  <2> QED BY <2>2, <2>3 DEF Init, Shown
<1>2. Init => TimeInv /\ NowInv
  BY DEF Init, TimeInv, NowInv
<1>3. Spec => [](TypeOK /\ MutualExclusion /\ HeadersConsistent /\ Forward)
  BY TypeCorrect, MutexCorrect, HeadersCorrect, ForwardAlways, PTL
<1>4. Spec => [](TimeInv /\ NowInv)
  BY <1>2, <1>3, TimeNext, NowNext, PTL DEF Spec
<1>5. Spec => [](FrontInv /\ SerialInv /\ BlockInv /\ AskedInv /\ RepliesInv)
  BY AnswerInvs
<1>6. Spec => [][Cache!CacheNext]_<<<<clock, Shown>>, Given>>
  BY <1>3, <1>4, <1>5, StepCaches, PTL DEF Spec
<1>7. Spec => Cache!CacheInit
  BY <1>1 DEF Spec
<1> QED BY <1>6, <1>7, PTL DEF ImplementsCache, Cache!CacheSpec, Cache!storeVars

-----------------------------------------------------------------------------
(* Nothing is processed or answered twice.                                   *)

PostBusy == IF pc["post"] = "recv" THEN 0 ELSE 1
QueryBusy == IF pc["query"] \in {"lock", "walk", "send"} THEN 1 ELSE 0

\* The steps of the other threads leave the post thread's accounts alone.
LEMMA PostAccounts ==
  ASSUME TypeOK, [Next]_vars, ~PostThread
  PROVE  \/ UNCHANGED <<postSock, posted>>
         \/ \E d \in Datagrams :
              /\ postSock' = Append(postSock, d)
              /\ posted' = IF d = Empty THEN posted ELSE posted + 1
<1>1. CASE \E d \in Datagrams : SendPost(d)
  BY <1>1 DEF SendPost
<1>2. CASE (\E q \in Queries : SendQuery(q)) \/ Tick \/ SetBack
  BY <1>2 DEF SendQuery, Tick, SetBack, network
<1>3. CASE PruneThread
  BY <1>3 DEF PruneThread, PruneWake, PruneLock, PruneList, PruneUnlock, network
<1>4. CASE QueryThread
  BY <1>4 DEF QueryThread, QueryReject, QueryReceive, QueryLock, QueryList, QueryUnlock,
              QuerySend, QueryWake, network
<1>5. CASE UNCHANGED vars
  BY <1>5 DEF vars, network
<1> QED BY <1>1, <1>2, <1>3, <1>4, <1>5 DEF Next, Environment

\* Nor does any but the query thread touch the queries.
LEMMA QueryAccounts ==
  ASSUME TypeOK, [Next]_vars, ~QueryThread
  PROVE  \/ UNCHANGED <<querySock, asked>>
         \/ /\ \E q \in Queries : querySock' = Append(querySock, q)
            /\ asked' = asked + 1
<1>1. CASE \E q \in Queries : SendQuery(q)
  BY <1>1 DEF SendQuery
<1>2. CASE (\E d \in Datagrams : SendPost(d)) \/ Tick \/ SetBack
  BY <1>2 DEF SendPost, Tick, SetBack, network
<1>3. CASE PruneThread
  BY <1>3 DEF PruneThread, PruneWake, PruneLock, PruneList, PruneUnlock, network
<1>4. CASE PostThread
  BY <1>4 DEF PostThread, PostReject, PostReceive, PostLock, PostHook, PostStamp,
              PostFill, PostUnlock, network
<1>5. CASE UNCHANGED vars
  BY <1>5 DEF vars, network
<1> QED BY <1>1, <1>2, <1>3, <1>4, <1>5 DEF Next, Environment

\* A sequence grows and shrinks by one.
LEMMA GrowShrink ==
  ASSUME NEW S, NEW s \in Seq(S)
  PROVE  /\ Len(s) \in Nat
         /\ \A e \in S : Len(Append(s, e)) = Len(s) + 1
         /\ s # <<>> => Len(Tail(s)) = Len(s) - 1
BY AppendProperties, HeadTailProperties, LenProperties

\* The positions of s whose element is not empty, which for postSock is Waiting.
Filled(s) == {i \in DOMAIN s : s[i] # Empty}

\* They are finitely many, one more when something is appended that is not empty,
\* and one less when such an element is taken from the front.
LEMMA FilledCount ==
  ASSUME NEW S, NEW s \in Seq(S)
  PROVE  /\ Cardinality(Filled(s)) \in Nat
         /\ \A e \in S : Cardinality(Filled(Append(s, e)))
                         = Cardinality(Filled(s)) + (IF e = Empty THEN 0 ELSE 1)
         /\ s # <<>> => Cardinality(Filled(s))
                         = Cardinality(Filled(Tail(s))) + (IF Head(s) = Empty THEN 0 ELSE 1)
<1>1. ASSUME NEW t \in Seq(S) PROVE IsFiniteSet(Filled(t)) /\ Cardinality(Filled(t)) \in Nat
  <2>1. Len(t) \in Nat /\ Filled(t) \subseteq 1..Len(t)
    BY LenProperties DEF Filled
  <2>2. IsFiniteSet(1..Len(t))
    BY <2>1, FS_Interval
  <2> QED BY <2>1, <2>2, FS_Subset, FS_CardinalityType
<1>2. ASSUME NEW e \in S
      PROVE  Cardinality(Filled(Append(s, e)))
               = Cardinality(Filled(s)) + (IF e = Empty THEN 0 ELSE 1)
  <2> DEFINE n == Len(s) + 1
  <2>1. /\ Len(s) \in Nat /\ DOMAIN s = 1..Len(s) /\ DOMAIN Append(s, e) = 1..n
        /\ Append(s, e)[n] = e /\ \A i \in 1..Len(s) : Append(s, e)[i] = s[i]
    BY AppendProperties, LenProperties
  <2>2. n \notin Filled(s)
    BY <2>1 DEF Filled
  <2>3. Filled(Append(s, e)) = Filled(s) \cup (IF e = Empty THEN {} ELSE {n})
    BY <2>1 DEF Filled
  <2>4. IsFiniteSet(Filled(s)) /\ Cardinality(Filled(s)) \in Nat
    BY <1>1
  <2>5. CASE e = Empty
    <3>1. Filled(Append(s, e)) = Filled(s)
      BY <2>3, <2>5
    <3> QED BY <2>4, <2>5, <3>1
  <2>6. CASE e # Empty
    <3>1. Filled(Append(s, e)) = Filled(s) \cup {n}
      BY <2>3, <2>6
    <3>2. Cardinality(Filled(s) \cup {n}) = Cardinality(Filled(s)) + 1
      BY <2>2, <2>4, FS_AddElement
    <3> QED BY <2>6, <3>1, <3>2
  <2> QED BY <2>5, <2>6
<1>3. ASSUME s # <<>>
      PROVE  Cardinality(Filled(s))
               = Cardinality(Filled(Tail(s))) + (IF Head(s) = Empty THEN 0 ELSE 1)
  <2> DEFINE t == Tail(s)
             Later == Filled(s) \ {1}
  <2>1. /\ t \in Seq(S) /\ Len(s) \in Nat \ {0} /\ Len(t) = Len(s) - 1
        /\ DOMAIN s = 1..Len(s) /\ DOMAIN t = 1..Len(t)
        /\ Head(s) = s[1] /\ \A i \in 1..Len(t) : t[i] = s[i + 1]
    BY <1>3, HeadTailProperties, LenProperties, EmptySeq
  <2>2. /\ IsFiniteSet(Filled(s)) /\ IsFiniteSet(Filled(t))
        /\ Cardinality(Filled(s)) \in Nat /\ Cardinality(Filled(t)) \in Nat
    BY <1>1, <2>1
  <2>3. ExistsBijection(Filled(t), Later)
    <3> DEFINE f == [i \in Filled(t) |-> i + 1]
    <3>1. \A i \in Filled(t) : i \in 1..Len(t) /\ i + 1 \in Later
      BY <2>1 DEF Filled
    <3>2. \A j \in Later : j - 1 \in Filled(t) /\ (j - 1) + 1 = j
      BY <2>1 DEF Filled
    <3>3. f \in Bijection(Filled(t), Later)
      <4>1. f \in [Filled(t) -> Later]
        BY <3>1
      <4>2. \A i, j \in Filled(t) : f[i] = f[j] => i = j
        BY <3>1
      <4>3. \A j \in Later : \E i \in Filled(t) : f[i] = j
        BY <3>2
      <4> QED BY <4>1, <4>2, <4>3 DEF Bijection, Injection, Surjection, IsInjective
    <3> QED BY <3>3 DEF ExistsBijection
  <2>4. Cardinality(Later) = Cardinality(Filled(t))
    <3>1. IsFiniteSet(Later)
      BY <2>2, FS_Subset
    <3> QED BY <2>2, <2>3, <3>1, FS_Bijection
  <2>5. 1 \in Filled(s) <=> Head(s) # Empty
    BY <2>1 DEF Filled
  <2>6. CASE Head(s) = Empty
    <3>1. Later = Filled(s)
      BY <2>5, <2>6
    <3>2. Cardinality(Filled(s)) = Cardinality(Filled(t))
      BY <2>4, <3>1
    <3> QED BY <2>2, <2>6, <3>2
  <2>7. CASE Head(s) # Empty
    <3>1. Cardinality(Later) = Cardinality(Filled(s)) - 1
      BY <2>2, <2>5, <2>7, FS_RemoveElement
    <3> QED BY <2>2, <2>4, <2>7, <3>1
  <2> QED BY <2>6, <2>7
<1> QED BY <1>1, <1>2, <1>3

LEMMA OnceNext == TypeOK /\ RepliesInv /\ EachOnce /\ [Next]_vars => EachOnce'
<1> SUFFICES ASSUME TypeOK, RepliesInv, EachOnce, [Next]_vars PROVE EachOnce'
  OBVIOUS
<1>0. /\ DOMAIN pc = Threads /\ "query" \in Threads /\ "post" \in Threads
      /\ postSock \in Seq(Datagrams) /\ querySock \in Seq(Queries)
      /\ posted \in Nat /\ asked \in Nat /\ MsgNum \in Nat
      /\ Len(querySock) \in Nat
  BY LenProperties DEF TypeOK, Threads
<1> DEFINE waiting == Cardinality(Filled(postSock))
<1>5. waiting \in Nat /\ Cardinality(Waiting) = waiting /\ Cardinality(Waiting)' = waiting'
  BY <1>0, FilledCount DEF Waiting, Filled
<1>1. PICK S : replies \in Seq(S)
  BY DEF RepliesInv
<1>2. Len(replies) \in Nat /\ Len(Append(replies, retBuffer)) = Len(replies) + 1
  <2>1. replies \in Seq(S \cup {retBuffer}) /\ retBuffer \in S \cup {retBuffer}
    BY <1>1
  <2> QED BY <2>1, GrowShrink
<1>3. MsgNum' + Cardinality(Waiting)' + PostBusy' = posted'
  <2> SUFFICES MsgNum' + waiting' + PostBusy' = posted'
    BY <1>5
  <2>1. MsgNum + waiting + PostBusy = posted
    BY <1>5 DEF EachOnce, PostBusy
  <2>2. CASE PostReject
    <3> DEFINE one == IF Head(postSock) = Empty THEN 0 ELSE 1
    <3>1. /\ postSock # <<>> /\ postSock' = Tail(postSock) /\ MsgNum' = MsgNum + one
          /\ UNCHANGED <<pc, posted>>
      BY <1>0, <2>2 DEF PostReject
    <3>2. waiting = waiting' + one /\ PostBusy' = PostBusy /\ PostBusy \in Nat
      BY <1>0, <3>1, FilledCount DEF PostBusy
    <3>3. waiting' \in Nat /\ one \in Nat
      BY <1>0, <3>1, HeadTailProperties, FilledCount
    <3> QED BY <1>0, <2>1, <3>1, <3>2, <3>3
  <2>3. CASE PostReceive
    <3>1. /\ postSock # <<>> /\ postSock' = Tail(postSock) /\ MsgNum' = MsgNum
          /\ pc["post"] = "recv" /\ pc'["post"] = "lock" /\ posted' = posted
      BY <1>0, <2>3 DEF PostReceive, Goto
    <3>2. Head(postSock) # Empty
      <4>1. Parsed(Head(postSock)) # {}
        BY <2>3 DEF PostReceive
      <4>2. Empty.lead = ""
        BY DEF Empty
      <4>3. Parsed(Empty) = {}
        BY <4>2 DEF Parsed
      <4> QED BY <4>1, <4>3
    <3>3. waiting = waiting' + 1 /\ PostBusy' = 1 /\ PostBusy = 0
      BY <1>0, <3>1, <3>2, FilledCount DEF PostBusy
    <3>4. waiting' \in Nat
      BY <1>0, <3>1, HeadTailProperties, FilledCount
    <3> QED BY <1>0, <2>1, <3>1, <3>3, <3>4
  <2>4. CASE PostLock \/ PostHook \/ PostStamp \/ PostFill
    <3>1. /\ UNCHANGED <<postSock, posted, MsgNum>>
          /\ pc["post"] # "recv" /\ pc'["post"] # "recv"
      BY <1>0, <2>4 DEF PostLock, PostHook, PostStamp, PostFill, Goto, network, postVars
    <3> QED BY <2>1, <3>1 DEF PostBusy
  <2>5. CASE PostUnlock
    <3>1. /\ UNCHANGED <<postSock, posted>> /\ MsgNum' = MsgNum + 1
          /\ pc["post"] = "unlock" /\ pc'["post"] = "recv"
      BY <1>0, <2>5 DEF PostUnlock, Goto, network
    <3>2. PostBusy' = 0 /\ PostBusy = 1
      BY <3>1 DEF PostBusy
    <3> QED BY <1>0, <1>5, <2>1, <3>1, <3>2
  <2>6. CASE ~PostThread
    <3>1. MsgNum' = MsgNum /\ PostBusy' = PostBusy /\ PostBusy \in Nat
      BY <2>6, NotPost DEF PostBusy
    <3>2. \/ waiting' = waiting /\ posted' = posted
          \/ waiting' = waiting + 1 /\ posted' = posted + 1
      <4>1. CASE UNCHANGED <<postSock, posted>>
        BY <4>1
      <4>2. ASSUME NEW d \in Datagrams, postSock' = Append(postSock, d),
                   posted' = IF d = Empty THEN posted ELSE posted + 1
            PROVE  \/ waiting' = waiting /\ posted' = posted
                   \/ waiting' = waiting + 1 /\ posted' = posted + 1
        <5>1. waiting' = waiting + (IF d = Empty THEN 0 ELSE 1)
          BY <1>0, <4>2, FilledCount
        <5> QED BY <1>5, <4>2, <5>1
      <4> QED BY <2>6, <4>1, <4>2, PostAccounts
    <3> QED BY <1>0, <1>5, <2>1, <3>1, <3>2
  <2> QED BY <2>2, <2>3, <2>4, <2>5, <2>6 DEF PostThread
<1>4. Len(replies') + Len(querySock') + QueryBusy' <= asked'
  <2>1. Len(replies) + Len(querySock) + QueryBusy <= asked /\ QueryBusy \in 0..1
    BY DEF EachOnce, QueryBusy
  <2>2. CASE QueryReject
    <3>1. /\ querySock # <<>> /\ querySock' = Tail(querySock)
          /\ UNCHANGED <<replies, asked>> /\ pc'["query"] = "nap"
      BY <1>0, <2>2 DEF QueryReject, Goto
    <3>2. Len(querySock') = Len(querySock) - 1 /\ QueryBusy' = 0
      BY <1>0, <3>1, GrowShrink DEF QueryBusy
    <3> QED BY <1>0, <1>2, <2>1, <3>1, <3>2
  <2>3. CASE QueryReceive
    <3>1. /\ querySock # <<>> /\ querySock' = Tail(querySock)
          /\ UNCHANGED <<replies, asked>>
          /\ pc["query"] = "recv" /\ pc'["query"] = "lock"
      BY <1>0, <2>3 DEF QueryReceive, Goto
    <3>2. Len(querySock') = Len(querySock) - 1 /\ QueryBusy' = 1 /\ QueryBusy = 0
      BY <1>0, <3>1, GrowShrink DEF QueryBusy
    <3> QED BY <1>0, <1>2, <2>1, <3>1, <3>2
  <2>4. CASE QueryLock \/ QueryList \/ QueryUnlock \/ QueryWake
    <3>1. /\ UNCHANGED <<querySock, asked, replies>>
          /\ pc'["query"] \in {"lock", "walk", "send"} => pc["query"] \in {"lock", "walk", "send"}
      BY <1>0, <2>4 DEF QueryLock, QueryList, QueryUnlock, QueryWake, Goto, network
    <3>2. QueryBusy' <= QueryBusy /\ QueryBusy' \in Nat
      BY <3>1 DEF QueryBusy
    <3> QED BY <1>0, <1>2, <2>1, <3>1, <3>2
  <2>5. CASE QuerySend
    <3>1. /\ UNCHANGED <<querySock, asked>> /\ replies' = Append(replies, retBuffer)
          /\ pc["query"] = "send" /\ pc'["query"] = "nap"
      BY <1>0, <2>5 DEF QuerySend, Goto, network
    <3>2. QueryBusy' = 0 /\ QueryBusy = 1
      BY <3>1 DEF QueryBusy
    <3> QED BY <1>0, <1>2, <2>1, <3>1, <3>2
  <2>6. CASE ~QueryThread
    <3>1. replies' = replies
      BY <2>6, ReplySteps DEF QueryThread
    <3>2. QueryBusy' = QueryBusy
      BY <2>6, NotQuery DEF QueryBusy
    <3>3. \/ Len(querySock') = Len(querySock) + 1 /\ asked' = asked + 1
          \/ UNCHANGED <<querySock, asked>>
      BY <1>0, <2>6, QueryAccounts, GrowShrink
    <3> QED BY <1>0, <1>2, <2>1, <3>1, <3>2, <3>3
  <2> QED BY <2>2, <2>3, <2>4, <2>5, <2>6 DEF QueryThread
<1> QED BY <1>3, <1>4 DEF EachOnce, PostBusy, QueryBusy

\* Every datagram that reaches the post socket is counted once, whether it is
\* stored or dropped, unless it is empty, however many of either kind come; and no
\* query gets two replies or one without being asked.
THEOREM OnceEach == Spec => []EachOnce
<1>1. Init => EachOnce
  <2> SUFFICES ASSUME Init PROVE EachOnce
    OBVIOUS
  <2>1. Waiting = {}
    BY DEF Init, Waiting
  <2> QED BY <2>1, FS_EmptySet DEF Init, EachOnce
<1>2. Spec => []RepliesInv
  BY AnswerInvs, PTL
<1> QED BY <1>1, <1>2, TypeCorrect, OnceNext, PTL DEF Spec

=============================================================================
