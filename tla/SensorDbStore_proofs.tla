------------------------- MODULE SensorDbStore_proofs -------------------------
EXTENDS SensorDbRefinement, SensorDbLists_proofs

USE DEF clocks

(***************************************************************************)
(* The threads of the database implement ReadingStore: what the other      *)
(* threads can see of the lists is stored and forgotten atomically.  The    *)
(* clock is not set back, as ReadingStore's is not.                        *)
(***************************************************************************)

-----------------------------------------------------------------------------
(* Invariants.                                                               *)

Forward == ~wentBack

\* From the moment it is linked until the mutex is released, the reading that is
\* being added is in its list.
FrontInv == pc["post"] \in {"stamp", "fill"} => data[KeyOf(add)] # <<>>

\* A clock that is never set back has never gone back.
LEMMA ForwardAlways ==
  ASSUME MaxStepBack = 0
  PROVE  Spec => []Forward
<1>1. Init => Forward
  BY DEF Init, Forward
<1>2. TypeOK /\ Forward /\ [Next]_vars => Forward'
  <2> SUFFICES ASSUME TypeOK, Forward, [Next]_vars PROVE Forward'
    OBVIOUS
  <2>1. CASE Tick
    BY <2>1 DEF Tick, Forward
  <2>2. CASE SetBack
    <3>1. PICK t \in 1..(clock - 1) : clock - t <= 0
      BY <2>2 DEF SetBack
    <3> QED BY <3>1 DEF TypeOK
  <2>3. CASE UNCHANGED <<clock, wentBack>>
    BY <2>3 DEF Forward
  <2> QED BY <2>1, <2>2, <2>3, ClockSteps
<1> QED BY <1>1, <1>2, TypeCorrect, PTL DEF Spec

\* A list is empty exactly when its length is zero.
LEMMA ListLength ==
  ASSUME TypeOK, NEW k \in Keys
  PROVE  /\ data[k] \in Seq(Record) /\ Len(data[k]) \in Nat
         /\ DOMAIN data[k] = 1..Len(data[k])
         /\ data[k] # <<>> <=> Len(data[k]) >= 1
BY LenProperties, EmptySeq DEF TypeOK

\* While the post thread builds a record nobody prunes.
LEMMA BuildAlone ==
  ASSUME MutualExclusion, PruneList
  PROVE  pc["post"] \notin {"hook", "stamp", "fill"}
<1>1. mainListLock = "prune"
  BY DEF PruneList, MutualExclusion, Threads, Critical
<1> QED BY <1>1 DEF MutualExclusion, Threads, Critical

\* The steps of the post thread outside its work on the lists.
LEMMA PostElsewhere ==
  ASSUME TypeOK, PostThread, ~PostHook, ~PostStamp, ~PostFill
  PROVE  /\ UNCHANGED data
         /\ pc["post"] \notin {"stamp", "fill"} /\ pc'["post"] \notin {"stamp", "fill"}
<1>0. DOMAIN pc = Threads /\ "post" \in Threads
  BY DEF TypeOK, Threads
<1> USE DEF store
<1>1. CASE PostReject
  BY <1>0, <1>1 DEF PostReject
<1>2. CASE PostReceive
  BY <1>0, <1>2 DEF PostReceive, Goto
<1>3. CASE PostLock
  BY <1>0, <1>3 DEF PostLock, Goto
<1>4. CASE PostUnlock
  BY <1>0, <1>4 DEF PostUnlock, Goto
<1> QED BY <1>1, <1>2, <1>3, <1>4 DEF PostThread

LEMMA FrontNext == TypeOK /\ MutualExclusion /\ FrontInv /\ [Next]_vars => FrontInv'
<1> SUFFICES ASSUME TypeOK, MutualExclusion, FrontInv, [Next]_vars,
                    pc'["post"] \in {"stamp", "fill"}
             PROVE  data'[KeyOf(add)'] # <<>>
  BY DEF FrontInv
<1>0. TypeOK'
  BY TypeNext
<1>1. CASE PostHook
  <2>1. /\ KeyOf(add)' = KeyOf(add) /\ KeyOf(add) \in Keys
        /\ DOMAIN data'[KeyOf(add)] = 1..(Len(data[KeyOf(add)]) + 1)
    BY <1>1, HookShape DEF KeyOf
  <2>2. 1 \in DOMAIN data'[KeyOf(add)]
    BY <2>1, ListLength
  <2> QED BY <2>1, <2>2
<1>2. CASE PostStamp \/ PostFill
  <2>1. /\ KeyOf(add)' = KeyOf(add) /\ KeyOf(add) \in Keys
        /\ DOMAIN data'[KeyOf(add)] = DOMAIN data[KeyOf(add)]
        /\ pc["post"] \in {"stamp", "fill"}
    BY <1>2, SetShape DEF KeyOf
  <2>2. 1 \in DOMAIN data[KeyOf(add)]
    BY <2>1, ListLength DEF FrontInv
  <2> QED BY <2>1, <2>2
<1>3. CASE PostThread /\ ~PostHook /\ ~PostStamp /\ ~PostFill
  BY <1>3, PostElsewhere
<1>4. CASE ~PostThread
  <2>1. pc["post"] \in {"stamp", "fill"} /\ KeyOf(add)' = KeyOf(add)
    BY <1>4, NotPost DEF KeyOf
  <2>2. UNCHANGED data
    BY <1>4, <2>1, NotPost, BuildAlone
  <2> QED BY <2>1, <2>2 DEF FrontInv
<1> QED BY <1>1, <1>2, <1>3, <1>4

-----------------------------------------------------------------------------
(* What can be seen of a list.                                               *)

Reading == [time : Nat, raw : Vals]

\* The records of a list that count, as a sequence.
LEMMA VisibleType ==
  ASSUME TypeOK, FrontInv, NEW k \in Keys
  PROVE  /\ Hidden(k) \in 0..1 /\ Hidden(k) <= Len(data[k])
         /\ Visible(k) \in Seq(Reading)
         /\ Len(Visible(k)) = Len(data[k]) - Hidden(k)
         /\ \A i \in 1..(Len(data[k]) - Hidden(k)) :
              i + Hidden(k) \in DOMAIN data[k] /\ Visible(k)[i] = Seen(k, i + Hidden(k))
<1>1. Len(data[k]) \in Nat /\ DOMAIN data[k] = 1..Len(data[k])
  BY ListLength
<1>2. Hidden(k) \in 0..1 /\ Hidden(k) <= Len(data[k])
  <2>1. CASE pc["post"] = "stamp" /\ k = KeyOf(add)
    BY <2>1, ListLength DEF FrontInv, Hidden
  <2>2. CASE ~(pc["post"] = "stamp" /\ k = KeyOf(add))
    BY <1>1, <2>2 DEF Hidden
  <2> QED BY <2>1, <2>2
<1> DEFINE n == Len(data[k]) - Hidden(k)
<1>3. n \in Nat
  BY <1>1, <1>2
<1>4. \A i \in 1..n : i + Hidden(k) \in DOMAIN data[k]
  BY <1>1, <1>2
<1>5. \A i \in 1..n : Seen(k, i + Hidden(k)) \in Reading
  <2> SUFFICES ASSUME NEW i \in DOMAIN data[k] PROVE Seen(k, i) \in Reading
    BY <1>4
  <2>1. data[k][i] \in Record
    BY <1>1, ListLength, ElementOfSeq
  <2>2. data[k][i].time \in Nat /\ data[k][i].raw \in Vals
    BY <2>1 DEF Record
  <2>3. Building(k, i) => RawData(add.sensor, add.v) \in Vals
    <3> SUFFICES ASSUME Building(k, i) PROVE RawData(add.sensor, add.v) \in Vals
      OBVIOUS
    <3>1. add \in Adds
      BY DEF Building, TypeOK
    <3> QED BY <3>1, AddsType, RawDataType
  <2>4. (IF Building(k, i) THEN RawData(add.sensor, add.v) ELSE data[k][i].raw) \in Vals
    BY <2>2, <2>3
  <2> QED BY <2>2, <2>4 DEF Seen, Reading
<1> HIDE DEF n
<1>6. Visible(k) = [i \in 1..n |-> Seen(k, i + Hidden(k))]
  BY DEF Visible, n
<1>7. Visible(k) \in Seq(Reading) /\ Len(Visible(k)) = n
  <2> DEFINE s == [i \in 1..n |-> Seen(k, i + Hidden(k))]
  <2>1. s \in [1..n -> Reading]
    BY <1>5
  <2>2. s \in Seq(Reading) /\ DOMAIN s = 1..n
    BY <1>3, <2>1, SeqDef
  <2> HIDE DEF s
  <2>3. Len(s) = n
    BY <1>3, <2>2, LenProperties
  <2> QED BY <1>6, <2>2, <2>3 DEF s
<1> QED BY <1>2, <1>4, <1>6, <1>7 DEF n

\* A list of which the same is seen.
LEMMA VisibleSame ==
  ASSUME NEW k \in Keys,
         Len(data'[k]) - Hidden(k)' = Len(data[k]) - Hidden(k),
         \A i \in 1..(Len(data[k]) - Hidden(k)) :
           Seen(k, i + Hidden(k))' = Seen(k, i + Hidden(k))
  PROVE  Visible(k)' = Visible(k)
BY DEF Visible

-----------------------------------------------------------------------------
(* The steps.                                                                *)

\* Setting the time stamp leaves the values alone, and filling in the values sets
\* those of the first record.
LEMMA RawShape ==
  ASSUME TypeOK
  PROVE  /\ PostStamp => \A k \in Keys : \A i \in DOMAIN data[k] :
                           data'[k][i].raw = data[k][i].raw
         /\ PostFill => \A k \in Keys : \A i \in DOMAIN data[k] :
                          data'[k][i].raw = IF k = KeyOf(add) /\ i = 1
                                            THEN RawData(add.sensor, add.v)
                                            ELSE data[k][i].raw
<1> DEFINE h == KeyOf(add)
           v == RawData(add.sensor, add.v)
<1>1. DOMAIN data = Keys /\ \A k \in Keys : data[k] \in Seq(Record)
  BY DEF TypeOK
<1>2. \A k \in Keys : \A i \in DOMAIN data[k] : data[k][i] \in Record
  BY <1>1, ElementOfSeq, LenProperties
<1>3. /\ PostStamp => data' = [data EXCEPT ![h][1].time = clock] /\ h \in Keys
      /\ PostFill => data' = [data EXCEPT ![h][1].raw = v] /\ h \in Keys
  BY SetShape DEF PostStamp, PostFill
<1> HIDE DEF h, v
<1>4. ASSUME PostStamp, NEW k \in Keys, NEW i \in DOMAIN data[k]
      PROVE  data'[k][i].raw = data[k][i].raw
  <2>1. CASE k = h
    <3>1. data'[h] = [data[h] EXCEPT ![1].time = clock]
      BY <1>1, <1>3, <1>4
    <3> QED BY <1>2, <1>4, <2>1, <3>1 DEF Record
  <2>2. CASE k # h
    BY <1>1, <1>3, <1>4, <2>2
  <2> QED BY <2>1, <2>2
<1>5. ASSUME PostFill, NEW k \in Keys, NEW i \in DOMAIN data[k]
      PROVE  data'[k][i].raw = IF k = h /\ i = 1 THEN v ELSE data[k][i].raw
  <2>1. CASE k = h
    <3>1. data'[h] = [data[h] EXCEPT ![1].raw = v]
      BY <1>1, <1>3, <1>5
    <3> QED BY <1>2, <1>5, <2>1, <3>1 DEF Record
  <2>2. CASE k # h
    BY <1>1, <1>3, <1>5, <2>2
  <2> QED BY <2>1, <2>2
<1> QED BY <1>4, <1>5 DEF h, v

\* Linking a record, filling in its values, and all that does not work on the lists
\* cannot be seen.
LEMMA Unseen ==
  ASSUME TypeOK, MutualExclusion, FrontInv, [Next]_vars, ~PostStamp, ~PruneList,
         NEW k \in Keys
  PROVE  Visible(k)' = Visible(k)
<1>0. /\ TypeOK' /\ Len(data[k]) \in Nat /\ DOMAIN data[k] = 1..Len(data[k])
  BY TypeNext, ListLength
<1>1. Len(data'[k]) \in Nat /\ DOMAIN data'[k] = 1..Len(data'[k])
  BY <1>0, LenProperties DEF TypeOK
<1>2. CASE /\ UNCHANGED data /\ Hidden(k)' = Hidden(k)
           /\ \A i \in DOMAIN data[k] : Building(k, i)' = Building(k, i)
           /\ \/ UNCHANGED add
              \/ \A i \in DOMAIN data[k] : ~Building(k, i)
  <2>1. ASSUME NEW i \in DOMAIN data[k] PROVE Seen(k, i)' = Seen(k, i)
    BY <1>2 DEF Seen
  <2>2. \A i \in 1..(Len(data[k]) - Hidden(k)) : i + Hidden(k) \in DOMAIN data[k]
    BY VisibleType
  <2> QED BY <1>2, <2>1, <2>2, VisibleSame
<1>3. CASE PostHook
  <2>1. CASE k = KeyOf(add)
    <3>1. /\ DOMAIN data'[k] = 1..(Len(data[k]) + 1)
          /\ \A i \in 2..(Len(data[k]) + 1) : data'[k][i] = data[k][i - 1]
          /\ pc["post"] = "hook" /\ pc'["post"] = "stamp" /\ k = KeyOf(add)'
      BY <1>3, <2>1, HookShape DEF KeyOf
    <3>2. Hidden(k) = 0 /\ Hidden(k)' = 1
      BY <3>1 DEF Hidden
    <3>3. Len(data'[k]) = Len(data[k]) + 1
      <4>1. Len(data[k]) + 1 \in 1..Len(data'[k]) /\ Len(data'[k]) \in Nat
        BY <1>0, <1>1, <3>1
      <4>2. Len(data'[k]) \in 1..(Len(data[k]) + 1)
        BY <1>0, <1>1, <3>1, <4>1
      <4> QED BY <1>0, <4>1, <4>2
    <3>4. ASSUME NEW i \in 1..Len(data[k]) PROVE Seen(k, i + 1)' = Seen(k, i)
      <4>1. data'[k][i + 1] = data[k][i]
        BY <1>0, <3>1
      <4>2. ~Building(k, i + 1)' /\ ~Building(k, i)
        BY <3>1 DEF Building
      <4> QED BY <4>1, <4>2 DEF Seen
    <3>5. Len(data'[k]) - Hidden(k)' = Len(data[k]) - Hidden(k)
      BY <1>0, <3>2, <3>3
    <3>6. ASSUME NEW i \in 1..(Len(data[k]) - Hidden(k))
          PROVE  Seen(k, i + Hidden(k))' = Seen(k, i + Hidden(k))
      <4>1. i \in 1..Len(data[k]) /\ i + Hidden(k) = i /\ i + Hidden(k)' = i + 1
        BY <1>0, <3>2
      <4>2. Seen(k, i + Hidden(k))' = Seen(k, i + 1)'
        BY <3>2 DEF Seen, Building
      <4> QED BY <3>4, <4>1, <4>2
    <3> QED BY <3>5, <3>6, VisibleSame
  <2>2. CASE k # KeyOf(add)
    <3>1. data'[k] = data[k] /\ k # KeyOf(add)'
      BY <1>3, <2>2, HookShape DEF KeyOf
    <3>2. Hidden(k) = 0 /\ Hidden(k)' = 0
      BY <2>2, <3>1 DEF Hidden
    <3>3. \A i : Seen(k, i)' = Seen(k, i)
      BY <2>2, <3>1 DEF Seen, Building
    <3> QED BY <3>1, <3>2, <3>3, VisibleSame
  <2> QED BY <2>1, <2>2
<1>4. CASE PostFill
  <2>1. /\ KeyOf(add)' = KeyOf(add) /\ add' = add
        /\ pc["post"] = "fill" /\ pc'["post"] = "unlock"
        /\ DOMAIN data'[k] = DOMAIN data[k]
    BY <1>4, SetShape DEF KeyOf, PostFill
  <2>2. Hidden(k) = 0 /\ Hidden(k)' = 0
    BY <2>1 DEF Hidden
  <2>3. Len(data'[k]) = Len(data[k])
    <3>1. Len(data'[k]) # 0 => Len(data'[k]) \in 1..Len(data[k])
      BY <1>0, <1>1, <2>1
    <3>2. Len(data[k]) # 0 => Len(data[k]) \in 1..Len(data'[k])
      BY <1>0, <1>1, <2>1
    <3> QED BY <1>0, <1>1, <3>1, <3>2
  <2>4. ASSUME NEW i \in DOMAIN data[k] PROVE Seen(k, i)' = Seen(k, i)
    <3>1. data'[k][i].time = data[k][i].time
      BY <1>4, SetShape
    <3>2. data'[k][i].raw = IF k = KeyOf(add) /\ i = 1 THEN RawData(add.sensor, add.v)
                                                      ELSE data[k][i].raw
      BY <1>4, RawShape
    <3>3. ~Building(k, i)' /\ (Building(k, i) <=> k = KeyOf(add) /\ i = 1)
      BY <2>1 DEF Building
    <3> QED BY <3>1, <3>2, <3>3 DEF Seen
  <2>5. \A i \in 1..(Len(data[k]) - Hidden(k)) : i + Hidden(k) \in DOMAIN data[k]
    BY VisibleType
  <2>6. ASSUME NEW i \in 1..(Len(data[k]) - Hidden(k))
        PROVE  Seen(k, i + Hidden(k))' = Seen(k, i + Hidden(k))
    BY <2>2, <2>4, <2>5
  <2> QED BY <2>2, <2>3, <2>6, VisibleSame
<1>5. CASE PostThread /\ ~PostHook /\ ~PostFill
  <2>1. /\ UNCHANGED data
        /\ pc["post"] \notin {"stamp", "fill"} /\ pc'["post"] \notin {"stamp", "fill"}
    BY <1>5, PostElsewhere
  <2> QED BY <1>2, <2>1 DEF Hidden, Building
<1>6. CASE ~PostThread
  <2>1. UNCHANGED <<data, add>> /\ pc'["post"] = pc["post"]
    BY <1>6, NotPost
  <2> QED BY <1>2, <2>1 DEF Hidden, Building, KeyOf
<1> QED BY <1>3, <1>4, <1>5, <1>6

\* The moment at which a reading is stored is that of its time stamp.
LEMMA StampStores ==
  ASSUME TypeOK, FrontInv, PostStamp, NEW h \in Keys, h = KeyOf(add)
  PROVE  LET r == [time |-> clock, raw |-> RawData(add.sensor, add.v)] IN
         /\ <<h, RawData(add.sensor, add.v)>> \in Stored
         /\ Visible(h)' = <<r>> \o Visible(h)
         /\ \A k \in Keys : k # h => Visible(k)' = Visible(k)
<1> DEFINE v == RawData(add.sensor, add.v)
           r == [time |-> clock, raw |-> v]
<1>1. /\ add \in Adds /\ add' = add /\ KeyOf(add)' = h
      /\ pc["post"] = "stamp" /\ pc'["post"] = "fill"
      /\ \A k \in Keys : DOMAIN data'[k] = DOMAIN data[k]
  BY SetShape DEF PostStamp, KeyOf
<1>2. <<h, v>> \in Stored
  BY <1>1 DEF Stored
<1>3. data' = [data EXCEPT ![h][1].time = clock] /\ DOMAIN data = Keys
  BY DEF PostStamp, TypeOK
<1>4. ASSUME NEW k \in Keys, k # h PROVE Visible(k)' = Visible(k)
  <2>1. data'[k] = data[k]
    BY <1>1, <1>3, <1>4
  <2>2. Hidden(k) = 0 /\ Hidden(k)' = 0
    BY <1>1, <1>4 DEF Hidden
  <2>3. \A i : Seen(k, i)' = Seen(k, i)
    BY <1>1, <1>4, <2>1 DEF Seen, Building
  <2> QED BY <2>1, <2>2, <2>3, VisibleSame
<1>5. Visible(h)' = <<r>> \o Visible(h)
  <2>1. /\ data[h] \in Seq(Record) /\ Len(data[h]) \in Nat /\ Len(data[h]) >= 1
        /\ DOMAIN data[h] = 1..Len(data[h])
    BY <1>1, ListLength DEF FrontInv
  <2>2. /\ Hidden(h) = 1 /\ Hidden(h)' = 0
        /\ Len(data'[h]) = Len(data[h])
    <3>1. Hidden(h) = 1 /\ Hidden(h)' = 0
      BY <1>1 DEF Hidden
    <3>2. data'[h] = [data[h] EXCEPT ![1].time = clock]
      BY <1>1, <1>3
    <3>3. Len(data'[h]) = Len(data[h])
      BY <2>1, <3>2
    <3> QED BY <3>1, <3>3
  <2>3. /\ Visible(h) \in Seq(Reading) /\ Len(Visible(h)) = Len(data[h]) - 1
        /\ \A i \in 1..(Len(data[h]) - 1) : Visible(h)[i] = Seen(h, i + 1)
    BY <1>1, <2>2, VisibleType
  <2>4. Visible(h)' = [i \in 1..Len(data[h]) |-> Seen(h, i)']
    <3>1. Visible(h)' = [i \in 1..(Len(data'[h]) - Hidden(h)') |-> Seen(h, i + Hidden(h))']
      BY DEF Visible
    <3>2. Len(data'[h]) - Hidden(h)' = Len(data[h])
      BY <2>1, <2>2
    <3>3. ASSUME NEW i \in 1..Len(data[h]) PROVE Seen(h, i + Hidden(h))' = Seen(h, i)'
      <4>1. i + Hidden(h)' = i
        BY <2>2
      <4> QED BY <4>1 DEF Seen, Building
    <3> QED BY <3>1, <3>2, <3>3
  <2>5. Seen(h, 1)' = r
    <3>1. data'[h][1].time = clock
      BY <1>1, <2>1, SetShape
    <3>2. Building(h, 1)'
      BY <1>1 DEF Building
    <3> QED BY <1>1, <3>1, <3>2 DEF Seen
  <2>6. ASSUME NEW i \in 2..Len(data[h]) PROVE Seen(h, i)' = Seen(h, i)
    <3>1. data'[h][i].time = data[h][i].time /\ data'[h][i].raw = data[h][i].raw
      BY <1>1, <2>1, SetShape, RawShape
    <3>2. ~Building(h, i) /\ ~Building(h, i)'
      BY DEF Building
    <3> QED BY <1>1, <3>1, <3>2 DEF Seen
  <2>7. r \in Reading
    BY <1>1, AddsType, RawDataType DEF Reading, TypeOK
  <2> HIDE DEF r, v
  <2> DEFINE s == <<r>> \o Visible(h)
             t == [i \in 1..Len(data[h]) |-> Seen(h, i)']
  <2>8. /\ <<r>> \in Seq(Reading) /\ Len(<<r>>) = 1 /\ <<r>>[1] = r
    BY <2>7
  <2>9. /\ s \in Seq(Reading) /\ Len(s) = Len(data[h])
        /\ s[1] = r
        /\ \A i \in 2..Len(data[h]) : s[i] = Visible(h)[i - 1]
    BY <2>1, <2>3, <2>8, ConcatProperties
  <2>10. \A i \in 1..Len(data[h]) : s[i] = Seen(h, i)'
    <3> SUFFICES ASSUME NEW i \in 1..Len(data[h]) PROVE s[i] = Seen(h, i)'
      OBVIOUS
    <3>1. CASE i = 1
      BY <2>5, <2>9, <3>1
    <3>2. CASE i # 1
      <4>1. /\ i \in 2..Len(data[h]) /\ i - 1 \in 1..(Len(data[h]) - 1)
            /\ (i - 1) + 1 = i
        BY <2>1, <3>2
      <4> HIDE DEF s
      <4> QED BY <2>3, <2>6, <2>9, <4>1
    <3> QED BY <3>1, <3>2
  <2> HIDE DEF s
  <2>11. s = [i \in 1..Len(data[h]) |-> s[i]]
    BY <2>1, <2>9, LenProperties
  <2>12. s = t
    BY <2>10, <2>11
  <2> QED BY <2>4, <2>12 DEF s
<1> QED BY <1>1, <1>2, <1>4, <1>5

\* While the prune thread walks, all of every list counts.
LEMMA AllSeen ==
  ASSUME TypeOK, pc["post"] \notin {"stamp", "fill"}, NEW k \in Keys
  PROVE  /\ Visible(k) \in Seq(Reading) /\ Len(Visible(k)) = Len(data[k])
         /\ \A i \in 1..Len(data[k]) :
              Visible(k)[i] = [time |-> data[k][i].time, raw |-> data[k][i].raw]
<1>1. FrontInv /\ Hidden(k) = 0 /\ Len(data[k]) \in Nat
  BY ListLength DEF FrontInv, Hidden
<1>2. \A i \in 1..Len(data[k]) : i + 0 = i /\ ~Building(k, i)
  BY DEF Building
<1> QED BY <1>1, <1>2, VisibleType DEF Seen

\* Cutting a list forgets exactly what was too old when the walk began.
LEMMA CutForgets ==
  ASSUME TypeOK, TypeOK', MutualExclusion, TimeInv, NowInv, Forward, PruneList
  PROVE  \E c \in Keys : \E n \in 0..Len(Visible(c)) :
           /\ now \in 0..clock
           /\ \A i \in 1..Len(Visible(c)) :
                i > n <=> now - Visible(c)[i].time > Ttl[c[1]]
           /\ Visible(c)' = SubSeq(Visible(c), 1, n)
           /\ \A k \in Keys : k # c => Visible(k)' = Visible(k)
<1>1. /\ pc["post"] \notin {"stamp", "fill"} /\ pc'["post"] \notin {"stamp", "fill"}
      /\ UNCHANGED <<pc, add>> /\ clock' = clock
  BY BuildAlone DEF PruneList, postVars
<1>2. PICK c \in pruneTodo :
        /\ c \in Keys
        /\ Len(data'[c]) \in 0..Len(data[c])
        /\ \A i \in DOMAIN data'[c] : ~Expired(data'[c][i], now, Ttl[c[1]])
        /\ Len(data'[c]) < Len(data[c]) =>
             Expired(data[c][Len(data'[c]) + 1], now, Ttl[c[1]])
        /\ \A k \in Keys : k # c => data'[k] = data[k]
        /\ \A i \in DOMAIN data'[c] : i \in DOMAIN data[c] /\ data'[c][i] = data[c][i]
  BY PruneShape
<1>3. now \in 0..clock
  BY DEF NowInv, Forward, TypeOK
<1> DEFINE n == Len(data'[c])
<1>4. /\ c \in Keys /\ Len(data[c]) \in Nat /\ DOMAIN data[c] = 1..Len(data[c])
      /\ data'[c] \in Seq(Record) /\ n \in Nat /\ DOMAIN data'[c] = 1..n
      /\ n \in 0..Len(data[c])
  BY <1>2, ListLength, LenProperties DEF TypeOK
<1>5. /\ Visible(c) \in Seq(Reading) /\ Len(Visible(c)) = Len(data[c])
      /\ \A i \in 1..Len(data[c]) :
           Visible(c)[i] = [time |-> data[c][i].time, raw |-> data[c][i].raw]
  BY <1>1, <1>4, AllSeen
<1> HIDE DEF n
<1>6. ASSUME NEW i \in 1..Len(data[c])
      PROVE  i > n <=> now - data[c][i].time > Ttl[c[1]]
  <2>1. data[c][i].time \in Nat /\ i \in Int
    BY <1>4, RecordTypes
  <2>2. CASE i <= n
    <3>1. i \in DOMAIN data'[c]
      BY <1>4, <2>2
    <3>2. ~Expired(data[c][i], now, Ttl[c[1]])
      BY <1>2, <3>1
    <3> QED BY <1>4, <2>1, <2>2, <3>2 DEF Expired
  <2>3. CASE i > n
    <3>1. n < Len(data[c]) /\ n + 1 \in DOMAIN data[c] /\ n + 1 <= i
      BY <1>4, <2>1, <2>3
    <3>2. Expired(data[c][n + 1], now, Ttl[c[1]])
      BY <1>2, <3>1 DEF n
    <3>3. data[c][n + 1].time >= data[c][i].time
      <4>1. data[c][n + 1].time \in Nat
        BY <1>4, <3>1, RecordTypes
      <4>2. CASE n + 1 = i
        BY <2>1, <4>2
      <4>3. CASE n + 1 < i
        BY <1>1, <1>4, <3>1, <4>3 DEF TimeInv, Forward
      <4> QED BY <1>4, <2>1, <3>1, <4>2, <4>3
    <3> DEFINE t == data[c][n + 1].time
               u == data[c][i].time
               ttl == Ttl[c[1]]
    <3>4. /\ t \in Nat /\ u \in Nat /\ ttl \in Nat /\ now \in Nat
          /\ t >= u /\ now - t > ttl
      BY <1>3, <1>4, <2>1, <3>1, <3>2, <3>3, RecordTypes, TtlAssumption
         DEF Expired, TypeOK, Keys
    <3> HIDE DEF t, u, ttl
    <3>5. now - u > ttl
      BY <3>4
    <3> QED BY <2>3, <3>5 DEF u, ttl
  <2> QED BY <1>4, <2>1, <2>2, <2>3
<1>7. Visible(c)' = SubSeq(Visible(c), 1, n)
  <2>1. /\ Visible(c)' \in Seq(Reading) /\ Len(Visible(c)') = n
        /\ \A i \in 1..n :
             Visible(c)'[i] = [time |-> data'[c][i].time, raw |-> data'[c][i].raw]
    <3>1. Hidden(c)' = 0 /\ \A i : ~Building(c, i)'
      BY <1>1 DEF Hidden, Building
    <3>2. Visible(c)' = [i \in 1..n |-> [time |-> data'[c][i].time, raw |-> data'[c][i].raw]]
      <4>1. Visible(c)' = [i \in 1..(Len(data'[c]) - Hidden(c)') |-> Seen(c, i + Hidden(c))']
        BY DEF Visible
      <4>2. Len(data'[c]) - Hidden(c)' = n
        BY <1>4, <3>1 DEF n
      <4>3. ASSUME NEW i \in 1..n
            PROVE  Seen(c, i + Hidden(c))' = [time |-> data'[c][i].time, raw |-> data'[c][i].raw]
        <5>1. i + Hidden(c)' = i
          BY <3>1
        <5> QED BY <3>1, <5>1 DEF Seen, Building
      <4> QED BY <4>1, <4>2, <4>3
    <3>3. \A i \in 1..n : [time |-> data'[c][i].time, raw |-> data'[c][i].raw] \in Reading
      <4> SUFFICES ASSUME NEW i \in 1..n
                   PROVE  /\ data'[c][i].time \in Nat
                          /\ data'[c][i].raw \in Vals
        BY DEF Reading
      <4>1. data'[c][i] \in Record
        BY <1>4, ElementOfSeq, LenProperties
      <4> QED BY <4>1 DEF Record
    <3> DEFINE s == [i \in 1..n |-> [time |-> data'[c][i].time, raw |-> data'[c][i].raw]]
    <3>4. s \in Seq(Reading) /\ DOMAIN s = 1..n
      BY <1>4, <3>3, SeqDef
    <3>5. \A i \in 1..n : s[i] = [time |-> data'[c][i].time, raw |-> data'[c][i].raw]
      OBVIOUS
    <3> HIDE DEF s
    <3>6. Len(s) = n
      BY <1>4, <3>4, LenProperties
    <3> QED BY <3>2, <3>4, <3>5, <3>6 DEF s
  <2>2. \A i \in 1..n : Visible(c)[i] \in Reading
    BY <1>4, <1>5, ElementOfSeq
  <2>3. /\ SubSeq(Visible(c), 1, n) \in Seq(Reading) /\ Len(SubSeq(Visible(c), 1, n)) = n
        /\ \A i \in 1..n : SubSeq(Visible(c), 1, n)[i] = Visible(c)[i]
    BY <1>4, <2>2, SubSeqProperties
  <2>4. \A i \in 1..n : Visible(c)'[i] = SubSeq(Visible(c), 1, n)[i]
    <3> SUFFICES ASSUME NEW i \in 1..n
                 PROVE  Visible(c)'[i] = SubSeq(Visible(c), 1, n)[i]
      OBVIOUS
    <3>1. i \in DOMAIN data'[c] /\ i \in 1..Len(data[c])
      BY <1>4
    <3> QED BY <1>2, <1>5, <2>1, <2>3, <3>1
  <2> QED BY <2>1, <2>3, <2>4, SeqEqual
<1>8. ASSUME NEW k \in Keys, k # c PROVE Visible(k)' = Visible(k)
  <2>1. data'[k] = data[k]
    BY <1>2, <1>8
  <2> QED BY <1>1, <2>1 DEF Visible, Hidden, Seen, Building, KeyOf
<1>9. \A i \in 1..Len(Visible(c)) : i > n <=> now - Visible(c)[i].time > Ttl[c[1]]
  <2> SUFFICES ASSUME NEW i \in 1..Len(data[c])
               PROVE  i > n <=> now - Visible(c)[i].time > Ttl[c[1]]
    BY <1>5
  <2>1. Visible(c)[i].time = data[c][i].time
    <3>1. Visible(c)[i] = [time |-> data[c][i].time, raw |-> data[c][i].raw]
      BY <1>5
    <3> QED BY ONLY <3>1
  <2> QED BY <1>6, <2>1
<1> QED BY <1>3, <1>4, <1>5, <1>7, <1>8, <1>9

\* Every step is one of ReadingStore or cannot be seen.
LEMMA StepStores ==
  TypeOK /\ MutualExclusion /\ FrontInv /\ TimeInv /\ NowInv
    /\ Forward /\ Forward' /\ [Next]_vars
  => [TheStore!StoreNext]_<<clock, Shown>>
<1> SUFFICES ASSUME TypeOK, MutualExclusion, FrontInv, TimeInv, NowInv,
                    Forward, Forward', [Next]_vars
             PROVE  TheStore!StoreNext \/ UNCHANGED <<clock, Shown>>
  BY DEF TheStore!StoreNext
<1>0. TypeOK'
  BY TypeNext
<1>1. CASE Tick
  <2>1. ~PostStamp /\ ~PruneList
    BY <1>1 DEF Tick, PostStamp, PruneList, TypeOK
  <2>2. UNCHANGED Shown
    BY <2>1, Unseen DEF Shown
  <2> QED BY <1>1, <2>2 DEF Tick, TheStore!StoreNext, TheStore!Advance
<1>2. CASE PostStamp
  <2>1. PICK h \in Keys : h = KeyOf(add)
    BY <1>2, SetShape
  <2> DEFINE v == RawData(add.sensor, add.v)
             r == [time |-> clock, raw |-> v]
  <2>2. /\ <<h, v>> \in Stored
        /\ Visible(h)' = <<r>> \o Visible(h)
        /\ \A k \in Keys : k # h => Visible(k)' = Visible(k)
    BY <1>2, <2>1, StampStores
  <2>3. clock' = clock
    BY <1>2 DEF PostStamp
  <2> HIDE DEF v, r
  <2>4. Shown' = [Shown EXCEPT ![h] = <<r>> \o @]
    BY <2>2 DEF Shown
  <2>5. TheStore!Store(h, v)
    BY <2>3, <2>4 DEF TheStore!Store, r
  <2>6. \E x \in Stored : TheStore!Store(x[1], x[2])
    BY <2>2, <2>5
  <2> QED BY <2>6 DEF TheStore!StoreNext
<1>3. CASE PruneList
  <2>1. PICK c \in Keys : \E n \in 0..Len(Visible(c)) :
           /\ now \in 0..clock
           /\ \A i \in 1..Len(Visible(c)) :
                i > n <=> now - Visible(c)[i].time > Ttl[c[1]]
           /\ Visible(c)' = SubSeq(Visible(c), 1, n)
           /\ \A k \in Keys : k # c => Visible(k)' = Visible(k)
    BY <1>0, <1>3, CutForgets
  <2>2. PICK n \in 0..Len(Visible(c)) :
           /\ now \in 0..clock
           /\ \A i \in 1..Len(Visible(c)) :
                i > n <=> now - Visible(c)[i].time > Ttl[c[1]]
           /\ Visible(c)' = SubSeq(Visible(c), 1, n)
           /\ \A k \in Keys : k # c => Visible(k)' = Visible(k)
    BY <2>1
  <2>3. Shown' = [Shown EXCEPT ![c] = SubSeq(@, 1, n)]
    BY <2>2 DEF Shown
  <2>4. Shown[c] = Visible(c) /\ TtlOf[c] = Ttl[c[1]]
    BY DEF Shown, TtlOf
  <2>5. clock' = clock
    BY <1>3 DEF PruneList
  <2>6. TheStore!Forget(c, now)
    BY <2>2, <2>3, <2>4, <2>5 DEF TheStore!Forget
  <2> QED BY <2>2, <2>6 DEF TheStore!StoreNext
<1>4. CASE ~Tick /\ ~PostStamp /\ ~PruneList
  <2>1. UNCHANGED Shown
    BY <1>4, Unseen DEF Shown
  <2>2. UNCHANGED clock
    BY <1>4, ClockSteps DEF SetBack, Forward
  <2> QED BY <2>1, <2>2
<1> QED BY <1>1, <1>2, <1>3, <1>4

\* As long as the clock is not set back, what can be seen of the lists is a store
\* that takes every reading whole and forgets exactly what is too old, whatever
\* the three threads do to each other.
THEOREM StoreImplemented ==
  ASSUME MaxStepBack = 0
  PROVE  Spec => ImplementsStore
<1>1. Init => TheStore!StoreInit
  <2> SUFFICES ASSUME Init PROVE clock = 1 /\ Shown = [k \in Keys |-> <<>>]
    BY DEF TheStore!StoreInit
  <2>1. ASSUME NEW k \in Keys PROVE Visible(k) = <<>>
    <3>1. TypeOK /\ pc["post"] = "recv" /\ data[k] = <<>>
      BY TypeInit DEF Init
    <3>2. Visible(k) \in Seq(Reading) /\ Len(Visible(k)) = 0
      BY <3>1, AllSeen
    <3> QED BY <3>2, EmptySeq
  <2> QED BY <2>1 DEF Init, Shown
<1>2. Init => FrontInv /\ TimeInv /\ NowInv
  BY DEF Init, FrontInv, TimeInv, NowInv
<1>3. Spec => []TimeInv
  BY <1>2, TypeCorrect, TimeNext, PTL DEF Spec
<1>4. Spec => []NowInv
  BY <1>2, TypeCorrect, NowNext, PTL DEF Spec
<1>5. Spec => []FrontInv
  BY <1>2, TypeCorrect, MutexCorrect, FrontNext, PTL DEF Spec
<1>6. Spec => []Forward
  BY ForwardAlways
<1>7. Spec => [][TheStore!StoreNext]_<<clock, Shown>>
  BY <1>3, <1>4, <1>5, <1>6, TypeCorrect, MutexCorrect, StepStores, PTL DEF Spec
<1>8. Spec => TheStore!StoreInit
  BY <1>1 DEF Spec
<1> QED BY <1>7, <1>8, PTL DEF ImplementsStore, TheStore!StoreSpec, TheStore!storeVars

=============================================================================
