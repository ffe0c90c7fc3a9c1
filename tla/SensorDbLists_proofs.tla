------------------------- MODULE SensorDbLists_proofs -------------------------
EXTENDS SensorDb_proofs

USE DEF clocks

(***************************************************************************)
(* Theorems about the lists of the database: their headers, their order,   *)
(* what pruning takes out of them and what a query's answer points into.   *)
(* They rest on the types and the mutex of SensorDb_proofs.                *)
(***************************************************************************)

-----------------------------------------------------------------------------
(* Which thread changes what.                                                *)

\* Only the post thread changes its own variables and the headers, and only a
\* prune step or one of its own changes a list.
LEMMA NotPost ==
  ASSUME TypeOK, [Next]_vars, ~PostThread
  PROVE  /\ UNCHANGED <<MsgNum, add, idList, subIdList>>
         /\ pc'["post"] = pc["post"]
         /\ PruneList \/ UNCHANGED data
<1>0. DOMAIN pc = Threads /\ "post" \in Threads
  BY DEF TypeOK, Threads
<1> USE DEF store, postVars
<1>1. CASE Environment
  BY <1>1 DEF Environment, SendPost, SendQuery, Tick, SetBack
<1>2. CASE PruneWake
  BY <1>0, <1>2 DEF PruneWake, Goto
<1>3. CASE PruneLock
  BY <1>0, <1>3 DEF PruneLock, Goto
<1>4. CASE PruneList
  BY <1>4 DEF PruneList
<1>5. CASE PruneUnlock
  BY <1>0, <1>5 DEF PruneUnlock, Goto
<1>6. CASE QueryReject
  BY <1>0, <1>6 DEF QueryReject, Goto
<1>7. CASE QueryReceive
  BY <1>0, <1>7 DEF QueryReceive, Goto
<1>8. CASE QueryLock
  BY <1>0, <1>8 DEF QueryLock, Goto
<1>9. CASE QueryList
  BY <1>9 DEF QueryList
<1>10. CASE QueryUnlock
  BY <1>0, <1>10 DEF QueryUnlock, Goto
<1>11. CASE QuerySend
  BY <1>0, <1>11 DEF QuerySend, Goto
<1>12. CASE QueryWake
  BY <1>0, <1>12 DEF QueryWake, Goto
<1>13. CASE UNCHANGED vars
  BY <1>13 DEF vars
<1> QED
  BY <1>1, <1>2, <1>3, <1>4, <1>5, <1>6, <1>7, <1>8, <1>9, <1>10, <1>11, <1>12,
     <1>13 DEF Next, PruneThread, QueryThread

\* Only the prune thread changes its time stamp and its walk.
LEMMA NotPrune ==
  ASSUME TypeOK, [Next]_vars, ~PruneThread
  PROVE  UNCHANGED <<now, pruneTodo>> /\ pc'["prune"] = pc["prune"]
<1>0. DOMAIN pc = Threads /\ "prune" \in Threads
  BY DEF TypeOK, Threads
<1> USE DEF pruneVars
<1>1. CASE Environment
  BY <1>1 DEF Environment, SendPost, SendQuery, Tick, SetBack
<1>2. CASE PostReject
  BY <1>2 DEF PostReject
<1>3. CASE PostReceive
  BY <1>0, <1>3 DEF PostReceive, Goto
<1>4. CASE PostLock
  BY <1>0, <1>4 DEF PostLock, Goto
<1>5. CASE PostHook
  BY <1>0, <1>5 DEF PostHook, Goto
<1>6. CASE PostStamp
  BY <1>0, <1>6 DEF PostStamp, Goto
<1>7. CASE PostFill
  BY <1>0, <1>7 DEF PostFill, Goto
<1>8. CASE PostUnlock
  BY <1>0, <1>8 DEF PostUnlock, Goto
<1>9. CASE QueryReject
  BY <1>0, <1>9 DEF QueryReject, Goto
<1>10. CASE QueryReceive
  BY <1>0, <1>10 DEF QueryReceive, Goto
<1>11. CASE QueryLock
  BY <1>0, <1>11 DEF QueryLock, Goto
<1>12. CASE QueryList
  BY <1>12 DEF QueryList
<1>13. CASE QueryUnlock
  BY <1>0, <1>13 DEF QueryUnlock, Goto
<1>14. CASE QuerySend
  BY <1>0, <1>14 DEF QuerySend, Goto
<1>15. CASE QueryWake
  BY <1>0, <1>15 DEF QueryWake, Goto
<1>16. CASE UNCHANGED vars
  BY <1>16 DEF vars
<1> QED
  BY <1>1, <1>2, <1>3, <1>4, <1>5, <1>6, <1>7, <1>8, <1>9, <1>10, <1>11, <1>12,
     <1>13, <1>14, <1>15, <1>16 DEF Next, PostThread, QueryThread

\* Only the query thread changes its query, its walk and the Ret arrays.
LEMMA NotQuery ==
  ASSUME TypeOK, [Next]_vars, ~QueryThread
  PROVE  UNCHANGED <<query, queryTodo, ret>> /\ pc'["query"] = pc["query"]
<1>0. DOMAIN pc = Threads /\ "query" \in Threads
  BY DEF TypeOK, Threads
<1> USE DEF queryVars
<1>1. CASE Environment
  BY <1>1 DEF Environment, SendPost, SendQuery, Tick, SetBack
<1>2. CASE PostReject
  BY <1>2 DEF PostReject
<1>3. CASE PostReceive
  BY <1>0, <1>3 DEF PostReceive, Goto
<1>4. CASE PostLock
  BY <1>0, <1>4 DEF PostLock, Goto
<1>5. CASE PostHook
  BY <1>0, <1>5 DEF PostHook, Goto
<1>6. CASE PostStamp
  BY <1>0, <1>6 DEF PostStamp, Goto
<1>7. CASE PostFill
  BY <1>0, <1>7 DEF PostFill, Goto
<1>8. CASE PostUnlock
  BY <1>0, <1>8 DEF PostUnlock, Goto
<1>9. CASE PruneWake
  BY <1>0, <1>9 DEF PruneWake, Goto
<1>10. CASE PruneLock
  BY <1>0, <1>10 DEF PruneLock, Goto
<1>11. CASE PruneList
  BY <1>11 DEF PruneList
<1>12. CASE PruneUnlock
  BY <1>0, <1>12 DEF PruneUnlock, Goto
<1>13. CASE UNCHANGED vars
  BY <1>13 DEF vars
<1> QED
  BY <1>1, <1>2, <1>3, <1>4, <1>5, <1>6, <1>7, <1>8, <1>9, <1>10, <1>11, <1>12,
     <1>13 DEF Next, PostThread, PruneThread

\* Only the passing of time and its setting back change the clock.
LEMMA ClockSteps ==
  ASSUME [Next]_vars
  PROVE  Tick \/ SetBack \/ UNCHANGED <<clock, wentBack>>
<1>1. CASE Environment
  BY <1>1 DEF Environment, SendPost, SendQuery
<1>2. CASE PostThread
  BY <1>2 DEF PostThread, PostReject, PostReceive, PostLock, PostHook, PostStamp,
              PostFill, PostUnlock
<1>3. CASE PruneThread
  BY <1>3 DEF PruneThread, PruneWake, PruneLock, PruneList, PruneUnlock
<1>4. CASE QueryThread
  BY <1>4 DEF QueryThread, QueryReject, QueryReceive, QueryLock, QueryList,
              QueryUnlock, QuerySend, QueryWake
<1>5. CASE UNCHANGED vars
  BY <1>5 DEF vars
<1> QED BY <1>1, <1>2, <1>3, <1>4, <1>5 DEF Next

-----------------------------------------------------------------------------
(* What a step does to the lists.                                            *)

\* Linking puts one record at the front of one list and shifts the others.
LEMMA HookShape ==
  ASSUME TypeOK, PostHook
  PROVE  LET h == KeyOf(add) IN
         /\ add \in Adds /\ add' = add /\ h \in Keys
         /\ pc["post"] = "hook" /\ pc'["post"] = "stamp" /\ MsgNum' = MsgNum
         /\ DOMAIN data'[h] = 1..(Len(data[h]) + 1)
         /\ data'[h][1] = [serial |-> MsgNum, time |-> 0, raw |-> Zeros]
         /\ \A i \in 2..(Len(data[h]) + 1) :
              i - 1 \in DOMAIN data[h] /\ data'[h][i] = data[h][i - 1]
         /\ \A k \in Keys : k # h => data'[k] = data[k]
<1> DEFINE h == KeyOf(add)
           r == [serial |-> MsgNum, time |-> 0, raw |-> Zeros]
<1>1. /\ add \in Adds /\ h \in Keys /\ r \in Record
      /\ pc["post"] = "hook" /\ add' = add /\ MsgNum' = MsgNum
  BY KeyType DEF PostHook, TypeOK, Record, Zeros, Vals, postVars
<1>2. data' = [data EXCEPT ![h] = Hooked(@, r)] /\ pc'["post"] = "stamp"
  BY DEF PostHook, Goto, TypeOK, Threads
<1>3. DOMAIN data = Keys /\ data[h] \in Seq(Record)
  BY <1>1 DEF TypeOK
<1> HIDE DEF h, r
<1>4. data'[h] = Hooked(data[h], r) /\ \A k \in Keys : k # h => data'[k] = data[k]
  BY <1>1, <1>2, <1>3
<1>5. /\ DOMAIN data'[h] = 1..(Len(data[h]) + 1) /\ data'[h][1] = r
      /\ \A i \in 2..(Len(data[h]) + 1) :
           i - 1 \in DOMAIN data[h] /\ data'[h][i] = data[h][i - 1]
  BY <1>1, <1>3, <1>4, HookedRecords
<1> QED BY <1>1, <1>2, <1>4, <1>5 DEF h, r

\* Setting the time or the values of the front record changes no other record,
\* and nothing else of that one.
LEMMA SetShape ==
  ASSUME TypeOK, PostStamp \/ PostFill
  PROVE  LET h == KeyOf(add) IN
         /\ add \in Adds /\ add' = add /\ h \in Keys /\ MsgNum' = MsgNum
         /\ \/ pc["post"] = "stamp" /\ pc'["post"] = "fill"
            \/ pc["post"] = "fill" /\ pc'["post"] = "unlock"
         /\ \A k \in Keys : DOMAIN data'[k] = DOMAIN data[k]
         /\ \A k \in Keys : \A i \in DOMAIN data[k] :
              /\ data'[k][i].serial = data[k][i].serial
              /\ k # h \/ i # 1 \/ PostFill => data'[k][i].time = data[k][i].time
         /\ PostStamp => \A i \in DOMAIN data[h] :
                           i = 1 => data'[h][1].time = clock
<1> DEFINE h == KeyOf(add)
           v == RawData(add.sensor, add.v)
<1>1. /\ add \in Adds /\ add' = add /\ h \in Keys /\ MsgNum' = MsgNum
  BY KeyType DEF PostStamp, PostFill, TypeOK, postVars
<1>2. \/ pc["post"] = "stamp" /\ pc'["post"] = "fill"
      \/ pc["post"] = "fill" /\ pc'["post"] = "unlock"
  BY DEF PostStamp, PostFill, Goto, TypeOK, Threads
<1>3. DOMAIN data = Keys /\ \A k \in Keys : data[k] \in Seq(Record)
  BY DEF TypeOK
<1>4. \A k \in Keys : \A i \in DOMAIN data[k] : data[k][i] \in Record
  BY <1>3, ElementOfSeq, LenProperties
<1>5. /\ PostStamp => data' = [data EXCEPT ![h][1].time = clock]
      /\ PostFill => data' = [data EXCEPT ![h][1].raw = v]
      /\ ~(PostStamp /\ PostFill)
  BY DEF PostStamp, PostFill
<1> HIDE DEF h, v
<1>6. \A k \in Keys : k # h => data'[k] = data[k]
  BY <1>1, <1>3, <1>5
<1>7. CASE PostStamp
  <2>1. data'[h] = [data[h] EXCEPT ![1].time = clock]
    BY <1>1, <1>3, <1>5, <1>7
  <2>2. DOMAIN data'[h] = DOMAIN data[h]
    BY <2>1
  <2>3. ASSUME NEW i \in DOMAIN data[h]
        PROVE  /\ data'[h][i].serial = data[h][i].serial
               /\ i # 1 => data'[h][i].time = data[h][i].time
               /\ i = 1 => data'[h][1].time = clock
    BY <1>1, <1>4, <2>1 DEF Record
  <2> QED BY <1>1, <1>2, <1>5, <1>6, <1>7, <2>2, <2>3 DEF h
<1>8. CASE PostFill
  <2>1. data'[h] = [data[h] EXCEPT ![1].raw = v]
    BY <1>1, <1>3, <1>5, <1>8
  <2>2. DOMAIN data'[h] = DOMAIN data[h]
    BY <2>1
  <2>3. ASSUME NEW i \in DOMAIN data[h]
        PROVE  /\ data'[h][i].serial = data[h][i].serial
               /\ data'[h][i].time = data[h][i].time
    BY <1>1, <1>4, <2>1 DEF Record
  <2> QED BY <1>1, <1>2, <1>5, <1>6, <1>8, <2>2, <2>3 DEF h
<1> QED BY <1>7, <1>8

\* A prune step cuts one list at its first expired record.
LEMMA PruneShape ==
  ASSUME TypeOK, PruneList
  PROVE  \E c \in pruneTodo :
         /\ c \in Keys /\ pruneTodo' = pruneTodo \ {c}
         /\ data'[c] = Kept(data[c], now, Ttl[c[1]])
         /\ Len(data'[c]) \in 0..Len(data[c])
         /\ \A i \in DOMAIN data'[c] : ~Expired(data'[c][i], now, Ttl[c[1]])
         /\ Len(data'[c]) < Len(data[c]) =>
              Expired(data[c][Len(data'[c]) + 1], now, Ttl[c[1]])
         /\ \A k \in Keys : k # c => data'[k] = data[k]
         /\ \A k \in Keys : \A i \in DOMAIN data'[k] :
              i \in DOMAIN data[k] /\ data'[k][i] = data[k][i]
<1>1. PICK c \in pruneTodo : /\ data' = [data EXCEPT ![c] = Kept(@, now, Ttl[c[1]])]
                             /\ pruneTodo' = pruneTodo \ {c}
  BY DEF PruneList
<1>2. c \in Keys /\ DOMAIN data = Keys /\ data[c] \in Seq(Record)
  BY <1>1 DEF TypeOK
<1>3. /\ data'[c] = Kept(data[c], now, Ttl[c[1]])
      /\ \A k \in Keys : k # c => data'[k] = data[k]
  BY <1>1, <1>2
<1>4. /\ Len(data'[c]) \in 0..Len(data[c])
      /\ \A i \in DOMAIN data'[c] : i \in DOMAIN data[c] /\ data'[c][i] = data[c][i]
      /\ \A i \in DOMAIN data'[c] : ~Expired(data[c][i], now, Ttl[c[1]])
      /\ Len(data'[c]) < Len(data[c]) =>
           Expired(data[c][Len(data'[c]) + 1], now, Ttl[c[1]])
  BY <1>2, <1>3, KeptRecords
<1>5. \A i \in DOMAIN data'[c] : ~Expired(data'[c][i], now, Ttl[c[1]])
  BY <1>4
<1> QED BY <1>1, <1>2, <1>3, <1>4, <1>5

-----------------------------------------------------------------------------
(* The headers.                                                              *)

\* A search that ends in a new header leaves the name in the list once, and
\* every other name where it was.
LEMMA HeaderAdded ==
  ASSUME NEW S, NEW list \in Seq(S), NEW name \in S
  PROVE  LET new == AddHeader(list, name) IN
         /\ new # <<>> /\ Contains(new, name)
         /\ \A e : Contains(list, e) => Contains(new, e)
         /\ IsInjective(list) => IsInjective(new)
<1> DEFINE new == AddHeader(list, name)
<1>0. Len(list) \in Nat /\ DOMAIN list = 1..Len(list) /\ Len(<<>>) = 0
  BY LenProperties
<1>1. CASE Contains(list, name)
  <2>1. new = list
    BY <1>1 DEF AddHeader
  <2>2. new # <<>>
    BY <1>0, <1>1, <2>1 DEF Contains
  <2> QED BY <1>1, <2>1, <2>2, Zenon
<1>2. CASE ~Contains(list, name)
  <2>1. <<name>> \in Seq(S) /\ Len(<<name>>) = 1 /\ <<name>>[1] = name
    OBVIOUS
  <2>2. new = <<name>> \o list
    BY <1>2 DEF AddHeader
  <2> HIDE DEF new
  <2>3. /\ new \in Seq(S) /\ Len(new) = 1 + Len(list)
        /\ \A i \in 1..(1 + Len(list)) :
             new[i] = IF i <= 1 THEN <<name>>[i] ELSE list[i - 1]
    BY <2>1, <2>2, ConcatProperties
  <2>4. DOMAIN new = 1..(1 + Len(list))
    BY <1>0, <2>3, LenProperties
  <2>5. /\ new[1] = name
        /\ \A i \in 1..Len(list) : i + 1 \in 1..Len(new) /\ new[i + 1] = list[i]
        /\ \A i \in 2..(1 + Len(list)) : i - 1 \in 1..Len(list) /\ new[i] = list[i - 1]
    BY <1>0, <2>1, <2>3
  <2>6. new # <<>> /\ Contains(new, name)
    BY <1>0, <2>3, <2>5 DEF Contains
  <2>7. ASSUME NEW e, Contains(list, e) PROVE Contains(new, e)
    <3>1. PICK i \in 1..Len(list) : list[i] = e
      BY <2>7 DEF Contains
    <3> QED BY <2>5, <3>1 DEF Contains
  <2>8. ASSUME IsInjective(list), NEW a \in DOMAIN new, NEW b \in DOMAIN new,
               new[a] = new[b]
        PROVE  a = b
    <3>1. \A i \in 2..(1 + Len(list)) : new[i] # name
      BY <1>0, <1>2, <2>5 DEF Contains
    <3>2. CASE a = 1 \/ b = 1
      BY <1>0, <2>4, <2>5, <2>8, <3>1, <3>2
    <3>3. CASE a # 1 /\ b # 1
      <4>1. /\ a - 1 \in DOMAIN list /\ b - 1 \in DOMAIN list
            /\ list[a - 1] = list[b - 1]
        BY <1>0, <2>4, <2>5, <2>8, <3>3
      <4>2. a - 1 = b - 1
        BY <2>8, <4>1 DEF IsInjective
      <4> QED BY <1>0, <2>4, <4>2
    <3> QED BY <3>2, <3>3
  <2> QED BY <2>6, <2>7, <2>8 DEF IsInjective, new
<1> QED BY <1>1, <1>2

\* A list without a first record is empty.
LEMMA EmptyDomain ==
  ASSUME NEW S, NEW list \in Seq(S), DOMAIN list = {} PROVE list = <<>>
<1>1. Len(list) \in Nat /\ DOMAIN list = 1..Len(list)
  BY LenProperties
<1>2. Len(list) = 0
  <2>1. 1 \notin 1..Len(list)
    BY <1>1
  <2> QED BY <1>1, <2>1
<1> QED BY <1>2, EmptySeq

\* The store is empty when the threads start.
LEMMA HeadersInit == Init => HeadersConsistent
BY DEF Init, HeadersConsistent, IsInjective

\* Only sensorRecAdd touches the headers, and it hangs the record under both.
LEMMA HeadersNext ==
  TypeOK /\ HeadersConsistent /\ [Next]_vars => HeadersConsistent'
<1> SUFFICES ASSUME TypeOK, HeadersConsistent, [Next]_vars
             PROVE  HeadersConsistent'
  OBVIOUS
<1>0. TypeOK'
  BY TypeNext
<1>1. CASE PostHook
  <2> DEFINE g == <<add.sensor, add.id>>
             h == KeyOf(add)
             id == AddHeader(idList[add.sensor], add.id)
             sub == AddHeader(subIdList[g], add.subId)
  <2>1. /\ add.sensor \in Sensors /\ add.id \in Ids /\ add.subId \in SubIds
        /\ h \in Keys /\ g \in Sensors \X Ids
    BY <1>1, HookShape, KeyType
  <2>2. idList \in [Sensors -> Seq(Ids)] /\ subIdList \in [Sensors \X Ids -> Seq(SubIds)]
    BY DEF TypeOK
  <2>3. /\ idList' = [idList EXCEPT ![add.sensor] = id]
        /\ subIdList' = [subIdList EXCEPT ![g] = sub]
    BY <1>1 DEF PostHook
  <2>4. /\ Contains(id, add.id)
        /\ \A e : Contains(idList[add.sensor], e) => Contains(id, e)
        /\ IsInjective(idList[add.sensor]) => IsInjective(id)
    BY <2>1, <2>2, HeaderAdded
  <2>5. /\ Contains(sub, add.subId)
        /\ \A e : Contains(subIdList[g], e) => Contains(sub, e)
        /\ IsInjective(subIdList[g]) => IsInjective(sub)
    BY <2>1, <2>2, HeaderAdded
  <2> HIDE DEF id, sub
  <2>6. /\ idList'[add.sensor] = id /\ subIdList'[g] = sub
        /\ \A s \in Sensors : s # add.sensor => idList'[s] = idList[s]
        /\ \A f \in Sensors \X Ids : f # g => subIdList'[f] = subIdList[f]
    BY <2>1, <2>2, <2>3
  <2>7. /\ \A s \in Sensors : \A e : Contains(idList[s], e) => Contains(idList'[s], e)
        /\ \A f \in Sensors \X Ids : \A e :
             Contains(subIdList[f], e) => Contains(subIdList'[f], e)
    BY <2>4, <2>5, <2>6, Zenon
  <2>8. \A s \in Sensors : IsInjective(idList'[s])
    BY <2>4, <2>6 DEF HeadersConsistent
  <2>9. ASSUME NEW f \in Sensors \X Ids
        PROVE  /\ IsInjective(subIdList'[f])
               /\ subIdList'[f] # <<>> => Contains(idList'[f[1]], f[2])
    <3>1. CASE f = g
      <4>1. f[1] = add.sensor /\ f[2] = add.id
        BY <3>1
      <4> QED BY <2>4, <2>5, <2>6, <2>9, <3>1, <4>1 DEF HeadersConsistent
    <3>2. CASE f # g
      <4>1. f[1] \in Sensors
        BY <2>9
      <4> QED BY <2>6, <2>7, <2>9, <3>2, <4>1 DEF HeadersConsistent
    <3> QED BY <3>1, <3>2
  <2>10. ASSUME NEW k \in Keys, data'[k] # <<>>
         PROVE  Listed(k)'
    <3>1. k[1] \in Sensors /\ <<k[1], k[2]>> \in Sensors \X Ids
      BY <2>10 DEF Keys
    <3>2. CASE k = h
      <4>1. k[1] = add.sensor /\ k[2] = add.id /\ k[3] = add.subId
        BY <3>2 DEF KeyOf
      <4> QED BY <2>4, <2>5, <2>6, <4>1 DEF Listed
    <3>3. CASE k # h
      <4>1. data'[k] = data[k]
        BY <1>1, <2>10, <3>3, HookShape
      <4>2. Listed(k)
        BY <2>10, <4>1 DEF HeadersConsistent
      <4> QED BY <2>7, <3>1, <4>2 DEF Listed
    <3> QED BY <3>2, <3>3
  <2> QED BY <2>8, <2>9, <2>10, Zenon DEF HeadersConsistent
<1>2. CASE UNCHANGED <<idList, subIdList>>
           /\ \A k \in Keys : data'[k] # <<>> => data[k] # <<>>
  BY <1>2 DEF HeadersConsistent, Listed
<1>3. CASE PostStamp \/ PostFill
  <2>1. UNCHANGED <<idList, subIdList>>
    BY <1>3 DEF PostStamp, PostFill
  <2>2. ASSUME NEW k \in Keys, data[k] = <<>> PROVE data'[k] = <<>>
    <3>1. data'[k] \in Seq(Record) /\ DOMAIN data'[k] = {}
      BY <1>0, <1>3, <2>2, SetShape DEF TypeOK
    <3> QED BY <3>1, EmptyDomain
  <2> QED BY <1>2, <2>1, <2>2
<1>4. CASE PruneList
  <2>1. UNCHANGED <<idList, subIdList>>
    BY <1>4 DEF PruneList
  <2>2. ASSUME NEW k \in Keys, data[k] = <<>> PROVE data'[k] = <<>>
    <3>1. data'[k] \in Seq(Record) /\ DOMAIN data'[k] \subseteq DOMAIN data[k]
      BY <1>0, <1>4, PruneShape DEF TypeOK
    <3>2. DOMAIN data[k] = {}
      BY <2>2
    <3> QED BY <3>1, <3>2, EmptyDomain
  <2> QED BY <1>2, <2>1, <2>2
<1>5. CASE PostReject \/ PostReceive \/ PostLock \/ PostUnlock
  BY <1>2, <1>5 DEF PostReject, PostReceive, PostLock, PostUnlock, store
<1>6. CASE ~PostThread
  BY <1>2, <1>4, <1>6, NotPost
<1> QED BY <1>1, <1>3, <1>5, <1>6 DEF PostThread

\* No name ever has two headers, and every record hangs where a walk of the
\* headers reaches it.
THEOREM HeadersCorrect == Spec => []HeadersConsistent
BY TypeCorrect, HeadersInit, HeadersNext, PTL DEF Spec

\* A list is a suffix of the list with a header in front.
LEMMA HeaderSuffix ==
  ASSUME NEW S, NEW list \in Seq(S), NEW name \in S
  PROVE  IsSuffix(list, AddHeader(list, name)) /\ IsSuffix(list, list)
<1> DEFINE new == AddHeader(list, name)
<1>0. Len(list) \in Nat
  BY LenProperties
<1>1. IsSuffix(list, list)
  <2>1. Reverse(list) = [i \in 1..Len(list) |-> list[(Len(list) - i) + 1]]
    BY DEF Reverse
  <2>2. Len(Reverse(list)) = Len(list)
    BY <1>0, <2>1
  <2> QED BY <1>0, <2>2 DEF IsSuffix, IsPrefix
<1>2. CASE Contains(list, name)
  BY <1>1, <1>2 DEF AddHeader
<1>3. CASE ~Contains(list, name)
  <2>1. <<name>> \in Seq(S) /\ Len(<<name>>) = 1
    OBVIOUS
  <2>2. new = <<name>> \o list
    BY <1>3 DEF AddHeader
  <2> HIDE DEF new
  <2>3. /\ new \in Seq(S) /\ Len(new) = 1 + Len(list)
        /\ \A i \in 1..(1 + Len(list)) :
             new[i] = IF i <= 1 THEN <<name>>[i] ELSE list[i - 1]
    BY <2>1, <2>2, ConcatProperties
  <2> DEFINE r == [i \in 1..Len(list) |-> list[(Len(list) - i) + 1]]
             rn == [i \in 1..Len(new) |-> new[(Len(new) - i) + 1]]
  <2>4. Reverse(list) = r /\ Reverse(new) = rn
    BY DEF Reverse
  <2>5. Len(r) = Len(list) /\ Len(rn) = Len(list) + 1
    BY <1>0, <2>3
  <2>6. \A i \in 1..Len(list) : r[i] = rn[i]
    <3> SUFFICES ASSUME NEW i \in 1..Len(list) PROVE r[i] = rn[i]
      OBVIOUS
    <3>1. (Len(new) - i) + 1 \in 2..(1 + Len(list))
          /\ ((Len(new) - i) + 1) - 1 = (Len(list) - i) + 1
      BY <1>0, <2>3
    <3>2. i \in 1..Len(new)
      BY <1>0, <2>3
    <3>3. rn[i] = new[(Len(new) - i) + 1]
      BY <3>2
    <3>4. new[(Len(new) - i) + 1] = list[(Len(list) - i) + 1]
      BY <1>0, <2>3, <3>1
    <3> QED BY <3>3, <3>4
  <2> HIDE DEF r, rn
  <2>7. SubSeq(r, 1, Len(r)) = SubSeq(rn, 1, Len(r))
    BY <1>0, <2>5, <2>6
  <2> QED BY <1>0, <1>1, <2>4, <2>5, <2>7 DEF IsSuffix, IsPrefix, new
<1> QED BY <1>2, <1>3

\* A step keeps every header and its place from the back of its list.
LEMMA HeadersStayStep ==
  TypeOK /\ [Next]_vars =>
    [/\ \A s \in Sensors : IsSuffix(idList[s], idList'[s])
     /\ \A h \in Sensors \X Ids : IsSuffix(subIdList[h], subIdList'[h])]_vars
<1> SUFFICES ASSUME TypeOK, [Next]_vars
             PROVE  /\ \A s \in Sensors : IsSuffix(idList[s], idList'[s])
                    /\ \A h \in Sensors \X Ids : IsSuffix(subIdList[h], subIdList'[h])
  OBVIOUS
<1>0. /\ idList \in [Sensors -> Seq(Ids)]
      /\ subIdList \in [Sensors \X Ids -> Seq(SubIds)]
  BY DEF TypeOK
<1>1. \A S : \A list \in Seq(S) : IsSuffix(list, list)
  <2> SUFFICES ASSUME NEW S, NEW list \in Seq(S) PROVE IsSuffix(list, list)
    OBVIOUS
  <2>1. Len(list) \in Nat
    BY LenProperties
  <2>2. Len(Reverse(list)) = Len(list)
    BY <2>1 DEF Reverse
  <2> QED BY <2>1, <2>2 DEF IsSuffix, IsPrefix
<1>2. CASE UNCHANGED <<idList, subIdList>>
  <2>1. \A s \in Sensors : IsSuffix(idList[s], idList[s])
    BY <1>0, <1>1
  <2>2. \A h \in Sensors \X Ids : IsSuffix(subIdList[h], subIdList[h])
    BY <1>0, <1>1
  <2> QED BY <1>2, <2>1, <2>2, Zenon
<1>3. CASE PostHook
  <2> DEFINE g == <<add.sensor, add.id>>
             id == AddHeader(idList[add.sensor], add.id)
             sub == AddHeader(subIdList[g], add.subId)
  <2>1. /\ add.sensor \in Sensors /\ add.id \in Ids /\ add.subId \in SubIds
        /\ g \in Sensors \X Ids
    BY <1>3, HookShape, KeyType
  <2>2. IsSuffix(idList[add.sensor], id) /\ IsSuffix(subIdList[g], sub)
    BY <1>0, <2>1, HeaderSuffix
  <2>3. /\ idList' = [idList EXCEPT ![add.sensor] = id]
        /\ subIdList' = [subIdList EXCEPT ![g] = sub]
    BY <1>3 DEF PostHook
  <2> HIDE DEF g, id, sub
  <2>4. ASSUME NEW s \in Sensors PROVE IsSuffix(idList[s], idList'[s])
    <3>1. idList'[s] = IF s = add.sensor THEN id ELSE idList[s]
      BY <1>0, <2>1, <2>3
    <3>2. IsSuffix(idList[s], idList[s])
      BY <1>0, <1>1
    <3> QED BY <2>2, <3>1, <3>2
  <2>5. ASSUME NEW h \in Sensors \X Ids PROVE IsSuffix(subIdList[h], subIdList'[h])
    <3>1. subIdList'[h] = IF h = g THEN sub ELSE subIdList[h]
      BY <1>0, <2>1, <2>3
    <3>2. IsSuffix(subIdList[h], subIdList[h])
      BY <1>0, <1>1
    <3> QED BY <2>2, <3>1, <3>2
  <2> QED BY <2>4, <2>5
<1>4. CASE PostThread /\ ~PostHook
  BY <1>2, <1>4 DEF PostThread, PostReject, PostReceive, PostLock, PostStamp,
                    PostFill, PostUnlock, store
<1>5. CASE ~PostThread
  BY <1>2, <1>5, NotPost
<1> QED BY <1>3, <1>4, <1>5

\* No header is ever unlinked, renamed or moved: the order in which a query is
\* answered only grows at the front.
THEOREM HeadersForEver == Spec => HeadersStay
BY TypeCorrect, HeadersStayStep, PTL DEF Spec, HeadersStay

-----------------------------------------------------------------------------
(* The order of the records.                                                 *)

\* The inductive part: serials are message numbers, and only the reading that is
\* being added carries the present one.
SerialInv ==
  \A k \in Keys :
    /\ \A i \in DOMAIN data[k] :
         \/ data[k][i].serial < MsgNum
         \/ /\ pc["post"] \in {"stamp", "fill", "unlock"}
            /\ k = KeyOf(add) /\ i = 1 /\ data[k][i].serial = MsgNum
    /\ \A i, j \in DOMAIN data[k] : i < j => data[k][i].serial > data[k][j].serial

\* And as long as the clock has not gone back, no time stamp is in the future, and
\* they do not rise towards the end of a list, but for a record that has none yet.
TimeInv ==
  ~wentBack =>
    \A k \in Keys :
      /\ \A i \in DOMAIN data[k] : data[k][i].time <= clock
      /\ \A i, j \in DOMAIN data[k] :
           i < j => \/ data[k][i].time >= data[k][j].time
                    \/ pc["post"] = "stamp" /\ k = KeyOf(add) /\ i = 1

OrderInv == SerialInv /\ TimeInv

\* Records of a well-typed store.
LEMMA RecordTypes ==
  ASSUME TypeOK, NEW k \in Keys, NEW i \in DOMAIN data[k]
  PROVE  /\ data[k][i].serial \in Nat /\ data[k][i].time \in Nat
         /\ DOMAIN data[k] = 1..Len(data[k]) /\ Len(data[k]) \in Nat
<1>1. data[k] \in Seq(Record)
  BY DEF TypeOK
<1>2. DOMAIN data[k] = 1..Len(data[k]) /\ Len(data[k]) \in Nat
  BY <1>1, LenProperties
<1>3. data[k][i] \in Record
  BY <1>1, <1>2, ElementOfSeq
<1> QED BY <1>2, <1>3 DEF Record

\* There are no records when the threads start.
LEMMA OrderInit == Init => OrderInv
BY DEF Init, OrderInv, SerialInv, TimeInv

\* Every step keeps the serials in order.
LEMMA SerialNext == TypeOK /\ SerialInv /\ [Next]_vars => SerialInv'
<1> SUFFICES ASSUME TypeOK, SerialInv, [Next]_vars
             PROVE  SerialInv'
  OBVIOUS
<1>0. MsgNum \in Nat /\ DOMAIN pc = Threads /\ "post" \in Threads
  BY DEF TypeOK, Threads
<1>1. CASE PostHook
  <2> DEFINE h == KeyOf(add)
  <2>1. /\ h \in Keys /\ add' = add /\ MsgNum' = MsgNum
        /\ pc["post"] = "hook" /\ pc'["post"] = "stamp"
        /\ DOMAIN data'[h] = 1..(Len(data[h]) + 1)
        /\ data'[h][1].serial = MsgNum
        /\ \A i \in 2..(Len(data[h]) + 1) :
             i - 1 \in DOMAIN data[h] /\ data'[h][i] = data[h][i - 1]
        /\ \A k \in Keys : k # h => data'[k] = data[k]
    BY <1>1, HookShape
  <2>2. h' = h
    BY <2>1 DEF KeyOf
  <2> HIDE DEF h
  <2>3. /\ \A k \in Keys : \A i \in DOMAIN data[k] : data[k][i].serial < MsgNum
        /\ \A k \in Keys : \A i, j \in DOMAIN data[k] :
             i < j => data[k][i].serial > data[k][j].serial
    BY <2>1 DEF SerialInv
  <2>4. ASSUME NEW i \in DOMAIN data'[h], i # 1
        PROVE  /\ i - 1 \in DOMAIN data[h] /\ i \in Int
               /\ data'[h][i].serial = data[h][i - 1].serial
    <3>1. data[h] \in Seq(Record)
      BY <2>1 DEF TypeOK
    <3>2. i \in 2..(Len(data[h]) + 1)
      BY <2>1, <2>4, <3>1, LenProperties
    <3> QED BY <2>1, <3>2
  <2>5. ASSUME NEW i \in DOMAIN data'[h]
        PROVE  IF i = 1 THEN data'[h][i].serial = MsgNum ELSE data'[h][i].serial < MsgNum
    BY <2>1, <2>3, <2>4, <2>5
  <2>6. ASSUME NEW i \in DOMAIN data'[h], NEW j \in DOMAIN data'[h], i < j
        PROVE  data'[h][i].serial > data'[h][j].serial
    <3>0. data[h] \in Seq(Record) /\ Len(data[h]) \in Nat
      BY <2>1, LenProperties DEF TypeOK
    <3>1. i \in Nat /\ j \in Nat /\ i >= 1 /\ j # 1
      BY <2>1, <2>6, <3>0
    <3>2. j - 1 \in DOMAIN data[h] /\ data'[h][j].serial = data[h][j - 1].serial
      BY <2>4, <3>1
    <3>3. data[h][j - 1].serial \in Nat
      BY <2>1, <3>2, RecordTypes
    <3>4. CASE i = 1
      <4>1. data'[h][i].serial = MsgNum /\ data'[h][j].serial < MsgNum
        BY <2>5, <3>1, <3>4
      <4> QED BY <1>0, <3>2, <3>3, <4>1
    <3>5. CASE i # 1
      <4>1. i - 1 \in DOMAIN data[h] /\ data'[h][i].serial = data[h][i - 1].serial
        BY <2>4, <3>5
      <4>2. i - 1 < j - 1
        BY <2>6, <3>1
      <4> QED BY <2>1, <2>3, <3>2, <4>1, <4>2
    <3> QED BY <3>4, <3>5
  <2>7. ASSUME NEW k \in Keys, k # h
        PROVE  /\ \A i \in DOMAIN data'[k] : data'[k][i].serial < MsgNum
               /\ \A i, j \in DOMAIN data'[k] :
                    i < j => data'[k][i].serial > data'[k][j].serial
    BY <2>1, <2>3, <2>7
  <2>8. /\ KeyOf(add)' = h /\ MsgNum' = MsgNum /\ pc'["post"] = "stamp"
    BY <2>1, <2>2 DEF h
  <2> QED BY <2>5, <2>6, <2>7, <2>8 DEF SerialInv
<1>2. CASE PostStamp \/ PostFill
  <2>1. /\ add' = add /\ MsgNum' = MsgNum /\ KeyOf(add)' = KeyOf(add)
        /\ pc'["post"] \in {"fill", "unlock"}
        /\ \A k \in Keys : DOMAIN data'[k] = DOMAIN data[k]
        /\ \A k \in Keys : \A i \in DOMAIN data[k] :
             data'[k][i].serial = data[k][i].serial
    BY <1>2, SetShape DEF KeyOf
  <2> QED BY <2>1 DEF SerialInv
<1>3. CASE PruneList
  <2>1. /\ \A k \in Keys : \A i \in DOMAIN data'[k] :
             i \in DOMAIN data[k] /\ data'[k][i] = data[k][i]
    BY <1>3, PruneShape
  <2>2. /\ add' = add /\ MsgNum' = MsgNum /\ KeyOf(add)' = KeyOf(add) /\ pc' = pc
    BY <1>3 DEF PruneList, postVars, KeyOf
  <2> QED BY <2>1, <2>2 DEF SerialInv
<1>4. CASE PostUnlock \/ (PostReject /\ Head(postSock) # Empty)
  <2>1. data' = data /\ MsgNum' = MsgNum + 1
    BY <1>4 DEF PostUnlock, PostReject, store
  <2>2. ASSUME NEW k \in Keys, NEW i \in DOMAIN data[k]
        PROVE  data[k][i].serial < MsgNum + 1
    <3>1. data[k][i].serial \in Nat
      BY RecordTypes
    <3>2. data[k][i].serial < MsgNum \/ data[k][i].serial = MsgNum
      BY DEF SerialInv
    <3> QED BY <1>0, <3>1, <3>2
  <2> QED BY <2>1, <2>2 DEF SerialInv
<1>5. CASE PostReceive \/ PostLock \/ (PostReject /\ Head(postSock) = Empty)
  <2>1. data' = data /\ MsgNum' = MsgNum /\ pc["post"] \notin {"stamp", "fill", "unlock"}
    BY <1>5 DEF PostReceive, PostLock, PostReject, store, postVars
  <2> QED BY <2>1 DEF SerialInv
<1>6. CASE ~PostThread
  <2>1. CASE UNCHANGED data
    BY <1>6, <2>1, NotPost DEF SerialInv, KeyOf
  <2> QED BY <1>3, <1>6, <2>1, NotPost
<1> QED BY <1>1, <1>2, <1>4, <1>5, <1>6 DEF PostThread

\* Every step keeps the time stamps in order, unless it sets the clock back.
LEMMA TimeNext == TypeOK /\ TimeInv /\ [Next]_vars => TimeInv'
<1> SUFFICES ASSUME TypeOK, TimeInv, [Next]_vars, ~wentBack'
             PROVE  TimeInv'
  BY DEF TimeInv
<1>0. clock \in Nat
  BY DEF TypeOK
<1>1. wentBack = FALSE /\ clock' \in Nat /\ clock <= clock'
  <2>1. CASE Tick
    BY <1>0, <2>1 DEF Tick, TypeOK
  <2>2. CASE SetBack
    BY <2>2 DEF SetBack
  <2>3. CASE UNCHANGED <<clock, wentBack>>
    BY <1>0, <2>3 DEF TypeOK
  <2> QED BY <2>1, <2>2, <2>3, ClockSteps
<1>2. /\ \A k \in Keys : \A i \in DOMAIN data[k] : data[k][i].time <= clock
      /\ \A k \in Keys : \A i, j \in DOMAIN data[k] :
           i < j => \/ data[k][i].time >= data[k][j].time
                    \/ pc["post"] = "stamp" /\ k = KeyOf(add) /\ i = 1
  BY <1>1 DEF TimeInv
<1>3. CASE /\ \A k \in Keys : \A i \in DOMAIN data'[k] :
                i \in DOMAIN data[k] /\ data'[k][i].time = data[k][i].time
           /\ pc["post"] # "stamp" \/ (pc'["post"] = "stamp" /\ add' = add)
  <2>1. ASSUME NEW k \in Keys, NEW i \in DOMAIN data'[k]
        PROVE  data'[k][i].time <= clock'
    <3>1. /\ i \in DOMAIN data[k] /\ data'[k][i].time = data[k][i].time
      BY <1>3
    <3>2. data[k][i].time \in Nat /\ data[k][i].time <= clock
      BY <1>2, <3>1, RecordTypes
    <3> QED BY <1>0, <1>1, <3>1, <3>2
  <2>2. KeyOf(add)' = KeyOf(add) \/ pc["post"] # "stamp"
    BY <1>3 DEF KeyOf
  <2> QED BY <1>2, <1>3, <2>1, <2>2 DEF TimeInv
<1>4. CASE PostHook
  <2> DEFINE h == KeyOf(add)
  <2>1. /\ h \in Keys /\ add' = add /\ KeyOf(add)' = h
        /\ pc["post"] = "hook" /\ pc'["post"] = "stamp"
        /\ DOMAIN data'[h] = 1..(Len(data[h]) + 1)
        /\ data'[h][1].time = 0
        /\ \A i \in 2..(Len(data[h]) + 1) :
             i - 1 \in DOMAIN data[h] /\ data'[h][i] = data[h][i - 1]
        /\ \A k \in Keys : k # h => data'[k] = data[k]
    BY <1>4, HookShape DEF KeyOf
  <2>2. clock' = clock
    BY <1>4 DEF PostHook
  <2> HIDE DEF h
  <2>3. Len(data[h]) \in Nat
    BY <2>1, LenProperties DEF TypeOK
  <2>4. ASSUME NEW i \in DOMAIN data'[h], i # 1
        PROVE  /\ i - 1 \in DOMAIN data[h] /\ i \in Int
               /\ data'[h][i].time = data[h][i - 1].time
    <3>1. i \in 2..(Len(data[h]) + 1)
      BY <2>1, <2>3, <2>4
    <3> QED BY <2>1, <3>1
  <2>5. ASSUME NEW i \in DOMAIN data'[h]
        PROVE  data'[h][i].time <= clock
    <3>1. CASE i = 1
      BY <1>0, <2>1, <3>1
    <3>2. CASE i # 1
      BY <1>2, <2>1, <2>4, <3>2
    <3> QED BY <3>1, <3>2
  <2>6. ASSUME NEW i \in DOMAIN data'[h], NEW j \in DOMAIN data'[h], i < j, i # 1
        PROVE  data'[h][i].time >= data'[h][j].time
    <3>1. i \in Int /\ j \in Int /\ i >= 1 /\ j # 1
      BY <2>1, <2>3, <2>6
    <3>2. /\ i - 1 \in DOMAIN data[h] /\ data'[h][i].time = data[h][i - 1].time
          /\ j - 1 \in DOMAIN data[h] /\ data'[h][j].time = data[h][j - 1].time
      BY <2>4, <2>6, <3>1
    <3>3. i - 1 < j - 1
      BY <2>6, <3>1
    <3>4. data[h][i - 1].time >= data[h][j - 1].time
      BY <1>2, <2>1, <3>2, <3>3
    <3> QED BY <3>2, <3>4
  <2>7. ASSUME NEW k \in Keys, k # h
        PROVE  /\ \A i \in DOMAIN data'[k] : data'[k][i].time <= clock
               /\ \A i, j \in DOMAIN data'[k] :
                    i < j => data'[k][i].time >= data'[k][j].time
    BY <1>2, <2>1, <2>7
  <2> QED BY <2>1, <2>2, <2>5, <2>6, <2>7 DEF TimeInv
<1>5. CASE PostStamp
  <2> DEFINE h == KeyOf(add)
  <2>1. /\ h \in Keys /\ clock' = clock
        /\ \A k \in Keys : DOMAIN data'[k] = DOMAIN data[k]
        /\ \A k \in Keys : \A i \in DOMAIN data[k] :
             k # h \/ i # 1 => data'[k][i].time = data[k][i].time
        /\ \A i \in DOMAIN data[h] : i = 1 => data'[h][i].time = clock
    BY <1>5, SetShape DEF PostStamp
  <2> HIDE DEF h
  <2>2. ASSUME NEW k \in Keys, NEW i \in DOMAIN data[k]
        PROVE  /\ data'[k][i].time <= clock
               /\ k = h /\ i = 1 => data'[k][i].time = clock
    BY <1>0, <1>2, <2>1, <2>2
  <2>3. ASSUME NEW k \in Keys, NEW i \in DOMAIN data[k], NEW j \in DOMAIN data[k],
               i < j
        PROVE  data'[k][i].time >= data'[k][j].time
    <3>0. i \in Nat /\ j \in Nat /\ i >= 1 /\ data[k][j].time \in Nat
      BY RecordTypes
    <3>1. data'[k][j].time = data[k][j].time /\ data[k][j].time <= clock
      BY <1>2, <2>1, <2>3, <3>0
    <3>2. CASE k = h /\ i = 1
      BY <1>0, <2>2, <3>0, <3>1, <3>2
    <3>3. CASE ~(k = h /\ i = 1)
      BY <1>2, <2>1, <2>3, <3>1, <3>3 DEF h
    <3> QED BY <3>2, <3>3
  <2> QED BY <2>1, <2>2, <2>3 DEF TimeInv
<1>6. CASE PostFill
  <2>1. /\ pc["post"] = "fill"
        /\ \A k \in Keys : DOMAIN data'[k] = DOMAIN data[k]
        /\ \A k \in Keys : \A i \in DOMAIN data[k] : data'[k][i].time = data[k][i].time
    BY <1>6, SetShape DEF PostFill
  <2> QED BY <1>3, <2>1
<1>7. CASE PruneList
  <2>1. \A k \in Keys : \A i \in DOMAIN data'[k] :
          i \in DOMAIN data[k] /\ data'[k][i] = data[k][i]
    BY <1>7, PruneShape
  <2>2. add' = add /\ pc' = pc
    BY <1>7 DEF PruneList, postVars
  <2> QED BY <1>3, <2>1, <2>2
<1>8. CASE PostReject \/ PostReceive \/ PostLock \/ PostUnlock
  <2>1. data' = data /\ pc["post"] # "stamp"
    BY <1>8 DEF PostReject, PostReceive, PostLock, PostUnlock, store
  <2> QED BY <1>3, <2>1
<1>9. CASE ~PostThread
  <2>1. CASE UNCHANGED data
    BY <1>3, <1>9, <2>1, NotPost
  <2> QED BY <1>7, <1>9, <2>1, NotPost
<1> QED BY <1>4, <1>5, <1>6, <1>7, <1>8, <1>9 DEF PostThread

\* The order of the lists follows from it.
LEMMA OrderSuffices == TypeOK /\ OrderInv => NewestFirst
BY DEF OrderInv, SerialInv, TimeInv, NewestFirst, Building

\* Every list is newest first: by arrival always, and by time stamp as long as
\* the clock has never been set back.
THEOREM ListsOrdered == Spec => []NewestFirst
<1>1. OrderInv /\ TypeOK /\ [Next]_vars => OrderInv'
  BY SerialNext, TimeNext DEF OrderInv
<1>2. Spec => []OrderInv
  BY <1>1, TypeCorrect, OrderInit, PTL DEF Spec
<1> QED BY <1>2, TypeCorrect, OrderSuffices, PTL

-----------------------------------------------------------------------------
(* Pruning.                                                                  *)

\* The inductive part: during a walk, the lists already walked, and those without
\* a header, hold nothing that is too old at the walk's time stamp.
WalkInv ==
  pc["prune"] = "walk" =>
    \A k \in Keys \ pruneTodo : \A i \in DOMAIN data[k] :
      ~Expired(data[k][i], now, Ttl[k[1]])

\* The time stamp of a walk is not in the future unless the clock went back.
NowInv == ~wentBack => now <= clock

\* While the prune thread walks, the post thread touches no list.
LEMMA WalkAlone ==
  ASSUME MutualExclusion, pc["prune"] = "walk"
  PROVE  ~PostHook /\ ~PostStamp /\ ~PostFill
<1>1. mainListLock = "prune"
  BY DEF MutualExclusion, Threads, Critical
<1>2. pc["post"] \notin {"hook", "stamp", "fill"}
  BY <1>1 DEF MutualExclusion, Threads, Critical
<1> QED BY <1>2 DEF PostHook, PostStamp, PostFill

\* What a step of the post thread leaves alone when it touches no list.
LEMMA PostAlone ==
  ASSUME PostThread, ~PostHook, ~PostStamp, ~PostFill
  PROVE  UNCHANGED data
BY DEF PostThread, PostReject, PostReceive, PostLock, PostUnlock, store

\* Every step keeps the walk thorough.
LEMMA WalkNext ==
  TypeOK /\ MutualExclusion /\ HeadersConsistent /\ WalkInv /\ [Next]_vars => WalkInv'
<1> SUFFICES ASSUME TypeOK, MutualExclusion, HeadersConsistent, WalkInv, [Next]_vars,
                    pc'["prune"] = "walk"
             PROVE  WalkInv'
  BY DEF WalkInv
<1>0. DOMAIN pc = Threads /\ "prune" \in Threads
  BY DEF TypeOK, Threads
<1>1. CASE PruneLock
  <2>1. /\ pruneTodo' = {k \in Keys : Listed(k)} /\ data' = data
    BY <1>1 DEF PruneLock, store
  <2>2. \A k \in Keys \ pruneTodo' : data'[k] = <<>>
    BY <2>1 DEF HeadersConsistent
  <2>3. \A k \in Keys \ pruneTodo' : DOMAIN data'[k] = {}
    BY <2>2
  <2> QED BY <2>3 DEF WalkInv
<1>2. CASE PruneList
  <2>1. PICK c \in pruneTodo :
          /\ c \in Keys /\ pruneTodo' = pruneTodo \ {c}
          /\ \A i \in DOMAIN data'[c] : ~Expired(data'[c][i], now, Ttl[c[1]])
          /\ \A k \in Keys : k # c => data'[k] = data[k]
    BY <1>2, PruneShape
  <2>2. pc["prune"] = "walk" /\ now' = now
    BY <1>2 DEF PruneList
  <2>3. ASSUME NEW k \in Keys \ pruneTodo', NEW i \in DOMAIN data'[k]
        PROVE  ~Expired(data'[k][i], now, Ttl[k[1]])
    BY <2>1, <2>2, <2>3 DEF WalkInv
  <2> QED BY <2>2, <2>3 DEF WalkInv, Expired
<1>3. CASE PruneWake \/ PruneUnlock
  BY <1>0, <1>3 DEF PruneWake, PruneUnlock, Goto
<1>4. CASE ~PruneThread
  <2>1. UNCHANGED <<now, pruneTodo>> /\ pc["prune"] = "walk"
    BY <1>4, NotPrune
  <2>2. ~PostHook /\ ~PostStamp /\ ~PostFill /\ ~PruneList
    BY <1>4, <2>1, WalkAlone DEF PruneThread
  <2>3. UNCHANGED data
    BY <2>2, NotPost, PostAlone
  <2> QED BY <2>1, <2>3 DEF WalkInv, Expired
<1> QED BY <1>1, <1>2, <1>3, <1>4 DEF PruneThread

\* Every step keeps the time stamp out of the future.
LEMMA NowNext == TypeOK /\ NowInv /\ [Next]_vars => NowInv'
<1> SUFFICES ASSUME TypeOK, NowInv, [Next]_vars, ~wentBack'
             PROVE  now' <= clock'
  BY DEF NowInv
<1>0. clock \in Nat /\ now \in Nat
  BY DEF TypeOK
<1>1. wentBack = FALSE /\ clock' \in Nat /\ clock <= clock'
  <2>1. CASE Tick
    BY <1>0, <2>1 DEF Tick, TypeOK
  <2>2. CASE SetBack
    BY <2>2 DEF SetBack
  <2>3. CASE UNCHANGED <<clock, wentBack>>
    BY <1>0, <2>3 DEF TypeOK
  <2> QED BY <2>1, <2>2, <2>3, ClockSteps
<1>2. CASE now' = now
  BY <1>0, <1>1, <1>2 DEF NowInv
<1>3. CASE PruneWake
  BY <1>0, <1>3 DEF PruneWake
<1>4. CASE PruneUnlock
  BY <1>0, <1>1, <1>4 DEF PruneUnlock
<1>5. CASE PruneLock \/ PruneList
  BY <1>2, <1>5 DEF PruneLock, PruneList
<1> QED BY <1>2, <1>3, <1>4, <1>5, NotPrune DEF PruneThread

\* A walk ends with nothing left to walk.
LEMMA ThoroughStep ==
  TypeOK /\ WalkInv /\ [Next]_vars =>
    [pc["prune"] = "walk" /\ pc'["prune"] = "sleep" =>
       \A k \in Keys : \A i \in DOMAIN data[k] :
         ~Expired(data[k][i], now, Ttl[k[1]])]_vars
<1> SUFFICES ASSUME TypeOK, WalkInv, [Next]_vars,
                    pc["prune"] = "walk", pc'["prune"] = "sleep"
             PROVE  \A k \in Keys : \A i \in DOMAIN data[k] :
                      ~Expired(data[k][i], now, Ttl[k[1]])
  OBVIOUS
<1>1. PruneThread
  BY NotPrune
<1>2. PruneUnlock
  BY <1>1 DEF PruneThread, PruneWake, PruneLock, PruneList
<1>3. pruneTodo = {}
  BY <1>2 DEF PruneUnlock
<1> QED BY <1>3 DEF WalkInv

\* When sensorRecPruneAll returns, nothing in the store is older than its time to
\* live at the time stamp it started with, whatever the other threads did.
THEOREM PruningThorough == Spec => PruneThorough
<1>1. Init => WalkInv
  BY DEF Init, WalkInv
<1>2. Spec => []WalkInv
  BY <1>1, TypeCorrect, MutexCorrect, HeadersCorrect, WalkNext, PTL DEF Spec
<1> QED BY <1>2, TypeCorrect, ThoroughStep, PTL DEF Spec, PruneThorough

\* A step that frees records frees the expired end of one list.
LEMMA FreedStep ==
  TypeOK /\ MutualExclusion /\ TimeInv /\ NowInv /\ [Next]_vars =>
    [~wentBack => FreesExpired]_vars
<1> SUFFICES ASSUME TypeOK, MutualExclusion, TimeInv, NowInv, [Next]_vars, ~wentBack,
                    NEW k \in Keys, Len(data'[k]) < Len(data[k])
             PROVE  /\ IsPrefix(data'[k], data[k])
                    /\ \A i \in (Len(data'[k]) + 1)..Len(data[k]) :
                         Expired(data[k][i], clock, Ttl[k[1]])
  BY DEF FreesExpired
<1>0. /\ data[k] \in Seq(Record) /\ Len(data[k]) \in Nat
      /\ DOMAIN data[k] = 1..Len(data[k])
  BY LenProperties DEF TypeOK
<1>1. PruneList
  <2>1. ~PostHook
    <3> SUFFICES ASSUME PostHook PROVE FALSE
      OBVIOUS
    <3>1. data'[k] \in Seq(Record)
      BY TypeNext DEF TypeOK
    <3>2. Len(data'[k]) >= Len(data[k])
      <4>1. CASE k = KeyOf(add)
        <5>1. DOMAIN data'[k] = 1..(Len(data[k]) + 1)
          BY <4>1, HookShape
        <5>2. DOMAIN data'[k] = 1..Len(data'[k]) /\ Len(data'[k]) \in Nat
          BY <3>1, LenProperties
        <5>3. Len(data[k]) + 1 \in 1..Len(data'[k])
          BY <1>0, <5>1, <5>2
        <5> QED BY <1>0, <5>2, <5>3
      <4>2. CASE k # KeyOf(add)
        BY <1>0, <4>2, HookShape
      <4> QED BY <4>1, <4>2
    <3> QED BY <1>0, <3>1, <3>2, LenProperties
  <2>2. ~PostStamp /\ ~PostFill
    <3> SUFFICES ASSUME PostStamp \/ PostFill PROVE FALSE
      OBVIOUS
    <3>1. data'[k] \in Seq(Record)
      BY TypeNext DEF TypeOK
    <3>2. DOMAIN data'[k] = DOMAIN data[k]
      BY SetShape
    <3>3. DOMAIN data'[k] = 1..Len(data'[k]) /\ Len(data'[k]) \in Nat
      BY <3>1, LenProperties
    <3>4. Len(data[k]) \in 1..Len(data'[k])
      BY <1>0, <3>2, <3>3
    <3> QED BY <1>0, <3>3, <3>4
  <2>3. data' # data
    BY <1>0
  <2> QED BY <2>1, <2>2, <2>3, NotPost, PostAlone
<1>2. PICK c \in pruneTodo :
        /\ c \in Keys
        /\ data'[c] = Kept(data[c], now, Ttl[c[1]])
        /\ Len(data'[c]) \in 0..Len(data[c])
        /\ Len(data'[c]) < Len(data[c]) =>
             Expired(data[c][Len(data'[c]) + 1], now, Ttl[c[1]])
        /\ \A j \in Keys : j # c => data'[j] = data[j]
  BY <1>1, PruneShape
<1>3. k = c
  BY <1>0, <1>2
<1> DEFINE n == Len(data'[k])
<1>4. n \in 0..Len(data[k]) /\ n < Len(data[k]) /\ Expired(data[k][n + 1], now, Ttl[k[1]])
  BY <1>2, <1>3
<1>5. IsPrefix(data'[k], data[k])
  <2>1. PICK m \in 0..Len(data[k]) : data'[k] = SubSeq(data[k], 1, m)
    BY <1>0, <1>2, <1>3, KeptIsPrefix
  <2>2. \A i \in 1..m : data[k][i] \in Record
    BY <1>0, ElementOfSeq
  <2>3. data'[k] \in Seq(Record) /\ Len(data'[k]) = m
    BY <1>0, <2>1, <2>2, SubSeqProperties
  <2>4. SubSeq(data'[k], 1, Len(data'[k])) = data'[k]
    BY <2>3, SubSeqFull
  <2> QED BY <1>0, <2>1, <2>3, <2>4 DEF IsPrefix
<1> HIDE DEF n
<1>6. ASSUME NEW i \in (n + 1)..Len(data[k])
      PROVE  Expired(data[k][i], clock, Ttl[k[1]])
  <2>1. /\ i \in DOMAIN data[k] /\ n + 1 \in DOMAIN data[k] /\ n + 1 <= i
        /\ i \in Int /\ n \in Int
    BY <1>0, <1>4
  <2>2. data[k][i].time \in Nat /\ data[k][n + 1].time \in Nat
    BY <2>1, RecordTypes
  <2>3. pc["post"] # "stamp"
    <3>1. mainListLock = "prune"
      BY <1>1 DEF PruneList, MutualExclusion, Threads, Critical
    <3> QED BY <3>1 DEF MutualExclusion, Threads, Critical
  <2>4. data[k][n + 1].time >= data[k][i].time
    <3>1. CASE n + 1 = i
      BY <2>2, <3>1
    <3>2. CASE n + 1 < i
      BY <2>1, <2>3, <3>2 DEF TimeInv
    <3> QED BY <2>1, <3>1, <3>2
  <2>5. now <= clock /\ now \in Nat /\ clock \in Nat
    BY DEF NowInv, TypeOK
  <2>6. Ttl[k[1]] \in Nat
    BY TtlAssumption DEF Keys
  <2>7. now - data[k][n + 1].time > Ttl[k[1]]
    BY <1>4 DEF Expired
  <2>8. clock - data[k][i].time > Ttl[k[1]]
    <3> DEFINE t == data[k][n + 1].time
               u == data[k][i].time
               ttl == Ttl[k[1]]
    <3>1. t \in Nat /\ u \in Nat /\ ttl \in Nat /\ t >= u /\ now - t > ttl
      BY <2>2, <2>4, <2>6, <2>7
    <3> HIDE DEF t, u, ttl
    <3>2. clock - u > ttl
      BY <2>5, <3>1
    <3> QED BY <3>2 DEF u, ttl
  <2> QED BY <2>8 DEF Expired
<1> QED BY <1>5, <1>6 DEF n

\* As long as the clock has never been set back, no record is freed that is not
\* older than its time to live, although the list is cut at the first one that is.
THEOREM OnlyExpiredFreedForward == Spec => ForwardOnlyExpiredFreed
<1>1. Init => TimeInv /\ NowInv
  BY DEF Init, TimeInv, NowInv
<1>2. Spec => []TimeInv
  BY <1>1, TypeCorrect, TimeNext, PTL DEF Spec
<1>3. Spec => []NowInv
  BY <1>1, TypeCorrect, NowNext, PTL DEF Spec
<1> QED BY <1>2, <1>3, TypeCorrect, MutexCorrect, FreedStep,
           PTL DEF Spec, ForwardOnlyExpiredFreed

-----------------------------------------------------------------------------
(* The pointers of a query's answer.                                         *)

\* The inductive part: the walk of a query stays in the lists of its sensor type.
QueryInv ==
  /\ RowsAlive
  /\ pc["query"] = "walk" => \A k \in queryTodo : k[1] = query.sensor

\* Every row of a list carries its names and points to a record of it.
LEMMA RowsPoint ==
  ASSUME TypeOK, NEW k \in Keys, NEW type, NEW n \in DOMAIN Rows(k, type)
  PROVE  /\ Rows(k, type)[n].id = k[2] /\ Rows(k, type)[n].subId = k[3]
         /\ type # "V" =>
              \E i \in DOMAIN data[k] : data[k][i].serial = Rows(k, type)[n].ref
<1> DEFINE list == data[k]
           row(p) == [id |-> k[2], subId |-> k[3], ref |-> p, sums |-> Zeros, count |-> 0]
           avg == [id |-> k[2], subId |-> k[3], ref |-> NoRef,
                   sums |-> Sums([i \in 1..Len(list) |-> list[i].raw]), count |-> Len(list)]
           r == Rows(k, type)[n]
<1>1. list \in Seq(Record) /\ Len(list) \in Nat /\ DOMAIN list = 1..Len(list)
  BY LenProperties DEF TypeOK
<1>2. list # <<>> => 1 \in DOMAIN list /\ Len(list) \in DOMAIN list
  BY <1>1, EmptySeq
<1> HIDE DEF list
<1>3. /\ avg.id = k[2] /\ avg.subId = k[3]
      /\ \A p : row(p).id = k[2] /\ row(p).subId = k[3] /\ row(p).ref = p
  OBVIOUS
<1> HIDE DEF avg, row
<1>4. \/ Rows(k, type) = <<>>
      \/ list # <<>> /\ Rows(k, type) = <<row(list[1].serial)>>
      \/ list # <<>> /\ Rows(k, type) = <<row(list[Len(list)].serial)>>
      \/ type = "V" /\ Rows(k, type) = <<avg>>
      \/ Rows(k, type) = [i \in 1..Len(list) |-> row(list[i].serial)]
  BY DEF Rows, list, row, avg
<1>5. \/ \E i \in DOMAIN list : r = row(list[i].serial)
      \/ type = "V" /\ r = avg
  BY <1>1, <1>2, <1>4
<1> HIDE DEF r
<1>6. r.id = k[2] /\ r.subId = k[3]
      /\ (type # "V" => \E i \in DOMAIN list : list[i].serial = r.ref)
  BY <1>3, <1>5
<1> QED BY <1>6 DEF r, list

\* Every step keeps the records alive that an answer in the making points to.
LEMMA QueryInvNext ==
  TypeOK /\ MutualExclusion /\ QueryInv /\ [Next]_vars => QueryInv'
<1> SUFFICES ASSUME TypeOK, MutualExclusion, QueryInv, [Next]_vars,
                    pc'["query"] = "walk"
             PROVE  QueryInv'
  BY DEF QueryInv, RowsAlive
<1>0. DOMAIN pc = Threads /\ "query" \in Threads
  BY DEF TypeOK, Threads
<1>1. CASE QueryLock
  <2>1. ret' = <<>> /\ queryTodo' = Selected(query) /\ query' = query
    BY <1>1 DEF QueryLock
  <2> QED BY <2>1 DEF QueryInv, RowsAlive, Selected
<1>2. CASE QueryList
  <2>1. PICK k \in queryTodo : /\ ret' = ret \o Rows(k, query.type)
                               /\ queryTodo' = queryTodo \ {k}
    BY <1>2 DEF QueryList
  <2>2. /\ pc["query"] = "walk" /\ query' = query /\ data' = data
    BY <1>2 DEF QueryList, store
  <2>3. k \in Keys /\ k[1] = query.sensor /\ k = <<k[1], k[2], k[3]>>
    BY <2>1, <2>2 DEF QueryInv, TypeOK, Keys
  <2> DEFINE new == Rows(k, query.type)
  <2>4. ret \in Seq(RetRow) /\ new \in Seq(RetRow)
    BY <2>3, RowsType DEF TypeOK
  <2>5. /\ Len(ret) \in Nat /\ DOMAIN ret = 1..Len(ret)
        /\ Len(new) \in Nat /\ DOMAIN new = 1..Len(new)
    BY <2>4, LenProperties
  <2>6. ASSUME NEW n \in DOMAIN new
        PROVE  /\ new[n].id = k[2] /\ new[n].subId = k[3]
               /\ query.type # "V" =>
                    \E i \in DOMAIN data[k] : data[k][i].serial = new[n].ref
    BY <2>3, RowsPoint
  <2> HIDE DEF new
  <2>7. /\ ret' \in Seq(RetRow) /\ Len(ret') = Len(ret) + Len(new)
        /\ \A n \in 1..(Len(ret) + Len(new)) :
             ret'[n] = IF n <= Len(ret) THEN ret[n] ELSE new[n - Len(ret)]
    BY <2>1, <2>4, ConcatProperties DEF new
  <2>8. DOMAIN ret' = 1..(Len(ret) + Len(new))
    BY <2>7, LenProperties
  <2>9. ASSUME NEW n \in DOMAIN ret', query.type # "V"
        PROVE  \E i \in DOMAIN data[<<query.sensor, ret'[n].id, ret'[n].subId>>] :
                 data[<<query.sensor, ret'[n].id, ret'[n].subId>>][i].serial
                   = ret'[n].ref
    <3>1. CASE n <= Len(ret)
      <4>1. n \in DOMAIN ret /\ ret'[n] = ret[n]
        BY <2>5, <2>7, <2>8, <3>1
      <4> QED BY <2>2, <2>9, <4>1 DEF QueryInv, RowsAlive
    <3>2. CASE ~(n <= Len(ret))
      <4>1. n - Len(ret) \in DOMAIN new /\ ret'[n] = new[n - Len(ret)]
        BY <2>5, <2>7, <2>8, <3>2
      <4>2. /\ ret'[n].id = k[2] /\ ret'[n].subId = k[3]
            /\ \E i \in DOMAIN data[k] : data[k][i].serial = ret'[n].ref
        BY <2>6, <2>9, <4>1
      <4>3. <<query.sensor, ret'[n].id, ret'[n].subId>> = k
        BY <2>3, <4>2
      <4> QED BY <4>2, <4>3
    <3> QED BY <3>1, <3>2
  <2>10. \A j \in queryTodo' : j[1] = query'.sensor
    BY <2>1, <2>2 DEF QueryInv
  <2> QED BY <2>2, <2>9, <2>10 DEF QueryInv, RowsAlive
<1>3. CASE QueryReject \/ QueryReceive \/ QueryUnlock \/ QuerySend \/ QueryWake
  BY <1>0, <1>3 DEF QueryReject, QueryReceive, QueryUnlock, QuerySend, QueryWake, Goto
<1>4. CASE ~QueryThread
  <2>1. UNCHANGED <<query, queryTodo, ret>> /\ pc["query"] = "walk"
    BY <1>4, NotQuery
  <2>2. mainListLock = "query"
    BY <2>1 DEF MutualExclusion, Threads, Critical
  <2>3. pc["post"] \notin {"hook", "stamp", "fill"} /\ pc["prune"] # "walk"
    BY <2>2 DEF MutualExclusion, Threads, Critical
  <2>4. ~PostHook /\ ~PostStamp /\ ~PostFill /\ ~PruneList
    BY <2>3 DEF PostHook, PostStamp, PostFill, PruneList
  <2>5. UNCHANGED data
    BY <2>4, NotPost, PostAlone
  <2> QED BY <2>1, <2>5 DEF QueryInv, RowsAlive
<1> QED BY <1>1, <1>2, <1>3, <1>4 DEF QueryThread

\* Until a reply is formatted, no record that one of its value pointers points
\* into is freed.
THEOREM AnswersAlive == Spec => []RowsAlive
<1>1. Init => QueryInv
  BY DEF Init, QueryInv, RowsAlive
<1>2. QueryInv => RowsAlive
  BY DEF QueryInv
<1> QED BY <1>1, <1>2, TypeCorrect, MutexCorrect, QueryInvNext, PTL DEF Spec

-----------------------------------------------------------------------------
(* The walks.                                                                *)

\* A name that is in a header list has a place there.
LEMMA PositionType ==
  ASSUME NEW S, NEW s \in Seq(S), NEW x, Contains(s, x)
  PROVE  Position(x, s) \in Nat /\ s[Position(x, s)] = x
<1>1. Len(s) \in Nat /\ DOMAIN s = 1..Len(s)
  BY LenProperties
<1>2. \E i \in DOMAIN s : s[i] = x
  BY <1>1 DEF Contains
<1>3. Position(x, s) \in DOMAIN s /\ s[Position(x, s)] = x
  BY <1>2 DEF Position
<1> QED BY <1>1, <1>3

\* The three places of a list that the headers lead to.
LEMMA PlaceType ==
  ASSUME TypeOK, NEW k \in Keys, Listed(k)
  PROVE  /\ Position(k[1], SensorOrder) \in Nat
         /\ SensorOrder[Position(k[1], SensorOrder)] = k[1]
         /\ Position(k[2], idList[k[1]]) \in Nat
         /\ idList[k[1]][Position(k[2], idList[k[1]])] = k[2]
         /\ Position(k[3], subIdList[<<k[1], k[2]>>]) \in Nat
         /\ subIdList[<<k[1], k[2]>>][Position(k[3], subIdList[<<k[1], k[2]>>])] = k[3]
<1>1. k[1] \in Sensors /\ k[2] \in Ids
  BY DEF Keys
<1>2. /\ SensorOrder \in Seq(Sensors) /\ idList[k[1]] \in Seq(Ids)
      /\ subIdList[<<k[1], k[2]>>] \in Seq(SubIds)
  BY <1>1 DEF SensorOrder, Sensors, TypeOK
<1>3. Contains(SensorOrder, k[1])
  <2>1. \E i \in 1..6 : SensorOrder[i] = k[1]
    BY <1>1 DEF SensorOrder, Sensors
  <2>2. Len(SensorOrder) = 6
    BY DEF SensorOrder
  <2> QED BY <2>1, <2>2 DEF Contains
<1> QED BY <1>2, <1>3, PositionType DEF Listed

\* Of any lists the headers lead to, there is exactly one that comes first.
LEMMA WalkLeast ==
  ASSUME TypeOK, NEW S, S \subseteq Keys, S # {}, \A k \in S : Listed(k)
  PROVE  \E k \in S : \A j : NextInWalk(j, S) <=> j = k
<1> DEFINE P(k) == Position(k[1], SensorOrder)
           I(k) == Position(k[2], idList[k[1]])
           U(k) == Position(k[3], subIdList[<<k[1], k[2]>>])
<1>1. ASSUME NEW k \in S PROVE P(k) \in Nat /\ I(k) \in Nat /\ U(k) \in Nat
  BY PlaceType
<1>2. ASSUME NEW j \in S, NEW k \in S, P(j) = P(k), I(j) = I(k), U(j) = U(k)
      PROVE  j = k
  <2>1. j[1] = k[1]
    BY <1>2, PlaceType
  <2>2. j[2] = k[2]
    BY <1>2, <2>1, PlaceType
  <2>3. j[3] = k[3]
    BY <1>2, <2>1, <2>2, PlaceType
  <2> QED BY <2>1, <2>2, <2>3 DEF Keys
<1>3. \A j, k : WalkedBefore(j, k) <=>
        P(j) < P(k) \/ (P(j) = P(k) /\ (I(j) < I(k) \/ (I(j) = I(k) /\ U(j) < U(k))))
  BY DEF WalkedBefore
<1> HIDE DEF P, I, U
<1>4. PICK x \in S : \A j \in S : P(x) <= P(j)
  <2> DEFINE T == {P(k) : k \in S}
  <2>1. T \subseteq Nat /\ T # {}
    BY <1>1
  <2>2. PICK n \in T : \A m \in T : n <= m
    BY <2>1, LeastNat
  <2> QED BY <2>2
<1>5. PICK y \in {j \in S : P(j) = P(x)} : \A j \in {j \in S : P(j) = P(x)} : I(y) <= I(j)
  <2> DEFINE T == {I(k) : k \in {j \in S : P(j) = P(x)}}
  <2>1. T \subseteq Nat /\ T # {}
    BY <1>1
  <2>2. PICK n \in T : \A m \in T : n <= m
    BY <2>1, LeastNat
  <2> QED BY <2>2
<1> DEFINE Level == {j \in S : P(j) = P(x) /\ I(j) = I(y)}
<1>6. PICK z \in Level : \A j \in Level : U(z) <= U(j)
  <2> DEFINE T == {U(k) : k \in Level}
  <2>1. T \subseteq Nat /\ T # {}
    BY <1>1
  <2>2. PICK n \in T : \A m \in T : n <= m
    BY <2>1, LeastNat
  <2> QED BY <2>2
<1>7. ASSUME NEW j \in S \ {z} PROVE WalkedBefore(z, j) /\ ~WalkedBefore(j, z)
  <2>1. /\ P(z) \in Nat /\ I(z) \in Nat /\ U(z) \in Nat
        /\ P(j) \in Nat /\ I(j) \in Nat /\ U(j) \in Nat
    BY <1>1
  <2>2. P(z) <= P(j) /\ (P(z) = P(j) => I(z) <= I(j))
    BY <1>4, <1>5
  <2>3. P(z) = P(j) /\ I(z) = I(j) => U(z) <= U(j)
    BY <1>6
  <2>4. ~(P(z) = P(j) /\ I(z) = I(j) /\ U(z) = U(j))
    BY <1>2, <1>7
  <2> QED BY <1>3, <2>1, <2>2, <2>3, <2>4
<1>8. z \in S /\ \A j : NextInWalk(j, S) <=> j = z
  BY <1>7 DEF NextInWalk
<1> QED BY <1>8

\* The lists still to walk are ones the headers lead to.
TodoInv ==
  /\ pc["prune"] = "walk" => \A k \in pruneTodo : Listed(k)
  /\ pc["query"] = "walk" => \A k \in queryTodo : Listed(k)

\* Nobody touches the headers while a thread walks.
LEMMA HeadersFixed ==
  ASSUME TypeOK, MutualExclusion, [Next]_vars,
         pc["prune"] = "walk" \/ pc["query"] = "walk"
  PROVE  UNCHANGED <<idList, subIdList>>
<1>1. ~PostHook
  BY DEF PostHook, MutualExclusion, Threads, Critical
<1>2. CASE PostThread
  BY <1>1, <1>2 DEF PostThread, PostReject, PostReceive, PostLock, PostStamp, PostFill,
                    PostUnlock, store
<1>3. CASE ~PostThread
  BY <1>3, NotPost
<1> QED BY <1>2, <1>3

LEMMA TodoNext == TypeOK /\ MutualExclusion /\ TodoInv /\ [Next]_vars => TodoInv'
<1> SUFFICES ASSUME TypeOK, MutualExclusion, TodoInv, [Next]_vars PROVE TodoInv'
  OBVIOUS
<1>0. DOMAIN pc = Threads /\ "query" \in Threads /\ "prune" \in Threads
  BY DEF TypeOK, Threads
<1>1. ASSUME pc'["prune"] = "walk", NEW k \in pruneTodo' PROVE Listed(k)'
  <2>1. CASE PruneLock
    BY <2>1, <1>1 DEF PruneLock, store, Listed
  <2>2. CASE ~PruneLock
    <3>1. pc["prune"] = "walk" /\ pruneTodo' \subseteq pruneTodo
      <4>1. CASE PruneWake \/ PruneList \/ PruneUnlock
        BY <1>0, <1>1, <4>1 DEF PruneWake, PruneList, PruneUnlock, Goto
      <4>2. CASE ~PruneThread
        BY <1>1, <4>2, NotPrune
      <4> QED BY <2>2, <4>1, <4>2 DEF PruneThread
    <3> QED BY <1>1, <3>1, HeadersFixed DEF TodoInv, Listed
  <2> QED BY <2>1, <2>2
<1>2. ASSUME pc'["query"] = "walk", NEW k \in queryTodo' PROVE Listed(k)'
  <2>1. CASE QueryLock
    BY <2>1, <1>2 DEF QueryLock, Selected, store, Listed
  <2>2. CASE ~QueryLock
    <3>1. pc["query"] = "walk" /\ queryTodo' \subseteq queryTodo
      <4>1. CASE QueryReject \/ QueryReceive \/ QueryList \/ QueryUnlock \/ QuerySend \/ QueryWake
        BY <1>0, <1>2, <4>1 DEF QueryReject, QueryReceive, QueryList, QueryUnlock,
                                QuerySend, QueryWake, Goto
      <4>2. CASE ~QueryThread
        BY <1>2, <4>2, NotQuery
      <4> QED BY <2>2, <4>1, <4>2 DEF QueryThread
    <3> QED BY <1>2, <3>1, HeadersFixed DEF TodoInv, Listed
  <2> QED BY <2>1, <2>2
<1> QED BY <1>1, <1>2 DEF TodoInv

\* A thread that walks the lists with the mutex held is never stuck: until none is
\* left there is exactly one list that its loops come to next.
THEOREM WalksGoOn ==
  Spec => [](/\ pc["prune"] = "walk" /\ pruneTodo # {} =>
                  \E k \in pruneTodo : \A j : NextInWalk(j, pruneTodo) <=> j = k
             /\ pc["query"] = "walk" /\ queryTodo # {} =>
                  \E k \in queryTodo : \A j : NextInWalk(j, queryTodo) <=> j = k)
<1> DEFINE GoesOn ==
      /\ pc["prune"] = "walk" /\ pruneTodo # {} =>
           \E k \in pruneTodo : \A j : NextInWalk(j, pruneTodo) <=> j = k
      /\ pc["query"] = "walk" /\ queryTodo # {} =>
           \E k \in queryTodo : \A j : NextInWalk(j, queryTodo) <=> j = k
<1>1. Init => TodoInv
  BY DEF Init, TodoInv
<1>2. TypeOK /\ TodoInv => GoesOn
  BY WalkLeast DEF TypeOK, TodoInv
<1> QED BY <1>1, <1>2, TypeCorrect, MutexCorrect, TodoNext, PTL DEF Spec

=============================================================================
