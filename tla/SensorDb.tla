------------------------------- MODULE SensorDb -------------------------------
(***************************************************************************)
(* The sensor database process (software/db).  Three threads share one     *)
(* in-memory store under one mutex: the post thread adds the readings that *)
(* arrive on a UDP port, the query thread answers queries that arrive on   *)
(* another, and the prune thread drops readings older than their type's    *)
(* time to live.  The main thread only sends a heartbeat.                  *)
(*                                                                         *)
(* The store is a tree of linked lists: sensor type, id, subId, records.   *)
(* Here the sensor level is a constant, the id and subId headers are       *)
(* sequences (front first), and data maps every <<sensor, id, subId>> to   *)
(* its records, newest first; a key with no header has no records.         *)
(***************************************************************************)
EXTENDS SensorMsg, SequencesExt

CONSTANTS
  Datagrams,   \* sensor datagrams that may arrive
  Queries,     \* queries that may arrive
  Ttl,         \* time to live of each sensor type, in ticks
  DebugLevel,  \* the -D option
  MaxClock,    \* bound: the clock stops here
  MaxStepBack, \* how far the wall clock may be set back (0: never)
  MaxPosts,    \* bound: sensor datagrams sent, besides empty ones
  MaxQueries,  \* bound: queries sent
  SockCap      \* datagrams a socket buffer holds

DEBUG_SUPER == 3

MAX_QUERY_RET_VALS == 20

ASSUME DatagramsAssumption == Datagrams \subseteq Datagram
ASSUME QueriesAssumption == Queries \subseteq Query
ASSUME TtlAssumption == Ttl \in [Sensors -> Nat]
ASSUME BoundsAssumption ==
  /\ DebugLevel \in 0..DEBUG_SUPER
  /\ MaxClock \in Nat \ {0} /\ MaxStepBack \in Nat
  /\ MaxPosts \in Nat /\ MaxQueries \in Nat /\ SockCap \in Nat

VARIABLES
  clock,      \* the wall clock gettimeofday reads
  wentBack,   \* history: the wall clock has been set back
  postSock,   \* datagrams in the post socket's buffer
  querySock,  \* queries in the query socket's buffer
  posted,     \* datagrams sent so far, the empty ones not counted
  asked,      \* queries sent so far
  replies,    \* reply datagrams sent so far
  dbActive,   \* colour last sent for the DB_ACTIVE led
  idList,     \* id headers of each sensor type
  subIdList,  \* subId headers of each <<sensor, id>>
  data,       \* records of each <<sensor, id, subId>>
  mainListLock, \* the thread that holds the mutex, or "free"
  pc,         \* where each thread is
  MsgNum,     \* sensor datagrams processed
  add,        \* post thread: the arguments of sensorRecAdd
  now,        \* prune thread: its time stamp
  pruneTodo,  \* prune thread: subId lists still to walk
  query,      \* query thread: the query it works on
  queryTodo,  \* query thread: matching subId lists still to walk
  ret,        \* query thread: the Ret arrays, one row per answer line
  retBuffer   \* query thread: the formatted reply

clocks    == <<clock, wentBack>>
store     == <<idList, subIdList, data>>
network   == <<postSock, querySock, posted, asked>>
postVars  == <<MsgNum, add>>
pruneVars == <<now, pruneTodo>>
queryVars == <<query, queryTodo, ret, retBuffer>>

vars == <<clocks, network, replies, dbActive, store, mainListLock, pc,
          postVars, pruneVars, queryVars>>

-----------------------------------------------------------------------------
(* What the store holds.                                                    *)

Threads == {"post", "query", "prune"}

Adds   == UNION {Parsed(d) : d \in Datagrams}
Ids    == {a.id : a \in Adds}
SubIds == {a.subId : a \in Adds}
Keys   == Sensors \X Ids \X SubIds

\* serial stands for the record's address: the number of the message it holds.
Record == [serial : Nat, time : Nat, raw : Vals]

KeyOf(a) == <<a.sensor, a.id, a.subId>>

NoAdd   == [sensor |-> "none", id |-> "none", subId |-> "none", v |-> Zeros]
NoQuery == [tag |-> "none", type |-> "none", sensor |-> "none", id |-> "none",
            subId |-> "none", fields |-> 0]
NoCount == -1
NoRef   == 0
NoReply == [tag |-> "none", quoted |-> FALSE, type |-> "none",
            sensor |-> "none", count |-> NoCount, lines |-> <<>>]

Listed(k) ==
  /\ Contains(idList[k[1]], k[2])
  /\ Contains(subIdList[<<k[1], k[2]>>], k[3])

\* The order of the walks: SensorTtls' order, then the header lists' order.
SensorOrder == <<"C", "R", "G", "O", "M", "B">>

Position(x, s) == CHOOSE i \in DOMAIN s : s[i] = x

WalkedBefore(j, k) ==
  LET p == Position(j[1], SensorOrder)
      q == Position(k[1], SensorOrder)
      pi == Position(j[2], idList[j[1]])
      qi == Position(k[2], idList[k[1]])
      pu == Position(j[3], subIdList[<<j[1], j[2]>>])
      qu == Position(k[3], subIdList[<<k[1], k[2]>>])
  IN p < q \/ (p = q /\ (pi < qi \/ (pi = qi /\ pu < qu)))

NextInWalk(k, todo) == k \in todo /\ \A j \in todo \ {k} : WalkedBefore(k, j)

-----------------------------------------------------------------------------
Init ==
  /\ clock = 1 /\ wentBack = FALSE
  /\ postSock = <<>> /\ querySock = <<>>
  /\ posted = 0 /\ asked = 0
  /\ replies = <<>>
  /\ dbActive = "OFF"
  /\ idList = [s \in Sensors |-> <<>>]
  /\ subIdList = [h \in Sensors \X Ids |-> <<>>]
  /\ data = [k \in Keys |-> <<>>]
  /\ mainListLock = "free"
  /\ pc = [post |-> "recv", query |-> "recv", prune |-> "sleep"]
  /\ MsgNum = 0
  /\ add = NoAdd
  /\ now = 0
  /\ pruneTodo = {}
  /\ query = NoQuery
  /\ queryTodo = {}
  /\ ret = <<>>
  /\ retBuffer = NoReply

Goto(t, label) == pc' = [pc EXCEPT ![t] = label]

\* (The operators named ...Faulty are variants with a plausible bug.  No
\* specification uses them; they show which property notices the bug.)
getLockFaulty(t) == mainListLock' = t

getLockQueryFaulty(t) ==
  mainListLock = "free" /\ mainListLock' = IF t = "query" THEN "free" ELSE t

getLock(t) == mainListLock = "free" /\ mainListLock' = t

releaseLockFaulty == UNCHANGED mainListLock

releaseLock == mainListLock' = "free"

-----------------------------------------------------------------------------
(* The environment.  A datagram the network loses, or one that finds the   *)
(* buffer full, is one that is not sent here; a duplicate is sent twice.   *)

SendPost(d) ==
  /\ d = Empty \/ posted < MaxPosts
  /\ Len(postSock) < SockCap
  /\ postSock' = Append(postSock, d)
  /\ posted' = IF d = Empty THEN posted ELSE posted + 1
  /\ UNCHANGED <<clocks, querySock, asked, replies, dbActive, store,
                 mainListLock, pc, postVars, pruneVars, queryVars>>

SendQuery(q) ==
  /\ asked < MaxQueries /\ Len(querySock) < SockCap
  /\ querySock' = Append(querySock, q)
  /\ asked' = asked + 1
  /\ UNCHANGED <<clocks, postSock, posted, replies, dbActive, store,
                 mainListLock, pc, postVars, pruneVars, queryVars>>

Tick ==
  /\ clock < MaxClock
  /\ clock' = clock + 1
  /\ UNCHANGED <<wentBack, network, replies, dbActive, store, mainListLock, pc,
                 postVars, pruneVars, queryVars>>

\* The wall clock is set back, by hand or by a time service.
SetBack ==
  /\ clock' \in {t \in 1..(clock - 1) : clock - t <= MaxStepBack}
  /\ wentBack' = TRUE
  /\ UNCHANGED <<network, replies, dbActive, store, mainListLock, pc,
                 postVars, pruneVars, queryVars>>

-----------------------------------------------------------------------------
(* The post thread: processSensorData and sensorRecAdd.                     *)

\* A parser's early return is missing.
PostRejectFaulty ==
  /\ pc["post"] = "recv" /\ postSock # <<>>
  /\ Parsed(Head(postSock)) = {}
  /\ postSock' = Tail(postSock)
  /\ Goto("post", "lock")
  /\ UNCHANGED <<clocks, querySock, posted, asked, replies, dbActive, store,
                 mainListLock, postVars, pruneVars, queryVars>>

\* Empty datagrams are counted like the others.
PostRejectCountsEmptyFaulty ==
  /\ pc["post"] = "recv" /\ postSock # <<>>
  /\ Parsed(Head(postSock)) = {}
  /\ postSock' = Tail(postSock)
  /\ MsgNum' = MsgNum + 1
  /\ dbActive' = "GREEN"
  /\ UNCHANGED <<clocks, querySock, posted, asked, replies, store,
                 mainListLock, pc, add, pruneVars, queryVars>>

\* A datagram the parser drops only counts as processed, and one of no bytes,
\* for which recvfrom returns 0, not even that.
PostReject ==
  /\ pc["post"] = "recv" /\ postSock # <<>>
  /\ Parsed(Head(postSock)) = {}
  /\ postSock' = Tail(postSock)
  /\ MsgNum' = IF Head(postSock) = Empty THEN MsgNum ELSE MsgNum + 1
  /\ dbActive' = "GREEN"
  /\ UNCHANGED <<clocks, querySock, posted, asked, replies, store,
                 mainListLock, pc, add, pruneVars, queryVars>>

PostReceive ==
  /\ pc["post"] = "recv" /\ postSock # <<>>
  /\ add' \in Parsed(Head(postSock))
  /\ postSock' = Tail(postSock)
  /\ Goto("post", "lock")
  /\ UNCHANGED <<clocks, querySock, posted, asked, replies, dbActive, store,
                 mainListLock, MsgNum, pruneVars, queryVars>>

\* At DEBUG_SUPER the thread calls dumpLists with the mutex held.  dumpLists
\* locks the same mutex, and no step leads from "dump".
PostLock ==
  /\ pc["post"] = "lock"
  /\ getLock("post")
  /\ Goto("post", IF DebugLevel = DEBUG_SUPER THEN "dump" ELSE "hook")
  /\ UNCHANGED <<clocks, network, replies, dbActive, store, postVars,
                 pruneVars, queryVars>>

AddHeaderDoubleFaulty(list, name) == <<name>> \o list

AddHeaderEndFaulty(list, name) ==
  IF Contains(list, name) THEN list ELSE Append(list, name)

AddHeader(list, name) == IF Contains(list, name) THEN list ELSE <<name>> \o list

HookedFaulty(list, r) == Append(list, r)

Hooked(list, r) == <<r>> \o list

\* The search, the headers it misses, and the new record at the front of its
\* list, still as it was allocated: no time, no values.
PostHook ==
  LET k == KeyOf(add)
      h == <<add.sensor, add.id>> IN
  /\ pc["post"] = "hook"
  /\ idList' = [idList EXCEPT ![add.sensor] = AddHeader(@, add.id)]
  /\ subIdList' = [subIdList EXCEPT ![h] = AddHeader(@, add.subId)]
  /\ data' = [data EXCEPT ![k] =
                Hooked(@, [serial |-> MsgNum, time |-> 0, raw |-> Zeros])]
  /\ Goto("post", "stamp")
  /\ UNCHANGED <<clocks, network, replies, dbActive, mainListLock, postVars,
                 pruneVars, queryVars>>

\* The mutex is released once the record is linked.
PostStampFaulty ==
  /\ pc["post"] = "stamp"
  /\ data' = [data EXCEPT ![KeyOf(add)][1].time = clock]
  /\ releaseLock
  /\ Goto("post", "fill")
  /\ UNCHANGED <<clocks, network, replies, dbActive, idList, subIdList,
                 postVars, pruneVars, queryVars>>

PostStamp ==
  /\ pc["post"] = "stamp"
  /\ data' = [data EXCEPT ![KeyOf(add)][1].time = clock]
  /\ Goto("post", "fill")
  /\ UNCHANGED <<clocks, network, replies, dbActive, idList, subIdList,
                 mainListLock, postVars, pruneVars, queryVars>>

PostFill ==
  /\ pc["post"] = "fill"
  /\ data' = [data EXCEPT ![KeyOf(add)][1].raw = RawData(add.sensor, add.v)]
  /\ Goto("post", "unlock")
  /\ UNCHANGED <<clocks, network, replies, dbActive, idList, subIdList,
                 mainListLock, postVars, pruneVars, queryVars>>

PostUnlock ==
  /\ pc["post"] = "unlock"
  /\ releaseLock
  /\ MsgNum' = MsgNum + 1
  /\ add' = NoAdd
  /\ dbActive' = "GREEN"
  /\ Goto("post", "recv")
  /\ UNCHANGED <<clocks, network, replies, store, pruneVars, queryVars>>

-----------------------------------------------------------------------------
(* The prune thread: sensorRecPruneAll every PRUNE_FREQUENCY ms.  How long  *)
(* the sleep lasts against the ticks of the clock is left open.             *)

\* The time stamp is taken before the mutex.
PruneWake ==
  /\ pc["prune"] = "sleep"
  /\ now' = clock
  /\ Goto("prune", "lock")
  /\ UNCHANGED <<clocks, network, replies, dbActive, store, mainListLock,
                 postVars, pruneTodo, queryVars>>

PruneLock ==
  /\ pc["prune"] = "lock"
  /\ getLock("prune")
  /\ pruneTodo' = {k \in Keys : Listed(k)}
  /\ Goto("prune", IF DebugLevel >= DEBUG_SUPER THEN "dump" ELSE "walk")
  /\ UNCHANGED <<clocks, network, replies, dbActive, store, postVars, now,
                 queryVars>>

\* Seconds and microseconds are one number here; TimeVal proves that this
\* comparison is the code's.
Expired(r, t, ttl) == t - r.time > ttl

\* One expired record takes its whole list along.
KeptNoneFaulty(list, t, ttl) ==
  IF \E i \in DOMAIN list : Expired(list[i], t, ttl) THEN <<>> ELSE list

\* The case of an expired front record is forgotten.
KeptFrontFaulty(list, t, ttl) ==
  LET first == SelectInSeq(list, LAMBDA r : Expired(r, t, ttl))
  IN IF first = 0 THEN list ELSE SubSeq(list, 1, IF first = 1 THEN 1 ELSE first - 1)

\* The list is cut at its first expired record; the rest is freed.
Kept(list, t, ttl) ==
  IF \E i \in DOMAIN list : Expired(list[i], t, ttl)
  THEN LET first == CHOOSE i \in DOMAIN list :
                      /\ Expired(list[i], t, ttl)
                      /\ \A j \in 1..(i - 1) : ~Expired(list[j], t, ttl)
       IN SubSeq(list, 1, first - 1)
  ELSE list

PruneList ==
  /\ pc["prune"] = "walk"
  /\ \E k \in pruneTodo :
       /\ NextInWalk(k, pruneTodo)
       /\ data' = [data EXCEPT ![k] = Kept(@, now, Ttl[k[1]])]
       /\ pruneTodo' = pruneTodo \ {k}
  /\ UNCHANGED <<clocks, network, replies, dbActive, idList, subIdList,
                 mainListLock, pc, postVars, now, queryVars>>

PruneUnlock ==
  /\ pc["prune"] = "walk" /\ pruneTodo = {}
  /\ releaseLock
  /\ now' = 0
  /\ Goto("prune", "sleep")
  /\ UNCHANGED <<clocks, network, replies, dbActive, store, postVars,
                 pruneTodo, queryVars>>

-----------------------------------------------------------------------------
(* The query thread: processSensorQuery and processQuery.                   *)

\* A query sscanf cannot split into five fields gets no reply.
QueryReject ==
  /\ pc["query"] = "recv" /\ querySock # <<>>
  /\ ~WellFormed(Head(querySock))
  /\ querySock' = Tail(querySock)
  /\ dbActive' = "BLUE"
  /\ Goto("query", "nap")
  /\ UNCHANGED <<clocks, postSock, posted, asked, replies, store,
                 mainListLock, postVars, pruneVars, queryVars>>

QueryReceive ==
  /\ pc["query"] = "recv" /\ querySock # <<>>
  /\ WellFormed(Head(querySock))
  /\ query' = Head(querySock)
  /\ querySock' = Tail(querySock)
  /\ Goto("query", "lock")
  /\ UNCHANGED <<clocks, postSock, posted, asked, replies, dbActive, store,
                 mainListLock, postVars, pruneVars, queryTodo, ret, retBuffer>>

\* The subId lists the query asks for.
Selected(q) ==
  {k \in Keys : /\ k[1] = q.sensor /\ Listed(k)
                /\ Matches(q.id, k[2]) /\ Matches(q.subId, k[3])}

QueryLock ==
  /\ pc["query"] = "lock"
  /\ getLock("query")
  /\ queryTodo' = Selected(query)
  /\ ret' = <<>>
  /\ Goto("query", "walk")
  /\ UNCHANGED <<clocks, network, replies, dbActive, store, postVars,
                 pruneVars, query, retBuffer>>

\* The loop that adds up one component of a list's values.
Sum(values, c) ==
  LET sum[n \in 0..Len(values)] == IF n = 0 THEN 0 ELSE sum[n - 1] + values[n][c]
  IN sum[Len(values)]

Sums(values) == <<Sum(values, 1), Sum(values, 2), Sum(values, 3), Sum(values, 4)>>

\* The rows one subId list adds to the Ret arrays: names and, for an average, the
\* sums and the number of records; otherwise the record the value pointers point
\* into.
Rows(k, type) ==
  LET list == data[k]
      row(p) == [id |-> k[2], subId |-> k[3], ref |-> p, sums |-> Zeros, count |-> 0]
  IN
  CASE list = <<>>  -> <<>>
    [] list # <<>> /\ type = "L" -> <<row(list[1].serial)>>
    [] list # <<>> /\ type = "E" -> <<row(list[Len(list)].serial)>>
    [] list # <<>> /\ type = "A" -> [i \in 1..Len(list) |-> row(list[i].serial)]
    [] list # <<>> /\ type = "V" ->
         <<[id |-> k[2], subId |-> k[3], ref |-> NoRef,
            sums |-> Sums([i \in 1..Len(list) |-> list[i].raw]), count |-> Len(list)]>>
    [] OTHER -> <<>>

QueryList ==
  /\ pc["query"] = "walk"
  /\ \E k \in queryTodo :
       /\ NextInWalk(k, queryTodo)
       /\ ret' = ret \o Rows(k, query.type)
       /\ queryTodo' = queryTodo \ {k}
  /\ UNCHANGED <<clocks, network, replies, dbActive, store, mainListLock, pc,
                 postVars, pruneVars, query, retBuffer>>

CDivFaulty(a, n) == a \div n

\* C's integer division truncates towards zero.
CDiv(a, n) == IF a >= 0 THEN a \div n ELSE -((-a) \div n)

Average(row) ==
  LET mean(c) == IF row.count # 0 THEN CDiv(row.sums[c], row.count) ELSE 0
  IN <<mean(1), mean(2), mean(3), mean(4)>>

\* Following a row's value pointers; RowsAlive says that the record is there.
Referent(row) ==
  LET list == data[<<query.sensor, row.id, row.subId>>]
  IN list[CHOOSE i \in DOMAIN list : list[i].serial = row.ref]

Line(row) ==
  [id |-> row.id, subId |-> row.subId,
   vals |-> IF query.type = "V" THEN Average(row) ELSE Referent(row).raw]

\* An unknown sensor type is answered with the bare tag and a count of 0, an
\* unknown query type with the quoted tag and no count.
Formatted ==
  LET known == query.sensor \in Sensors IN
  [tag |-> query.tag, quoted |-> known, type |-> query.type,
   sensor |-> query.sensor,
   count |-> IF known /\ query.type \notin QueryTypes THEN NoCount ELSE Len(ret),
   lines |-> [i \in 1..Len(ret) |-> Line(ret[i])]]

\* A query without records is not answered.
QueryUnlockFaulty ==
  /\ pc["query"] = "walk" /\ queryTodo = {}
  /\ retBuffer' = Formatted
  /\ releaseLock
  /\ Goto("query", IF ret = <<>> THEN "nap" ELSE "send")
  /\ UNCHANGED <<clocks, network, replies, dbActive, store, postVars,
                 pruneVars, query, queryTodo, ret>>

QueryUnlock ==
  /\ pc["query"] = "walk" /\ queryTodo = {}
  /\ retBuffer' = Formatted
  /\ releaseLock
  /\ Goto("query", "send")
  /\ UNCHANGED <<clocks, network, replies, dbActive, store, postVars,
                 pruneVars, query, queryTodo, ret>>

QuerySend ==
  /\ pc["query"] = "send"
  /\ replies' = Append(replies, retBuffer)
  /\ dbActive' = "BLUE"
  /\ query' = NoQuery /\ ret' = <<>> /\ retBuffer' = NoReply
  /\ Goto("query", "nap")
  /\ UNCHANGED <<clocks, network, store, mainListLock, postVars, pruneVars,
                 queryTodo>>

\* sleep(1) after every query.
QueryWake ==
  /\ pc["query"] = "nap"
  /\ Goto("query", "recv")
  /\ UNCHANGED <<clocks, network, replies, dbActive, store, mainListLock,
                 postVars, pruneVars, queryVars>>

-----------------------------------------------------------------------------
Environment ==
  \/ \E d \in Datagrams : SendPost(d)
  \/ \E q \in Queries : SendQuery(q)
  \/ Tick \/ SetBack

PostThread ==
  \/ PostReject \/ PostReceive \/ PostLock \/ PostHook \/ PostStamp
  \/ PostFill \/ PostUnlock

PruneThread == PruneWake \/ PruneLock \/ PruneList \/ PruneUnlock

QueryThread ==
  \/ QueryReject \/ QueryReceive \/ QueryLock \/ QueryList \/ QueryUnlock
  \/ QuerySend \/ QueryWake

Next == Environment \/ PostThread \/ PruneThread \/ QueryThread

Spec == Init /\ [][Next]_vars

\* Every thread keeps running, and time passes.  A thread that waits for the
\* mutex gets it if it is free again and again: the other threads sleep or
\* block in recvfrom between two critical sections.
Fairness ==
  /\ WF_vars(Tick)
  /\ WF_vars(PostThread) /\ WF_vars(PruneThread) /\ WF_vars(QueryThread)
  /\ SF_vars(PostLock) /\ SF_vars(PruneLock) /\ SF_vars(QueryLock)

FairSpec == Spec /\ Fairness

-----------------------------------------------------------------------------
(* Properties.                                                              *)

AllLabels == {"recv", "lock", "dump", "hook", "stamp", "fill", "unlock",
              "sleep", "walk", "send", "nap"}

Labels(t) ==
  CASE t = "post"  -> {"recv", "lock", "dump", "hook", "stamp", "fill", "unlock"}
    [] t = "prune" -> {"sleep", "lock", "dump", "walk"}
    [] t = "query" -> {"recv", "lock", "walk", "send", "nap"}

RetRow == [id : Ids, subId : SubIds, ref : Nat, sums : Vals, count : Nat]

\* Type correctness of the process state.  The values of a reply are left
\* open: they are sums over lists of any length.
TypeOK ==
  /\ clock \in Nat \ {0} /\ wentBack \in BOOLEAN
  /\ postSock \in Seq(Datagrams) /\ querySock \in Seq(Queries)
  /\ posted \in Nat /\ asked \in Nat /\ MsgNum \in Nat
  /\ dbActive \in {"OFF", "GREEN", "BLUE"}
  /\ idList \in [Sensors -> Seq(Ids)]
  /\ subIdList \in [Sensors \X Ids -> Seq(SubIds)]
  /\ data \in [Keys -> Seq(Record)]
  /\ mainListLock \in Threads \cup {"free"}
  /\ pc \in [Threads -> AllLabels]
  /\ \A t \in Threads : pc[t] \in Labels(t)
  /\ add \in Adds \cup {NoAdd}
  /\ pc["post"] # "recv" => add \in Adds
  /\ now \in Nat
  /\ pruneTodo \subseteq Keys
  /\ query \in Queries \cup {NoQuery}
  /\ queryTodo \subseteq Keys
  /\ ret \in Seq(RetRow)

\* The code between LOCK_SENSOR_LIST and UNLOCK_SENSOR_LIST of each thread.
Critical(t) ==
  CASE t = "post"  -> {"dump", "hook", "stamp", "fill", "unlock"}
    [] t = "prune" -> {"dump", "walk"}
    [] t = "query" -> {"walk"}

\* Exactly the thread that holds mainListLock is between its LOCK and UNLOCK:
\* no two threads touch the lists together and no path keeps the mutex.
MutualExclusion ==
  \A t \in Threads : pc[t] \in Critical(t) <=> mainListLock = t

Building(k, i) == pc["post"] \in {"stamp", "fill"} /\ k = KeyOf(add) /\ i = 1

\* newSensorRecord links a record before it sets its time and values.  No
\* walk of the prune or the query thread can meet it in that condition.
WalkersSeeWholeRecords ==
  \/ pc["prune"] # "walk" /\ pc["query"] # "walk"
  \/ \A k \in Keys : \A i \in DOMAIN data[k] :
        /\ ~Building(k, i)
        /\ data[k][i].time > 0

\* The value pointers processQuery collects are dereferenced when the reply is
\* formatted: until then no record they point into is freed.
RowsAlive ==
  pc["query"] = "walk" /\ query.type # "V" =>
    \A n \in DOMAIN ret :
      \E i \in DOMAIN data[<<query.sensor, ret[n].id, ret[n].subId>>] :
        data[<<query.sensor, ret[n].id, ret[n].subId>>][i].serial = ret[n].ref

\* The answer to a query fits the Ret arrays.  (Rows beyond them overwrite other
\* variables; the model goes on as if the arrays were longer.)
RowsFit == Len(ret) <= MAX_QUERY_RET_VALS

\* Every list is ordered newest first, by arrival and, unless the clock was set
\* back, by time stamp, which is what "latest", "earliest" and the cut of
\* sensorRecPruneAll rely on.
NewestFirst ==
  \A k \in Keys : \A i, j \in DOMAIN data[k] :
    i < j => /\ data[k][i].serial > data[k][j].serial
             /\ ~wentBack /\ ~Building(k, i) => data[k][i].time >= data[k][j].time

\* The search of sensorRecAdd never makes a second header for a name, and no
\* record hangs where a walk of the headers does not reach it.
HeadersConsistent ==
  /\ \A s \in Sensors : IsInjective(idList[s])
  /\ \A h \in Sensors \X Ids :
       /\ IsInjective(subIdList[h])
       /\ subIdList[h] # <<>> => Contains(idList[h[1]], h[2])
  /\ \A k \in Keys : data[k] # <<>> => Listed(k)

\* A step takes nothing out of a list but a tail of it, all of it older than its
\* time to live at this moment.
FreesExpired ==
  \A k \in Keys :
    Len(data'[k]) < Len(data[k]) =>
      /\ IsPrefix(data'[k], data[k])
      /\ \A i \in (Len(data'[k]) + 1)..Len(data[k]) :
           Expired(data[k][i], clock, Ttl[k[1]])

\* Pruning gets rid of records that are too old and of no others.
OnlyExpiredFreed == [][FreesExpired]_vars

\* The same as long as the clock has never been set back.
ForwardOnlyExpiredFreed == [][~wentBack => FreesExpired]_vars

\* When sensorRecPruneAll returns, nothing it could reach is older than its
\* time to live at the time stamp it started with.
PruneThorough ==
  [][pc["prune"] = "walk" /\ pc'["prune"] = "sleep" =>
       \A k \in Keys : \A i \in DOMAIN data[k] :
         ~Expired(data[k][i], now, Ttl[k[1]])]_vars

\* Id and subId headers are never unlinked, renamed or reordered: the walk
\* order of a query's answer only ever grows at the front.
HeadersStay ==
  [][/\ \A s \in Sensors : IsSuffix(idList[s], idList'[s])
     /\ \A h \in Sensors \X Ids : IsSuffix(subIdList[h], subIdList'[h])]_vars

\* The datagrams in the post socket that are not empty.
Waiting == {i \in DOMAIN postSock : postSock[i] # Empty}

\* Every datagram that reaches the post socket is counted once, when it has been
\* stored or dropped, unless it is empty; however many empty ones come between,
\* MsgNum counts none of them.  No query gets two replies or one without being
\* asked.
EachOnce ==
  /\ MsgNum + Cardinality(Waiting) + (IF pc["post"] = "recv" THEN 0 ELSE 1) = posted
  /\ Len(replies) + Len(querySock)
       + (IF pc["query"] \in {"lock", "walk", "send"} THEN 1 ELSE 0) <= asked

\* The mutex is never held for ever.
MutexReleased == mainListLock # "free" ~> mainListLock = "free"

\* Every datagram that reaches the post socket is processed, however many empty
\* ones, which MsgNum does not count, come before it and after it.
PostsProcessed ==
  \A n \in 1..MaxPosts : posted >= n ~> MsgNum >= n

\* Well-formed queries that have reached the query socket, answered or not.
Reached ==
  Len(replies) + Len(SelectSeq(querySock, WellFormed))
    + IF pc["query"] \in {"lock", "walk", "send"} THEN 1 ELSE 0

\* Every well-formed query that reaches the query socket gets its reply, also
\* when nothing matches it, and one that cannot be parsed holds up no other.
QueriesAnswered ==
  \A n \in 1..MaxQueries : Reached >= n ~> Len(replies) >= n

Holds(k, n) == \E i \in DOMAIN data[k] : data[k][i].serial = n

\* A record that outlives its time to live is freed sooner or later.
ExpiredFreed ==
  \A k \in {KeyOf(a) : a \in Adds} : \A n \in 0..(MaxPosts - 1) :
    (\E i \in DOMAIN data[k] : /\ data[k][i].serial = n /\ ~Building(k, i)
                              /\ Expired(data[k][i], clock, Ttl[k[1]]))
      ~> ~Holds(k, n)

=============================================================================
