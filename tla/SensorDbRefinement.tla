------------------------- MODULE SensorDbRefinement -------------------------
(***************************************************************************)
(* The database process implements ReadingCache.  A reading is stored when *)
(* it gets its time stamp, forgotten when its list is cut, and a query is  *)
(* answered when its reply is formatted; everything else is a stutter.     *)
(***************************************************************************)
EXTENDS SensorDb

\* A record that is linked but not yet stamped does not count; one that is
\* stamped counts with the values it is about to get.
Hidden(k) == IF pc["post"] = "stamp" /\ k = KeyOf(add) THEN 1 ELSE 0

Seen(k, i) ==
  [time |-> data[k][i].time,
   raw  |-> IF Building(k, i) THEN RawData(add.sensor, add.v) ELSE data[k][i].raw]

Visible(k) ==
  [i \in 1..(Len(data[k]) - Hidden(k)) |-> Seen(k, i + Hidden(k))]

\* A reply's lines by key: those of a key stand together.
LinesAt(r, k) ==
  {n \in DOMAIN r.lines : <<r.sensor, r.lines[n].id, r.lines[n].subId>> = k}

RowsOf(r) ==
  [k \in {k \in Keys : LinesAt(r, k) # {}} |->
     LET from == Min(LinesAt(r, k))
         to   == Max(LinesAt(r, k))
     IN [i \in 1..(to - from + 1) |-> r.lines[from + i - 1].vals]]

Given ==
  LET sent == IF pc["query"] = "send" THEN Append(replies, retBuffer) ELSE replies
  IN [i \in 1..Len(sent) |-> [tag |-> sent[i].tag, rows |-> RowsOf(sent[i])]]

AsksFor(q, k) ==
  /\ q.type \in QueryTypes
  /\ k[1] = q.sensor /\ Matches(q.id, k[2]) /\ Matches(q.subId, k[3])

\* The mean of one component, cut towards zero.
MeanOf(values, c) ==
  LET sum == Sum(values, c)
  IN IF sum < 0 THEN -((-sum) \div Len(values)) ELSE sum \div Len(values)

PickedBy(q, values) ==
  CASE q.type = "L" -> <<values[1]>>
    [] q.type = "E" -> <<values[Len(values)]>>
    [] q.type = "A" -> values
    [] q.type = "V" -> <<<<MeanOf(values, 1), MeanOf(values, 2), MeanOf(values, 3), MeanOf(values, 4)>>>>

Stored == {<<KeyOf(a), RawData(a.sensor, a.v)>> : a \in Adds}
TtlOf == [k \in Keys |-> Ttl[k[1]]]
Shown == [k \in Keys |-> Visible(k)]

TheStore == INSTANCE ReadingStore WITH
  Readings <- Stored, Lifetime <- TtlOf, time <- clock, recs <- Shown

Cache == INSTANCE ReadingCache WITH
  Readings <- Stored, Lifetime <- TtlOf, time <- clock, recs <- Shown,
  Questions <- Queries, Asks <- AsksFor, Picks <- PickedBy, answers <- Given

\* Whatever the three threads do to each other, readings are stored and forgotten
\* atomically, each as a whole, and forgotten exactly when they are too old.
ImplementsStore == TheStore!StoreSpec

\* Whatever the three threads do to each other, what callers of the database
\* can observe is a cache that stores, forgets and answers atomically.
ImplementsCache == Cache!CacheSpec

=============================================================================
