---------------------------- MODULE ReadingCache ----------------------------
(***************************************************************************)
(* What the sensor database promises to those who ask it: each query is    *)
(* answered from the store as it is at one instant.                        *)
(***************************************************************************)
EXTENDS ReadingStore

CONSTANTS
  Questions, \* queries that may be answered
  Asks(_, _),   \* Asks(q, k): query q is about key k
  Picks(_, _)   \* Picks(q, values): the values q reports of a key that holds
                \* these values, newest first

VARIABLE answers  \* answers given so far

CacheInit == StoreInit /\ answers = <<>>

Values(k) == [i \in 1..Len(recs[k]) |-> recs[k][i].raw]

Answer(q) ==
  [k \in {k \in Keys : Asks(q, k) /\ recs[k] # <<>>} |-> Picks(q, Values(k))]

Reply(q) ==
  /\ answers' = Append(answers, [tag |-> q.tag, rows |-> Answer(q)])
  /\ UNCHANGED storeVars

CacheNext ==
  \/ StoreNext /\ UNCHANGED answers
  \/ \E q \in Questions : Reply(q)

CacheSpec == CacheInit /\ [][CacheNext]_<<storeVars, answers>>

=============================================================================
