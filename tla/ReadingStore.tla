---------------------------- MODULE ReadingStore ----------------------------
(***************************************************************************)
(* What the sensor database promises of its store, without threads, locks  *)
(* or lists of headers: it remembers the readings of every key for their   *)
(* time to live, takes each reading as a whole, and forgets exactly what   *)
(* is too old.                                                             *)
(***************************************************************************)
EXTENDS Integers, Sequences

CONSTANTS
  Keys,      \* <<sensor, id, subId>>
  Readings,  \* <<key, values>> that may be stored
  Lifetime   \* time to live of each key

VARIABLES
  time,  \* the current time
  recs   \* readings of each key with the time they were stored, newest first

storeVars == <<time, recs>>

StoreInit ==
  /\ time = 1
  /\ recs = [k \in Keys |-> <<>>]

Advance ==
  /\ time' = time + 1
  /\ UNCHANGED recs

Store(k, raw) ==
  /\ recs' = [recs EXCEPT ![k] = <<[time |-> time, raw |-> raw]>> \o @]
  /\ UNCHANGED time

\* At some moment t, now or earlier, exactly the readings after the nth of key
\* k were too old; they go.
Forget(k, t) ==
  /\ \E n \in 0..Len(recs[k]) :
       /\ \A i \in 1..Len(recs[k]) :
            i > n <=> t - recs[k][i].time > Lifetime[k]
       /\ recs' = [recs EXCEPT ![k] = SubSeq(@, 1, n)]
  /\ UNCHANGED time

StoreNext ==
  \/ Advance
  \/ \E r \in Readings : Store(r[1], r[2])
  \/ \E k \in Keys : \E t \in 0..time : Forget(k, t)

StoreSpec == StoreInit /\ [][StoreNext]_storeVars

=============================================================================
