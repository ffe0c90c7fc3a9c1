------------------------------ MODULE LampWatch ------------------------------
(***************************************************************************)
(* What the status display promises, without messages, buffers, a clock    *)
(* that wraps or a loop that looks at one LED at a time: a lamp shows what  *)
(* was last reported of it, and goes red exactly when nothing has been     *)
(* reported for longer than the limit, before the next second is over.     *)
(***************************************************************************)
EXTENDS Integers

CONSTANTS
  Lamps,
  Reportable, \* Reportable[l]: the colours that may be reported of lamp l
  Off, Red,   \* two colours
  Limits,     \* limits that may be set
  FirstLimit,
  Never       \* seconds are counted up to here

VARIABLES
  on,     \* whether the display runs
  lamp,   \* colour of each lamp
  silent, \* seconds since the last report of each lamp, or Never
  limit   \* seconds a lamp may be silent

watch == <<on, lamp, silent, limit>>

Dark ==
  /\ on = FALSE
  /\ lamp = [l \in Lamps |-> Off]
  /\ silent = [l \in Lamps |-> Never]
  /\ limit = FirstLimit

\* The board is reset.
Restart == Dark'

Begin ==
  /\ ~on /\ on'
  /\ lamp' = [l \in Lamps |-> Red]
  /\ UNCHANGED <<silent, limit>>

Report(l, color) ==
  /\ on
  /\ lamp' = [lamp EXCEPT ![l] = color]
  /\ silent' = [silent EXCEPT ![l] = 0]
  /\ UNCHANGED <<on, limit>>

SetLimit(t) ==
  /\ on
  /\ limit' = t
  /\ UNCHANGED <<on, lamp, silent>>

Expire(l) ==
  /\ on /\ silent[l] > limit
  /\ lamp' = [lamp EXCEPT ![l] = Red]
  /\ UNCHANGED <<on, silent, limit>>

\* No second passes before every lamp that has been silent for too long is red.
Second ==
  /\ on
  /\ \A l \in Lamps : silent[l] > limit => lamp[l] = Red
  /\ silent' = [l \in Lamps |-> IF silent[l] < Never THEN silent[l] + 1 ELSE Never]
  /\ UNCHANGED <<on, lamp, limit>>

WatchNext ==
  \/ Restart \/ Begin \/ Second
  \/ \E l \in Lamps : Expire(l) \/ \E color \in Reportable[l] : Report(l, color)
  \/ \E t \in Limits : SetLimit(t)

WatchSpec == Dark /\ [][WatchNext]_watch

=============================================================================
