-------------------------------- MODULE TimeVal --------------------------------
(***************************************************************************)
(* Times of gettimeofday, seconds and microseconds, and the comparison with *)
(* which sensorRecPruneAll decides that a record is too old.  SensorDb      *)
(* counts time in ticks of one number; ExpiryExact says that nothing is     *)
(* lost by it.                                                             *)
(***************************************************************************)
EXTENDS Integers, TLAPS

USEC == 1000000

timeval == [tv_sec : Int, tv_usec : 0..(USEC - 1)]

\* The macro of sys/time.h: it borrows a second when the microseconds are negative.
timersub(a, b) ==
  LET borrow == IF a.tv_usec < b.tv_usec THEN 1 ELSE 0
  IN [tv_sec  |-> (a.tv_sec - b.tv_sec) - borrow,
      tv_usec |-> (a.tv_usec - b.tv_usec) + borrow * USEC]

\* The condition of the cut.
TooOld(now, time, ttl) ==
  LET timeDiff == timersub(now, time)
  IN \/ timeDiff.tv_sec > ttl.tv_sec
     \/ timeDiff.tv_sec = ttl.tv_sec /\ timeDiff.tv_usec > ttl.tv_usec

\* A time as one number.
Usecs(t) == t.tv_sec * USEC + t.tv_usec

-----------------------------------------------------------------------------
\* Borrowing keeps the number that two digits of base n stand for.
LEMMA Borrow ==
  ASSUME NEW n \in Nat, NEW s1 \in Int, NEW s2 \in Int,
         NEW u1 \in 0..(n - 1), NEW u2 \in 0..(n - 1)
  PROVE  /\ (s1 - s2) * n + (u1 - u2) = (s1 * n + u1) - (s2 * n + u2)
         /\ ((s1 - s2) - 1) * n + ((u1 - u2) + n) = (s1 * n + u1) - (s2 * n + u2)
         /\ u1 < u2 => (u1 - u2) + n \in 0..(n - 1)
         /\ u1 >= u2 => u1 - u2 \in 0..(n - 1)
BY SMT

\* Numbers of two digits are compared digit by digit.
LEMMA Lexicographic ==
  ASSUME NEW n \in Nat, NEW s1 \in Int, NEW s2 \in Int,
         NEW u1 \in 0..(n - 1), NEW u2 \in 0..(n - 1)
  PROVE  s1 > s2 \/ (s1 = s2 /\ u1 > u2) <=> s1 * n + u1 > s2 * n + u2
<1>1. CASE s1 > s2
  <2>1. s1 - s2 \in Nat /\ s1 - s2 >= 1
    BY <1>1, SMT
  <2>2. (s1 - s2) * n >= n
    BY <2>1, SMT
  <2> QED BY <2>2, <1>1, SMT
<1>2. CASE s1 = s2
  BY <1>2, SMT
<1>3. CASE s1 < s2
  <2>1. s2 - s1 \in Nat /\ s2 - s1 >= 1
    BY <1>3, SMT
  <2>2. (s2 - s1) * n >= n
    BY <2>1, SMT
  <2> QED BY <2>2, <1>3, SMT
<1> QED BY <1>1, <1>2, <1>3, SMT

LEMMA UsecNat == USEC \in Nat
BY DEF USEC

\* A difference is again a time, also when it is negative because the clock was
\* set back, and it is the difference of the two numbers.
LEMMA SubExact ==
  ASSUME NEW a \in timeval, NEW b \in timeval
  PROVE  /\ timersub(a, b) \in timeval
         /\ Usecs(timersub(a, b)) = Usecs(a) - Usecs(b)
<1>1. /\ a.tv_sec \in Int /\ a.tv_usec \in 0..(USEC - 1)
      /\ b.tv_sec \in Int /\ b.tv_usec \in 0..(USEC - 1)
  BY SMT DEF timeval
<1>2. CASE a.tv_usec < b.tv_usec
  <2>1. timersub(a, b) = [tv_sec  |-> (a.tv_sec - b.tv_sec) - 1,
                          tv_usec |-> (a.tv_usec - b.tv_usec) + USEC]
    BY <1>1, <1>2, UsecNat, SMT DEF timersub
  <2>2. (a.tv_usec - b.tv_usec) + USEC \in 0..(USEC - 1)
    BY <1>1, <1>2, UsecNat, Borrow
  <2> QED BY <1>1, <2>1, <2>2, UsecNat, Borrow DEF timeval, Usecs
<1>3. CASE a.tv_usec >= b.tv_usec
  <2>1. timersub(a, b) = [tv_sec  |-> a.tv_sec - b.tv_sec,
                          tv_usec |-> a.tv_usec - b.tv_usec]
    BY <1>1, <1>3, UsecNat, SMT DEF timersub
  <2>2. a.tv_usec - b.tv_usec \in 0..(USEC - 1)
    BY <1>1, <1>3, UsecNat, Borrow
  <2> QED BY <1>1, <2>1, <2>2, UsecNat, Borrow DEF timeval, Usecs
<1> QED BY <1>1, <1>2, <1>3, UsecNat, SMT

\* sensorRecPruneAll's comparison of seconds first and microseconds second finds
\* a record too old exactly when its age in microseconds is above the time to
\* live, at every boundary of a second and for ages that are negative.
THEOREM ExpiryExact ==
  ASSUME NEW now \in timeval, NEW time \in timeval, NEW ttl \in timeval
  PROVE  TooOld(now, time, ttl) <=> Usecs(now) - Usecs(time) > Usecs(ttl)
<1>1. PICK d \in timeval : d = timersub(now, time) /\ Usecs(d) = Usecs(now) - Usecs(time)
  BY SubExact
<1>2. /\ d.tv_sec \in Int /\ d.tv_usec \in 0..(USEC - 1)
      /\ ttl.tv_sec \in Int /\ ttl.tv_usec \in 0..(USEC - 1)
  BY SMT DEF timeval
<1>3. TooOld(now, time, ttl)
        <=> \/ d.tv_sec > ttl.tv_sec
            \/ d.tv_sec = ttl.tv_sec /\ d.tv_usec > ttl.tv_usec
  BY <1>1 DEF TooOld
<1>4. TooOld(now, time, ttl) <=> Usecs(d) > Usecs(ttl)
  BY <1>2, <1>3, UsecNat, Lexicographic DEF Usecs
<1> QED BY <1>1, <1>4

=============================================================================
