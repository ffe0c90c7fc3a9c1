---------------------------- MODULE Rangers_proofs ----------------------------
(* Proofs about Rangers, for every set of targets, every sequence of moves   *)
(* of the switches and every board.                                          *)
EXTENDS Rangers, TLAPS

\* A number that fits 15 bits is what the int holds of it, and an int never
\* holds more than its bits.
LEMMA HalfMod ==
  ASSUME NEW h \in Nat \ {0}, NEW x \in Int
  PROVE  /\ ((x + h) % (2 * h)) - h \in -h..(h - 1)
         /\ x \in 0..(h - 1) => ((x + h) % (2 * h)) - h = x
OBVIOUS

LEMMA LimitType == INT_LIMIT \in Nat \ {0, 1}
BY DEF INT_LIMIT

LEMMA SmallInt16 ==
  ASSUME NEW x \in 0..(INT_LIMIT - 1)
  PROVE  Int16(x) = x
BY LimitType, HalfMod DEF Int16

LEMMA Int16Type ==
  ASSUME NEW x \in Int
  PROVE  Int16(x) \in -INT_LIMIT..(INT_LIMIT - 1)
BY LimitType, HalfMod DEF Int16

LEMMA PulseType ==
  ASSUME NEW k \in AllKinds \ {"fc-51"}, NEW d \in Nat
  PROVE  Pulse(k, d) \in Nat
<1>1. CASE k = "hc-sr04"
  BY <1>1 DEF Pulse, PulseNum, PulseDen
<1>2. CASE k = "mb10xx"
  BY <1>2 DEF Pulse, PulseNum, PulseDen
<1>3. CASE k = "lidar"
  BY <1>3 DEF Pulse, PulseNum, PulseDen
<1> QED BY <1>1, <1>2, <1>3 DEF AllKinds

\* An offset is a number of five bits.
LEMMA OffsetType == Offset \in 0..31
BY DEF Offset, Bit

-----------------------------------------------------------------------------
(* Type correctness.                                                        *)

THEOREM TypeCorrect == Spec => []TypeOK
<1> USE KindsAssumption, SwitchesAssumption, TargetsAssumption, LimitType
<1>1. Init => TypeOK
  BY DEF Init, TypeOK, LastPin, NoTarget, ACTIVE_COUNT, AllKinds
<1>2. TypeOK /\ [Next]_vars => TypeOK'
  <2> SUFFICES ASSUME TypeOK, [Next]_vars PROVE TypeOK'
    OBVIOUS
  <2> USE DEF TypeOK, LastPin
  <2>1. ASSUME NEW pin \in Switches, Move(pin) PROVE TypeOK'
    BY <2>1 DEF Move
  <2>2. CASE ReadPin
    BY <2>2 DEF ReadPin, history
  <2>3. CASE Range
    <3>1. kind \in AllKinds \ {"fc-51"}
      BY <2>3 DEF Range
    <3>2. target' \in Nat \cup {NoTarget} /\ duration' \in -INT_LIMIT..(INT_LIMIT - 1)
      <4>1. CASE \E d \in Targets[kind] :
                   target' = d /\ duration' = Int16(Pulse(kind, d))
        <5>1. PICK d \in Targets[kind] :
                target' = d /\ duration' = Int16(Pulse(kind, d))
          BY <4>1
        <5>2. d \in Nat
          BY <5>1
        <5> QED BY <3>1, <5>1, <5>2, PulseType, Int16Type
      <4>2. CASE \E us \in NoEcho[kind] : target' = NoTarget /\ duration' = Int16(us)
        <5>1. PICK us \in NoEcho[kind] : target' = NoTarget /\ duration' = Int16(us)
          BY <4>2
        <5>2. us \in Int
          BY <5>1
        <5> QED BY <5>1, <5>2, Int16Type
      <4> QED BY <2>3, <4>1, <4>2 DEF Range
    <3> QED BY <2>3, <3>2 DEF Range
  <2>4. CASE Sense
    BY <2>4 DEF Sense, history
  <2>5. CASE PrintLine
    BY <2>5 DEF PrintLine, Heartbeat, Flip, history, ACTIVE_COUNT
  <2>6. CASE StartPass
    BY <2>6 DEF StartPass
  <2>7. CASE UNCHANGED vars
    BY <2>7 DEF vars, history
  <2> QED BY <2>1, <2>2, <2>3, <2>4, <2>5, <2>6, <2>7 DEF Next, Loop
<1> QED BY <1>1, <1>2, PTL DEF Spec

-----------------------------------------------------------------------------
(* The switches.                                                            *)

\* Half way through the pins: a pin read so far is as it was at the start of
\* the pass or has moved, and a pin that is not as it was has moved.
Reading ==
  /\ \A p \in 1..LastPin :
       p < next => ((p \in bits) # (p \in lowAtStart) => p \in moved)
  /\ pc = "pins" =>
       /\ \A p \in Pins : (p \in low) # (p \in lowAtStart) => p \in moved
       /\ \A p \in bits : p < next

\* Whatever switches are moved and whenever, an id and an offset differ from
\* the setting at the start of the pass only in switches moved while they were
\* read.
THEOREM SettingsShown == Spec => []SetAsShown
<1>1. Init => Reading
  BY DEF Init, Reading, LastPin
<1>2. TypeOK /\ Reading /\ [Next]_vars => Reading'
  <2> SUFFICES ASSUME TypeOK, Reading, [Next]_vars PROVE Reading'
    OBVIOUS
  <2> USE DEF Reading, LastPin
  <2>1. ASSUME NEW pin \in Switches, Move(pin) PROVE Reading'
    <3>1. CASE pc = "pins"
      BY <2>1, <3>1 DEF Move
    <3>2. CASE pc # "pins"
      BY <2>1, <3>2 DEF Move
    <3> QED BY <3>1, <3>2
  <2>2. CASE ReadPin
    <3>1. /\ next \in 1..8 /\ next <= LastPin /\ bits \subseteq Pins
          /\ lowAtStart \subseteq Pins /\ LastPin \in {3, 8}
      BY <2>2, SwitchesAssumption DEF ReadPin, TypeOK, Pins
    <3>2. ASSUME NEW p \in 1..LastPin, p < next + 1, (p \in bits') # (p \in lowAtStart)
          PROVE  p \in moved
      BY <2>2, <3>1, <3>2 DEF ReadPin, Pins
    <3>3. \A p \in bits' : p < next + 1
      BY <2>2, <3>1 DEF ReadPin, Pins
    <3>4. UNCHANGED <<kind, low, moved, lowAtStart>> /\ next' = next + 1 /\ pc = "pins"
      BY <2>2 DEF ReadPin, history
    <3> QED BY <3>2, <3>3, <3>4
  <2>3. CASE Range
    BY <2>3 DEF Range
  <2>4. CASE Sense
    BY <2>4 DEF Sense, history
  <2>5. CASE PrintLine
    BY <2>5 DEF PrintLine, history
  <2>6. CASE StartPass
    BY <2>6 DEF StartPass
  <2>7. CASE UNCHANGED vars
    BY <2>7 DEF vars, history
  <2> QED BY <2>1, <2>2, <2>3, <2>4, <2>5, <2>6, <2>7 DEF Next, Loop
<1>3. TypeOK /\ Reading => SetAsShown
  <2> SUFFICES ASSUME TypeOK, Reading, pc \in {"measure", "print"},
                      NEW p \in 1..LastPin, (p \in bits) # (p \in lowAtStart)
               PROVE  p \in moved
    BY DEF SetAsShown
  <2>1. next > LastPin /\ LastPin \in {3, 8} /\ next \in Int
    BY DEF TypeOK, LastPin
  <2> QED BY <2>1 DEF Reading
<1> QED BY <1>1, <1>2, <1>3, TypeCorrect, PTL DEF Spec

-----------------------------------------------------------------------------
(* The distances.                                                           *)

\* Targets near enough that their pulses fit the 15 bits above the sign.
Near == \A k \in Kinds : \A d \in Targets[k] : k # "fc-51" => Pulse(k, d) < INT_LIMIT

\* What the firmware makes of the pulse of a target at d cm.
LEMMA DistanceError ==
  ASSUME NEW k \in AllKinds \ {"fc-51"}, NEW d \in Nat, NEW offset \in 0..31
  PROVE  LET error == DistanceCm(k, Pulse(k, d), offset) - (d - offset)
         IN 100 * error \in -(100 + d)..(100 + d)
<1>1. CASE k = "hc-sr04"
  <2> DEFINE us == (1000 * d) \div 17
             n == 17 * us - 1000 * offset
  <2>1. us \in Nat /\ 17 * us <= 1000 * d /\ 1000 * d < 17 * us + 17
    OBVIOUS
  <2>2. Pulse(k, d) = us
    BY <1>1 DEF Pulse, PulseNum, PulseDen
  <2> HIDE DEF us
  <2>3. n \in Int /\ Cut(n, 1000) \in Int
    BY <2>1 DEF Cut
  <2>4. 1000 * Cut(n, 1000) > n - 1000 /\ 1000 * Cut(n, 1000) < n + 1000
    <3> HIDE DEF n
    <3> QED BY <2>3 DEF Cut
  <2>5. DistanceCm(k, Pulse(k, d), offset) = Cut(n, 1000)
    BY <1>1, <2>2 DEF DistanceCm
  <2> DEFINE v == Cut(n, 1000)
  <2> HIDE DEF v
  <2>6. v \in Int /\ v - (d - offset) \in -1..0
    BY <2>1, <2>3, <2>4 DEF v
  <2> QED BY <2>5, <2>6 DEF v
<1>2. CASE k = "mb10xx"
  <2> DEFINE us == (14700 * d) \div 254
             n == 172 * us - 10000 * offset
  <2>1. us \in Nat /\ 254 * us <= 14700 * d /\ 14700 * d < 254 * us + 254
    OBVIOUS
  <2>2. Pulse(k, d) = us
    BY <1>2 DEF Pulse, PulseNum, PulseDen
  <2> HIDE DEF us
  <2>3. n \in Int /\ Cut(n, 10000) \in Int
    BY <2>1 DEF Cut
  <2>4. 10000 * Cut(n, 10000) > n - 10000 /\ 10000 * Cut(n, 10000) < n + 10000
    <3> HIDE DEF n
    <3> QED BY <2>3 DEF Cut
  <2>5. DistanceCm(k, Pulse(k, d), offset) = Cut(n, 10000)
    BY <1>2, <2>2 DEF DistanceCm
  <2> DEFINE v == Cut(n, 10000)
  <2> HIDE DEF v
  <2>6. v \in Int /\ 10000 * v > 172 * us - 10000 * offset - 10000
                  /\ 10000 * v < 172 * us - 10000 * offset + 10000
    BY <2>1, <2>3, <2>4 DEF v
  <2>7. 100 * (v - (d - offset)) \in -(100 + d)..(100 + d)
    BY <2>1, <2>6
  <2> QED BY <2>5, <2>7 DEF v
<1>3. CASE k = "lidar"
  <2>1. Pulse(k, d) = 10 * d
    BY <1>3 DEF Pulse, PulseNum, PulseDen
  <2>2. DistanceCm(k, Pulse(k, d), offset) = d - offset
    BY <1>3, <2>1 DEF DistanceCm, Cut
  <2> QED BY <2>2
<1> QED BY <1>1, <1>2, <1>3 DEF AllKinds

\* From the measurement on, duration is the pulse of the target and, once it is
\* printed, the line holds what the firmware makes of it.
Measured ==
  /\ target # NoTarget =>
       /\ kind # "fc-51" /\ target \in Targets[kind]
       /\ duration = Int16(Pulse(kind, target))
  /\ pc = "delay" /\ target # NoTarget =>
       line.value = DistanceCm(kind, duration, Offset)

\* With targets near enough, every line tells how far the target is from the
\* edge of the robot, whatever the offset switches say.
THEOREM DistancesTrue ==
  ASSUME Near
  PROVE  Spec => []DistanceTrue
<1>1. Init => Measured
  BY DEF Init, Measured, NoTarget
<1>2. TypeOK /\ Measured /\ [Next]_vars => Measured'
  <2> SUFFICES ASSUME TypeOK, Measured, [Next]_vars PROVE Measured'
    OBVIOUS
  <2> USE DEF Measured, Offset, Bit
  <2>1. ASSUME NEW pin \in Switches, Move(pin) PROVE Measured'
    BY <2>1 DEF Move
  <2>2. CASE ReadPin
    BY <2>2 DEF ReadPin, history
  <2>3. CASE Range
    BY <2>3, TargetsAssumption DEF Range
  <2>4. CASE Sense
    BY <2>4 DEF Sense, history
  <2>5. CASE PrintLine
    BY <2>5 DEF PrintLine, history
  <2>6. CASE StartPass
    BY <2>6 DEF StartPass
  <2>7. CASE UNCHANGED vars
    BY <2>7 DEF vars, history
  <2> QED BY <2>1, <2>2, <2>3, <2>4, <2>5, <2>6, <2>7 DEF Next, Loop
<1>3. TypeOK /\ Measured => DistanceTrue
  <2> SUFFICES ASSUME TypeOK, Measured, pc = "delay", target # NoTarget
               PROVE  LET error == line.value - (target - Offset)
                      IN 100 * error \in -(100 + target)..(100 + target)
    BY DEF DistanceTrue
  <2>1. kind \in AllKinds \ {"fc-51"} /\ target \in Nat
    BY KindsAssumption, TargetsAssumption DEF TypeOK, Measured
  <2>2. Pulse(kind, target) \in 0..(INT_LIMIT - 1)
    BY <2>1, PulseType, LimitType DEF Near, Measured, TypeOK
  <2>3. duration = Pulse(kind, target)
    BY <2>2, SmallInt16 DEF Measured
  <2>4. line.value = DistanceCm(kind, Pulse(kind, target), Offset)
    BY <2>3 DEF Measured
  <2> QED BY <2>1, <2>4, OffsetType, DistanceError
<1> QED BY <1>1, <1>2, <1>3, TypeCorrect, PTL DEF Spec

=============================================================================
