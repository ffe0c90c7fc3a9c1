-------------------------------- MODULE Rangers --------------------------------
(***************************************************************************)
(* The firmware of the range finders (HC-SR04, MB10xx, LIDAR-Lite) and of   *)
(* the obstacle sensor (FC-51): one loop that reads the id and offset       *)
(* switches pin by pin, measures, prints a line and flips the heartbeat     *)
(* LED.  The switches may be moved at any moment, also between two pins of  *)
(* one pass, and the target is wherever it is.                              *)
(*                                                                         *)
(* One board runs in a behaviour: kind says which.  int has 16 bits.        *)
(***************************************************************************)
EXTENDS Integers

CONSTANTS
  Kinds,    \* the boards of this instance
  Switches, \* the pins whose switches somebody moves
  Targets,  \* Targets[k]: distances, in cm, at which a range finder has a target
  NoEcho    \* NoEcho[k]: widths of pulseIn, in us, when nothing answers

AllKinds == {"hc-sr04", "mb10xx", "lidar", "fc-51"}

\* The pins in the order in which they are read: the three bits of the id,
\* then, on a range finder, the five bits of the offset.
IdPins == 1..3
OffsetPins == 4..8
Pins == 1..8

ASSUME KindsAssumption == Kinds \subseteq AllKinds
ASSUME SwitchesAssumption == Switches \subseteq Pins
ASSUME TargetsAssumption ==
  /\ Targets \in [Kinds -> SUBSET Nat]
  /\ NoEcho \in [Kinds -> SUBSET Nat]

VARIABLES
  kind,        \* the board
  low,         \* the pins a switch pulls to LOW: the bits that are 1
  pc,          \* "pins" while switches are read, "measure", "print", "delay"
  next,        \* the pin to read next
  bits,        \* pins read as 1: the variables id and offset
  duration,    \* what pulseIn returned, in 16 bits; of the FC-51, its output
  line,        \* the line printed in this pass, or NoLine
  activeState, \* the heartbeat LED
  activeCount, \* FC-51: lines until the LED is flipped
  target,      \* history: the target that was measured in this pass, or NoTarget
  lowAtStart,  \* history: low when this pass of the loop began
  moved        \* history: switches moved in this pass before they were all read

history == <<target, lowAtStart, moved>>
vars == <<kind, low, pc, next, bits, duration, line, activeState, activeCount,
          history>>

NoTarget == -1
NoLine   == [lead |-> "none"]

ACTIVE_COUNT == 25

INT_LIMIT == 32768

LastPin == IF kind = "fc-51" THEN 3 ELSE 8

-----------------------------------------------------------------------------
(* Arithmetic.                                                              *)

\* (The operators named ...Faulty are variants with a plausible bug.  No
\* specification uses them; they show which property notices the bug.)
Int16Faulty(x) == x % (2 * INT_LIMIT)

\* What is left of x in an int of 16 bits.
Int16(x) == ((x + INT_LIMIT) % (2 * INT_LIMIT)) - INT_LIMIT

\* Conversion to int cuts towards zero: n / d for d > 0.
Cut(n, d) == IF n >= 0 THEN n \div d ELSE -((-n) \div d)

Bit(pin, weight) == IF pin \in bits THEN weight ELSE 0

Id     == Bit(1, 1) + Bit(2, 2) + Bit(3, 4)
Offset == Bit(4, 1) + Bit(5, 2) + Bit(6, 4) + Bit(7, 8) + Bit(8, 16)

\* The lidar subtracts before it divides.
DistanceCmFaulty(k, us, offset) ==
  CASE k = "hc-sr04" -> Cut(17 * us - 1000 * offset, 1000)
    [] k = "mb10xx"  -> Cut(172 * us - 10000 * offset, 10000)
    [] k = "lidar"   -> Cut(us - offset, 10)

\* 0.034 / 2 and 0.0172 cm per us in floating point, whose difference with
\* the offset is cut to an int; an integer division by 10 on the lidar.
DistanceCm(k, us, offset) ==
  CASE k = "hc-sr04" -> Cut(17 * us - 1000 * offset, 1000)
    [] k = "mb10xx"  -> Cut(172 * us - 10000 * offset, 10000)
    [] k = "lidar"   -> Cut(us, 10) - offset

\* The sensors.  A target at d cm makes a pulse of d * PulseNum / PulseDen us,
\* of which pulseIn counts whole ones: sound at 0.034 cm per us there and back,
\* 147 us per inch of 2.54 cm, 10 us per cm.
PulseNum(k) == CASE k = "hc-sr04" -> 1000 [] k = "mb10xx" -> 14700 [] k = "lidar" -> 10
PulseDen(k) == CASE k = "hc-sr04" -> 17   [] k = "mb10xx" -> 254   [] k = "lidar" -> 1

Pulse(k, d) == (d * PulseNum(k)) \div PulseDen(k)

-----------------------------------------------------------------------------
Init ==
  /\ kind \in Kinds
  /\ low \in SUBSET Switches
  /\ pc = "pins" /\ next = 1
  /\ bits = {}
  /\ duration = 0
  /\ line = NoLine
  /\ activeState = 0
  /\ activeCount = ACTIVE_COUNT
  /\ target = NoTarget /\ lowAtStart = low /\ moved = {}

\* Somebody moves a switch.
Move(pin) ==
  /\ low' = IF pin \in low THEN low \ {pin} ELSE low \cup {pin}
  /\ moved' = IF pc = "pins" THEN moved \cup {pin} ELSE moved
  /\ UNCHANGED <<kind, pc, next, bits, duration, line, activeState, activeCount,
                 target, lowAtStart>>

\* One digitalRead and the assignment that depends on it.
ReadPin ==
  /\ pc = "pins"
  /\ bits' = IF next \in low THEN bits \cup {next} ELSE bits
  /\ next' = next + 1
  /\ pc' = IF next = LastPin THEN "measure" ELSE "pins"
  /\ UNCHANGED <<kind, low, duration, line, activeState, activeCount, history>>

\* pulseIn's unsigned long is stored in an int.
Range ==
  /\ pc = "measure" /\ kind # "fc-51"
  /\ \/ \E d \in Targets[kind] :
          target' = d /\ duration' = Int16(Pulse(kind, d))
     \/ \E us \in NoEcho[kind] : target' = NoTarget /\ duration' = Int16(us)
  /\ pc' = "print"
  /\ UNCHANGED <<kind, low, next, bits, line, activeState, activeCount,
                 lowAtStart, moved>>

\* The FC-51's output is low when there is an obstacle.
Sense ==
  /\ pc = "measure" /\ kind = "fc-51"
  /\ duration' \in 0..1
  /\ pc' = "print"
  /\ UNCHANGED <<kind, low, next, bits, line, activeState, activeCount, history>>

Flip == activeState' = 1 - activeState

HeartbeatFaulty ==
  IF kind # "fc-51" THEN Flip /\ UNCHANGED activeCount
  ELSE IF activeCount > 0 THEN UNCHANGED <<activeState, activeCount>>
  ELSE Flip /\ activeCount' = ACTIVE_COUNT

\* A range finder flips its LED with every line, the FC-51 with one of 26.
Heartbeat ==
  IF kind # "fc-51" THEN Flip /\ UNCHANGED activeCount
  ELSE IF activeCount > 0 THEN activeCount' = activeCount - 1 /\ UNCHANGED activeState
  ELSE Flip /\ activeCount' = ACTIVE_COUNT

PrintLine ==
  /\ pc = "print"
  /\ line' = [lead |-> IF kind = "fc-51" THEN "B" ELSE "R",
              id |-> Id,
              value |-> IF kind = "fc-51" THEN duration
                        ELSE DistanceCm(kind, duration, Offset)]
  /\ Heartbeat
  /\ pc' = "delay"
  /\ UNCHANGED <<kind, low, next, bits, duration, history>>

\* id and offset keep the bits of the pass before.
StartPassFaulty ==
  /\ pc = "delay"
  /\ next' = 1 /\ pc' = "pins"
  /\ duration' = 0 /\ line' = NoLine
  /\ target' = NoTarget /\ lowAtStart' = low /\ moved' = {}
  /\ UNCHANGED <<kind, low, bits, activeState, activeCount>>

\* Back to the top of the loop, with new local variables: id = 0, offset = 0.
StartPass ==
  /\ pc = "delay"
  /\ bits' = {} /\ next' = 1 /\ pc' = "pins"
  /\ duration' = 0 /\ line' = NoLine
  /\ target' = NoTarget /\ lowAtStart' = low /\ moved' = {}
  /\ UNCHANGED <<kind, low, activeState, activeCount>>

Loop == ReadPin \/ Range \/ Sense \/ PrintLine \/ StartPass

Next == Loop \/ \E pin \in Switches : Move(pin)

Spec == Init /\ [][Next]_vars

\* The loop runs for ever: pulseIn gives up after a second.
FairSpec == Spec /\ WF_vars(Loop)

-----------------------------------------------------------------------------
(* Properties.                                                              *)

\* Type correctness: 16 bit values, pins that the board has.
TypeOK ==
  /\ kind \in Kinds
  /\ low \subseteq Switches /\ lowAtStart \subseteq Switches /\ moved \subseteq Switches
  /\ pc \in {"pins", "measure", "print", "delay"}
  /\ next \in 1..(LastPin + 1) /\ (pc = "pins" <=> next <= LastPin)
  /\ bits \subseteq 1..LastPin
  /\ duration \in -INT_LIMIT..(INT_LIMIT - 1)
  /\ activeState \in 0..1 /\ activeCount \in 0..ACTIVE_COUNT
  /\ target \in Nat \cup {NoTarget}

\* The id and the offset of a line differ from what the switches showed when
\* the pass began in switches moved during that pass and in no others: a pass
\* keeps nothing of the one before, and one switch moved while the pins are
\* read gives the setting before or the one after.
SetAsShown ==
  pc \in {"measure", "print"} =>
    \A p \in 1..LastPin : (p \in bits) # (p \in lowAtStart) => p \in moved

\* The distance printed is that of the target from the edge of the robot, the
\* offset being what the sensor lies inside it, within a centimetre and one
\* per cent (0.0172 for 2.54 / 147 is half of that).
DistanceTrue ==
  pc = "delay" /\ target # NoTarget =>
    LET error == line.value - (target - Offset)
    IN 100 * error \in -(100 + target)..(100 + target)

\* The heartbeat LED of a board that runs goes on blinking.
Blinks == []<>(activeState = 0) /\ []<>(activeState = 1)

=============================================================================
