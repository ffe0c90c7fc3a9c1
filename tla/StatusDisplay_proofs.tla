------------------------- MODULE StatusDisplay_proofs -------------------------
(* Proofs about StatusDisplay, for every wrap of the millisecond counter,    *)
(* every number of LEDs and every set of components.                         *)
EXTENDS StatusDisplay, SequenceTheorems, TLAPS

\* A remainder between 0 and the modulus is the number itself, below 0 it is
\* the number and the modulus.
LEMMA SmallMod ==
  ASSUME NEW w \in Nat, NEW x \in Int, -w <= x, x < w
  PROVE  x % w = IF x >= 0 THEN x ELSE x + w
OBVIOUS

-----------------------------------------------------------------------------
(* Type correctness.                                                        *)

\* Every message the server may get has bytes; a report makes a command.
LEMMA MessageType ==
  ASSUME NEW m \in Messages, Len(m) = 2
  PROVE  Command(m) \in Commands
<1>1. CASE m \in Others
  BY <1>1, OthersAssumption
<1>2. ASSUME NEW s \in Senders, NEW color \in ColorsOf[s], m = <<LedOf[s], color>>
      PROVE  Command(m) \in Commands
  <2>1. LedOf[s] \in {16 * n : n \in 0..14} /\ color \in 0..7
    BY <1>2, SendersAssumption DEF Palette
  <2>2. PICK n \in 0..14 : LedOf[s] = 16 * n
    BY <2>1
  <2>3. m[1] = 16 * n /\ m[2] = color
    BY <1>2, <2>2
  <2>4. m[1] + m[2] \in 0..231
    BY <2>1, <2>3
  <2> QED BY <2>4 DEF Command, Commands, Byte, SET_LED_TIMEOUT
<1> QED BY <1>1, <1>2 DEF Messages

\* A decoded colour is one the palette has or a stray one.
LEMMA DecodedType ==
  ASSUME NEW b \in Commands
  PROVE  Decoded(b) \subseteq Palette \cup {Stray}
BY DEF Decoded

LEMMA TypeInit == Init => TypeOK
<1> SUFFICES ASSUME Init PROVE TypeOK
  OBVIOUS
<1> USE DEF Init
<1>1. up \in [Senders -> BOOLEAN] /\ server \in {"up", "exited"}
  OBVIOUS
<1>2. /\ sock \in Seq(Messages) /\ Len(sock) <= SockCap
      /\ serial \in Seq(Commands) /\ Len(serial) <= SerialCap
  BY DisplayAssumption
<1>3. /\ pc \in {"setup", "read", "check"} /\ millis \in 0..(Wrap - 1)
      /\ timeout \in 0..MaxTimeout /\ timeoutOffset \in 0..NumLeds
  BY DisplayAssumption
<1>4. /\ leds \in [Leds -> Palette \cup {Stray}]
      /\ timestamps \in [Leds -> 0..(Wrap - 1)]
      /\ age \in [Leds -> 0..MaxAge] /\ scanned \subseteq Leds
  BY DisplayAssumption DEF Palette, OFF, MaxAge
<1> QED BY <1>1, <1>2, <1>3, <1>4 DEF TypeOK

LEMMA TypeNext == TypeOK /\ [Next]_vars => TypeOK'
<1> SUFFICES ASSUME TypeOK, [Next]_vars PROVE TypeOK'
  OBVIOUS
<1> USE DEF TypeOK, display
<1>1. ASSUME NEW m \in Messages, Deliver(m) PROVE TypeOK'
  <2>1. sock' \in Seq(Messages) /\ Len(sock') = Len(sock) + 1
    BY <1>1 DEF Deliver
  <2> QED BY <1>1, <2>1, DisplayAssumption DEF Deliver
<1>2. ASSUME NEW s \in Senders, Heartbeat(s) PROVE TypeOK'
  <2>1. PICK color \in ColorsOf[s] : Deliver(<<LedOf[s], color>>)
    BY <1>2 DEF Heartbeat, sendStatusUpdate
  <2>2. <<LedOf[s], color>> \in Messages
    BY DEF Messages
  <2> QED BY <1>1, <2>1, <2>2
<1>3. ASSUME NEW m \in Others, SendOther(m) PROVE TypeOK'
  BY <1>1, <1>3 DEF SendOther, Messages
<1>4. ASSUME NEW s \in Senders, StartStop(s) PROVE TypeOK'
  BY <1>4 DEF StartStop
<1>5. CASE ServerIgnore
  <2>1. sock' \in Seq(Messages) /\ Len(sock') = Len(sock) - 1
    BY <1>5 DEF ServerIgnore
  <2> QED BY <1>5, <2>1, DisplayAssumption DEF ServerIgnore
<1>6. CASE ServerForward
  <2>1. sock' \in Seq(Messages) /\ Len(sock') = Len(sock) - 1
    BY <1>6 DEF ServerForward
  <2>2. Command(Head(sock)) \in Commands
    BY <1>6, MessageType, HeadTailProperties DEF ServerForward
  <2>3. serial' \in Seq(Commands) /\ Len(serial') <= SerialCap
    <3> HIDE DEF TypeOK, display
    <3>1. serial \in Seq(Commands) /\ Len(serial) \in Nat /\ Len(serial) <= SerialCap
      BY DEF TypeOK
    <3>2. CASE /\ pc # "setup" /\ Len(serial) < SerialCap
               /\ serial' = Append(serial, Command(Head(sock)))
      <4>1. serial' \in Seq(Commands) /\ Len(serial') = Len(serial) + 1
        BY <2>2, <3>1, <3>2, AppendProperties
      <4> QED BY <3>1, <3>2, <4>1, DisplayAssumption
    <3>3. CASE UNCHANGED serial
      BY <3>1, <3>3
    <3> QED BY <1>6, <3>2, <3>3 DEF ServerForward
  <2> QED BY <1>6, <2>1, <2>3, DisplayAssumption DEF ServerForward
<1>7. CASE ServerFail
  BY <1>7, DisplayAssumption DEF ServerFail
<1>8. CASE ServerStart
  BY <1>8 DEF ServerStart
<1>9. CASE Reset
  BY <1>9, DisplayAssumption DEF Reset, Palette, OFF, MaxAge
<1>10. CASE SetupDone
  BY <1>10, DisplayAssumption DEF SetupDone, Palette, RED
<1>11. CASE LoopNoData
  BY <1>11 DEF LoopNoData
<1>12. CASE LoopTimeout
  <2>1. serial' \in Seq(Commands) /\ Len(serial') = Len(serial) - 1
    BY <1>12 DEF LoopTimeout
  <2>2. Head(serial) \in Commands
    BY <1>12, HeadTailProperties DEF LoopTimeout
  <2>3. timeout' \in 0..MaxTimeout
    <3> HIDE DEF TypeOK, display
    <3> DEFINE b == Head(serial)
    <3>1. b \in 0..255 /\ b >= 240 /\ timeout' = b % 16
      BY <1>12, <2>2 DEF LoopTimeout, Commands, Byte, SET_LED_TIMEOUT
    <3>2. b % 16 <= MaxTimeout
      BY <1>12, <2>2 DEF LoopTimeout, Commands
    <3>3. b % 16 \in 0..15
      <4> HIDE DEF b
      <4> QED BY <3>1
    <3> QED BY <3>1, <3>2, <3>3, DisplayAssumption
  <2> QED BY <1>12, <2>1, <2>3, DisplayAssumption DEF LoopTimeout
<1>13. CASE LoopLed
  <2> DEFINE b == Head(serial)
  <2>1. serial' \in Seq(Commands) /\ Len(serial') = Len(serial) - 1
    BY <1>13 DEF LoopLed
  <2>2. b \in Commands
    BY <1>13, HeadTailProperties DEF LoopLed
  <2>3. /\ leds' \in [Leds -> Palette \cup {Stray}]
        /\ timestamps' \in [Leds -> 0..(Wrap - 1)]
        /\ age' \in [Leds -> 0..MaxAge]
    <3> DEFINE l == LedOffset(b)
    <3>1. /\ leds \in [Leds -> Palette \cup {Stray}]
          /\ timestamps \in [Leds -> 0..(Wrap - 1)] /\ millis \in 0..(Wrap - 1)
          /\ age \in [Leds -> 0..MaxAge] /\ 0 \in 0..MaxAge
      BY DisplayAssumption DEF MaxAge
    <3> HIDE DEF TypeOK, display, b
    <3>2. Decoded(b) \subseteq Palette \cup {Stray}
      BY <2>2, DecodedType
    <3> HIDE DEF l
    <3>3. CASE /\ l \in Leds
               /\ \E color \in Decoded(b) : leds' = [leds EXCEPT ![l] = color]
               /\ timestamps' = [timestamps EXCEPT ![l] = millis]
               /\ age' = [age EXCEPT ![l] = 0]
      BY <3>1, <3>2, <3>3
    <3>4. CASE UNCHANGED <<leds, timestamps, age>>
      BY <3>1, <3>4
    <3> QED BY <1>13, <3>3, <3>4 DEF LoopLed, b, l
  <2> QED BY <1>13, <2>1, <2>3, DisplayAssumption DEF LoopLed
<1>14. CASE LoopCheck
  <2>1. NextOffset \in Leds
    BY DisplayAssumption DEF NextOffset, Leds
  <2>2. leds' \in [Leds -> Palette \cup {Stray}]
    <3> HIDE DEF TypeOK, display
    <3>1. leds \in [Leds -> Palette \cup {Stray}] /\ RED \in Palette
      BY DEF TypeOK, Palette, RED
    <3>2. leds' = [leds EXCEPT ![NextOffset] = IF Overdue(NextOffset) THEN RED ELSE @]
      BY <1>14 DEF LoopCheck
    <3> QED BY <2>1, <3>1, <3>2
  <2>3. timeoutOffset' \in 0..NumLeds /\ scanned' \subseteq Leds
    BY <1>14, <2>1, DisplayAssumption DEF LoopCheck, Leds
  <2> QED BY <1>14, <2>2, <2>3 DEF LoopCheck
<1>15. CASE Tick
  <2>1. millis' \in 0..(Wrap - 1)
    BY <1>15, DisplayAssumption DEF Tick
  <2>2. age' \in [Leds -> 0..MaxAge]
    BY <1>15, DisplayAssumption DEF Tick, MaxAge
  <2> QED BY <1>15, <2>1, <2>2 DEF Tick
<1>16. CASE UNCHANGED vars
  BY <1>16 DEF vars
<1> QED
  BY <1>2, <1>3, <1>4, <1>5, <1>6, <1>7, <1>8, <1>9, <1>10, <1>11, <1>12, <1>13,
     <1>14, <1>15, <1>16 DEF Next, Component, Server, Display

\* In every reachable state the display is well typed, whatever its components
\* send; in particular loop() never indexes past its arrays.
THEOREM TypeCorrect == Spec => []TypeOK
BY TypeInit, TypeNext, PTL DEF Spec

-----------------------------------------------------------------------------
(* Red LEDs.  StaleIsRed is not inductive: it needs that the wrapped         *)
(* difference loop() computes is the time since the last report.  That is    *)
(* so while an LED is not red, because an LED that has been silent for too   *)
(* long turns red long before the difference wraps.                         *)

\* What loop() would find, as a difference that only wraps once.
Since(l) == (millis - timestamps[l]) % Wrap

NoneScannedYet == pc = "setup" => scanned = {}

\* While an LED is lit, its wrapped time stamp tells the true age.
LitIsTimed == pc # "setup" => \A l \in Leds : leds[l] # RED => Since(l) = age[l]

LampInv == NoneScannedYet /\ LitIsTimed /\ StaleIsRed

\* The clock's next value.
LEMMA NextMod ==
  ASSUME NEW w \in Nat, NEW m \in 0..(w - 1)
  PROVE  (m + 1) % w = IF m + 1 = w THEN 0 ELSE m + 1
<1>1. CASE m + 1 = w
  BY <1>1
<1>2. CASE m + 1 # w
  BY <1>2, SmallMod
<1> QED BY <1>1, <1>2

\* When the clock steps, a difference steps with it, as long as it has not
\* come round.
LEMMA StepMod ==
  ASSUME NEW w \in Nat, NEW m \in 0..(w - 1), NEW t \in 0..(w - 1), NEW a \in Nat,
         (m - t) % w = a, a + 1 < w
  PROVE  (((m + 1) % w) - t) % w = a + 1
<1>1. a = IF m >= t THEN m - t ELSE m - t + w
  BY SmallMod
<1> DEFINE n == (m + 1) % w
<1>2. n = IF m + 1 = w THEN 0 ELSE m + 1
  BY NextMod
<1> HIDE DEF n
<1>3. n \in 0..(w - 1)
  BY <1>2
<1>4. (n - t) % w = IF n >= t THEN n - t ELSE n - t + w
  <2>1. n - t \in Int /\ -w <= n - t /\ n - t < w /\ (n - t >= 0 <=> n >= t)
    BY <1>3
  <2>2. (n - t) % w = IF n - t >= 0 THEN n - t ELSE n - t + w
    BY <2>1, SmallMod
  <2> QED BY <2>1, <2>2
<1> QED BY <1>1, <1>2, <1>4 DEF n

\* Of a lit LED, loop() computes the true age.
LEMMA ElapsedIsAge ==
  ASSUME TypeOK, LitIsTimed, pc # "setup", NEW l \in Leds, leds[l] # RED
  PROVE  Overdue(l) <=> age[l] > timeout
<1>1. (millis - timestamps[l]) % Wrap = age[l]
  BY DEF LitIsTimed, Since
<1>2. age[l] \in Nat /\ age[l] <= MaxTimeout + 1
  BY DisplayAssumption DEF TypeOK, MaxAge
<1>3. Elapsed(millis, timestamps[l]) = age[l]
  <2> DEFINE d == (millis - timestamps[l]) % Wrap
  <2>1. d = age[l]
    BY <1>1
  <2> HIDE DEF d
  <2>2. 2 * d < Wrap
    BY <1>2, <2>1, DisplayAssumption
  <2>3. ~(2 * d >= Wrap)
    BY <1>2, <2>1, <2>2, DisplayAssumption
  <2>4. (IF 2 * d >= Wrap THEN d - Wrap ELSE d) = d
    BY <2>3
  <2> QED BY <2>1, <2>4 DEF Elapsed, d
<1> QED BY <1>3 DEF Overdue

LEMMA LampInit == Init => LampInv
BY DEF Init, LampInv, NoneScannedYet, LitIsTimed, StaleIsRed

LEMMA LampNext == TypeOK /\ LampInv /\ [Next]_vars => LampInv'
<1> SUFFICES ASSUME TypeOK, LampInv, [Next]_vars PROVE LampInv'
  OBVIOUS
<1>1. ASSUME UNCHANGED <<pc, leds, timestamps, timeout, millis, age, scanned>>
      PROVE  LampInv'
  BY <1>1 DEF LampInv, NoneScannedYet, LitIsTimed, StaleIsRed, Since
<1>2. ASSUME NEW s \in Senders, Component(s) PROVE LampInv'
  BY <1>1, <1>2 DEF Component, Heartbeat, sendStatusUpdate, Deliver, StartStop, display
<1>3. ASSUME NEW m \in Others, SendOther(m) PROVE LampInv'
  BY <1>1, <1>3 DEF SendOther, Deliver, display
<1>4. CASE Server
  BY <1>1, <1>4
     DEF Server, ServerIgnore, ServerForward, ServerFail, ServerStart, display
<1>5. CASE Reset
  BY <1>5 DEF Reset, LampInv, NoneScannedYet, LitIsTimed, StaleIsRed
<1>6. CASE SetupDone \/ LoopNoData
  BY <1>6 DEF SetupDone, LoopNoData, TypeOK, LampInv, NoneScannedYet, LitIsTimed, StaleIsRed, Since
<1>7. CASE LoopTimeout
  BY <1>7 DEF LoopTimeout, LampInv, NoneScannedYet, LitIsTimed, StaleIsRed, Since
<1>8. CASE LoopLed
  <2> DEFINE k == LedOffset(Head(serial))
  <2>1. CASE UNCHANGED <<leds, timestamps, age>>
    BY <1>8, <2>1 DEF LoopLed, LampInv, NoneScannedYet, LitIsTimed, StaleIsRed, Since
  <2>2. CASE /\ k \in Leds
             /\ \E color \in Decoded(Head(serial)) : leds' = [leds EXCEPT ![k] = color]
             /\ timestamps' = [timestamps EXCEPT ![k] = millis]
             /\ age' = [age EXCEPT ![k] = 0]
    <3>1. pc = "read" /\ pc' = "check" /\ UNCHANGED <<millis, timeout, scanned>>
      BY <1>8 DEF LoopLed
    <3>2. age'[k] = 0 /\ timestamps'[k] = millis
      BY <2>2 DEF TypeOK
    <3>3. \A l \in Leds \ {k} :
            leds'[l] = leds[l] /\ timestamps'[l] = timestamps[l] /\ age'[l] = age[l]
      <4> HIDE DEF k
      <4> QED BY <2>2 DEF TypeOK
    <3>4. (millis - millis) % Wrap = 0
      <4>1. millis - millis = 0
        BY DEF TypeOK
      <4>2. 0 % Wrap = 0
        BY SmallMod, DisplayAssumption
      <4> QED BY <4>1, <4>2
    <3> HIDE DEF k
    <3>5. LitIsTimed'
      <4> SUFFICES ASSUME NEW l \in Leds, leds'[l] # RED
                   PROVE  (millis - timestamps'[l]) % Wrap = age'[l]
        BY <3>1 DEF LitIsTimed, Since
      <4>1. CASE l = k
        BY <3>2, <3>4, <4>1
      <4>2. CASE l # k
        BY <3>1, <3>3, <4>2 DEF LampInv, LitIsTimed, Since
      <4> QED BY <4>1, <4>2
    <3>6. StaleIsRed'
      <4>1. ~(0 > timeout)
        BY DEF TypeOK
      <4> SUFFICES ASSUME NEW l \in scanned, age'[l] > timeout PROVE leds'[l] = RED
        BY <3>1 DEF StaleIsRed
      <4>2. l \in Leds \ {k}
        BY <3>2, <4>1 DEF TypeOK
      <4> QED BY <3>3, <4>2 DEF LampInv, StaleIsRed
    <3> QED BY <3>1, <3>5, <3>6 DEF LampInv, NoneScannedYet
  <2> QED BY <1>8, <2>1, <2>2 DEF LoopLed
<1>9. CASE LoopCheck
  <2> DEFINE k == NextOffset
  <2>1. /\ pc = "check" /\ pc' = "read" /\ scanned' = scanned \cup {k}
        /\ leds' = [leds EXCEPT ![k] = IF Overdue(k) THEN RED ELSE @]
        /\ UNCHANGED <<millis, timestamps, timeout, age>>
    BY <1>9 DEF LoopCheck
  <2> HIDE DEF k
  <2>2. \A l \in Leds : leds'[l] = RED \/ leds'[l] = leds[l]
    BY <2>1 DEF TypeOK
  <2>3. ASSUME NEW l \in scanned', age[l] > timeout PROVE leds'[l] = RED
    <3>1. l \in Leds
      BY <2>1, DisplayAssumption DEF TypeOK, k, NextOffset, Leds
    <3>2. CASE leds[l] = RED
      BY <2>2, <3>1, <3>2
    <3>3. CASE leds[l] # RED
      <4>1. l = k
        BY <2>1, <2>3, <3>3 DEF LampInv, StaleIsRed
      <4>2. Overdue(k)
        BY <2>1, <2>3, <3>1, <3>3, <4>1, ElapsedIsAge DEF LampInv
      <4> QED BY <2>1, <3>1, <4>1, <4>2 DEF TypeOK
    <3> QED BY <3>2, <3>3
  <2>4. LitIsTimed'
    BY <2>1, <2>2 DEF LampInv, LitIsTimed, Since
  <2>5. StaleIsRed'
    BY <2>1, <2>3 DEF StaleIsRed
  <2> QED BY <2>1, <2>4, <2>5 DEF LampInv, NoneScannedYet
<1>10. CASE Tick
  <2>1. /\ UNCHANGED <<pc, leds, timestamps, timeout>> /\ scanned' = {}
        /\ millis' = (millis + 1) % Wrap
        /\ age' = [l \in Leds |-> IF age[l] < MaxAge THEN age[l] + 1 ELSE MaxAge]
    BY <1>10 DEF Tick, display
  <2>2. ASSUME pc # "setup", NEW l \in Leds, leds[l] # RED
        PROVE  (millis' - timestamps[l]) % Wrap = age'[l]
    <3>1. pc # "setup" /\ scanned = Leds
      BY <1>10, <2>2 DEF Tick
    <3>2. age[l] \in Nat /\ age[l] <= timeout /\ timeout <= MaxTimeout
      BY <2>2, <3>1, DisplayAssumption DEF LampInv, StaleIsRed, TypeOK, MaxAge
    <3>3. age'[l] = age[l] + 1 /\ age[l] + 1 < Wrap
      BY <2>1, <3>2, DisplayAssumption DEF MaxAge, TypeOK
    <3>4. (millis - timestamps[l]) % Wrap = age[l]
      BY <2>2 DEF LampInv, LitIsTimed, Since
    <3>5. millis \in 0..(Wrap - 1) /\ timestamps[l] \in 0..(Wrap - 1) /\ Wrap \in Nat
      BY DisplayAssumption DEF TypeOK
    <3>6. (((millis + 1) % Wrap) - timestamps[l]) % Wrap = age[l] + 1
      BY <3>2, <3>3, <3>4, <3>5, StepMod
    <3> QED BY <2>1, <3>3, <3>6
  <2>3. LitIsTimed'
    BY <2>1, <2>2 DEF LitIsTimed, Since
  <2> QED BY <2>1, <2>3 DEF LampInv, NoneScannedYet, StaleIsRed
<1>11. CASE UNCHANGED vars
  BY <1>1, <1>11 DEF vars, display
<1> QED
  BY <1>2, <1>3, <1>4, <1>5, <1>6, <1>7, <1>8, <1>9, <1>10, <1>11
     DEF Next, Display

\* Whatever the wrap of the millisecond counter, the number of components and
\* LEDs, and the timeouts that are sent, an LED that loop() has looked at since
\* the last tick is red if its component has been silent for too long.
THEOREM StaleCorrect == Spec => []StaleIsRed
<1>1. Init => TypeOK /\ LampInv
  BY TypeInit, LampInit
<1>2. TypeOK /\ LampInv /\ [Next]_vars => TypeOK' /\ LampInv'
  BY TypeNext, LampNext
<1>3. LampInv => StaleIsRed
  BY DEF LampInv
<1> QED BY <1>1, <1>2, <1>3, PTL DEF Spec

\* And loop() turns no other LED red.
THEOREM FalseRedNever == Spec => NoFalseRed
<1>1. Spec => [](TypeOK /\ LampInv)
  <2>1. Init => TypeOK /\ LampInv
    BY TypeInit, LampInit
  <2>2. TypeOK /\ LampInv /\ [Next]_vars => TypeOK' /\ LampInv'
    BY TypeNext, LampNext
  <2> QED BY <2>1, <2>2, PTL DEF Spec
<1> DEFINE Right ==
      pc = "check" /\ pc' = "read" =>
        \A l \in Leds : leds'[l] = RED /\ leds[l] # RED => age[l] > timeout
<1>2. ASSUME TypeOK, LampInv, [Next]_vars, ~UNCHANGED vars PROVE Right
  <2> SUFFICES ASSUME pc = "check", pc' = "read", NEW l \in Leds,
                      leds'[l] = RED, leds[l] # RED
               PROVE  age[l] > timeout
    OBVIOUS
  <2>1. LoopCheck
    BY <1>2 DEF Next, Component, Heartbeat, sendStatusUpdate, Deliver, StartStop, SendOther,
       Server, ServerIgnore, ServerForward, ServerFail, ServerStart, Display,
       SetupDone, LoopNoData, LoopTimeout, LoopLed, Reset, Tick, display
  <2>2. l = NextOffset /\ Overdue(l)
    BY <1>2, <2>1 DEF LoopCheck, TypeOK
  <2> QED BY <1>2, <2>2, ElapsedIsAge DEF LampInv
<1>3. TypeOK /\ LampInv /\ [Next]_vars => [Right]_vars
  BY <1>2
<1> QED BY <1>1, <1>3, PTL DEF Spec, NoFalseRed

-----------------------------------------------------------------------------
(* Whose colour an LED shows.                                                *)

\* A command that sets a timeout, is for an LED the display does not have, or is
\* what some component's report is turned into.
Harmless(b) ==
  \/ b >= SET_LED_TIMEOUT
  \/ LedOffset(b) \notin Leds
  \/ \E s \in Senders : \E color \in ColorsOf[s] : b = LedOf[s] + color

\* The inductive part: only such commands are in the display's serial buffer.
OwnInv == serial \in Seq({b \in Commands : Harmless(b)}) /\ ShowsOwnComponent

\* The command of a report is decoded to the LED and the colour it was made of.
LEMMA ReportDecoded ==
  ASSUME NEW s \in Senders, NEW color \in ColorsOf[s]
  PROVE  LET b == LedOf[s] + color IN
         /\ LedOf[s] = 16 * LedOffset(b)
         /\ Decoded(b) = {color}
<1>1. LedOf[s] \in {16 * n : n \in 0..14} /\ color \in 0..7
  BY SendersAssumption DEF Palette
<1>2. PICK n \in 0..14 : LedOf[s] = 16 * n
  BY <1>1
<1> DEFINE b == LedOf[s] + color
<1>3. b = 16 * n + color /\ b \div 16 = n /\ b % 16 = color
  BY <1>1, <1>2
<1> HIDE DEF b
<1>4. LedOf[s] = 16 * LedOffset(b)
  BY <1>2, <1>3 DEF LedOffset
<1>5. Decoded(b) = {color}
  BY <1>1, <1>3 DEF Decoded, Palette
<1> QED BY <1>4, <1>5 DEF b

\* If nobody else sends commands for an LED, what the server writes is harmless.
LEMMA HarmlessSent ==
  ASSUME \A m \in Others : Len(m) = 2 => Harmless(Command(m)),
         NEW m \in Messages, Len(m) = 2
  PROVE  Harmless(Command(m))
<1>1. ASSUME NEW s \in Senders, NEW color \in ColorsOf[s], m = <<LedOf[s], color>>
      PROVE  Harmless(Command(m))
  BY <1>1 DEF Command, Harmless
<1> QED BY <1>1 DEF Messages

\* Every step keeps the LEDs to the colours of their own components.
LEMMA OwnNext ==
  ASSUME \A m \in Others : Len(m) = 2 => Harmless(Command(m))
  PROVE  TypeOK /\ OwnInv /\ [Next]_vars => OwnInv'
<1> SUFFICES ASSUME TypeOK, OwnInv, [Next]_vars PROVE OwnInv'
  OBVIOUS
<1> DEFINE Good == {b \in Commands : Harmless(b)}
<1>0. serial \in Seq(Good) /\ DOMAIN leds = Leds
  BY DEF OwnInv, TypeOK
<1>1. CASE UNCHANGED <<pc, leds, serial>>
  BY <1>1 DEF OwnInv, ShowsOwnComponent
<1>2. ASSUME NEW s \in Senders, Component(s) PROVE OwnInv'
  BY <1>1, <1>2 DEF Component, Heartbeat, sendStatusUpdate, Deliver, StartStop, display
<1>3. ASSUME NEW m \in Others, SendOther(m) PROVE OwnInv'
  BY <1>1, <1>3 DEF SendOther, Deliver, display
<1>4. CASE ServerIgnore \/ ServerFail \/ ServerStart \/ Tick
  BY <1>1, <1>4 DEF ServerIgnore, ServerFail, ServerStart, Tick, display
<1>5. CASE ServerForward
  <2>1. Command(Head(sock)) \in Good
    <3>1. Head(sock) \in Messages /\ Len(Head(sock)) = 2
      BY <1>5, HeadTailProperties DEF ServerForward, TypeOK
    <3>2. Harmless(Command(Head(sock)))
      BY <3>1, HarmlessSent
    <3>3. Command(Head(sock)) \in Commands
      BY <3>1, MessageType
    <3> QED BY <3>2, <3>3
  <2> HIDE DEF Good
  <2>2. UNCHANGED <<pc, leds>>
    BY <1>5 DEF ServerForward, display
  <2>3. serial' = Append(serial, Command(Head(sock))) \/ serial' = serial
    BY <1>5 DEF ServerForward
  <2>4. serial' \in Seq(Good)
    BY <1>0, <2>1, <2>3, AppendProperties
  <2> QED BY <2>2, <2>4 DEF OwnInv, ShowsOwnComponent, Good
<1>6. CASE Reset
  BY <1>6 DEF Reset, OwnInv, ShowsOwnComponent
<1>7. CASE SetupDone
  <2>1. serial' = serial /\ \A l \in Leds : leds'[l] = RED
    BY <1>7 DEF SetupDone
  <2> QED BY <1>0, <2>1 DEF OwnInv, ShowsOwnComponent
<1>8. CASE LoopNoData
  BY <1>8 DEF LoopNoData, OwnInv, ShowsOwnComponent
<1>9. CASE LoopTimeout
  <2> HIDE DEF Good
  <2>1. serial' \in Seq(Good) /\ leds' = leds /\ pc # "setup"
    BY <1>0, <1>9, HeadTailProperties DEF LoopTimeout
  <2> QED BY <2>1 DEF OwnInv, ShowsOwnComponent, Good
<1>10. CASE LoopLed
  <2> DEFINE b == Head(serial)
             k == LedOffset(b)
  <2>1. serial' \in Seq(Good) /\ b \in Good
    <3> HIDE DEF Good
    <3> QED BY <1>0, <1>10, HeadTailProperties DEF LoopLed
  <2>2. pc = "read" /\ b < SET_LED_TIMEOUT /\ b \in Nat
    <3>1. b \in 0..255
      BY <2>1 DEF Commands, Byte
    <3>2. pc = "read" /\ b < SET_LED_TIMEOUT
      BY <1>10 DEF LoopLed
    <3> HIDE DEF b
    <3> QED BY <3>1, <3>2
  <2>3. CASE leds' = leds
    BY <2>1, <2>2, <2>3 DEF OwnInv, ShowsOwnComponent
  <2>4. CASE k \in Leds /\ \E color \in Decoded(b) : leds' = [leds EXCEPT ![k] = color]
    <3>1. Harmless(b) /\ ~(b >= SET_LED_TIMEOUT) /\ LedOffset(b) \in Leds
      BY <2>1, <2>2, <2>4 DEF SET_LED_TIMEOUT
    <3>2. PICK s \in Senders : \E color \in ColorsOf[s] : b = LedOf[s] + color
      BY <3>1 DEF Harmless
    <3> PICK color \in ColorsOf[s] : b = LedOf[s] + color
      BY <3>2
    <3>3. LedOf[s] = 16 * k /\ Decoded(b) = {color}
      BY <3>2, ReportDecoded
    <3>4. leds' = [leds EXCEPT ![k] = color]
      BY <2>4, <3>3
    <3> HIDE DEF b, k, Good
    <3>5. ASSUME NEW l \in Leds, leds'[l] # RED
          PROVE  \E t \in Senders : LedOf[t] = 16 * l /\ leds'[l] \in ColorsOf[t]
      <4>1. CASE l = k
        BY <1>0, <3>2, <3>3, <3>4, <4>1
      <4>2. CASE l # k
        BY <1>0, <2>2, <3>4, <3>5, <4>2 DEF OwnInv, ShowsOwnComponent
      <4> QED BY <4>1, <4>2
    <3> QED BY <2>1, <3>5 DEF OwnInv, ShowsOwnComponent, Good
  <2> QED BY <1>10, <2>3, <2>4 DEF LoopLed
<1>11. CASE LoopCheck
  <2>1. /\ serial' = serial /\ pc = "check"
        /\ leds' = [leds EXCEPT ![NextOffset] = IF Overdue(NextOffset) THEN RED ELSE @]
    BY <1>11 DEF LoopCheck
  <2>2. \A l \in Leds : leds'[l] = RED \/ leds'[l] = leds[l]
    BY <1>0, <2>1
  <2> QED BY <1>0, <2>1, <2>2 DEF OwnInv, ShowsOwnComponent
<1>12. CASE UNCHANGED vars
  BY <1>1, <1>12 DEF vars, display
<1> QED
  BY <1>2, <1>3, <1>4, <1>5, <1>6, <1>7, <1>8, <1>9, <1>10, <1>11, <1>12
     DEF Next, Server, Display

\* If nobody but the components sends commands for their LEDs, an LED that is not
\* red shows a colour of its own component, however reports are interleaved, lost
\* or forwarded, and whatever restarts.
THEOREM OwnColours ==
  ASSUME \A m \in Others : Len(m) = 2 => Harmless(Command(m))
  PROVE  Spec => []ShowsOwnComponent
<1>1. Init => OwnInv
  BY DEF Init, OwnInv, ShowsOwnComponent
<1>2. OwnInv => ShowsOwnComponent
  BY DEF OwnInv
<1> QED BY <1>1, <1>2, TypeCorrect, OwnNext, PTL DEF Spec

-----------------------------------------------------------------------------
(* The display implements LampWatch.                                         *)

\* A display in setup() has not been told anything.
SetupInv == pc = "setup" => age = [l \in Leds |-> MaxAge]

\* The steps of the components and of the server leave the display alone, but for
\* its serial buffer.
LEMMA DisplayAlone ==
  ASSUME [Next]_vars, ~Display, ~Reset, ~Tick
  PROVE  UNCHANGED <<pc, leds, age, timeout>>
BY DEF Next, Component, Heartbeat, sendStatusUpdate, Deliver, StartStop, SendOther, Server,
       ServerIgnore, ServerForward, ServerFail, ServerStart, vars, display

LEMMA SetupNext == TypeOK /\ SetupInv /\ [Next]_vars => SetupInv'
<1> SUFFICES ASSUME TypeOK, SetupInv, [Next]_vars PROVE SetupInv'
  OBVIOUS
<1>1. CASE Display
  <2>1. CASE SetupDone \/ LoopNoData \/ LoopTimeout
    BY <2>1 DEF SetupDone, LoopNoData, LoopTimeout, SetupInv
  <2>2. CASE LoopLed \/ LoopCheck
    BY <2>2 DEF LoopLed, LoopCheck, SetupInv
  <2> QED BY <1>1, <2>1, <2>2 DEF Display
<1>2. CASE Reset
  BY <1>2 DEF Reset, SetupInv
<1>3. CASE Tick
  <2>1. /\ pc' = pc
        /\ age' = [l \in Leds |-> IF age[l] < MaxAge THEN age[l] + 1 ELSE MaxAge]
    BY <1>3 DEF Tick, display
  <2>2. ~(MaxAge < MaxAge)
    BY DisplayAssumption DEF MaxAge
  <2> HIDE DEF MaxAge
  <2> QED BY <2>1, <2>2 DEF SetupInv
<1>4. CASE ~Display /\ ~Reset /\ ~Tick
  BY <1>4, DisplayAlone DEF SetupInv
<1> QED BY <1>1, <1>2, <1>3, <1>4

\* Taking a command for an LED is a report of that lamp in a colour of its own.
LEMMA LedReports ==
  ASSUME TypeOK, OwnInv, LoopLed, LedOffset(Head(serial)) \in Leds
  PROVE  LET l == LedOffset(Head(serial)) IN
         \E color \in SentFor[l] : Watch!Report(l, color)
<1> DEFINE b == Head(serial)
           l == LedOffset(b)
<1>1. b \in Commands /\ Harmless(b)
  <2> DEFINE Good == {c \in Commands : Harmless(c)}
  <2>1. serial \in Seq(Good)
    BY DEF OwnInv
  <2> HIDE DEF Good
  <2>2. b \in Good
    BY <2>1, HeadTailProperties DEF LoopLed
  <2> QED BY <2>2 DEF Good
<1>2. /\ pc = "read" /\ pc' = "check" /\ timeout' = timeout
      /\ ~(b >= SET_LED_TIMEOUT)
  <2>1. b \in 0..255
    BY <1>1 DEF Commands, Byte
  <2>2. pc = "read" /\ pc' = "check" /\ timeout' = timeout /\ b < SET_LED_TIMEOUT
    BY DEF LoopLed
  <2> HIDE DEF b
  <2> QED BY <2>1, <2>2 DEF SET_LED_TIMEOUT
<1>3. /\ \E color \in Decoded(b) : leds' = [leds EXCEPT ![l] = color]
      /\ age' = [age EXCEPT ![l] = 0]
  BY DEF LoopLed
<1>4. PICK s \in Senders : \E color \in ColorsOf[s] : b = LedOf[s] + color
  BY <1>1, <1>2 DEF Harmless
<1>5. PICK color \in ColorsOf[s] : b = LedOf[s] + color
  BY <1>4
<1>6. LedOf[s] = 16 * l /\ Decoded(b) = {color}
  BY <1>5, ReportDecoded
<1>7. leds' = [leds EXCEPT ![l] = color]
  BY <1>3, <1>6
<1>8. color \in SentFor[l]
  <2>1. l \in Leds
    OBVIOUS
  <2> HIDE DEF b, l
  <2>2. SentFor[l] = UNION {ColorsOf[t] : t \in {t \in Senders : LedOf[t] = 16 * l}}
    BY <2>1 DEF SentFor
  <2> QED BY <1>6, <2>2
<1> HIDE DEF b
<1>9. Watch!Report(l, color)
  BY <1>2, <1>3, <1>7 DEF Watch!Report
<1> QED BY <1>8, <1>9 DEF b

\* Every step is one of LampWatch or cannot be seen on the LEDs.
LEMMA StepWatches ==
  TypeOK /\ LampInv /\ OwnInv /\ SetupInv /\ [Next]_vars
    => [Watch!WatchNext]_<<pc # "setup", leds, age, timeout>>
<1> SUFFICES ASSUME TypeOK, LampInv, OwnInv, SetupInv, [Next]_vars
             PROVE  Watch!WatchNext \/ UNCHANGED <<pc # "setup", leds, age, timeout>>
  BY DEF Watch!WatchNext
<1>1. CASE Reset
  <2>1. Watch!Restart
    BY <1>1 DEF Reset, Watch!Restart, Watch!Dark
  <2> QED BY <2>1 DEF Watch!WatchNext
<1>2. CASE SetupDone
  <2>1. Watch!Begin
    BY <1>2 DEF SetupDone, Watch!Begin
  <2> QED BY <2>1 DEF Watch!WatchNext
<1>3. CASE LoopNoData
  BY <1>3 DEF LoopNoData
<1>4. CASE LoopTimeout
  <2>1. timeout' \in 0..MaxTimeout
    BY TypeNext DEF TypeOK
  <2>2. Watch!SetLimit(timeout')
    BY <1>4 DEF LoopTimeout, Watch!SetLimit
  <2> QED BY <2>1, <2>2 DEF Watch!WatchNext
<1>5. CASE LoopLed
  <2>1. CASE LedOffset(Head(serial)) \in Leds
    BY <1>5, <2>1, LedReports DEF Watch!WatchNext
  <2>2. CASE LedOffset(Head(serial)) \notin Leds
    BY <1>5, <2>2 DEF LoopLed
  <2> QED BY <2>1, <2>2
<1>6. CASE LoopCheck
  <2> DEFINE l == NextOffset
  <2>1. /\ pc = "check" /\ pc' = "read" /\ UNCHANGED <<age, timeout>>
        /\ leds' = [leds EXCEPT ![l] = IF Overdue(l) THEN RED ELSE @]
    BY <1>6 DEF LoopCheck
  <2>2. l \in Leds
    BY DisplayAssumption DEF TypeOK, NextOffset, Leds
  <2> HIDE DEF l
  <2>3. CASE Overdue(l) /\ leds[l] # RED
    <3>1. age[l] > timeout
      BY <2>1, <2>2, <2>3, ElapsedIsAge DEF LampInv
    <3>2. Watch!Expire(l)
      BY <2>1, <2>3, <3>1 DEF Watch!Expire
    <3> QED BY <2>2, <3>2 DEF Watch!WatchNext
  <2>4. CASE ~Overdue(l) \/ leds[l] = RED
    <3>1. leds' = leds
      BY <2>1, <2>2, <2>4 DEF TypeOK
    <3> QED BY <2>1, <3>1
  <2> QED BY <2>3, <2>4
<1>7. CASE Tick
  <2>1. /\ UNCHANGED <<pc, leds, timeout>>
        /\ age' = [l \in Leds |-> IF age[l] < MaxAge THEN age[l] + 1 ELSE MaxAge]
    BY <1>7 DEF Tick, display
  <2>2. CASE pc = "setup"
    <3>1. ~(MaxAge < MaxAge)
      BY DisplayAssumption DEF MaxAge
    <3> HIDE DEF MaxAge
    <3>2. age' = age
      BY <2>1, <2>2, <3>1 DEF SetupInv
    <3> QED BY <2>1, <3>2
  <2>3. CASE pc # "setup"
    <3>1. scanned = Leds
      BY <1>7, <2>3 DEF Tick
    <3>2. \A l \in Leds : age[l] > timeout => leds[l] = RED
      BY <3>1 DEF LampInv, StaleIsRed
    <3>3. Watch!Second
      BY <2>1, <2>3, <3>2 DEF Watch!Second
    <3> QED BY <3>3 DEF Watch!WatchNext
  <2> QED BY <2>2, <2>3
<1>8. CASE ~Display /\ ~Reset /\ ~Tick
  BY <1>8, DisplayAlone
<1> QED BY <1>1, <1>2, <1>3, <1>4, <1>5, <1>6, <1>7, <1>8 DEF Display

\* If nobody but the components sends commands for their LEDs, the LEDs are lamps
\* that show the last report that got through and turn red exactly when too long
\* has passed without one, for any number of components and LEDs, any timeout,
\* and whatever is lost, restarted or wraps.
THEOREM WatchImplemented ==
  ASSUME \A m \in Others : Len(m) = 2 => Harmless(Command(m))
  PROVE  Spec => ImplementsWatch
<1>1. Init => Watch!Dark
  BY DEF Init, Watch!Dark
<1>2. Init => TypeOK /\ LampInv
  BY TypeInit, LampInit
<1>3. Init => OwnInv /\ SetupInv
  BY DEF Init, OwnInv, ShowsOwnComponent, SetupInv
<1>4. TypeOK /\ LampInv /\ OwnInv /\ SetupInv /\ [Next]_vars
        => TypeOK' /\ LampInv' /\ OwnInv' /\ SetupInv'
  BY TypeNext, LampNext, OwnNext, SetupNext
<1>5. Spec => [](TypeOK /\ LampInv /\ OwnInv /\ SetupInv)
  BY <1>2, <1>3, <1>4, PTL DEF Spec
<1>6. Spec => [][Watch!WatchNext]_<<pc # "setup", leds, age, timeout>>
  BY <1>5, StepWatches, PTL DEF Spec
<1>7. Spec => Watch!Dark
  BY <1>1 DEF Spec
<1> QED BY <1>6, <1>7, PTL DEF ImplementsWatch, Watch!WatchSpec, Watch!watch

=============================================================================
