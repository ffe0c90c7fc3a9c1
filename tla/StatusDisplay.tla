----------------------------- MODULE StatusDisplay -----------------------------
(***************************************************************************)
(* The status display: components report to the status server over UDP     *)
(* (software/lib/status.c), the server turns each report into one byte on  *)
(* a serial line (software/servers/status), and a controller shows it on   *)
(* its LED and turns an LED red when its component has been silent for too *)
(* long (hardware/status-display).                                         *)
(***************************************************************************)
EXTENDS Integers, Sequences

CONSTANTS
  Senders,     \* components that report, each in a loop of its own
  LedOf,       \* LedOf[s]: the STAT_LED_ value component s sends, 16 * its LED
  ColorsOf,    \* ColorsOf[s]: the colours component s sends
  Others,      \* other datagrams that may arrive, from test programs say
  NumLeds,     \* NUM_LEDS
  LedTimeout,  \* LED_TIMEOUT, in ticks of 1000 ms
  MaxTimeout,  \* bound: the longest timeout ever set, at most 15
  SetupDelay,  \* ticks setup() waits
  Wrap,        \* the counter of millis() wraps here
  SockCap,     \* datagrams the status server's socket holds
  SerialCap,   \* bytes the display's serial buffer holds
  SerialLoss   \* whether bytes are lost while the LEDs are being driven

Leds == 0..(NumLeds - 1)
Byte == 0..255

OFF == 0
RED == 1
Palette == 0..7

\* Stands for what a read past the end of statusPalette finds.
Stray == 8

SET_LED_TIMEOUT == 240

\* The bytes of a report are or-ed; they have no bit in common.
Command(m) == m[1] + m[2]

Commands == {b \in Byte : b >= SET_LED_TIMEOUT => b % 16 <= MaxTimeout}

ASSUME SendersAssumption ==
  /\ LedOf \in [Senders -> {16 * n : n \in 0..14}]
  /\ ColorsOf \in [Senders -> SUBSET Palette]
ASSUME OthersAssumption ==
  \A m \in Others :
    /\ m \in Seq(Byte)
    /\ Len(m) = 2 =>
         /\ (m[1] % 16 = 0 /\ m[2] < 16) \/ m[2] = 0
         /\ Command(m) \in Commands
ASSUME DisplayAssumption ==
  /\ NumLeds \in 1..15 /\ MaxTimeout \in 1..15
  /\ LedTimeout \in 1..MaxTimeout
  /\ SetupDelay \in Nat /\ Wrap \in Nat
  /\ Wrap > 2 * (MaxTimeout + 1) /\ Wrap > SetupDelay
  /\ SockCap \in Nat \ {0} /\ SerialCap \in Nat \ {0}
  /\ SerialLoss \in BOOLEAN

\* What may arrive at the status server.
Messages ==
  Others \cup UNION {{<<LedOf[s], color>> : color \in ColorsOf[s]} : s \in Senders}

VARIABLES
  up,         \* which components run
  server,     \* "up", or "exited" after a failed write
  sock,       \* datagrams in the status server's socket
  serial,     \* bytes in the display's serial buffer
  pc,         \* the display: in setup(), or before the read or check of loop()
  millis,     \* the display's clock
  leds,       \* colour of each LED
  timestamps, \* when each LED was last set by a report
  timeout,
  timeoutOffset, \* the LED loop() checks next
  age,        \* not in the code: ticks since a report set each LED, if any
  scanned     \* not in the code: LEDs checked since the last tick

display == <<pc, leds, timestamps, timeout, timeoutOffset>>
vars == <<up, server, sock, serial, display, millis, age, scanned>>

\* age counts up to here.
MaxAge == MaxTimeout + 1

\* (The operators named ...Faulty are variants with a plausible bug, for showing
\* which property notices it.)
Init ==
  /\ up = [s \in Senders |-> TRUE]
  /\ server = "up"
  /\ sock = <<>> /\ serial = <<>>
  /\ pc = "setup" /\ millis = 0
  /\ leds = [l \in Leds |-> OFF]
  /\ timestamps = [l \in Leds |-> 0]
  /\ timeout = LedTimeout
  /\ timeoutOffset = 0
  /\ age = [l \in Leds |-> MaxAge]
  /\ scanned = {}

-----------------------------------------------------------------------------
(* Components and other senders.  A datagram that is lost, or that finds    *)
(* the socket full or closed, is one that is not sent here.                 *)

Deliver(m) ==
  /\ server = "up" /\ Len(sock) < SockCap
  /\ sock' = Append(sock, m)
  /\ UNCHANGED <<up, server, serial, display, millis, age, scanned>>

sendStatusUpdate(led, color) == Deliver(<<led, color>>)

Heartbeat(s) ==
  /\ up[s]
  /\ \E color \in ColorsOf[s] : sendStatusUpdate(LedOf[s], color)

SendOther(m) == Deliver(m)

\* A component stops, hangs, or is started again.
StartStop(s) ==
  /\ up' = [up EXCEPT ![s] = ~@]
  /\ UNCHANGED <<server, sock, serial, display, millis, age, scanned>>

-----------------------------------------------------------------------------
(* The status server.                                                       *)

\* A datagram of another size than STATUS_MSG is dropped.
ServerIgnore ==
  /\ server = "up" /\ sock # <<>> /\ Len(Head(sock)) # 2
  /\ sock' = Tail(sock)
  /\ UNCHANGED <<up, server, serial, display, millis, age, scanned>>

\* A byte is lost if the display is not listening yet, if its buffer is full,
\* or if it has its interrupts off.
ServerForward ==
  /\ server = "up" /\ sock # <<>> /\ Len(Head(sock)) = 2
  /\ sock' = Tail(sock)
  /\ \/ /\ pc # "setup" /\ Len(serial) < SerialCap
        /\ serial' = Append(serial, Command(Head(sock)))
     \/ /\ SerialLoss \/ pc = "setup" \/ Len(serial) = SerialCap
        /\ UNCHANGED serial
  /\ UNCHANGED <<up, server, display, millis, age, scanned>>

\* A failed write to the serial port ends the server.
ServerFail ==
  /\ server = "up" /\ sock # <<>> /\ Len(Head(sock)) = 2
  /\ server' = "exited"
  /\ sock' = <<>>
  /\ UNCHANGED <<up, serial, display, millis, age, scanned>>

\* It is started again by hand.  The time to live its -t option gives goes nowhere.
ServerStart ==
  /\ server = "exited"
  /\ server' = "up"
  /\ UNCHANGED <<up, sock, serial, display, millis, age, scanned>>

-----------------------------------------------------------------------------
(* The display.                                                             *)

\* Power comes back, or the board resets: setup() starts from the beginning, with
\* every variable at its initial value.
Reset ==
  /\ serial' = <<>>
  /\ pc' = "setup" /\ millis' = 0
  /\ leds' = [l \in Leds |-> OFF]
  /\ timestamps' = [l \in Leds |-> 0]
  /\ timeout' = LedTimeout
  /\ timeoutOffset' = 0
  /\ age' = [l \in Leds |-> MaxAge]
  /\ scanned' = {}
  /\ UNCHANGED <<up, server, sock>>

\* The LEDs are not set.
SetupDoneFaulty ==
  /\ pc = "setup" /\ millis = SetupDelay
  /\ timestamps' = [l \in Leds |-> 0]
  /\ pc' = "read"
  /\ UNCHANGED <<up, server, sock, serial, millis, leds, timeout, timeoutOffset,
                 age, scanned>>

\* All LEDs start red.
SetupDone ==
  /\ pc = "setup" /\ millis = SetupDelay
  /\ leds' = [l \in Leds |-> RED]
  /\ timestamps' = [l \in Leds |-> 0]
  /\ pc' = "read"
  /\ UNCHANGED <<up, server, sock, serial, millis, timeout, timeoutOffset, age,
                 scanned>>

LedOffsetFaulty(b) == (b \div 16) - 1

LedOffset(b) == b \div 16

\* The colours a command may produce; past the palette it may be any.
Decoded(b) == IF b % 16 \in Palette THEN {b % 16} ELSE Palette \cup {Stray}

LoopNoData ==
  /\ pc = "read" /\ serial = <<>>
  /\ pc' = "check"
  /\ UNCHANGED <<up, server, sock, serial, millis, leds, timestamps, timeout,
                 timeoutOffset, age, scanned>>

LoopTimeout ==
  /\ pc = "read" /\ serial # <<>> /\ Head(serial) >= SET_LED_TIMEOUT
  /\ serial' = Tail(serial)
  /\ timeout' = Head(serial) % 16
  /\ scanned' = {}
  /\ pc' = "check"
  /\ UNCHANGED <<up, server, sock, millis, leds, timestamps, timeoutOffset, age>>

\* A command for an LED the display does not have changes nothing.
LoopLed ==
  LET b == Head(serial)
      l == LedOffset(b) IN
  /\ pc = "read" /\ serial # <<>> /\ b < SET_LED_TIMEOUT
  /\ serial' = Tail(serial)
  /\ \/ /\ l \in Leds
        /\ \E color \in Decoded(b) : leds' = [leds EXCEPT ![l] = color]
        /\ timestamps' = [timestamps EXCEPT ![l] = millis]
        /\ age' = [age EXCEPT ![l] = 0]
     \/ l \notin Leds /\ UNCHANGED <<leds, timestamps, age>>
  /\ pc' = "check"
  /\ UNCHANGED <<up, server, sock, millis, timeout, timeoutOffset, scanned>>

ElapsedFaulty(now, then) == now - then

\* The difference of two longs that wrap.
Elapsed(now, then) ==
  LET d == (now - then) % Wrap IN IF 2 * d >= Wrap THEN d - Wrap ELSE d

OverdueFaulty(l) == Elapsed(millis, timestamps[l]) >= timeout

Overdue(l) == Elapsed(millis, timestamps[l]) > timeout

NextOffsetFaulty == IF timeoutOffset > NumLeds THEN 0 ELSE timeoutOffset

\* The offset starts over once it has passed the last LED.
NextOffset == IF timeoutOffset >= NumLeds THEN 0 ELSE timeoutOffset

LoopCheck ==
  LET l == NextOffset IN
  /\ pc = "check"
  /\ leds' = [leds EXCEPT ![l] = IF Overdue(l) THEN RED ELSE @]
  /\ timeoutOffset' = l + 1
  /\ scanned' = scanned \cup {l}
  /\ pc' = "read"
  /\ UNCHANGED <<up, server, sock, serial, millis, timestamps, timeout, age>>

\* A pass of loop() takes well under a millisecond, so every LED is checked
\* many times in a second.
Tick ==
  /\ IF pc = "setup" THEN millis < SetupDelay ELSE scanned = Leds
  /\ millis' = (millis + 1) % Wrap
  /\ age' = [l \in Leds |-> IF age[l] < MaxAge THEN age[l] + 1 ELSE MaxAge]
  /\ scanned' = {}
  /\ UNCHANGED <<up, server, sock, serial, display>>

-----------------------------------------------------------------------------
Component(s) == Heartbeat(s) \/ StartStop(s)

Server == ServerIgnore \/ ServerForward \/ ServerFail \/ ServerStart

Display == SetupDone \/ LoopNoData \/ LoopTimeout \/ LoopLed \/ LoopCheck

Next ==
  \/ \E s \in Senders : Component(s)
  \/ \E m \in Others : SendOther(m)
  \/ Server \/ Display \/ Reset \/ Tick

Spec == Init /\ [][Next]_vars

\* The display and its clock run; the server, while it is up, takes the next
\* datagram; a component that runs reports once a second, so it finds room in
\* the socket again and again.
Fairness ==
  /\ WF_vars(Display) /\ WF_vars(Tick)
  /\ WF_vars(ServerIgnore \/ ServerForward)
  /\ \A s \in Senders : SF_vars(Heartbeat(s))

FairSpec == Spec /\ Fairness

-----------------------------------------------------------------------------
(* Properties.                                                              *)

\* Type correctness: among the rest, loop() stays inside leds and timestamps.
TypeOK ==
  /\ up \in [Senders -> BOOLEAN]
  /\ server \in {"up", "exited"}
  /\ sock \in Seq(Messages) /\ Len(sock) <= SockCap
  /\ serial \in Seq(Commands) /\ Len(serial) <= SerialCap
  /\ pc \in {"setup", "read", "check"}
  /\ millis \in 0..(Wrap - 1)
  /\ leds \in [Leds -> Palette \cup {Stray}]
  /\ timestamps \in [Leds -> 0..(Wrap - 1)]
  /\ timeout \in 0..MaxTimeout
  /\ timeoutOffset \in 0..NumLeds
  /\ age \in [Leds -> 0..MaxAge]
  /\ scanned \subseteq Leds

\* Once setup() is done, an LED that is not red shows a colour that its own
\* component sends, however the reports of several components are interleaved,
\* lost or cut short.
ShowsOwnComponent ==
  \A l \in Leds :
    pc # "setup" /\ leds[l] # RED =>
      \E s \in Senders : LedOf[s] = 16 * l /\ leds[l] \in ColorsOf[s]

\* Once loop() has been at an LED since the last tick, the LED is red if no
\* report has set it for longer than the timeout: also after the millisecond
\* counter wrapped, and for as long as the silence lasts.
StaleIsRed == \A l \in scanned : age[l] > timeout => leds[l] = RED

\* loop() itself turns an LED red only if no report has set it for longer than
\* the timeout.
NoFalseRed ==
  [][pc = "check" /\ pc' = "read" =>
       \A l \in Leds : leds'[l] = RED /\ leds[l] # RED => age[l] > timeout]_vars

\* If a component stops for good its LED turns red and stays red, whatever
\* reports of it are still in the socket and the serial buffer, and whatever
\* happens to the server; only while the display is in setup() it is off.
SilentGoesRed ==
  \A s \in Senders :
    <>[]~up[s] =>
      <>[](pc # "setup" => \A l \in Leds : LedOf[s] = 16 * l => leds[l] = RED)

\* A component that keeps running keeps lighting its LED, as long as server
\* and display run and no byte is lost.
RunningIsShown ==
  \A s \in Senders :
    <>[](up[s] /\ server = "up" /\ pc # "setup") =>
      []<>(\A l \in Leds : LedOf[s] = 16 * l => leds[l] # RED)

\* The colours the components whose LED is l send.
SentFor == [l \in Leds |-> UNION {ColorsOf[s] : s \in {s \in Senders : LedOf[s] = 16 * l}}]

Watch == INSTANCE LampWatch WITH
  Lamps <- Leds, Reportable <- SentFor, Off <- OFF, Red <- RED,
  Limits <- 0..MaxTimeout, FirstLimit <- LedTimeout, Never <- MaxAge,
  on <- pc # "setup", lamp <- leds, silent <- age, limit <- timeout

\* Whatever happens to reports, server and clock, the LEDs are lamps that show the
\* last report that got through and turn red exactly when too long has passed.
ImplementsWatch == Watch!WatchSpec

=============================================================================
