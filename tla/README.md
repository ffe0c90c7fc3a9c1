# Verification of the sensor system

This directory models the software under `software/` and the firmware under
`hardware/` in TLA+, checks the models with TLC on small instances, and proves
the central facts about them with TLAPS.

## The system

Small controllers read sensors and print one text line per reading on a serial
line. Sensor servers read those lines and post them over UDP to a database
process, which keeps every reading for a few seconds. Clients (the robot) ask
the database over a second UDP port. Every process reports to a status server,
which forwards one byte per report to a controller that drives ten LEDs.

    firmware --serial--> gen_sss, 9dof_server --UDP--> cv_db <--UDP--> clients
                              |                          |
                              +--------- UDP ------------+--> cyborg_status
                                                                --serial--> LED display

| Component | State it keeps | Operations | What makes it correct |
|---|---|---|---|
| Database store, `db/lists.c` | a tree of linked lists: sensor type, id, subId, records (newest first); one mutex | `sensorRecAdd`, `sensorRecPruneAll`, `processQuery`, `dumpLists` | lists ordered by time; readers meet only finished, live records; exactly what is too old is freed; the mutex is always given back |
| Database parsers, `db/post.c`, `db/sensors.c` | message count | `processSensorData` and one parser per kind of sensor | a malformed datagram leaves no trace; a good one is stored as sent |
| Database queries, `db/query.c` | the query, the `Ret` arrays, the reply buffer | `processSensorQuery`, `processQuery` | every well-formed query gets one reply that matches it and shows the store at one instant |
| Database threads, `db/threads.c`, `db/cv_db.c` | post, query and prune thread; main sends a heartbeat | endless loops | no thread starves or blocks for ever |
| `servers/gen_sss`, `servers/9dof_razor_imu` | a list of serial connections, one thread each | read what the port has, cut off two characters, post it (9dof: split into three readings, scale by 100) | what is stored was measured by one board in one line; a board that is read is stored again and again |
| `servers/status` | message count | receive two bytes, write one | forwards every report |
| LED display, `hardware/status-display` | colour and time of last report per LED, timeout | read a byte, decode it; check one LED per loop pass for timeout | an LED shows its own component's last report and turns red when the component is silent |
| Range finder and obstacle firmware, `hardware/*` | heartbeat LED and its counter | read id and offset switches, measure, print a line | a line carries the switches as they were set and the true distance; the LED goes on blinking |
| `lib/` | sockets, serial settings | `openIncomingPort`, `openSerialPort`, `sendStatusUpdate`, `cvAlloc` | thin wrappers around system calls |

What is hard here: three threads and one mutex around a store whose records are
linked before they are filled; pointers into records that another thread frees;
a time stamp taken before a lock; wall-clock time that may be set back; a cut
that relies on the order of a list; UDP datagrams and serial bytes that get
lost or overrun a buffer; a heartbeat that goes on while the work has stopped;
millisecond counters that wrap; and formats agreed between programs by comment
only; 16-bit integers that receive an `unsigned long`; switches that are moved
while they are read pin by pin. `PROJECT.json` lists each of these as a hazard at its line.

## Modules

| Module | Models |
|---|---|
| `SensorMsg` | datagrams, queries and the parsers, as operators |
| `SensorDb` | the database process: three threads, the mutex, the store |
| `TimeVal` | times in seconds and microseconds, `timersub` and the comparison of the cut, with the proof that they count microseconds |
| `ReadingStore` | abstract: a store that stores and forgets atomically |
| `ReadingCache` | abstract: `ReadingStore` that also answers atomically |
| `SensorDbRefinement` | the mapping under which `SensorDb` implements both |
| `SensorDb_proofs` | types, mutex, whole records |
| `SensorDbLists_proofs` | headers, order, pruning, the rows of an answer |
| `SensorDbStore_proofs` | `SensorDb` implements `ReadingStore` |
| `SensorDbCache_proofs` | `SensorDb` implements `ReadingCache`: the answers |
| `LampWatch` | abstract: lamps that show what was last reported and go red after too long a silence |
| `StatusDisplay`, `StatusDisplay_proofs` | components, status server and LED display |
| `SensorServers`, `SensorServers_proofs` | boards, `gen_sss`, `9dof_server` and their way into the database |
| `Rangers`, `Rangers_proofs` | the firmware of the three range finders and of the obstacle sensor |
| `MC*` | small instances and their `.cfg` files |

`SensorServers` uses `SensorMsg`'s parsers, so a line of a board goes through
the same definitions there as in the database. `StatusDisplay` has the
heartbeats of `cv_db` and `gen_sss` as its senders.

### SensorMsg

A token of a datagram is its text with what `%d` and `atoi` read in it; a
datagram is its first character and its tokens. `Parsed` is the switch of
`processSensorData`: the empty set when the datagram is dropped, otherwise the
arguments of `sensorRecAdd`. The empty subId is the constant `NoSubId`.

### SensorDb

| Model | Code |
|---|---|
| `idList`, `subIdList` | `SENSOR_ID_LIST`, `SENSOR_SUBID_LIST` headers, front first |
| `data[<<sensor, id, subId>>]` | the `SENSOR_RECORD` list of a subId header; `serial` stands for the address |
| `mainListLock` | the mutex, by holder |
| `PostReject`, `PostReceive` | `processSensorData` up to `sensorRecAdd` |
| `PostLock`, `PostHook`, `PostStamp`, `PostFill`, `PostUnlock` | `sensorRecAdd` with `newSensorId`, `newSensorSubId`, `newSensorRecord`; linking, stamping and filling are three steps |
| `PruneWake`, `PruneLock`, `PruneList`, `PruneUnlock` | `pruneThread`, `sensorRecPruneAll`: one step per subId list |
| `QueryReject`, `QueryReceive`, `QueryLock`, `QueryList`, `QueryUnlock`, `QuerySend`, `QueryWake` | `processSensorQuery`, `processQuery`: one step per subId list, then the formatting |
| `SendPost`, `SendQuery`, `Tick`, `SetBack` | the outside world |

Interleaving is as fine as the properties need: a step is a stretch of code
that touches shared state once, and between the steps of one walk the other
threads may run as far as the mutex lets them. Nothing in a property relies on
a step being larger than it is, because everything inside a walk happens with
the mutex held, which `MutualExclusion` states and `MutexCorrect` proves.
At debug level 3 a thread that holds the mutex calls `dumpLists`, which locks
it again; the model ends in the label `dump`, from which no step leads.

Times are ticks of the wall clock. A record's age is compared as in the code,
strictly greater than the time to live; `ExpiryExact` in `TimeVal` says that
comparing seconds first and microseconds second, with the borrow of `timersub`,
is the comparison of one number, also for a negative age. `SetBack` is somebody
setting the clock back, by at most `MaxStepBack`; `wentBack`, which no step of
the process reads, remembers that it happened. Properties that rely on order in
time are stated for a clock that did not go back (`ForwardOnlyExpiredFreed`) or
hold in spite of it (`PruneThorough`).

A row of `ret` is what one turn of `processQuery`'s loops puts into the `Ret`
arrays: the names and a reference to a record (`ref`), or for an average the sums
and their count. `Formatted` follows the references and divides (`CDiv` truncates
towards zero). The sums are integers of any size; in C they are `int`s, which
overflow when some thousand readings are near a million.

The post thread counts a datagram in `MsgNum` only if `recvfrom` returns more
than 0 (`db/post.c:38`): an empty one, as `gen_sss` sends it for a port that was
hung up, is dropped uncounted. `EachOnce` accounts for the others: each is in the
socket (`Waiting`), at the post thread or counted. Of the queries that arrived
none is in two places. `posted`, the number of datagrams with something in them,
is a count of the outside world (`SendPost`); empty ones come at any time.

`ret` grows without the limit of 20 rows of the `Ret` arrays, which the code
never checks. `RowsFit` states the limit, and what lies beyond it in memory is
not modelled.

The refinement. A reading is stored at the instant of its time stamp, with the
values it is about to get (`Visible`): before it, `newSensorRecord` has only
linked it, and the mutex keeps every reader away until it is filled. It is
forgotten when `PruneList` cuts its list, at the time stamp of the walk, which
is now or earlier. A query is answered when the walk that collected its rows
formats them: the rows were collected in many steps, but nobody else changes a
list while the mutex is held. `ReadingStore`'s clock never goes back, so the
refinement is checked and proved with `MaxStepBack = 0`; that the answers come
from one instant needs no clock (`AnswersFromOneInstant`).

### StatusDisplay

| Model | Code |
|---|---|
| `sock`, `serial` | the status server's UDP socket, the controller's 64-byte serial buffer |
| `Heartbeat`, `sendStatusUpdate` | `sleep(1)` loops of `cv_db` and `gen_sss`, and the post and query threads' reports |
| `SendOther` | any other datagram, in particular those of `test/status_bar` |
| `ServerIgnore`, `ServerForward`, `ServerFail`, `ServerStart` | `processStatusUpdate`: wrong size, forward a byte, `exit(1)` when the write fails; a restart by hand |
| `Reset`, `SetupDone` | power-up and `setup()` with its three-second delay |
| `LoopNoData`, `LoopTimeout`, `LoopLed` | first half of a pass of `loop()`: take at most one byte |
| `LoopCheck` | second half: check one LED for timeout, advance `timeoutOffset` |
| `Tick` | one second of `millis()`, which wraps at `Wrap` |

A byte that is lost (not yet listening, buffer full, interrupts off while the
LEDs are driven) is a nondeterministic choice of `ServerForward`; `SerialLoss`
turns the third kind off for liveness. A datagram the network loses is one
that is not sent.

Two variables are not in the code and influence nothing but the clock: `age[l]`
counts the ticks since a report last set an LED (up to `MaxAge`), which is the
truth that `loop()` can only compute from wrapped time stamps; `scanned` is the
set of LEDs checked since the last tick (or the last timeout command). `Tick`
waits until every LED has been scanned: a pass takes far less than a tenth of a
second, so ten LEDs are checked many times a second. That is what makes "red
within the timeout" a statement at all.

`LampWatch` is what all of it amounts to: lamps, the seconds since the last
report of each, and a limit. It has no messages, buffers, wrapped time stamps or
`timeoutOffset`, and its second does not end before every lamp that has been
silent for too long is red. Under the mapping `Watch` a report happens when `loop()`
takes its byte, `LoopCheck` is `Expire` or invisible, and everything up to the
serial buffer is invisible (`ImplementsWatch`).

A colour is its index in the palette; a read beyond the palette's eight entries
may give any colour (`Decoded`). `Wrap` is 2^32 ms in the code; the runs use 7
ticks so that it wraps often, and the proofs hold for every value above twice
the longest timeout.

### SensorServers

| Code | Model |
|---|---|
| the lines of a board (`Serial.print` in the `.ino` files) | `Prints[b]`, `RangeLine`, `ObstacleLine`, `NinePrints` |
| `SENSOR_CONN.fd` and the state of the port | `fd[b]`: just opened, open, hung up (reads return 0), failed |
| `gen_sss`, one `recvSensorDataThread` per port | `sss`, `thread[b]`, `inBuffer[b]` |
| the `while` loop of the thread | `Read`, `ReadNothing`, `ReadError`, then `Send` or `SendFail` (`exit(1)`) |
| `9dof_server`'s loop, `process9dofRecord`, `setAndSend` | `NineRead`, three times `NineSend`, or `NineFail` |
| the database's socket and post thread | `sock`, `Receive`, which uses `SensorMsg`'s `Parsed` |
| `sensorRecAdd` | `stored`, its latest arguments, with the sender |

A thread reads in one step and posts in another, so threads overtake each other
between the two. How many lines wait in a port is left out: which of a board's
lines a read returns matters to no property.

What a read returns, and what is left of it when two characters have been cut
off, depends on settings of the port that `openSerialPort` leaves as it finds
them (`lib/serial.c:96` clears neither `ICRNL` nor `ICANON`). `Tty[b]` and
`NineTty` name the three cases:

| `Tty` | the port | `Handed`, `NineHanded`: what the program goes on with |
|---|---|---|
| `"lines"` | hands over one line a read, with CR and LF, as the code's comment assumes ("kill CR/LF @ end") | the line |
| `"icrnl"` | makes CR an LF, as Linux sets up a port: the line ends there, with one character, and the LF behind it is a line of its own | the line without its last character (`Shorter`), or `EndOfLine` |
| `"raw"` | hands over any stretch of bytes | the line up to any character (`Heads`), such a text from any character on (`Tails`), or `EndOfLine` |

The first read after a port was opened may begin inside a line (`HandedFirst`).
A text is cut token by token: a number that loses digits is `Shortened`, so
`R 1 75` may become `R 1 7`, `R 1` or `R 2`, and the parsers decide what becomes
of it. Which characters a text may start with, if it starts inside a line, is
`Inner`; the assumption is that none of them is the letter of a sensor. The
boards of this repository print digits, signs, blanks and `x`. A program that
prints names of seen objects, as a camera would, and is read by `gen_sss` in the
middle of a line is not covered. Nor is a board that prints less than two tokens
behind the letter (`PrintsAssumption`).

A 9dof line is the ten numbers that `sscanf` looks for: a text has the first few
of them (`Fewer`), and the last it has may have lost digits; only a text with all
ten is posted, so it is the ninth reading that may be shorter (`LastReading`). How
many decimals a number is printed with is left open (`ShortReadings`). A text
that starts inside the first number, the time, has all ten. `Scaled` gives the
outcomes of multiplying a float by 100 and cutting it: 0.53 becomes 52.

Safety: a thread posts only what it has read from its own port (`OwnLines`); what
is stored was measured, by one board, in one line, and in its place in the line
(`StoredIsMeasured`). On a port that is not set to hand over lines this is all
that is true: the last value may have lost digits.
Liveness: a board whose port hands over lines is stored again and again
(`BoardsGetThrough`), whatever becomes of the others. The empty datagrams with
which a hung up port floods the socket do not matter there because `FairLoss`
assumes that they do not crowd out all the rest (see Fairness).

### Rangers

| Model | Code |
|---|---|
| `low` | the pins that a switch pulls to LOW, moved at any moment by `Move` |
| `bits` | the bits of `id` and `offset` gathered so far, local variables of `loop()` |
| `ReadPin` | one `digitalRead` and the assignment behind it, in the order of the code |
| `Range` | the trigger and `pulseIn`, stored in a 16-bit `int` |
| `Sense` | `digitalRead` of the FC-51's output |
| `PrintLine`, `Heartbeat` | the distance, the `Serial.print`s, the heartbeat LED |
| `StartPass` | the pause and the next call of `loop()` with new local variables |

One behaviour is one board; `kind` says which. The switches are read in several
steps because somebody may turn a rotary switch in between. What a line then
says is bounded by `SetAsShown`, switch by switch: two switches that move in the
same pass may give an id that was never set.

`DistanceCm` writes the floating-point expressions as exact fractions that are
cut towards zero (17/1000 and 172/10000). For every 16-bit duration and every
offset this is the number that the C expression gives with 4-byte floats, as on
these boards; the exhaustive comparison of the two is easily repeated outside
TLA+. `Pulse` is what the sensors' data sheets, quoted in the sources, say of a
target at a given distance. The hundredth that `DistanceTrue` allows is needed:
0.0172 cm per microsecond is half a per cent less than 2.54 / 147.
A pulse without an echo (`NoEcho`) is 0 or the sensor's own limit.

## Runs

| Run | Instance | Shows |
|---|---|---|
| `db_core` | two camera lists, a range list and a datagram that is dropped; 2 posts, 1 query (for everything, or one without five fields), clock to 4 and set back by a tick at a time, time to live 1 and 2 | types, the mutex, whole and live records, order, headers, and that pruning is thorough and, while the clock goes forward, frees nothing else, under every interleaving of the three threads |
| `db_refinement` | one list, two readings (one negative), a datagram that is dropped, any number of empty ones, a query for everything and one for an average, with and without an answer; the clock goes forward | the threads implement `ReadingStore` and `ReadingCache`; each datagram with something in it is counted once, and no query answered twice (`EachOnce`); every datagram in the socket is processed, every well-formed query answered, everything expired freed |
| `db_clock_freed` (violation) | the clock may be set back by two ticks | `OnlyExpiredFreed` fails: younger records behind an older stamp are freed with it |
| `db_debug` (violation) | `-D 3` | the mutex is never released: `dumpLists` locks it again |
| `db_rows` (violation) | 21 posts of one range finder within its time to live, one query | `RowsFit` fails: the answer has more rows than the `Ret` arrays |

Two posts are enough for a list with two records, for two lists of one walk,
and for a post that falls between any two steps of a prune or query walk. One
query at a time is no restriction of the process, which has one query thread.
Four ticks let a record of either time to live expire while another is young,
and a list go out of order after the clock went back. With two datagrams in the
socket buffer the sender runs ahead of the thread. What needs longer lists or
more of them, and the other kinds of query, is proved.

| Run | Instance | Shows |
|---|---|---|
| `status_core` | the database's two LEDs, timeout commands, reports for an LED that is not there, short datagrams, lost bytes, failures and resets | type, `ShowsOwnComponent`, `StaleIsRed`, `NoFalseRed`, also while the timeout changes; that the display implements `LampWatch` |
| `status_live` | one component that stops and starts, failures and resets, no byte lost on the line | `SilentGoesRed`, `RunningIsShown` |

Two LEDs are enough for the offset of `loop()` to pass the end and for reports
of two components to be confused; seven ticks and a timeout of two let the clock
wrap while an LED is lit, and a long silence go through several wraps. Buffers
for one or two datagrams and one byte overrun in every run.

| Run | Instance | Shows |
|---|---|---|
| `servers` | two boards the parsers accept, one whose port hands over lines and one whose port hands over bytes; ports that hang up and fail, lost datagrams, exits and starts | `OwnLines`, `StoredIsMeasured`, `BoardsGetThrough` |
| `servers_nine` | the 9dof board with two lines, on a port that hands over bytes, beside one board on a port as Linux sets it up | type, `StoredIsMeasured` |
| `servers_accept` (violation) | a range finder and the obstacle sensor of this repository | the parsers drop what they print (`LinesAccepted`) |

Two threads and a socket for one datagram let every thread overtake the other
and lose to it. One value of two digits and one of three with a sign are enough for
every kind of cut: before, in and behind the digits. The two 9dof lines have no
reading in common, even cut, so that a mixture of them would show; they hold
negative readings, whole hundredths and numbers below one hundredth.

| Run | Instance | Shows |
|---|---|---|
| `rangers` | all four boards, two id switches and one offset switch that move at any moment, targets in front of and behind the edge and the farthest ones whose pulse fits 16 bits, no echo | type, `SetAsShown`, `DistanceTrue`, `Blinks` |
| `rangers_far` (violation) | an MB10xx and a lidar with targets at the ends of their ranges | `DistanceTrue` fails: at 645 cm the MB10xx prints -485, from 3277 cm on the lidar's distances wrap |

Three switches are enough for one to move before, one while and one after it is
read; the 26 lines between two flips of the FC-51's LED are all there.

Deadlock is checked in every run but `db_debug`, whose system stops: that is the
finding. The bounds of `SensorDb` (`MaxClock`, `MaxPosts`, `MaxQueries`) stop the
outside world, not the threads: the prune thread goes on.

## Other observations

Met while modelling, kept in the models as the code has it, without a run of
their own:

* `processCamData` (`db/sensors.c:77`) passes what the camera sees as id and
  the camera as subId; `include/sensors.h:25` documents the other order.
* The check of the camera's record type (`db/sensors.c:60`) joins three tests by
  `&&`, so every type of two characters passes (`TwoCharTypes`); the comment
  above it says it should be `N2 `.
* A reply starts with the query's tag in double quotes, except for an unknown
  sensor type, where it is bare (`db/lists.c:749`, `594`).
* The reply to an unknown query type has no count and no newline
  (`db/lists.c:752`; `include/db/query.h:45` documents both).

* `status_test` means to turn all LEDs off with `sendIt(i, 0)`
  (`test/status_bar/status_test.c:147`), which puts `i` where every other call
  puts a shifted colour: LED 0 gets colour `i`, and for `i` of 8 and more the
  firmware reads past `statusPalette`.
* With its default subId `x`, `9dof_server` puts that token where the parser of
  three values reads the first one (`9dof_server.c:57`), and the database drops
  every message. With `-i 1` it stores 1 and the first two readings, so that
  `StoredIsMeasured` fails. The runs that check it have an empty subId, and
  `MeasuredStored` assumes one that is not a number.
* On a port as Linux sets it up (`"icrnl"`), `gen_sss` cuts the last digit off
  every line: `R 1 75` is stored as 7 (`gen_sss/threads.c:97`). The comment
  in front of the cut, "kill CR/LF @ end", is right for `"lines"` only.
* `newSensorRecord` has no case for the obstacle sensor (`db/lists.c:279`), so
  its value is stored as 0 whatever was posted; `include/sensors.h:59` documents
  '0' or '1'.
* `gen_sss` starts no thread again, and its heartbeat goes on when all of them
  have ended (`gen_sss.c:45`).
* A port that was hung up makes its thread read and post nothing without a pause
  (`gen_sss/threads.c:92`).
* The status server parses `-t` (`servers/status/init.c:72`, documented at its
  line 40 as "LED TTL (seconds)") and never sends it: `sendLedTtl` is declared
  (`include/status/status.h:77`) and defined nowhere. The display keeps its own
  timeout unless another program sends a command.
* `db/init.c:35` says of `-t` that "0 disables any purging"; line 78 rejects
  everything that is not positive.
* The FC-51's LED flips with every 26th line; its README says 25.
* A range finder to which nothing answers prints a line like any other, with
  minus the offset as distance (`ultrasonic-ranger_hc-sr04.ino:149`).

## Fairness

`SensorServers`: a read of an open port ends, since the boards print all the
time, and every thread runs on (weak fairness on each thread and on `Receive`).
Of the messages a thread posts again and again some arrive (`FairLoss`): the
network and the socket lose datagrams, not all of them for ever. That includes
the datagrams of a port that was hung up, whose thread posts empty ones as fast
as it can: that they leave room for others in the socket now and then is assumed
here and not shown, and no property covers that hazard. Nothing is
assumed of `Start`, of failures or of `9dof_server`.

`SensorDb`: every thread is scheduled (weak fairness on each), time passes, and
a thread that waits for the mutex gets it if it becomes free again and again
(strong fairness on the three locking steps). POSIX does not promise the last
one for a mutex that is contended without pause. Here it is not: the prune
thread sleeps 500 ms and the query thread a second between two critical
sections, and the post thread blocks in `recvfrom` between two datagrams, so
the mutex is free nearly all the time and a blocked thread is woken when it is
released. No fairness is assumed of the network: a datagram is processed if it
is in the socket buffer, not because it was sent.

`StatusDisplay`: the controller's loop and its clock run; the server, while it is
up, takes the next datagram; a component that runs reports once a second, so it
finds room in the socket again and again (strong fairness on its heartbeat).
Nothing is assumed of failures, resets and restarts: `SilentGoesRed` holds
however often they happen, `RunningIsShown` only for components, server and
display that keep running.

`Rangers`: the loop of a board runs for ever (weak fairness on `Loop`);
`pulseIn` gives up after a second. Nothing is assumed of who moves the switches.

## Proofs

Every theorem holds for all values of the constants that satisfy the named
assumptions of the component's module, which TLC evaluates in every run; what a
theorem assumes beyond them is its own `ASSUME`.

`SensorDb_proofs`, for every set of datagrams and queries, every time to live,
every debug level and every bound:

* `TypeCorrect`: `TypeOK` is inductive as it stands. The lemmas about the helper
  operators say what they return. `KeptIsPrefix` (the cut keeps exactly the
  records in front of the first expired one) needs the least expired position of
  a list, which `LeastNat` takes from the well-foundedness of the naturals
  instead of an induction.
* `MutexCorrect`: `MutualExclusion` is inductive relative to `TypeOK`. Steps
  fall into three kinds, and one lemma handles each: those that move a thread
  inside or outside its section (`MutexLocal`), those that enter
  (`MutexEnter`), and those that leave (`MutexLeave`).
* `RecordsWhole`: `WalkersSeeWholeRecords` is not inductive, because it says
  nothing of a record the post thread is building while nobody walks. The
  strengthening `StampInv` says that the only record without a time stamp is
  the first of the list the post thread is about to stamp; with
  `MutualExclusion` it implies the property.

`SensorDbLists_proofs`, on top of it. `NotPost`, `NotPrune` and `NotQuery` say
which thread changes what, `HookShape`, `SetShape` and `PruneShape` what a step
does to the lists; the rest needs no other case analysis of `Next`.

* `HeadersCorrect` and `HeadersForEver`: `HeadersConsistent` is inductive with
  `TypeOK`; a header is only ever put in front (`HeaderAdded`, `HeaderSuffix`).
* `ListsOrdered`: `NewestFirst` is not inductive. `SerialInv` adds that every
  serial but that of the record being added is an earlier message number,
  `TimeInv` that no stamp is in the future while the clock has not gone back.
* `PruningThorough`: `WalkInv` says that during a walk all lists already walked
  hold nothing too old for the walk's time; the post thread cannot add to them
  because the mutex is held.
* `OnlyExpiredFreedForward`: what stands behind the first expired record is
  expired too, by `TimeInv`, and a walk's time stamp is not in the future
  (`NowInv`), so what was too old at the walk's time is too old now.
* `WalksGoOn`: `NextInWalk` leaves a walking thread exactly one choice. The order
  of the walk is total because no name has two headers (`PlaceType`, `WalkLeast`),
  and `TodoInv` keeps the lists that are left reachable while the headers are
  fixed by the mutex (`HeadersFixed`).
* `AnswersAlive`: `RowsAlive` with the fact that a walk stays in the lists of
  its sensor type (`QueryInv`); nobody frees while the query thread holds the
  mutex.

`SensorDbStore_proofs`:

* `StoreImplemented`: with `MaxStepBack = 0` every step of the process is one of
  `ReadingStore` or leaves it unchanged. `FrontInv` says that the reading being
  added is in its list until the mutex is released, so that hiding its first
  record hides the right one; then `PostStamp` is `Store` (`StampStores`),
  `PruneList` is `Forget` (`CutForgets`, with `TimeInv` and `NowInv`), `Tick` is
  `Advance`, and everything else cannot be seen (`Unseen`).

`SensorDbCache_proofs`, on top of it:

* `CacheImplemented`: with `MaxStepBack = 0` every step is one of `ReadingCache`
  or cannot be seen. The invariant it needs is `BlockInv`: the rows in `ret`
  fall into one block per list already walked, each exactly what `Rows` makes of
  the list as it still is, and no list has two. So, when nothing is left to walk,
  following the references (`ReferentFound`, by distinct serials) and dividing
  the sums gives line by line what the abstract query picks (`LineVals`), for the
  lists that are asked about and not empty, and for no others (`FormattedAnswers`,
  `PartAsked`). `RepliesInv` and `AskedInv` tie replies and query to what was sent.
* `AnswersFromOneInstant`: the same step without the assumption on the clock:
  whatever the clock does, only `QueryUnlock` answers, and it answers from the
  lists as they are then.
* `AverageBetween`: an average lies between any bounds of the readings it is made
  of. `Sum` is a recursive function; that it has a value on all of its domain
  (`RunningSum`, `SumDef`) and the bound on its values (`SumBound`) are inductions,
  done with a set of naturals instead of a predicate: `SetInduction`, which follows
  from `LeastNat`. `CDivBound` is the truncating division, also below zero.
* `OnceEach`: `EachOnce` with `RepliesInv`. Every step moves at most one datagram
  from one place to the next, and an empty one out of the socket to nowhere:
  `FilledCount` says how the number of those that are not empty changes when the
  socket's buffer grows and shrinks.

`TimeVal`:

* `ExpiryExact`: the comparison of seconds, then microseconds, of a `timersub`
  is the comparison of microseconds, for all times, negative differences
  included (`Borrow`, `Lexicographic`, `SubExact`).

`StatusDisplay_proofs`, for every number of LEDs up to 15, every set of
components and messages, all buffer sizes, all timeouts, and every `Wrap` above
twice the longest timeout and a second:

* `TypeCorrect`: inductive as it stands; `MessageType` bounds the byte of a
  report, so a timeout command cannot exceed `MaxTimeout`.
* `StaleCorrect` and `FalseRedNever`: `StaleIsRed` alone is not inductive. The
  strengthening `LitIsTimed` says that of an LED that is not red, the wrapped
  difference of clock and time stamp is its true age. The two need each other:
  a tick keeps `LitIsTimed` because by `StaleIsRed` a lit LED is no older than
  the timeout, far from where the difference wraps (`StepMod`), and a check
  keeps `StaleIsRed` because by `LitIsTimed` the comparison is made with the
  true age (`ElapsedIsAge`). Time stamps of red LEDs may be arbitrarily stale,
  which is harmless.
* `OwnColours`: assumes that the datagrams nobody accounts for (`Others`) set no
  LED to a colour that is not its component's (`Harmless`); `status_test` does.
  `OwnInv` extends the property to the bytes that still wait in the display's
  serial buffer.
* `WatchImplemented`: under the same assumption every step is one of `LampWatch`
  or leaves it unchanged. It uses all of the invariants: `LitIsTimed` makes the
  comparison of wrapped times in `LoopCheck` the abstract `Expire`, `StaleIsRed`
  is the guard of `Second`, `OwnInv` says that a byte taken from the buffer is a
  report its lamp may get (`LedReports`), `SetupInv` that nothing is lit or timed
  before `setup()` has ended.

`SensorServers_proofs`, for any boards, lines and socket:

* `ServersTypeCorrect`, `LinesOwned`: `Sources` says that a thread's buffer holds
  what a read of its own port may leave there (`ReadLines`) and the socket only
  what such a thread, or `9dof_server`, posts.
* `MeasuredStored`, for every setting of every port and any lines: by `Sources`,
  what is stored is what the parsers make of a text some read has left, and of
  all such texts the lemmas say what that is. A text that starts inside a line
  is dropped (`TailsDropped`: no character of `Inner` is a sensor's letter), so
  are ends of lines (`EndsDropped`). Of a line cut in one token the parsers make
  nothing, or what they make of the line but for digits of the last value read
  (`HeadParsed`, `ShorterHead`, by the cases of `CutToken` and `LessAt`); so
  `LineParsed`. A 9dof text of ten numbers differs from its line in the ninth
  reading at most, which stays on its side of zero (`NineTextOf`,
  `DigitsToward`); `NineParsed` says what the parser makes of a message, and
  `ScaledNear` is the rounding of `Scaled`. The theorem assumes a subId that is
  empty or not a number, because with a number it is false.

`Rangers_proofs`, for any boards, switches and targets:

* `TypeCorrect`: inductive; what is kept of `pulseIn` fits 16 bits (`HalfMod`).
* `SettingsShown`: `Reading` says of every pin already read that it shows the
  setting at the start of the pass unless it was moved.
* `DistancesTrue`: assumes `Near`, that the pulses of all targets fit 16 bits,
  without which `rangers_far` refutes it. `Measured` ties the duration to the
  target; `DistanceError` is the arithmetic.

Every safety property that a passing run checks is also a theorem, the three
refinements included. Only model-checked: all liveness (`PostsProcessed`,
`QueriesAnswered`, `ExpiredFreed`, `SilentGoesRed`, `RunningIsShown`,
`BoardsGetThrough`, `Blinks`), which rests on fairness and `ENABLED`, neither of
which the installed provers treat.

## Not modelled

* What happens in memory when the `Ret` arrays (20 rows, see `RowsFit`), the
  reply buffer (1450 bytes) or a receive buffer is exceeded; lengths of texts are
  below the models.
* What dumps, logs and the message rate print.
* `sensorGetIdListById`, `sensorSubIdListBySubid`, the signal handlers and the
  free routines for headers: nothing calls them.
* `lib/network.c`, `lib/serial.c`, `lib/memory.c`: system calls in sequence, `exit(1)` on
  failure, no state. Option parsing: of all options only those that are constants
  here change behaviour.
* The levels of trigger and enable pins and the pauses of the range finders, the
  display's own blinking LED.
* The shell scripts and recorded data under `test/`, which send datagrams the
  models send too.
* The Python vision experiments under `r+d/`, `analytics/`, the mechanical and
  electrical designs under `hardware/`.
* The generated documentation, with the JavaScript of its search pages: it is
  Doxygen's and no part of the program.
* The robot's client and the camera server are named in the top-level README
  and are not in the repository.

## What is left

The components that carry state are modelled. Possible extensions: the database's
heartbeat composed with `SensorDb` (its main thread shares no state with the
workers, so the composition would only repeat that a blocked database keeps a
green LED), and an abstract specification of the way from a board to the store,
which `StoredIsMeasured` states reading by reading.
