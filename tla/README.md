# Verification of perfbench

perfbench is an SDN benchmark: it plays OpenFlow controllers (one per
*tenant*), and in the sandwich testcases also the switches, around a hypervisor
or a switch under test; it sends requests in bursts, matches the answers with
them, reports rates and losses every second and writes one log file per tenant.
This directory holds TLA+ models of its concurrent core, the configurations
that model-check them and proofs about them.  Paths are relative to the
repository; the program proper is `src/src/`.

## 1. The system

### Threads

| thread | code | what it does |
|---|---|---|
| main | `perfbench.cpp:96-120` | starts every tenant's controller, then `SystemState::init`, then looks at the outcome once per second until a hard timeout |
| waiter | `systemstate.cpp:71-105` | waits until it has found every tenant connected, then starts reporter and senders |
| sender, one per tenant | `packetdispatcher.cpp:7-141` | bursts of requests until a limit is reached, then `tenant_finished` |
| event loop, one per controller | `base/EventLoop.cc` | accepts, reads, counts answers, runs liveness timers, reports lost connections |
| reporter | `reporter.cpp:43-63` | prints and resets the interval counters once per second |
| event loop and connect thread, one each per switch | `switch/base/BaseOFClient.cc` | the switch side of the sandwich testcases |

`Handshake`, `OFServer` and `ReadBuffer` are about the event loop, `Counter` and
`Reporting` about what it shares with senders and reporter, `Pacing` about the
sender, `SystemState` about how all of them start and end.

They share memory with few locks: `ofconnections_lock` around the map of
connections and `sys_mutex` in `SystemState::tenant_failed`.

### Components

| component | state | operations | hard behaviour | what makes it correct |
|---|---|---|---|---|
| **Counter** (`counter.cpp`) | request and response tables per connection, watermark, losses, interval counters | `count_request` (sender), `count_response` (event loop), `newInterval` (reporter), `limit_reached` | lost, repeated, reordered answers; a row is published before it is counted; unchecked index; unsigned wrap | each log line pairs a request with its own answer; losses equal placeholders |
| **Control endpoint** (`EventLoop`, `BaseOFServer`, `BaseOFConnection`, `OFConnection`, `OFServer`) | libevent loop, listener, connections, `OFConnection::conn`, liveness flag | accept, down, echo timer, send, close, delete, stop | close/send without a lock; stop from another thread or from the loop itself; a lost loop break | pointers match connections, a stopped loop leaves nothing behind |
| **SystemState** (`systemstate.cpp`, `tenant.cpp`, `perfbench.cpp`) | connected/finished flags, outcome, `sys_mutex` | init, wait, launch, `tenant_finished`, `tenant_failed`, stop | flags read one by one; several threads finish the run; failure during start or end | a run starts with everyone, ends, and has its logs |
| **Controller handshake** (`Controller.cpp`, `OFServer.cc:62-157`) | connection state, `conns` | HELLO, FEATURES, MULTIPART | replies in unexpected states, reconnects | a listed connection has completed the handshake |
| **Switch** (`switch/`) | `OFClient::conn`, connect thread | connect, reply, reconnect | reconnect races sender | a lost connection comes back |
| **Dispatcher and scheduler** (`packetdispatcher.cpp`, `scheduler.cpp`, `testcases.cpp:211`) | two sample indices, burst credit, position in a burst | next time, next burst, one send, limits | wraps of two indices, rounding, a limit looked at between bursts | every connection gets what was asked for, up to the fraction carried on; times stay with their sizes |
| **Reporter** (`reporter.cpp`) | what it reports, where it is | console report, interval log, reset | reads, divides, reads again and resets while others count | nothing is reported twice, no division by zero |
| **Read buffer** (`base/BaseOFConnection.cc:30-138`, `313-340`) | header and message read so far, their block | read, dispatch, clear, delete | chunks that end anywhere, several messages in one, a close in the middle | the messages sent come out whole, once and in order; each block has one owner |

Interactions: the event loop calls `Controller::message_callback`, which
dispatches to the testcase, which calls `count_response`; EVENT_DOWN goes
`OFServer` → `Controller` → testcase → `Tenant::tenant_disconnected` → signal
`TenantFailed` → `SystemState::tenant_failed` → `finish()` of every tenant →
`Controller::stop` → join of every event loop, the caller's own included.  The
last sender takes the same way from `tenant_finished` over `stop_tenants`.

## 2. Modules

### `Counter.tla`

`src/src/counter.cpp` as the sender, the event loop and the reporter use it.
The tables `reqXids` and `respXids` hold one sequence of xids per list index;
`requests` and `responses` are the code's own counts, kept apart from the
lengths because the code updates them apart.  `PushRequest` and `SendRequest`
are the two halves of `count_request` (and the send), `CountResponse` is
`count_response`, one disjunct per branch:

| disjunct | code |
|---|---|
| `Repeated` | equal to the watermark, skipped (43) |
| `LateFound`, `LateBeyond`, `LateUnknown` | below the watermark: backward search hits, hits in the row past the table, or gives up (50-73) |
| `Expected`, `Ahead`, `AheadUnknown` | above it: next row, forward search with placeholders, or no such request (81-136) |

The read of row `responses` is not bounds-checked in the code.  `ReqReads`
gives the row if it exists and any value of the constant `Junk` otherwise.
The device and the network are external: an answer may be lost, repeated and,
with `Reordering`, overtaken.  `RouteByXid` is the list index of the sandwich
testcases (`xid / 10000000`); `Stride` stands for 10000000.  In the code request
number 9,999,999 of a connection has the first xid of the next one; with the bounds
of the runs (three requests, a stride of four) no xid gets that far.

### `OFServer.tla`

One controller endpoint with its loop thread, the sender, and the threads that
stop it: any set of them, the sender among them or not (two senders that finish
together, the failing loop of another tenant), and the loop itself.  `EventLoop::run` is `StartRun`, `EnterFirst`, `LeaveFirst`,
`EnterSecond`, `LeaveSecond`; libevent is external and modelled by what the code
relies on (the break flag is cleared on entry, callbacks run one at a time, an
empty loop ends unless told otherwise).  `OFConnection::close` and `send` are
split at the NULL check, so a thread is *in* them (`doing`, `target`) while
others run; `Controller::stop` is split into lock, sweep, unlock, disable,
break and join.  Only the first other thread to join waits (`JoinWaits`,
`JoinReturns`); a later `pthread_join`, and the loop's own, fails at once
(`JoinFails`, `BaseOFServer.cc:144-146`), and `stop()` returns while callbacks may
still run.  A callback of the loop is a short list of steps (`todo`) that
other threads interleave with.  A use of a cleared or deleted connection sets
`crashed`, after which nothing runs.

### `SystemState.tla`

A run from the start of the first controller to the end of the process.
Threads are `<<"sender", v>>` and `<<"loop", v>>` with a program counter `at`
and the index `pos` of their loop over the tenants; main and the waiter have
states of their own.  Every read of a tenant's flag is a step.  `finish()` is
`StopController`, `BreakLoop`, the join, `OpenLog`, `CloseLog` per tenant, then
`Conclude`, for whichever thread runs it.  Each event loop goes through the two
passes of `EventLoop::run` (`RunLoop`, `LeaveFirst`, `LeaveSecond`), and entering a
pass clears the break, so that a stop can be lost and the join behind it wait for
ever, as `OFServer` shows.  `BreakLost` names that state; a single sender that
finishes the run while a loop is in its first pass ends in it, and
`SystemState::finished` is not set although all tenants are
(`systemstate.cpp:35-38`).  A second `pthread_join` on the same thread is undefined by POSIX
and returns an error at once in glibc, which is what both models take.

### `Handshake.tla`

How a tenant becomes connected, for the two testcases with several switches.
A connection is a pair of peer and attempt, so a peer that comes back has a new
connection, as a new `OFConnection` in the code.  `ctl` and `swt` are
`OFConnection::state` at the two ends, `up` and `down` the messages under way,
`conns` is `Controller::conns`, `index` is `OFConnection::list_index` (the empty
set while unset), `rows` the length of `conn_ids` and `tables` of the tables
that are pushed after it.

| actions | code |
|---|---|
| `CreateFactory`, `StartTestcase`, `Arm`, `StartSending` | main: `BaseTestCase::start` after the controller listens, `SystemState::init`, launch of the dispatcher |
| `Dial`, `PeerHello`, `FeaturesRequested`, `Numbered`, `PeerDown`, `PeerDead` | the switch: `try_connect`, `OFClient::base_message_callback`, `switch_conn_established`, `Switch::connection_callback`, `send_echo` |
| `Accept`, `Hello`, `FeaturesReply`, `PortsReply`, `Established`, `Lost` | the controller's event loop: `OFServer` and `Controller` callbacks, then the testcase |
| `SendFault` | the dispatcher meets a connection without a number, or none |
| `PortsRequested`, `Cut` | external: a 1.3 peer, the network |

`systemstate.cpp:126` has every emulated switch dial port 6633, whatever its tenant's
port is (`tenant.cpp:30`); the tenant of the model is the one that listens there.

`Established` is a step of its own after the connection joined the list, because
the dispatcher reads the list in between; the event loop does nothing else
meanwhile (`entering`).  `FeaturesRequested` and `Numbered` are the two halves of
the numbering of a sending switch, which the loops of several switches
interleave.  An emulated switch answers FEATURES_REQUEST in version 1 whatever
was negotiated, so only foreign peers take the way over the port description.
Closing within one endpoint is in `OFServer`; here a lost connection goes from
up to down in one callback.

### `Pacing.tla`

How many packets a tenant sends.  `schedule` holds the burst sizes; the times are
told apart by their index only.  The code draws a time before every burst and
once more before the loop, and wraps each index by itself.

| action | code |
|---|---|
| `Start` | `BaseTestCase::start` draws the first time (`testcases.cpp:74-76`) |
| `LeaveLoop`, `FinishRequesting` | the loop condition, the limits (`packetdispatcher.cpp:21-32`, `counter.cpp:201-215`) |
| `StartBurst` | the next size and the packets of the credit (`packetdispatcher.cpp:26-40`) |
| `SendOne` | one packet on one connection (`packetdispatcher.cpp:41-131`) |
| `Stop` | `finish()` by any thread (`testcases.cpp:189`) |

`FromFile` and `FromRate` are the two ways a schedule comes about: a file, where
`pps()` is not called and no share is carried, and drawn samples, where
`BaseTestCase::pps` splits the rate into whole packets and a share.

### `MessageStream.tla` and `ReadBuffer.tla`

`MessageStream` is what a connection promises its reader: the messages of the
peer, whole, once, in order, until it is closed.  `ReadBuffer` is the code: bytes
arrive in chunks of any length (`Arrive` calls `read_cb`), and every pass of its
loop is `ReadHeader`, `FinishHeader` or `ReadBody`, then `EndRead`
(`BaseOFConnection.cc:313-340`).  `Down` is `event_cb`, `DoClose` the deferred
deletion (264-295).  `DeliversStream` instantiates the former with expressions
over the latter.  Blocks are numbered in the order of their allocation, so that
`OneOwner` can say who has to free which.

### `Reporting.tla`

The reporter thread beside the thread that starts the run and those that count.
`AllConnected`, `ResetCounter` and `LaunchSender` are
`SystemState::all_tenants_connected`; `Count` stands for `count_request` and
`count_response` on the two interval counters; `WakeUp`, `Check`, `Divide`,
`PrintColumn` and `NewInterval` are one round of the reporter, one step per read
or write of a counter (`reporter.cpp:43-187`, `counter.cpp`'s `newInterval`); `Finish` is
the end of the run, which the reporter sees after its next sleep.

### `ResponseLog.tla`

What a log of a tenant promises: rows are appended open, an answer closes its row
and turns the open rows before it into gaps, a gap may still be answered, an
answer is never taken back.  `Counter` implements it (`KeepsLog`): row `k` of a
connection is open past the response table, a gap where the table holds a
placeholder, answered otherwise.

### Proofs

`CounterProofs`, `HandshakeProofs`, `PacingProofs`, `ReadBufferProofs`,
`ReportingProofs`, `OFServerProofs` and `SystemStateProofs` hold the theorems about
the modules they are named after, `Sums` the lemmas about `SumFunction` that two
of them use, section 5.

## 3. Runs

Deadlock checking is off in every run because the benchmark ends: after the last
request, the last answer, or a crash nothing has to happen.

| run | bounds | shows |
|---|---|---|
| `counter` | 2 connections, 3 requests each, stride 4, 2 repeats, `UInt` 16, packet limit 3 or a time limit | pairing, watermark, losses and improvement of the log, under reordering and stray liveness replies; the tables implement `ResponseLog` |
| `counter_first_late` | 1 connection, 4 requests | **violation**: a late answer to the first request is dropped |
| `ofserver` | 2 connections, 2 stopping threads of which one is the sender, self-stop, 2 liveness timers, `MaxBreaks` 2 | pointers, drain, quiet after the first join, release of lost connections, return of a late stop |
| `ofserver_stop_ends_run` | 1 connection, fair | **violation**: a stop during the first loop hangs |
| `systemstate` | 2 tenants, 2 failures at any point | order of start, finish, failure and logs; a failure-free run and a lone failure get their outcome, unless a stop waits for a lost break |
| `systemstate_two_failures` | 2 tenants, 2 failures, fair | **violation**: two failing tenants deadlock on `sys_mutex`, with no break lost |
| `systemstate_log_at_end` | 2 tenants, no failure | **violation**: the process may end while a log is being rewritten |
| `handshake` | 2 switches, 1 foreign peer of version 1 or 4 that connects once, 2 connections per switch, 1 loss, fair | numbers, list, tenant and dispatcher agree; the dispatcher starts; every switch joins |
| `handshake_stale_list` | 2 switches, 2 connections each, 1 loss | **violation**: a switch that came back is counted twice |
| `pacing` | 2 connections, `Word` 4, a second of 4 units, rates 1, 3, 5, intervals 2, 3, sizes 0 to 2, up to 3 lines, packet limit 3 or a time limit, 9 bursts, fair | every connection gets its share to the fraction, times stay with sizes, the overshoot is less than a burst, the sender stops |
| `readbuffer` | headers of 3 bytes, messages of 3, 4 or 6, 3 messages, chunks of any length, fair | the buffer implements `MessageStream`, blocks have one owner, a message that arrived is handed over |
| `reporting` | 2 tenants, both reports, 2 requests and responses each | nothing is reported twice, no ratio with a divisor 0 |

`counter` runs with xids from 1; the PacketIn data plane, whose xids start at 0,
and arbitrary contents behind the request table are covered by the theorems of
section 5, which hold for every value of these constants.

Why the bounds are enough.  `counter`: three requests give a first, a middle
and a last row, so every gap pattern (none, one, two skipped; late fill of a
middle and of the first row) occurs, two connections give the routing, and two
extra deliveries a repeat before and after the late fill; `UInt` 16 keeps the
wrap below zero visible.  `ofserver`: two connections are needed for a sweep
that closes one while the other is accepted or lost; two stopping
threads beside the loop give a first join, one that fails, and a sweep that
goes on after the other stop returned, and one of them is the sender, whose last
send comes before its stop; a stopping thread stops once, and the loop each time a
callback reports a loss.  `MaxBreaks` caps the count of calls of `EventLoop::stop`
that `OneStopDrains` looks at.  `systemstate`: with two tenants every race
between senders, between loops and between the two kinds exists; a third would
repeat the same pairs.  `handshake`: two switches give every race between two
numberings and the gap between a list of two and two switches; the foreign peer
adds refusal, the port description and an entry that is no switch's; one loss
puts a stale entry before, between and after the others.  The last connection a
switch may make within the bound is never cut, so `SwitchesJoin` asks for a
connection that can stay.  `pacing`: with a second of four units the shares 0, 1,
2 and 3 all occur, one of them (2) divides it and 3 does not; three lines give an
index that is at its start, in the middle and at its wrap, and nine bursts take
both indices round three times; `Word` 4 is the smallest counter that can pass two
connections.  `readbuffer`: a header of three bytes has a chunk end before, at
and behind its length byte; 3 is a message without a body, 4 one whose body is
a single byte, 6 one whose body can be cut in the middle; with three messages a chunk
can hold the end of one, a whole one and the start of the next.  `reporting`: two
tenants give a count of one tenant while the other is reported, and two counts
one on either side of a reset.

### Findings

Each violation run refutes a sentence of the code's own comments or docs, quoted
in `PROJECT.json`: the first late answer, the lost loop break, the mutex held
over the joins, the unlocked scan of `tenant_finished` with a log that is
rewritten at the end, and the list of connections that never shrinks.

Further observations, of which no document says otherwise and no run is kept:

* The first packet of the PacketIn data plane has the xid 0, which is also the
  initial watermark, and is skipped as a repeat (`counter.cpp:43`).
* `OFConnection::close` and `send` test and use the connection without a lock; two
  threads can pass the test (`OFConnection.cc:60-84`).  `OFServer` models the
  outcome as `crashed`.
* A `stop()` whose `pthread_join` is not the first on that loop returns while
  callbacks run (`BaseOFServer.cc:145`).
* A liveness reply (xid 15) that reaches a connection other than the first between
  its first request and its first answer is taken for that answer
  (`OFServer.cc:124-131`, `counter.cpp:96`).
* Sending switches are numbered by a push and a read of the length without a
  lock, so two of them can share a number (`packetinsandwich.cpp:93`).
* The messages handed to events are never freed (`Controller.cpp:145`).
* What is counted between the report of a tenant and the end of all reports
  appears in no line of the interval log (`reporter.cpp:43-63`).

## 4. Fairness

Weak fairness of each thread's own steps: the operating system schedules every
thread, and libevent runs what is due.  Nothing is assumed of peers: no switch
has to connect, answer or hang up, no timer has to win a race, and nobody has to
call stop.  In `SystemState`, `LimitReached` is strongly fair: a run has a length
or a packet limit, which is looked at before every burst, so a sender that keeps
sending meets it.  The hard timeout may come at any time or never.
In `OFServer` and `SystemState` fairness is stated once per thread, over all steps
of its code, so nothing is assumed of the order in which a thread finds several of
them enabled; a first pass that could end because the loop ran out of events is
not made to.
In `Handshake` main, the event loops of the controller and of the emulated
switches and their connect threads are fair; the retry of `connect` every five
seconds makes `Dial` fair once the controller listens.  Foreign peers owe
nothing.
In `Pacing` the sender thread is scheduled and its sleeps end; the time limit
need not come, so `SenderStops` is about the packet limit.  In `ReadBuffer` the
loop finishes the callback it runs; the peer need not send, nor finish a message
it began.  `Reporting` states no liveness.

## 5. Proofs

`CounterProofs` proves for every value of the constants, from
`CounterAssumption`:

* `TypeCorrect`: `Spec => []TypeOK`;
* `LogIsPaired`: `Spec => []RowsPaired`;
* `WatermarkKept`: `Spec => []WatermarkIsTail`;
* `LogNeverWorsens`: `Spec => LogOnlyImproves`.

The last three assume `WellConfigured` as well, which names what the code relies
on without checking: requests of a connection stay below the stride (or answers
are routed by connection), and the xid of stray liveness replies lies in the
range of its own connection's requests.  The inductive invariant `Inv` adds to
the two properties that row `r` of connection `c` has the xid `XidOf(c, r)`
(rows are increasing and ranges of connections disjoint), that the request table
is one row longer than the count exactly between the two halves of
`count_request`, and that what is on the wire has been requested.  `RowsPaired`
alone is not inductive: that a backward search hits the right row needs the
strict order of the xids, and that a forward search pads the right number of
rows needs the watermark.  One lemma per branch of `count_response` preserves
`Inv`; the final steps combine them by temporal logic.  `LogOnlyImproves` is an
action property: from a state that satisfies `Inv`, one lemma per kind of step
shows that the step improves the log of every connection or leaves it alone.

`CounterProofs` goes on with four theorems about what was delivered, all under
`WellConfigured`:

* `OnlyAnswersRecorded`: `Spec => []RecordedAnswered`;
* `NoAnswerDropped`: `RowsReadZero => (Spec => []DeliveredRecorded)`;
* `LossesAreGaps`: `Countable => (Spec => []MissingIsPlaceholders)`;
* `IntervalLossesBounded`: `Countable => (Spec => []IntervalLossBounded)`.

`RowsReadZero` says that a row past the request table reads 0 (`Junk = {0}`): a
search runs at most one row past its end, and another value there could be the
xid it looks for.  `Countable` adds that xids start at 1, because a placeholder is a row
with the xid 0, and that fewer requests are sent than an unsigned counter counts.  The first
two rest on `HistoryInv`: the newest row is never a placeholder (`TailHeld`), an
xid in the log was answered (`OnlyAnswered`), an answer is the xid of a request
already made (`AnswersGenuine`), and an answer that arrived has its row
(`AnswersHeld`), because the backward search ends at that row and nowhere before.
The third adds `OnceInv`: until an answer is repeated no answer that was counted
is still on the wire, so a late answer finds a placeholder and takes exactly one
from the number of placeholders, which is a cardinality.  The fourth is inductive
with that: an answer changes the losses of the interval by no more than the missing
answers of its connection (`LossIsMissing`), and the sum over the connections by
as much (`SumChanges` of `Sums`).

`HandshakeProofs` proves, from `HandshakeAssumption` alone, so for any number of
switches, foreign peers, connections and losses:

* `TypeCorrect`: `Spec => []TypeOK`;
* `ListIsCompatible`: `Spec => []ListedCompatible`;
* `NumbersArePlaces`: `Spec => []NumberIsPlace`;
* `ListedIsReady`: `Spec => []ListedAfterSwitch`.

None of them is inductive, because what the controller does depends on what the
peer did several messages earlier.  The inductive invariant `Inv` adds where
the history is kept: a connection that was not dialled has left no trace
(`Fresh`), the messages that follow the HELLO are only under way between equal
versions (`Negotiated`), those that follow the FEATURES_REQUEST only after the
switch was established and numbered (`SwitchFirst`), a switch between the halves
of its numbering is up and has pushed its row (`NumberingUp`), and in the
testcases where the controller sends, the rows follow the list
(`RowsFollowList`, `EnteringLast`).  Handlers that touch one connection share
two lemmas (`LocalKeeps`, `EarlyKeeps`) which say that the others keep theirs.

The last part of `CounterProofs` proves `TablesAreALog`: `RowsReadZero \/
WellConfigured => (Spec => KeepsLog)`.  It needs less than `Inv`: that the request
table holds the published requests and that the response table has as many rows
as the code thinks, each beside a request (`RowsInv`).  With rows that read 0 past the
table this is inductive for any answer whatever (`NextAligns`), one counted for the
wrong connection or a liveness reply below every xid included; with rows that read
anything it follows from `Inv`, and stray answers are excluded.  One lemma per kind of step maps it to
the abstract log: a request appends an open row, an answer above the watermark
records its row and turns the rows between into gaps, a late answer fills the gap
of its own row, and everything else leaves the tables alone.

`PacingProofs` proves, for every schedule, rate and number of connections,
`TypeCorrect`, `NoPacketLost` (`CreditExact`), `LinesStayPaired`
(`BurstAfterItsLine`) and `OvershootIsBounded` (`OvershootBounded`).  The invariant adds that a burst is open exactly while
packets are left (`BurstOpen`) and that the time index is one sample ahead of the
size index from the start on, in a burst as well as at the head (`IndicesPaired`).
The overshoot is bounded because what is counted and what the burst will still add
(`Committed`) does not change within a burst, and stood below the limit when the
burst began; two amounts below a packet pay for one packet at most (`CreditPays`).

`ReadBufferProofs` proves `TypeCorrect`, `BlocksOwned` (`OneOwner`) and
`StreamDelivered` (`Spec => DeliversStream`) for every header length, every set of message lengths and every chunking.  The invariant
adds that the bytes in the buffer and on the wire are bytes of messages sent
(`BytesSent`), that what is read of a message is always short of its length
(`Unfinished`) and that a block is held exactly from the end of the header to the
end of the message (`BlockHeld`).  The refinement needs to say which part of the
stream the buffer, the bufferevent and the wire hold together.  Put as a
concatenation of messages, that would be a recursive definition; `InOrder` says the
same of a sequence of bytes in closed form: every byte is followed by the rest of
its message and then by the first byte of the next one.  `StreamInv` then says that what
was read is the front of the message after those handed over, and that what
follows is in order behind it; every pass of the loop takes bytes off the front,
every message sent is added at the end, and the length byte that
`FinishHeader` reads (one byte stands for the two of OpenFlow) is that of the
message being read.

`ReportingProofs` proves `TypeCorrect`, `NothingTwice` (`ReportedOnce`) and
`NoZeroDivisor` (`RatioDefined`) for any number of tenants.  That the log never
exceeds the count needs to know which counters have been printed but not set back
yet (`Unprinted`, `ReportedApart`); that the divisor is still not 0 at the second
read needs that only the reporter itself sets counters of launched tenants back
(`LaunchedBefore`, `DivisorKept`).

`OFServerProofs` proves `TypeCorrect`, `ConnectionsPartTogether`
(`LinkMatchesConnection`), `LoopDrained` (`OneStopDrains`) and `StoppedIsQuiet`
(`QuietAfterStop`) for any number of connections and timers and any set of stopping
threads besides the loop.  `QuietAfterStop` is about the thread whose join was the
first: until it returns the loop runs, and afterwards nothing does but another
`stop()` that is still in its sweep.
The invariant says what each thread can be doing (`ThreadsKeepRoles`), that a call in
progress works on at most one connection and clears only the pointer of a closed
one (`CallsConsistent`), that the loop is told to break only after the listener
was disabled (`BreakAfterDisable`), and that each pass of the loop that returned
used up a break or found nothing left to do (`PassesUseBreaks`).

`SystemStateProofs` proves `TypeCorrect`, `NobodySendsEarly`
(`RunStartsConnected`), `NobodyStoppedEarly` (`StoppedAfterLastRequest`) and
`OutcomeIsLogged` (`OutcomeHasLogs`) for any number of tenants and failures.  The
invariant keeps every loop over the tenants in its range (`PlacesInRange`) and says
that senders exist only once the waiter has seen every tenant connected
(`SeenConnected`), that a sender stops the tenants only after it has seen all of
them done and an event loop only after a failure (`FinishedLast`), and that a
thread leaves every tenant behind its index finished, with its log written or open
(`LoggedBehind`).  The passes of a loop, the break and the join do not disturb any of
it (`LoopSafe`, `JoinSafe`), whichever thread is left waiting.

`HandshakeProofs` goes on with `ConnectedIsWhole` (`Spec => []ConnectedWhole`).  The testcase decides that a tenant is
connected by comparing the length of the list with the number of switches.  That
the comparison means what it is for is true only while nothing was disturbed: no
foreign peer has dialled and no connection was cut.  A disturbed run stays so
(`UndisturbedBefore`), so the steps of an undisturbed one are few (`QuietOnly`),
and under them `WholeInv` holds: each switch is on its first connection
(`FirstTry`), asked once for its features (`AskedOnce`), without a number before its
numbering ends (`Unnumbered`), and the rows pushed are the tables pushed and those of
the switches between the two halves of their numbering (`RowsPushed`).  A list
without repetitions of as many first connections as there are switches then has
every switch on it, by counting (`EverySwitchListed`).

`Sums` proves what `SumFunction` of the module `Functions` is for every finite domain:
a number (`SumIsInt`, `SumIsNat`), 0 for zeros (`SumOfZeros`), and changed by as much
as the function is changed in one place (`SumChanges`).  The definition is
recursive along an order that `CHOOSE` fixes, and the prover cannot instantiate
an induction theorem that takes an operator.  `SubsetInduction` says the same
with a set in place of the operator: the sizes of the subsets outside that set
would have a smallest member.  Also proved and not assumed is that the recursive
equation has a solution (`SumsExist`).

Only model-checked are the liveness properties, which are out of the prover's reach:
`HangupFreed` and `LateStopReturns` of `OFServer`, `RunFinishes` and
`LoneFailureReported` of `SystemState`, `RunStarts` and `SwitchesJoin` of `Handshake`, `SenderStops` of
`Pacing`, and `ArrivedIsHandedOver` of `ReadBuffer`.  Every other property of a
passing run is the subject of a theorem.

## 6. Plan

Done, in this order: `Counter`, `OFServer` and `SystemState`; `Handshake`;
`Pacing`; `MessageStream` and `ReadBuffer`; `ResponseLog` as an abstraction of
`Counter`; `Reporting`; the theorems of section 5.

Left: what `Handshake` promises when a switch came back before the run is armed,
where the list is longer than the switches that are up; and a theorem that the two
passes of a loop in `SystemState` are those of `OFServer`, which states the same code
with its connections.

## 7. Not modelled

Packet building and parsing (`packetfactory.cpp`, libfluid), TLS (never
enabled), command line and settings (plain values, they are the CONSTANTS),
raw sockets and time stamps (I/O), the random distributions (numeric), the flow
table of the switch (its calls are commented out in `Switch.cc:75-86`), the
stand-alone switch's `main`, scripts and data.  The switch's replies to barrier,
configuration, statistics and role requests change no state of the modelled
parts.  The capture threads of the switch's ports (`switch/port.cc`, pcap)
only exist for the PacketOut testcases and hand what they read to `count_response`
like any other answer.

The JavaScript under `src/scripts/dataplane/testpage` is a page that the scripts
load in a browser to produce data-plane traffic: copies of jQuery UI and Bootstrap
and 23 lines that add images to the page.  It is no part of the benchmark's logic
and keeps no state the program depends on, so nothing of it is modelled.

Abstracted in the modules above: the credit of `Pacing` is exact where the code
adds floats, and burst sizes below zero, which a file could hold, are left out;
messages with a length below that of the header are left out of `ReadBuffer`, as
the code's behaviour is undefined for them; the sums of latencies and losses in
the reports are left out of `Reporting` (the former is an ordinary variable that
two threads write, which is undefined as well).
