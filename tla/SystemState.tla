---------------------------- MODULE SystemState ----------------------------
(***************************************************************************)
(* The life of a benchmark run: the main thread (Perfbench::start), the    *)
(* thread that waits for the tenants to connect and starts the senders,    *)
(* and, per tenant, the sender thread and the event-loop thread, which     *)
(* meet in class SystemState to finish the run or to fail it.              *)
(*                                                                         *)
(* A loop thread runs two passes of event_base_loop, and entering a pass   *)
(* clears the break that ended the one before (base/EventLoop.cc), so a    *)
(* thread that joins it may wait for a break that is lost.  What the loop  *)
(* does for its connections meanwhile is in module OFServer, the counters  *)
(* in module Counter.                                                      *)
(***************************************************************************)
EXTENDS Integers, FiniteSets

CONSTANTS
    NumTenants,   \* tenants, numbered in registration order
    MaxFailures   \* bound: lost connections and refused switches in a run

ASSUME SystemStateAssumption ==
    /\ NumTenants \in Nat \ {0}
    /\ MaxFailures \in Nat

VARIABLES
    main,        \* the main thread, and how the process ended
    started,     \* tenants whose controller main has started
    initialised, \* SystemState::init has run
    scanned,     \* tenants the waiter has found connected in this pass
    waiter,      \* the waiter thread
    linked,      \* tenants whose switch is connected
    connected,   \* Tenant::connected
    ever,        \* history: tenants that were connected at some time
    done,        \* Tenant::finished
    tested,      \* BaseTestCase::finished
    at,          \* at[t]: where thread t is
    pos,         \* pos[t]: the tenant t's loop over all tenants has reached
    told,        \* tenants whose connections were swept and listener disabled
    broken,      \* tenants whose loop has a break pending
    second,      \* tenants whose loop is in its second pass
    joiner,      \* joiner[v]: the thread that was the first to join v's loop
    mutex,       \* holder of sys_mutex
    writer,      \* writer[v]: the thread that opened v's log last
    written,     \* tenants whose log was written to its end
    reporter,    \* the reporter thread
    quiet,       \* Reporter::finished
    finished,    \* SystemState::finished
    failed,      \* SystemState::failed
    failures     \* bound: lost connections and refused switches so far

start == <<started, initialised, scanned, waiter>>
links == <<linked, connected, ever, failures>>
flags == <<done, tested, finished, failed>>
threads == <<at, pos>>
passes == <<broken, second>>
stopping == <<told, passes, joiner, mutex>>
logs == <<writer, written>>
report == <<reporter, quiet>>
vars == <<main, start, links, flags, threads, stopping, logs, report>>

Tenants == 1 .. NumTenants
Sender(v) == <<"sender", v>>
EventLoop(v) == <<"loop", v>>
Senders == {Sender(v) : v \in Tenants}
Loops == {EventLoop(v) : v \in Tenants}
Threads == Senders \union Loops

Init ==
    /\ main = "start" /\ started = {} /\ initialised = FALSE
    /\ scanned = {} /\ waiter = "off"
    /\ linked = {} /\ connected = {} /\ ever = {} /\ failures = 0
    /\ done = {} /\ tested = {} /\ finished = FALSE /\ failed = FALSE
    /\ at = [t \in Threads |-> "off"] /\ pos = [t \in Threads |-> 1]
    /\ told = {} /\ broken = {} /\ second = {}
    /\ joiner = [v \in Tenants |-> {}] /\ mutex = {}
    /\ writer = [v \in Tenants |-> {}] /\ written = {}
    /\ reporter = "off" /\ quiet = FALSE

\* The process runs until main returns or a thread crashes.
Alive == main \in {"start", "poll"}

Goto(t, where) == at' = [at EXCEPT ![t] = where]

-----------------------------------------------------------------------------
(* Perfbench::start, by the main thread.                                   *)

\* Tenant::start: the controller accepts connections from here on.
StartTenant(v) ==
    /\ main = "start" /\ started = 1 .. v - 1
    /\ started' = started \union {v}
    /\ Goto(EventLoop(v), "starting")
    /\ UNCHANGED <<main, initialised, scanned, waiter, links, flags, pos,
                   stopping, logs, report>>

\* Reporter::init, and SystemState::init: from here on TenantFailed has a
\* listener, and the waiter runs.
InitSystem ==
    /\ main = "start" /\ started = Tenants
    /\ main' = "poll" /\ initialised' = TRUE /\ waiter' = "scan"
    /\ UNCHANGED <<started, scanned, links, flags, threads, stopping, logs,
                   report>>

\* One look at the outcome per second, until the hard timeout.
Poll ==
    /\ main = "poll"
    /\ \/ finished /\ main' = "finished"
       \/ ~finished /\ failed /\ main' = "failed"
    /\ UNCHANGED <<start, links, flags, threads, stopping, logs, report>>

HardTimeout ==
    /\ main = "poll"
    /\ main' = "timeout"
    /\ UNCHANGED <<start, links, flags, threads, stopping, logs, report>>

-----------------------------------------------------------------------------
(* wait_for_tenants_to_connect and all_tenants_connected, by the waiter.   *)

\* The tenant the pass looks at next.
NextScanned == Cardinality(scanned) + 1

\* Slip: without the break, only the last tenant counts.
ScanConnected_NoBreak ==
    /\ Alive /\ waiter = "scan" /\ scanned # Tenants
    /\ scanned' = IF NextScanned \in connected \/ NextScanned # NumTenants
                  THEN scanned \union {NextScanned} ELSE {}
    /\ UNCHANGED <<main, started, initialised, waiter, links, flags, threads,
                   stopping, logs, report>>

\* One look at Tenant::connected; a tenant that is not connected ends the
\* pass.
ScanConnected ==
    /\ Alive /\ waiter = "scan" /\ scanned # Tenants
    /\ scanned' = IF NextScanned \in connected
                  THEN scanned \union {NextScanned} ELSE {}
    /\ UNCHANGED <<main, started, initialised, waiter, links, flags, threads,
                   stopping, logs, report>>

\* AllTenantsConnected starts the reporter.
AllConnected ==
    /\ Alive /\ waiter = "scan" /\ scanned = Tenants
    /\ waiter' = "launch" /\ reporter' = "on"
    /\ UNCHANGED <<main, started, initialised, scanned, links, flags, threads,
                   stopping, logs, quiet>>

\* Reset v's counter and start its sender.
LaunchSender(v) ==
    /\ Alive /\ waiter = "launch"
    /\ at[Sender(v)] = "off" /\ \A u \in 1 .. v - 1 : at[Sender(u)] # "off"
    /\ Goto(Sender(v), "head")
    /\ waiter' = IF v = NumTenants THEN "ended" ELSE "launch"
    /\ UNCHANGED <<main, started, initialised, scanned, links, flags, pos,
                   stopping, logs, report>>

\* report_loop: live and file reports, then the end of the interval (module
\* Counter), until Reporter::finished.
ReporterEnds ==
    /\ Alive /\ reporter = "on" /\ quiet
    /\ reporter' = "ended"
    /\ UNCHANGED <<main, start, links, flags, threads, stopping, logs, quiet>>

-----------------------------------------------------------------------------
(* The sender thread of tenant v: PacketDispatcher::send_loop.             *)

Burst(v) ==
    /\ Alive /\ at[Sender(v)] = "head" /\ v \notin tested
    /\ Goto(Sender(v), "burst")
    /\ UNCHANGED <<main, start, links, flags, pos, stopping, logs, report>>

BurstSent(v) ==
    /\ Alive /\ at[Sender(v)] = "burst"
    /\ Goto(Sender(v), "head")
    /\ UNCHANGED <<main, start, links, flags, pos, stopping, logs, report>>

\* while (!testcase->finished): the testcase was finished by another thread.
LeaveLoop(v) ==
    /\ Alive /\ at[Sender(v)] = "head" /\ v \in tested
    /\ Goto(Sender(v), "ended")
    /\ UNCHANGED <<main, start, links, flags, pos, stopping, logs, report>>

\* Slip: the tenant is not marked finished.
LimitReached_Forgets(v) ==
    /\ Alive /\ at[Sender(v)] = "head" /\ v \notin tested
    /\ Goto(Sender(v), "scan")
    /\ UNCHANGED <<main, start, links, flags, pos, stopping, logs, report>>

\* limit_reached, finish_requesting and Tenant::testcase_finished.
LimitReached(v) ==
    /\ Alive /\ at[Sender(v)] = "head" /\ v \notin tested
    /\ done' = done \union {v}
    /\ Goto(Sender(v), "scan")
    /\ UNCHANGED <<main, start, links, tested, finished, failed, pos,
                   stopping, logs, report>>

\* Slip: the last tenant is not looked at.
ScanFinished_StopsEarly(t) ==
    /\ Alive /\ at[t] = "scan" /\ pos[t] <= NumTenants
    /\ \/ /\ pos[t] \in done \/ pos[t] = NumTenants
          /\ pos' = [pos EXCEPT ![t] = @ + 1]
          /\ UNCHANGED at
       \/ /\ pos[t] \notin done /\ pos[t] # NumTenants
          /\ Goto(t, "ended")
          /\ UNCHANGED pos
    /\ UNCHANGED <<main, start, links, flags, stopping, logs, report>>

\* SystemState::tenant_finished looks at one tenant after the other, and
\* returns when one has not finished.
ScanFinished(t) ==
    /\ Alive /\ at[t] = "scan" /\ pos[t] <= NumTenants
    /\ \/ /\ pos[t] \in done
          /\ pos' = [pos EXCEPT ![t] = @ + 1]
          /\ UNCHANGED at
       \/ /\ pos[t] \notin done
          /\ Goto(t, "ended")
          /\ UNCHANGED pos
    /\ UNCHANGED <<main, start, links, flags, stopping, logs, report>>

\* Slip: all_tenants_finished takes sys_mutex too.
AllFinished_Locks(t) ==
    /\ Alive /\ at[t] = "scan" /\ pos[t] > NumTenants /\ mutex = {}
    /\ quiet' = TRUE /\ mutex' = {t}
    /\ Goto(t, "stop") /\ pos' = [pos EXCEPT ![t] = 1]
    /\ UNCHANGED <<main, start, links, flags, told, passes, joiner, logs,
                   reporter>>

\* all_tenants_finished: AllTenantsFinished ends the reports; then cooldown
\* and stop_tenants.
AllFinished(t) ==
    /\ Alive /\ at[t] = "scan" /\ pos[t] > NumTenants
    /\ quiet' = TRUE
    /\ Goto(t, "stop") /\ pos' = [pos EXCEPT ![t] = 1]
    /\ UNCHANGED <<main, start, links, flags, stopping, logs, reporter>>

-----------------------------------------------------------------------------
(* The event-loop thread of tenant v.                                      *)

\* EventLoop::run begins.  It returns when EventLoop::stopped was set before
\* it looked; otherwise the first pass begins and forgets a break that came
\* after that look.
RunLoop(v) ==
    /\ Alive /\ at[EventLoop(v)] = "starting"
    /\ \/ /\ v \in broken
          /\ Goto(EventLoop(v), "ended")
          /\ UNCHANGED broken
       \/ /\ Goto(EventLoop(v), "idle")
          /\ broken' = broken \ {v}
    /\ UNCHANGED <<main, start, links, flags, pos, told, second, joiner, mutex,
                   logs, report>>

\* The first pass ends, on a break or when the closed listener and the closed
\* connections leave no event; the second pass forgets the break.
LeaveFirst(v) ==
    /\ Alive /\ at[EventLoop(v)] = "idle" /\ v \notin second
    /\ v \in broken \/ v \in told
    /\ second' = second \union {v} /\ broken' = broken \ {v}
    /\ UNCHANGED <<main, start, links, flags, threads, told, joiner, mutex,
                   logs, report>>

\* The second pass ends on a break only, and with it EventLoop::run.
LeaveSecond(v) ==
    /\ Alive /\ at[EventLoop(v)] = "idle" /\ v \in second /\ v \in broken
    /\ Goto(EventLoop(v), "ended")
    /\ UNCHANGED <<main, start, links, flags, pos, stopping, logs, report>>

\* A callback may begin.
Ready(v) == Alive /\ at[EventLoop(v)] = "idle" /\ v \notin broken

\* A handshake completes and the testcase accepts the switch.
Connect(v) ==
    /\ Ready(v) /\ v \notin linked
    /\ linked' = linked \union {v}
    /\ connected' = connected \union {v} /\ ever' = ever \union {v}
    /\ UNCHANGED <<main, start, failures, flags, threads, stopping, logs,
                   report>>

\* The testcase refuses a switch with too few ports and calls
\* SystemState::tenant_failed itself.
Refuse(v) ==
    /\ Ready(v) /\ v \notin linked
    /\ failures < MaxFailures /\ failures' = failures + 1
    /\ linked' = linked \union {v}
    /\ Goto(EventLoop(v), "lock")
    /\ UNCHANGED <<main, start, connected, ever, flags, pos, stopping, logs,
                   report>>

\* The switch is gone.  Nobody listens to TenantFailed before
\* SystemState::init.
Disconnect(v) ==
    /\ Ready(v) /\ v \in linked
    /\ failures < MaxFailures /\ failures' = failures + 1
    /\ linked' = linked \ {v} /\ connected' = connected \ {v}
    /\ at' = [at EXCEPT ![EventLoop(v)] = IF initialised THEN "lock" ELSE @]
    /\ UNCHANGED <<main, start, ever, flags, pos, stopping, logs, report>>

\* Slip: the run is called failed before the testcases are finished.
LockSystem_FailsFirst(t) ==
    /\ Alive /\ at[t] = "lock" /\ mutex = {}
    /\ mutex' = {t} /\ failed' = TRUE
    /\ Goto(t, "stop") /\ pos' = [pos EXCEPT ![t] = 1]
    /\ UNCHANGED <<main, start, links, done, tested, finished, told, passes,
                   joiner, logs, report>>

\* Slip: sys_mutex is not waited for.
LockSystem_Free(t) ==
    /\ Alive /\ at[t] = "lock"
    /\ mutex' = mutex \union {t}
    /\ Goto(t, "stop") /\ pos' = [pos EXCEPT ![t] = 1]
    /\ UNCHANGED <<main, start, links, flags, told, passes, joiner, logs,
                   report>>

\* SystemState::tenant_failed takes sys_mutex.
LockSystem(t) ==
    /\ Alive /\ at[t] = "lock" /\ mutex = {}
    /\ mutex' = mutex \union {t}
    /\ Goto(t, "stop") /\ pos' = [pos EXCEPT ![t] = 1]
    /\ UNCHANGED <<main, start, links, flags, told, passes, joiner, logs,
                   report>>

-----------------------------------------------------------------------------
(* BaseTestCase::finish of every tenant in turn, by a sender that found    *)
(* all tenants finished or by an event loop that lost its switch.          *)

\* Controller::stop up to the break: the connections are swept and the
\* listener is disabled.  A tenant that main has not started yet has no
\* controller.
StopController(t) ==
    /\ Alive /\ at[t] = "stop" /\ pos[t] <= NumTenants
    /\ \/ /\ pos[t] \in started
          /\ told' = told \union {pos[t]}
          /\ Goto(t, "break")
          /\ UNCHANGED main
       \/ /\ pos[t] \notin started
          /\ main' = "crashed"
          /\ UNCHANGED <<told, at>>
    /\ UNCHANGED <<start, links, flags, pos, passes, joiner, mutex, logs,
                   report>>

\* EventLoop::stop.
BreakLoop(t) ==
    /\ Alive /\ at[t] = "break"
    /\ broken' = broken \union {pos[t]}
    /\ Goto(t, "join")
    /\ UNCHANGED <<main, start, links, flags, pos, told, second, joiner, mutex,
                   logs, report>>

\* pthread_join fails at once on the caller itself and on a thread that
\* another one has joined.
JoinFails(t) ==
    /\ Alive /\ at[t] = "join"
    /\ t = EventLoop(pos[t]) \/ joiner[pos[t]] # {}
    /\ Goto(t, "open")
    /\ UNCHANGED <<main, start, links, flags, pos, stopping, logs, report>>

\* The first other thread to join waits until the loop thread has ended.
JoinWaits(t) ==
    /\ Alive /\ at[t] = "join"
    /\ t # EventLoop(pos[t]) /\ joiner[pos[t]] = {}
    /\ joiner' = [joiner EXCEPT ![pos[t]] = {t}]
    /\ Goto(t, "wait")
    /\ UNCHANGED <<main, start, links, flags, pos, told, passes, mutex, logs,
                   report>>

JoinReturns(t) ==
    /\ Alive /\ at[t] = "wait" /\ at[EventLoop(pos[t])] = "ended"
    /\ Goto(t, "open")
    /\ UNCHANGED <<main, start, links, flags, pos, stopping, logs, report>>

\* write_logfile opens the file and empties it.
OpenLog(t) ==
    /\ Alive /\ at[t] = "open"
    /\ writer' = [writer EXCEPT ![pos[t]] = {t}]
    /\ Goto(t, "write")
    /\ UNCHANGED <<main, start, links, flags, pos, stopping, written, report>>

\* The log is written and closed, and the testcase finished.  What t wrote
\* is the whole log unless another thread emptied the file meanwhile.
CloseLog(t) ==
    /\ Alive /\ at[t] = "write"
    /\ written' = IF t \in writer[pos[t]] THEN written \union {pos[t]}
                  ELSE written
    /\ writer' = [writer EXCEPT ![pos[t]] = @ \ {t}]
    /\ tested' = tested \union {pos[t]}
    /\ Goto(t, "stop") /\ pos' = [pos EXCEPT ![t] = @ + 1]
    /\ UNCHANGED <<main, start, links, done, finished, failed, stopping,
                   report>>

\* Every tenant is stopped: the run is finished, or failed.
Conclude(t) ==
    /\ Alive /\ at[t] = "stop" /\ pos[t] > NumTenants
    /\ \/ /\ t \in Senders
          /\ finished' = TRUE
          /\ Goto(t, "ended")
          /\ UNCHANGED failed
       \/ /\ t \in Loops
          /\ failed' = TRUE
          /\ Goto(t, "idle")
          /\ UNCHANGED finished
    /\ mutex' = mutex \ {t}
    /\ UNCHANGED <<main, start, links, done, tested, pos, told, passes, joiner,
                   logs, report>>

-----------------------------------------------------------------------------
WaiterStep == ScanConnected \/ AllConnected \/ \E v \in Tenants : LaunchSender(v)

FinishStep(t) ==
    \/ StopController(t) \/ BreakLoop(t)
    \/ JoinFails(t) \/ JoinWaits(t) \/ JoinReturns(t)
    \/ OpenLog(t) \/ CloseLog(t) \/ Conclude(t)

SenderStep(v) ==
    \/ BurstSent(v) \/ LeaveLoop(v)
    \/ ScanFinished(Sender(v)) \/ AllFinished(Sender(v))
    \/ FinishStep(Sender(v))

LoopStep(v) ==
    \/ RunLoop(v) \/ (v \in broken /\ LeaveFirst(v)) \/ LeaveSecond(v)
    \/ LockSystem(EventLoop(v)) \/ FinishStep(EventLoop(v))

Next ==
    \/ InitSystem \/ Poll \/ HardTimeout \/ WaiterStep \/ ReporterEnds
    \/ \E v \in Tenants :
          \/ StartTenant(v)
          \/ Burst(v) \/ LimitReached(v) \/ SenderStep(v)
          \/ Connect(v) \/ Refuse(v) \/ Disconnect(v)
          \/ LeaveFirst(v) \/ LoopStep(v)

\* Every thread is scheduled, and a run has an end condition, which every
\* sender meets in the end.  Switches and the hard timeout owe nothing, and a
\* loop without a break need not run out of events.
Fairness ==
    /\ WF_vars(Poll) /\ WF_vars(WaiterStep) /\ WF_vars(ReporterEnds)
    /\ \A v \in Tenants :
          /\ WF_vars(SenderStep(v)) /\ SF_vars(LimitReached(v))
          /\ WF_vars(LoopStep(v))

Spec == Init /\ [][Next]_vars
FairSpec == Spec /\ Fairness

-----------------------------------------------------------------------------
(* Properties.                                                             *)

\* Every variable stays in its type, and sys_mutex has one holder.
TypeOK ==
    /\ main \in {"start", "poll", "finished", "failed", "timeout", "crashed"}
    /\ started \subseteq Tenants /\ initialised \in BOOLEAN
    /\ scanned \subseteq Tenants
    /\ waiter \in {"off", "scan", "launch", "ended"}
    /\ linked \subseteq Tenants /\ connected \subseteq Tenants
    /\ ever \subseteq Tenants /\ failures \in 0 .. MaxFailures
    /\ done \subseteq Tenants /\ tested \subseteq Tenants
    /\ finished \in BOOLEAN /\ failed \in BOOLEAN
    /\ at \in [Threads -> {"off", "starting", "idle", "head", "burst", "scan",
                            "lock", "stop", "break", "join", "wait", "open",
                            "write", "ended"}]
    /\ pos \in [Threads -> 1 .. NumTenants + 1]
    /\ told \subseteq Tenants /\ broken \subseteq Tenants
    /\ second \subseteq Tenants /\ joiner \in [Tenants -> SUBSET Threads]
    /\ \E t \in Threads : mutex \subseteq {t}
    /\ writer \in [Tenants -> SUBSET Threads] /\ written \subseteq Tenants
    /\ reporter \in {"off", "on", "ended"} /\ quiet \in BOOLEAN

\* Nobody sends before every tenant has been connected, although the waiter
\* reads the tenants' flags one by one while connections come and go.
RunStartsConnected ==
    (\E v \in Tenants : at[Sender(v)] # "off") => ever = Tenants

\* In a run without a failure no tenant's controller is stopped and no log is
\* begun while any tenant still sends: the thread that finishes the run
\* decides so from flags it reads one by one.
StoppedAfterLastRequest ==
    failures = 0 /\ told # {} =>
       \A v \in Tenants : at[Sender(v)] \notin {"off", "head", "burst"}

\* When main ends on SystemState::finished or failed, every testcase has been
\* finished, and every log was written to its end or is being rewritten by
\* another thread.
OutcomeHasLogs ==
    main \in {"finished", "failed"} =>
       /\ tested = Tenants
       /\ \A v \in Tenants : v \in written \/ writer[v] # {}

\* A thread waits for a loop thread that runs a pass with no break to end it:
\* the first pass used the break up.
BreakLost ==
    \E v \in Tenants, t \in Threads :
       /\ at[t] = "wait" /\ pos[t] = v
       /\ at[EventLoop(v)] = "idle" /\ v \notin broken

\* Of the senders that find their limit reached at the same time, one sees
\* that all have: without failures every run that starts does finish, unless
\* the stop of a controller waits for good after a lost break.
RunFinishes ==
    (\A v \in Tenants : at[Sender(v)] # "off") ~>
       (finished \/ failures > 0 \/ ~Alive \/ []BreakLost)

\* A failure that a tenant reports while no other tenant fails marks the run
\* failed, also when it comes while the senders finish the run, unless a stop
\* waits for good after a lost break.
LoneFailureReported ==
    (failures = 1 /\ \E v \in Tenants : at[EventLoop(v)] = "lock") ~>
       (failed \/ failures > 1 \/ ~Alive \/ []BreakLost)

\* systemstate.h says of `failed` "System failed (e.g. a tenant failed)": a
\* failure that a tenant reports marks the run failed.  The runs that a lost
\* break keeps waiting are left out here, they are OFServer's finding.
FailureReported ==
    (\E v \in Tenants : at[EventLoop(v)] = "lock") ~>
       (failed \/ ~Alive \/ []BreakLost)

\* README.md says "Perfbench logs the transmitted/received (tx/rx) OpenFlow
\* packets timestamps, type, XID and size in a file after each run": when the
\* run has finished, the logs are whole.
LogsWholeAtEnd ==
    main = "finished" => written = Tenants /\ \A v \in Tenants : writer[v] = {}
=============================================================================
