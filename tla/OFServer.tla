------------------------------ MODULE OFServer ------------------------------
(***************************************************************************)
(* One controller endpoint of a tenant: the event loop and its thread      *)
(* (base/EventLoop.cc), the listener and the connections it serves         *)
(* (base/BaseOFServer.cc, base/BaseOFConnection.cc), the OFConnection      *)
(* objects handed to the benchmark (OFConnection.cc, OFServer.cc), and     *)
(* the threads that stop the endpoint or send through it.                  *)
(* BaseTestCase::start_controller asks for one event loop, so there is one *)
(* loop thread, which runs every callback.                                 *)
(*                                                                         *)
(* libevent is external.  What matters of it here: event_base_loop clears  *)
(* the break flag when it is entered, runs one callback at a time, leaves  *)
(* when the flag is set and, without EVLOOP_NO_EXIT_ON_EMPTY, also when no *)
(* event is left.                                                          *)
(***************************************************************************)
EXTENDS Integers, Sequences, FiniteSets

CONSTANTS
    Conns,      \* connections that may be accepted
    Stoppers,   \* the other threads that call Controller::stop: dispatchers
                \* that finish, or the loops of other tenants
    Loop,       \* the loop thread
    Sender,     \* the tenant's packet dispatcher, which sends and may then
                \* be one of the threads that stop
    DownStops,  \* TRUE: the report of a lost connection may stop this endpoint
    MaxTimer    \* bound: liveness timers that fire in a run

ASSUME OFServerAssumption ==
    /\ Loop # Sender /\ Loop \notin Stoppers
    /\ DownStops \in BOOLEAN
    /\ MaxTimer \in Nat

VARIABLES
    phase,      \* where EventLoop::run is
    stopped,    \* EventLoop::stopped
    broken,     \* libevent's break flag
    breaks,     \* history: number of loop breaks, up to MaxBreaks
    listening,  \* the listener is enabled
    conn,       \* conn[c]: the BaseOFConnection and its close event
    link,       \* link[c]: OFConnection::conn is not NULL
    hup,        \* hup[c]: the peer is "up", "gone", or EVENT_DOWN has "told"
    alive,      \* OFConnection::alive
    timers,     \* bound: liveness timers fired so far
    todo,       \* steps the callback in progress has left
    subject,    \* the connection of that callback
    pc,         \* pc[t]: where thread t is in Controller::stop
    holder,     \* {t}: t holds ofconnections_lock
    left,       \* connections the holder's sweep has not closed yet
    joiner,     \* {t}: t was the first to join the loop thread
    doing,      \* doing[t]: t is inside OFConnection::close or send
    target,     \* target[t]: on that connection
    crashed     \* a NULL or freed connection was used

loop == <<phase, stopped, broken, breaks, listening>>
conns == <<conn, link, hup, alive, timers>>
job == <<todo, subject>>
stop == <<pc, holder, left, joiner>>
calls == <<doing, target, crashed>>
vars == <<loop, conns, job, stop, calls>>

Threads == Stoppers \union {Loop, Sender}
Accepted == {c \in Conns : conn[c] # "none"}

Init ==
    /\ phase = "new" /\ stopped = FALSE /\ broken = FALSE /\ breaks = 0
    /\ listening = TRUE
    /\ conn = [c \in Conns |-> "none"] /\ link = [c \in Conns |-> FALSE]
    /\ hup = [c \in Conns |-> "up"] /\ alive = [c \in Conns |-> TRUE]
    /\ timers = 0
    /\ todo = <<>> /\ subject = {}
    /\ pc = [t \in Threads |-> "idle"] /\ holder = {} /\ left = {}
    /\ joiner = {}
    /\ doing = [t \in Threads |-> "none"] /\ target = [t \in Threads |-> {}]
    /\ crashed = FALSE

-----------------------------------------------------------------------------
(* EventLoop::run: event_base_dispatch, then event_base_loop with          *)
(* EVLOOP_NO_EXIT_ON_EMPTY.                                                *)

\* No event is registered: the listener is off, no connection has a socket
\* or a timer.
NoEvents == ~listening /\ \A c \in Conns : conn[c] \in {"none", "freed"}

\* No callback is in progress.
Idle ==
    /\ ~crashed /\ phase \in {"first", "second"}
    /\ todo = <<>> /\ doing[Loop] = "none" /\ pc[Loop] = "idle"

\* The test of `stopped`, once.
StartRun ==
    /\ ~crashed /\ phase = "new"
    /\ phase' = IF stopped THEN "returned" ELSE "entering"
    /\ UNCHANGED <<stopped, broken, breaks, listening, conns, job, stop, calls>>

EnterFirst ==
    /\ ~crashed /\ phase = "entering"
    /\ phase' = "first" /\ broken' = FALSE
    /\ UNCHANGED <<stopped, breaks, listening, conns, job, stop, calls>>

LeaveFirst ==
    /\ phase = "first" /\ Idle
    /\ broken \/ NoEvents
    /\ phase' = "between"
    /\ UNCHANGED <<stopped, broken, breaks, listening, conns, job, stop, calls>>

EnterSecond ==
    /\ ~crashed /\ phase = "between"
    /\ phase' = "second" /\ broken' = FALSE
    /\ UNCHANGED <<stopped, breaks, listening, conns, job, stop, calls>>

\* Slip: a second pass that does not block.
LeaveSecond_NonBlocking ==
    /\ phase = "second" /\ Idle
    /\ \A c \in Conns : conn[c] # "closing"
    /\ phase' = "returned"
    /\ UNCHANGED <<stopped, broken, breaks, listening, conns, job, stop, calls>>

LeaveSecond ==
    /\ phase = "second" /\ Idle
    /\ broken
    /\ phase' = "returned"
    /\ UNCHANGED <<stopped, broken, breaks, listening, conns, job, stop, calls>>

-----------------------------------------------------------------------------
(* OFConnection::close and OFConnection::send: a NULL check, then a use of *)
(* the pointer.  close() clears the pointer after it has activated the     *)
(* close event.  No lock covers the steps.                                 *)

\* t passes the NULL check of close() or send() on c.
Pass(t, what, c) ==
    /\ doing' = [doing EXCEPT ![t] = what]
    /\ target' = [target EXCEPT ![t] = {c}]

\* The pointer is still good when it is used.
Usable(c) == link[c] /\ conn[c] \in {"open", "closing"}

Crash(t) ==
    /\ \E c \in target[t] : ~Usable(c)
    /\ crashed' = TRUE
    /\ UNCHANGED <<loop, conns, job, stop, doing, target>>

\* Slip: the close event is not activated, the pointer only forgotten.
ActivateClose_Forgets(t) ==
    /\ ~crashed /\ doing[t] = "close"
    /\ doing' = [doing EXCEPT ![t] = "closed"]
    /\ UNCHANGED <<loop, conns, job, stop, target, crashed>>

\* conn->close(): event_active(close_event).
ActivateClose(t) ==
    /\ ~crashed /\ doing[t] = "close"
    /\ \/ Crash(t)
       \/ \E c \in target[t] :
             /\ Usable(c)
             /\ conn' = [conn EXCEPT ![c] = "closing"]
             /\ doing' = [doing EXCEPT ![t] = "closed"]
             /\ UNCHANGED <<loop, link, hup, alive, timers, job,
                            stop, target, crashed>>

\* conn = NULL, and close() returns.
ClearPointer(t) ==
    /\ ~crashed /\ doing[t] = "closed"
    /\ link' = [c \in Conns |-> link[c] /\ c \notin target[t]]
    /\ doing' = [doing EXCEPT ![t] = "none"]
    /\ target' = [target EXCEPT ![t] = {}]
    /\ UNCHANGED <<loop, conn, hup, alive, timers, job, stop, crashed>>

\* conn->send(): bufferevent_write.
Write(t) ==
    /\ ~crashed /\ doing[t] = "send"
    /\ \/ Crash(t)
       \/ /\ \E c \in target[t] : Usable(c)
          /\ doing' = [doing EXCEPT ![t] = "none"]
          /\ target' = [target EXCEPT ![t] = {}]
          /\ UNCHANGED <<loop, conns, job, stop, crashed>>

\* The packet dispatcher sends to a connection of ctrl->conns, closed ones
\* included: connections never leave that list.
SenderSends(c) ==
    /\ ~crashed /\ doing[Sender] = "none" /\ pc[Sender] = "idle"
    /\ c \in Accepted /\ link[c]
    /\ Pass(Sender, "send", c)
    /\ UNCHANGED <<loop, conns, job, stop, crashed>>

-----------------------------------------------------------------------------
(* Callbacks of the loop thread.  A break set during a callback is         *)
(* honoured when the callback ends.                                        *)

Ready == Idle /\ ~broken

\* conn_accept_cb, the BaseOFConnection constructor and EVENT_UP: the
\* OFConnection enters the map under the lock.
Accept(c) ==
    /\ Ready /\ listening /\ conn[c] = "none" /\ holder = {}
    /\ conn' = [conn EXCEPT ![c] = "open"]
    /\ link' = [link EXCEPT ![c] = TRUE]
    /\ UNCHANGED <<loop, hup, alive, timers, job, stop, calls>>

\* The peer resets or closes the connection (external).
Hangup(c) ==
    /\ ~crashed /\ conn[c] \in {"open", "closing"} /\ hup[c] = "up"
    /\ hup' = [hup EXCEPT ![c] = "gone"]
    /\ UNCHANGED <<loop, conn, link, alive, timers, job, stop, calls>>

\* Slip: the handler of EVENT_DOWN leaves the connection open.
Down_LeavesOpen(c) ==
    /\ Ready /\ conn[c] \in {"open", "closing"} /\ hup[c] = "gone" /\ holder = {}
    /\ hup' = [hup EXCEPT ![c] = "told"]
    /\ todo' = <<"report">> /\ subject' = {c}
    /\ UNCHANGED <<loop, conn, link, alive, timers, stop, calls>>

\* event_cb and EVENT_DOWN: look the OFConnection up under the lock, report,
\* close.
Down(c) ==
    /\ Ready /\ conn[c] \in {"open", "closing"} /\ hup[c] = "gone" /\ holder = {}
    /\ hup' = [hup EXCEPT ![c] = "told"]
    /\ todo' = <<"report", "close">> /\ subject' = {c}
    /\ UNCHANGED <<loop, conn, link, alive, timers, stop, calls>>

\* send_echo: no reply since the last request closes the connection and
\* reports it dead, otherwise a new request is sent.
EchoTimer(c) ==
    /\ Ready /\ conn[c] \in {"open", "closing"} /\ timers < MaxTimer
    /\ timers' = timers + 1
    /\ alive' = [alive EXCEPT ![c] = FALSE]
    /\ todo' = IF alive[c] THEN <<"send">> ELSE <<"close", "report">>
    /\ subject' = {c}
    /\ UNCHANGED <<loop, conn, link, hup, stop, calls>>

\* base_message_callback: the reply to a liveness request.
EchoReply(c) ==
    /\ Ready /\ conn[c] \in {"open", "closing"} /\ ~alive[c] /\ hup[c] # "told"
    /\ alive' = [alive EXCEPT ![c] = TRUE]
    /\ UNCHANGED <<loop, conn, link, hup, timers, job, stop, calls>>

\* close_cb, do_close and EVENT_CLOSED: the connection is deleted.
DoClose(c) ==
    /\ Ready /\ conn[c] = "closing"
    /\ conn' = [conn EXCEPT ![c] = "freed"]
    /\ UNCHANGED <<loop, link, hup, alive, timers, job, stop, calls>>

EndStep ==
    /\ todo' = Tail(todo)
    /\ subject' = IF Len(todo) = 1 THEN {} ELSE subject

\* A step of the callback in progress: the NULL check of close() or send().
StepCall(what) ==
    /\ ~crashed /\ todo # <<>> /\ doing[Loop] = "none" /\ pc[Loop] = "idle"
    /\ Head(todo) = what
    /\ EndStep
    /\ \/ \E c \in subject : link[c] /\ Pass(Loop, what, c)
       \/ \E c \in subject : ~link[c] /\ UNCHANGED <<doing, target>>
    /\ UNCHANGED <<loop, conns, stop, crashed>>

\* A step of the callback in progress: CTRL_CONN_DOWN is dispatched.  Once
\* SystemState listens to TenantFailed, that stops this endpoint from its own
\* thread.
StepReport ==
    /\ ~crashed /\ todo # <<>> /\ doing[Loop] = "none" /\ pc[Loop] = "idle"
    /\ Head(todo) = "report"
    /\ EndStep
    /\ \/ DownStops /\ pc' = [pc EXCEPT ![Loop] = "lock"]
       \/ UNCHANGED pc
    /\ UNCHANGED <<loop, conns, holder, left, joiner, calls>>

-----------------------------------------------------------------------------
(* Controller::stop, OFServer::stop and BaseOFServer::stop by thread t.    *)

StopCalled(t) ==
    /\ ~crashed /\ pc[t] = "idle" /\ doing[t] = "none"
    /\ pc' = [pc EXCEPT ![t] = "lock"]
    /\ UNCHANGED <<loop, conns, job, holder, left, joiner, calls>>

\* Slip: the connections are swept without the lock.
LockConns_Free(t) ==
    /\ ~crashed /\ pc[t] = "lock"
    /\ holder' = holder \union {t} /\ left' = Accepted
    /\ pc' = [pc EXCEPT ![t] = "sweep"]
    /\ UNCHANGED <<loop, conns, job, joiner, calls>>

LockConns(t) ==
    /\ ~crashed /\ pc[t] = "lock" /\ holder = {}
    /\ holder' = holder \union {t} /\ left' = Accepted
    /\ pc' = [pc EXCEPT ![t] = "sweep"]
    /\ UNCHANGED <<loop, conns, job, joiner, calls>>

\* The NULL check of close() on the next connection of the map.
SweepOne(t) ==
    /\ ~crashed /\ pc[t] = "sweep" /\ doing[t] = "none"
    /\ \E c \in left :
          /\ left' = left \ {c}
          /\ \/ link[c] /\ Pass(t, "close", c)
             \/ ~link[c] /\ UNCHANGED <<doing, target>>
    /\ UNCHANGED <<loop, conns, job, pc, holder, joiner, crashed>>

UnlockConns(t) ==
    /\ ~crashed /\ pc[t] = "sweep" /\ left = {} /\ doing[t] = "none"
    /\ holder' = holder \ {t}
    /\ pc' = [pc EXCEPT ![t] = "disable"]
    /\ UNCHANGED <<loop, conns, job, left, joiner, calls>>

DisableListener(t) ==
    /\ ~crashed /\ pc[t] = "disable"
    /\ listening' = FALSE
    /\ pc' = [pc EXCEPT ![t] = "break"]
    /\ UNCHANGED <<phase, stopped, broken, breaks, conns, job, holder, left,
                   joiner, calls>>

\* Bound: breaks after the second are not told apart.
MaxBreaks == 2
Counted(n) == IF n < MaxBreaks THEN n + 1 ELSE n

\* Slip: a loop that was stopped before is left alone.
BreakLoop_Once(t) ==
    /\ ~crashed /\ pc[t] = "break"
    /\ stopped' = TRUE
    /\ broken' = (broken \/ ~stopped)
    /\ breaks' = Counted(breaks)
    /\ pc' = [pc EXCEPT ![t] = "join"]
    /\ UNCHANGED <<phase, listening, conns, job, holder, left, joiner, calls>>

\* EventLoop::stop.
BreakLoop(t) ==
    /\ ~crashed /\ pc[t] = "break"
    /\ stopped' = TRUE /\ broken' = TRUE /\ breaks' = Counted(breaks)
    /\ pc' = [pc EXCEPT ![t] = "join"]
    /\ UNCHANGED <<phase, listening, conns, job, holder, left, joiner, calls>>

\* pthread_join of the loop thread fails at once on the loop thread itself
\* (EDEADLK) and when another thread has joined it before (EINVAL); its result
\* is not looked at and stop() returns.  The loop thread goes on with its
\* callback.
JoinFails(t) ==
    /\ ~crashed /\ pc[t] = "join"
    /\ t = Loop \/ joiner # {}
    /\ pc' = [pc EXCEPT ![t] = IF t = Loop THEN "idle" ELSE "done"]
    /\ UNCHANGED <<loop, conns, job, holder, left, joiner, calls>>

\* The first other thread to join the loop thread waits for it.
JoinWaits(t) ==
    /\ ~crashed /\ pc[t] = "join"
    /\ t # Loop /\ joiner = {}
    /\ joiner' = {t}
    /\ pc' = [pc EXCEPT ![t] = "wait"]
    /\ UNCHANGED <<loop, conns, job, holder, left, calls>>

\* Slip: the thread is not waited for.
JoinReturns_AtOnce(t) ==
    /\ ~crashed /\ pc[t] = "wait"
    /\ pc' = [pc EXCEPT ![t] = "done"]
    /\ UNCHANGED <<loop, conns, job, holder, left, joiner, calls>>

\* The loop thread has ended, and the join that waited returns.
JoinReturns(t) ==
    /\ ~crashed /\ pc[t] = "wait" /\ phase = "returned"
    /\ pc' = [pc EXCEPT ![t] = "done"]
    /\ UNCHANGED <<loop, conns, job, holder, left, joiner, calls>>

-----------------------------------------------------------------------------
RunStep == StartRun \/ EnterFirst \/ LeaveFirst \/ EnterSecond \/ LeaveSecond

StopStep(t) ==
    \/ LockConns(t) \/ SweepOne(t) \/ UnlockConns(t)
    \/ DisableListener(t) \/ BreakLoop(t)
    \/ JoinFails(t) \/ JoinWaits(t) \/ JoinReturns(t)

CallStep(t) == ActivateClose(t) \/ ClearPointer(t) \/ Write(t)

JobStep == StepCall("close") \/ StepCall("send") \/ StepReport

\* What a thread is in the middle of; the loop thread does one thing at a time.
ThreadStep(t) ==
    \/ StopStep(t)
    \/ CallStep(t)
    \/ t = Loop /\ (RunStep \/ JobStep)

Callback(c) == Accept(c) \/ Down(c) \/ EchoTimer(c) \/ EchoReply(c) \/ DoClose(c)

Next ==
    \/ \E c \in Conns : Callback(c) \/ Hangup(c) \/ SenderSends(c)
    \/ \E t \in Stoppers : StopCalled(t)
    \/ \E t \in Threads : ThreadStep(t)

\* Threads are scheduled and libevent runs what is due; nobody has to
\* connect, hang up, answer, send or stop.
Fairness ==
    /\ \A t \in Threads : WF_vars(ThreadStep(t))
    /\ \A c \in Conns : WF_vars(Down(c)) /\ WF_vars(DoClose(c))

Spec == Init /\ [][Next]_vars
FairSpec == Spec /\ Fairness

-----------------------------------------------------------------------------
(* Properties.                                                             *)

\* Every variable stays in its type, and ofconnections_lock has one holder.
TypeOK ==
    /\ phase \in {"new", "entering", "first", "between", "second", "returned"}
    /\ stopped \in BOOLEAN /\ broken \in BOOLEAN /\ breaks \in 0 .. MaxBreaks
    /\ listening \in BOOLEAN
    /\ conn \in [Conns -> {"none", "open", "closing", "freed"}]
    /\ link \in [Conns -> BOOLEAN]
    /\ hup \in [Conns -> {"up", "gone", "told"}]
    /\ alive \in [Conns -> BOOLEAN]
    /\ timers \in 0 .. MaxTimer
    /\ todo \in Seq({"report", "close", "send"})
    /\ subject \in SUBSET Conns
    /\ pc \in [Threads -> {"idle", "lock", "sweep", "disable", "break",
                            "join", "wait", "done"}]
    /\ \E t \in Threads : holder \subseteq {t}
    /\ left \subseteq Conns
    /\ joiner \subseteq Stoppers /\ (\A s, t \in joiner : s = t)
    /\ doing \in [Threads -> {"none", "close", "closed", "send"}]
    /\ target \in [Threads -> SUBSET Conns]
    /\ crashed \in BOOLEAN

\* The OFConnection and its BaseOFConnection part together: a pointer that
\* was cleared belongs to a connection that is being closed, so no socket is
\* left open behind it, and a pointer to a connection that is being closed
\* exists only while a thread is between the two statements of close().
LinkMatchesConnection ==
    \A c \in Accepted :
       /\ ~link[c] => conn[c] \in {"closing", "freed"}
       /\ link[c] /\ conn[c] # "open" =>
             \E t \in Threads : doing[t] = "closed" /\ c \in target[t]

\* A run() that returned after one stop() has nothing left to do: the
\* listener is off and every connection, one accepted after the sweep of
\* stop() included, has been deleted.
OneStopDrains == phase = "returned" /\ breaks <= 1 => NoEvents

\* When stop() has returned to the thread that was the first to join, no
\* callback runs any more, whatever another stop() that is still in its sweep
\* does: the counters the final report and the log file read are final.  (A
\* later stop() returns while callbacks run, see JoinFails.)
QuietAfterStop ==
    [][(\E t \in joiner : pc[t] = "done") =>
          /\ UNCHANGED <<alive, timers, todo>>
          /\ \A c \in Conns : conn'[c] \in {conn[c], "closing"}]_vars

\* The peer of c went away and c has not been deleted.
Lost(c) == conn[c] \in {"open", "closing"} /\ hup[c] # "up"

\* The connections whose peers went away are deleted while run() runs,
\* whatever stops, timers and sends come between.
HangupFreed ==
    (\E c \in Conns : Lost(c)) ~>
       ((\A c \in Conns : ~Lost(c)) \/ crashed \/ phase = "returned")

\* A stop() that begins once the second event_base_loop has been entered
\* does return, and so does every other stop() then in progress.
LateStopReturns ==
    (phase = "second" /\ \E t \in Stoppers : pc[t] = "lock") ~>
       ((\A t \in Stoppers : pc[t] \in {"idle", "done"}) \/ crashed)

\* EventLoop.hh says of run() "When EventLoop::stop is called, this method
\* will unblock, run the callbacks of pending events and return."
StopEndsRun == stopped ~> (phase = "returned" \/ crashed)
=============================================================================
