---------------------------- MODULE OFServerProofs ----------------------------
(***************************************************************************)
(* What OFServer guarantees for every set of connections, every set of     *)
(* stopping threads and any number of timers: types, the pairing of the    *)
(* two connection objects, the draining of the loop and the quiet after a  *)
(* stop.                                                                   *)
(***************************************************************************)
EXTENDS OFServer, SequenceTheorems, TLAPS

\* A thread works on at most one connection at a time, and close() clears
\* the pointer only of a connection whose close event was activated.
CallsConsistent ==
    \A t \in Threads :
       /\ \A c, d \in target[t] : c = d
       /\ doing[t] = "closed" =>
             \A c \in target[t] : conn[c] \in {"closing", "freed"}

\* The listener is off before the loop is broken.
BreakAfterDisable ==
    /\ stopped <=> breaks > 0
    /\ broken => breaks > 0
    /\ stopped => ~listening
    /\ \A t \in Threads : pc[t] = "break" => ~listening

\* Each pass of event_base_loop that returned used up a break, or found
\* nothing left to do.
PassesUseBreaks ==
    /\ phase \in {"new", "entering"} => \A c \in Conns : conn[c] = "none"
    /\ phase = "between" => breaks > 0 \/ NoEvents
    /\ phase = "second" => NoEvents \/ breaks > (IF broken THEN 1 ELSE 0)
    /\ phase = "returned" => NoEvents \/ breaks > 1

\* What each thread can be doing: the loop thread nothing once run() has
\* returned, a sender that never stops nothing of stop(), and the thread that
\* joins waits until run() has returned.
ThreadsKeepRoles ==
    /\ phase \in {"new", "entering", "between", "returned"} =>
          todo = <<>> /\ doing[Loop] = "none" /\ pc[Loop] = "idle"
    /\ Sender \notin Stoppers => pc[Sender] = "idle"
    /\ \A t \in joiner :
          pc[t] = "wait" \/ (pc[t] = "done" /\ phase = "returned")

Inv ==
    /\ TypeOK /\ CallsConsistent /\ LinkMatchesConnection
    /\ BreakAfterDisable /\ PassesUseBreaks /\ ThreadsKeepRoles

-----------------------------------------------------------------------------
(* Each conjunct of the invariant on its own.                              *)

LEMMA Roles ==
    /\ Loop \in Threads /\ Sender \in Threads /\ Loop # Sender
    /\ Stoppers \subseteq Threads
    /\ \A t \in Threads : t \in Stoppers \/ t = Loop \/ t = Sender
    /\ \A t \in Stoppers : t # Loop
BY OFServerAssumption DEF Threads

LEMMA Initially == Init => Inv
<1> SUFFICES ASSUME Init PROVE Inv
  OBVIOUS
<1>1. TypeOK
  <2>1. <<>> \in Seq({"report", "close", "send"}) /\ MaxTimer \in Nat
    BY OFServerAssumption
  <2>2. \E t \in Threads : {} \subseteq {t}
    BY Roles
  <2>3. /\ holder = {} /\ left = {}
        /\ \E t \in Threads : holder \subseteq {t}
    BY <2>2 DEF Init
  <2>4. /\ pc \in [Threads -> {"idle", "lock", "sweep", "disable", "break",
                                "join", "wait", "done"}]
        /\ doing \in [Threads -> {"none", "close", "closed", "send"}]
        /\ target \in [Threads -> SUBSET Conns]
    BY DEF Init
  <2>5. /\ conn \in [Conns -> {"none", "open", "closing", "freed"}]
        /\ link \in [Conns -> BOOLEAN]
        /\ hup \in [Conns -> {"up", "gone", "told"}]
        /\ alive \in [Conns -> BOOLEAN]
    BY DEF Init
  <2>6. todo \in Seq({"report", "close", "send"}) /\ timers \in 0 .. MaxTimer
    BY <2>1 DEF Init
  <2>7. breaks \in 0 .. MaxBreaks
    BY DEF Init, MaxBreaks
  <2> QED
    BY <2>3, <2>4, <2>5, <2>6, <2>7 DEF Init, TypeOK
<1>2. CallsConsistent /\ LinkMatchesConnection
  BY Roles DEF Init, CallsConsistent, LinkMatchesConnection, Accepted
<1>3. BreakAfterDisable /\ PassesUseBreaks /\ ThreadsKeepRoles
  BY Roles DEF Init, BreakAfterDisable, PassesUseBreaks, ThreadsKeepRoles
<1> QED
  BY <1>1, <1>2, <1>3 DEF Inv

\* The callback in progress has one step less.
LEMMA StepDone ==
    ASSUME TypeOK, todo # <<>>, EndStep
    PROVE  /\ todo' \in Seq({"report", "close", "send"})
           /\ subject' \in SUBSET Conns
BY HeadTailProperties DEF TypeOK, EndStep

\* The steps of the loop thread between callbacks.
LEMMA RunSafe ==
    ASSUME Inv, RunStep
    PROVE  Inv'
<1> USE DEF RunStep, StartRun, EnterFirst, LeaveFirst, EnterSecond, LeaveSecond
<1>1. TypeOK'
  BY DEF Inv, TypeOK, conns, job, stop, calls
<1>2. CallsConsistent' /\ LinkMatchesConnection'
  BY DEF Inv, CallsConsistent, LinkMatchesConnection, Accepted, conns, calls
<1>3. BreakAfterDisable'
  BY DEF Inv, BreakAfterDisable, stop
<1>4. NoEvents' <=> NoEvents
  BY DEF NoEvents, conns
<1>5. PassesUseBreaks'
  <2>1. breaks \in 0 .. 2 /\ breaks' = breaks
    BY DEF Inv, TypeOK, MaxBreaks
  <2>2. CASE StartRun
    <3>1. \A c \in Conns : conn[c] = "none"
      BY <2>2 DEF Inv, PassesUseBreaks
    <3>2. stopped => NoEvents
      BY <3>1 DEF Inv, BreakAfterDisable, NoEvents
    <3> QED
      BY <1>4, <2>2, <3>1, <3>2 DEF PassesUseBreaks, conns
  <2>3. CASE EnterFirst
    BY <2>3 DEF PassesUseBreaks
  <2>4. CASE LeaveFirst
    BY <1>4, <2>1, <2>4 DEF Inv, PassesUseBreaks, BreakAfterDisable
  <2>5. CASE EnterSecond
    BY <1>4, <2>1, <2>5 DEF Inv, PassesUseBreaks
  <2>6. CASE LeaveSecond
    BY <1>4, <2>1, <2>6 DEF Inv, PassesUseBreaks
  <2> HIDE DEF StartRun, EnterFirst, LeaveFirst, EnterSecond, LeaveSecond
  <2> QED
    BY <2>2, <2>3, <2>4, <2>5, <2>6
<1>6. ThreadsKeepRoles'
  BY DEF Inv, ThreadsKeepRoles, Idle, job, stop, calls
<1> QED
  BY <1>1, <1>2, <1>3, <1>5, <1>6 DEF Inv

\* Steps that change neither the loop's passes nor any connection keep the
\* passes' share of the invariant.
LEMMA PassesKept ==
    ASSUME Inv, UNCHANGED <<phase, broken, breaks, listening, conn>>
    PROVE  PassesUseBreaks'
BY DEF Inv, PassesUseBreaks, NoEvents

LEMMA SendSafe ==
    ASSUME Inv, NEW c \in Conns, SenderSends(c)
    PROVE  Inv'
<1> USE DEF SenderSends, Pass
<1>1. TypeOK'
  BY Roles DEF Inv, TypeOK, loop, conns, job, stop
<1>2. doing' = [doing EXCEPT ![Sender] = "send"]
      /\ target' = [target EXCEPT ![Sender] = {c}]
      /\ doing \in [Threads -> {"none", "close", "closed", "send"}]
      /\ target \in [Threads -> SUBSET Conns]
      /\ doing[Sender] = "none"
  BY DEF Inv, TypeOK
<1>3. CallsConsistent'
  BY <1>2, Roles DEF Inv, CallsConsistent, conns
<1>4. LinkMatchesConnection'
  <2>1. \A t \in Threads : doing[t] = "closed" =>
           doing'[t] = "closed" /\ target'[t] = target[t]
    BY <1>2, Roles
  <2> QED
    BY <2>1 DEF Inv, LinkMatchesConnection, Accepted, conns
<1>5. BreakAfterDisable' /\ PassesUseBreaks'
  BY PassesKept DEF Inv, BreakAfterDisable, loop, conns, stop
<1>6. ThreadsKeepRoles'
  BY <1>2, Roles DEF Inv, ThreadsKeepRoles, loop, job, stop
<1> QED
  BY <1>1, <1>3, <1>4, <1>5, <1>6 DEF Inv

\* The callbacks that begin while the loop runs; `stop` and `calls` stay.
LEMMA CallbackSafe ==
    ASSUME Inv, NEW c \in Conns, Callback(c) \/ Hangup(c)
    PROVE  Inv'
<1> USE DEF Callback, Accept, Down, EchoTimer, EchoReply, DoClose, Hangup
<1>1. /\ conn \in [Conns -> {"none", "open", "closing", "freed"}]
      /\ link \in [Conns -> BOOLEAN]
  BY DEF Inv, TypeOK
<1>2. TypeOK'
  <2>1. /\ <<"report">> \in Seq({"report", "close", "send"})
        /\ <<"send">> \in Seq({"report", "close", "send"})
        /\ <<"report", "close">> \in Seq({"report", "close", "send"})
        /\ <<"close", "report">> \in Seq({"report", "close", "send"})
    OBVIOUS
  <2>2. conn' \in [Conns -> {"none", "open", "closing", "freed"}]
        /\ link' \in [Conns -> BOOLEAN]
    BY <1>1
  <2>3. hup' \in [Conns -> {"up", "gone", "told"}]
        /\ alive' \in [Conns -> BOOLEAN]
    <3>1. /\ hup \in [Conns -> {"up", "gone", "told"}]
          /\ alive \in [Conns -> BOOLEAN]
      BY DEF Inv, TypeOK
    <3>2. /\ \/ hup' = hup \/ hup' = [hup EXCEPT ![c] = "gone"]
             \/ hup' = [hup EXCEPT ![c] = "told"]
          /\ \/ alive' = alive \/ alive' = [alive EXCEPT ![c] = FALSE]
             \/ alive' = [alive EXCEPT ![c] = TRUE]
      OBVIOUS
    <3> HIDE DEF Callback, Hangup
    <3> QED
      BY <3>1, <3>2
  <2>4. timers' \in 0 .. MaxTimer
    BY OFServerAssumption DEF Inv, TypeOK
  <2>5. todo' \in Seq({"report", "close", "send"}) /\ subject' \in SUBSET Conns
    BY <2>1 DEF Inv, TypeOK, job
  <2> QED
    BY <2>2, <2>3, <2>4, <2>5 DEF Inv, TypeOK, loop, stop, calls
<1>3. \A d \in Conns :
         /\ conn'[d] = conn[d] \/ (d = c /\ conn[c] = "none" /\ conn'[c] = "open"
                                     /\ link'[c])
              \/ (conn[d] = "closing" /\ conn'[d] = "freed")
         /\ link'[d] = link[d] \/ (d = c /\ conn'[c] = "open" /\ link'[c])
  BY <1>1
<1>4. doing' = doing /\ target' = target
  BY DEF calls
<1>5. \A t \in Threads : target[t] \subseteq Conns
  BY DEF Inv, TypeOK
<1>6. CallsConsistent'
  BY <1>3, <1>4, <1>5 DEF Inv, CallsConsistent
<1>7. LinkMatchesConnection'
  <2> SUFFICES ASSUME NEW d \in Conns, conn'[d] # "none"
               PROVE  /\ ~link'[d] => conn'[d] \in {"closing", "freed"}
                      /\ link'[d] /\ conn'[d] # "open" =>
                            \E t \in Threads :
                               doing[t] = "closed" /\ d \in target[t]
    BY <1>4 DEF LinkMatchesConnection, Accepted
  <2>1. CASE d \in Accepted
    BY <1>3, <2>1 DEF Inv, LinkMatchesConnection, Accepted
  <2>2. CASE d \notin Accepted
    BY <1>3, <2>2 DEF Accepted
  <2> QED
    BY <2>1, <2>2
<1>8. BreakAfterDisable'
  BY DEF Inv, BreakAfterDisable, loop, stop
<1>9. PassesUseBreaks'
  <2>1. CASE conn' = conn
    BY <2>1, PassesKept DEF loop
  <2>2. CASE Accept(c)
    <3>1. ~NoEvents /\ phase \in {"first", "second"}
      BY <2>2 DEF NoEvents, Ready, Idle
    <3> QED
      BY <2>2, <3>1 DEF Inv, PassesUseBreaks, loop
  <2>3. CASE DoClose(c)
    <3>1. ~NoEvents /\ phase \in {"first", "second"}
      BY <2>3 DEF NoEvents, Ready, Idle
    <3> QED
      BY <2>3, <3>1 DEF Inv, PassesUseBreaks, loop
  <2> QED
    BY <2>1, <2>2, <2>3
<1>10. ThreadsKeepRoles'
  BY DEF Inv, ThreadsKeepRoles, Ready, Idle, loop, job, stop, calls
<1> QED
  BY <1>2, <1>6, <1>7, <1>8, <1>9, <1>10 DEF Inv

-----------------------------------------------------------------------------
(* close() and send() of a thread.                                         *)

\* A thread that was doing nothing passes the NULL check.
LEMMA PassSafe ==
    ASSUME Inv, NEW t \in Threads, NEW c \in Conns,
           NEW what \in {"close", "send"}, doing[t] = "none", Pass(t, what, c),
           UNCHANGED <<conn, link>>
    PROVE  /\ doing' \in [Threads -> {"none", "close", "closed", "send"}]
           /\ target' \in [Threads -> SUBSET Conns]
           /\ CallsConsistent' /\ LinkMatchesConnection'
<1>1. /\ doing \in [Threads -> {"none", "close", "closed", "send"}]
      /\ target \in [Threads -> SUBSET Conns]
      /\ doing' = [doing EXCEPT ![t] = what]
      /\ target' = [target EXCEPT ![t] = {c}]
  BY DEF Inv, TypeOK, Pass
<1>2. CallsConsistent'
  BY <1>1 DEF Inv, CallsConsistent
<1>3. \A u \in Threads : doing[u] = "closed" =>
         doing'[u] = "closed" /\ target'[u] = target[u]
  BY <1>1
<1>4. LinkMatchesConnection'
  BY <1>3 DEF Inv, LinkMatchesConnection, Accepted
<1> QED
  BY <1>1, <1>2, <1>4

\* Nothing about calls and connections changes.
LEMMA CallsKept ==
    ASSUME Inv, UNCHANGED <<conn, link, doing, target>>
    PROVE  CallsConsistent' /\ LinkMatchesConnection'
BY DEF Inv, CallsConsistent, LinkMatchesConnection, Accepted

LEMMA CrashSafe ==
    ASSUME Inv, NEW t \in Threads, Crash(t)
    PROVE  Inv'
<1> USE DEF Crash
<1>1. TypeOK'
  BY DEF Inv, TypeOK, loop, conns, job, stop
<1>2. CallsConsistent' /\ LinkMatchesConnection'
  BY CallsKept DEF conns
<1>3. BreakAfterDisable' /\ PassesUseBreaks'
  BY PassesKept DEF Inv, BreakAfterDisable, loop, conns, stop
<1>4. ThreadsKeepRoles'
  BY DEF Inv, ThreadsKeepRoles, loop, job, stop
<1> QED
  BY <1>1, <1>2, <1>3, <1>4 DEF Inv

LEMMA ActivateSafe ==
    ASSUME Inv, NEW t \in Threads, ActivateClose(t)
    PROVE  Inv'
<1>1. CASE Crash(t)
  BY <1>1, CrashSafe
<1>2. CASE ~Crash(t)
  <2>1. PICK c \in target[t] :
           /\ Usable(c)
           /\ conn' = [conn EXCEPT ![c] = "closing"]
           /\ doing' = [doing EXCEPT ![t] = "closed"]
           /\ UNCHANGED <<loop, link, hup, alive, timers, job,
                          stop, target, crashed>>
    BY <1>2 DEF ActivateClose
  <2>2. /\ conn \in [Conns -> {"none", "open", "closing", "freed"}]
        /\ doing \in [Threads -> {"none", "close", "closed", "send"}]
        /\ target[t] \subseteq Conns /\ c \in Conns /\ doing[t] = "close"
        /\ \A u \in Threads : target[u] \subseteq Conns
    BY DEF Inv, TypeOK, ActivateClose
  <2>3. TypeOK'
    BY <2>1, <2>2 DEF Inv, TypeOK, loop, job, stop
  <2>4. CallsConsistent'
    <3>1. \A d \in target[t] : d = c
      BY DEF Inv, CallsConsistent
    <3>2. \A d \in Conns : conn'[d] = IF d = c THEN "closing" ELSE conn[d]
      BY <2>1, <2>2
    <3> QED
      BY <2>1, <2>2, <3>1, <3>2 DEF Inv, CallsConsistent
  <2>5. LinkMatchesConnection'
    <3>1. \A u \in Threads : doing[u] = "closed" => doing'[u] = "closed"
      BY <2>1, <2>2
    <3>2. doing'[t] = "closed" /\ c \in target'[t] /\ c \in Accepted
      BY <2>1, <2>2 DEF Usable, Accepted
    <3>3. \A d \in Conns : conn'[d] = IF d = c THEN "closing" ELSE conn[d]
      BY <2>1, <2>2
    <3> QED
      BY <2>1, <3>1, <3>2, <3>3 DEF Inv, LinkMatchesConnection, Accepted
  <2>6. BreakAfterDisable'
    BY <2>1 DEF Inv, BreakAfterDisable, loop, stop
  <2>7. PassesUseBreaks'
    <3>1. ~NoEvents /\ phase \notin {"new", "entering"}
      BY <2>1, <2>2 DEF Inv, PassesUseBreaks, NoEvents, Usable
    <3> QED
      BY <2>1, <3>1 DEF Inv, PassesUseBreaks, loop
  <2>8. ThreadsKeepRoles'
    BY <2>1, <2>2, Roles DEF Inv, ThreadsKeepRoles, loop, job, stop
  <2> QED
    BY <2>3, <2>4, <2>5, <2>6, <2>7, <2>8 DEF Inv
<1> QED
  BY <1>1, <1>2

LEMMA ClearSafe ==
    ASSUME Inv, NEW t \in Threads, ClearPointer(t)
    PROVE  Inv'
<1> USE DEF ClearPointer
<1>1. /\ link' = [c \in Conns |-> link[c] /\ c \notin target[t]]
      /\ doing' = [doing EXCEPT ![t] = "none"]
      /\ target' = [target EXCEPT ![t] = {}]
      /\ doing \in [Threads -> {"none", "close", "closed", "send"}]
      /\ target \in [Threads -> SUBSET Conns]
      /\ doing[t] = "closed" /\ conn' = conn
  BY DEF Inv, TypeOK
<1>2. TypeOK'
  <2>1. link' \in [Conns -> BOOLEAN]
    BY <1>1
  <2> QED
    BY <1>1, <2>1 DEF Inv, TypeOK, loop, job, stop
<1>3. CallsConsistent'
  BY <1>1 DEF Inv, CallsConsistent
<1>4. LinkMatchesConnection'
  <2> SUFFICES ASSUME NEW c \in Conns, conn[c] # "none"
               PROVE  /\ ~link'[c] => conn[c] \in {"closing", "freed"}
                      /\ link'[c] /\ conn[c] # "open" =>
                            \E u \in Threads :
                               doing'[u] = "closed" /\ c \in target'[u]
    BY <1>1 DEF LinkMatchesConnection, Accepted
  <2>1. link'[c] <=> link[c] /\ c \notin target[t]
    BY <1>1
  <2>2. c \in target[t] => conn[c] \in {"closing", "freed"}
    BY <1>1 DEF Inv, CallsConsistent
  <2>3. /\ ~link[c] => conn[c] \in {"closing", "freed"}
        /\ link[c] /\ conn[c] # "open" =>
              \E u \in Threads : doing[u] = "closed" /\ c \in target[u]
    BY DEF Inv, LinkMatchesConnection, Accepted
  <2>4. ASSUME c \notin target[t], NEW u \in Threads, doing[u] = "closed",
               c \in target[u]
        PROVE  doing'[u] = "closed" /\ c \in target'[u]
    BY <1>1, <2>4
  <2> QED
    BY <2>1, <2>2, <2>3, <2>4
<1>5. BreakAfterDisable' /\ PassesUseBreaks'
  BY <1>1, PassesKept DEF Inv, BreakAfterDisable, loop, stop
<1>6. ThreadsKeepRoles'
  BY <1>1, Roles DEF Inv, TypeOK, ThreadsKeepRoles, loop, job, stop
<1> QED
  BY <1>2, <1>3, <1>4, <1>5, <1>6 DEF Inv

LEMMA WriteSafe ==
    ASSUME Inv, NEW t \in Threads, Write(t)
    PROVE  Inv'
<1>1. CASE Crash(t)
  BY <1>1, CrashSafe
<1>2. CASE ~Crash(t)
  <2>1. /\ doing' = [doing EXCEPT ![t] = "none"]
        /\ target' = [target EXCEPT ![t] = {}]
        /\ doing \in [Threads -> {"none", "close", "closed", "send"}]
        /\ target \in [Threads -> SUBSET Conns]
        /\ doing[t] = "send"
        /\ UNCHANGED <<loop, conns, job, stop, crashed>>
    BY <1>2 DEF Write, Inv, TypeOK
  <2>2. TypeOK'
    BY <2>1 DEF Inv, TypeOK, loop, conns, job, stop
  <2>3. CallsConsistent'
    BY <2>1 DEF Inv, CallsConsistent, conns
  <2>4. \A u \in Threads : doing[u] = "closed" =>
           doing'[u] = "closed" /\ target'[u] = target[u]
    BY <2>1
  <2>5. LinkMatchesConnection'
    BY <2>1, <2>4 DEF Inv, LinkMatchesConnection, Accepted, conns
  <2>6. BreakAfterDisable' /\ PassesUseBreaks'
    BY <2>1, PassesKept DEF Inv, BreakAfterDisable, loop, conns, stop
  <2>7. ThreadsKeepRoles'
    BY <2>1, Roles DEF Inv, ThreadsKeepRoles, loop, job, stop
  <2> QED
    BY <2>2, <2>3, <2>5, <2>6, <2>7 DEF Inv
<1> QED
  BY <1>1, <1>2

LEMMA JobSafe ==
    ASSUME Inv, JobStep
    PROVE  Inv'
<1>1. ASSUME NEW what \in {"close", "send"}, StepCall(what)
      PROVE  Inv'
  <2> USE <1>1 DEF StepCall
  <2>1. todo' \in Seq({"report", "close", "send"}) /\ subject' \in SUBSET Conns
    BY StepDone DEF Inv
  <2>2. /\ doing' \in [Threads -> {"none", "close", "closed", "send"}]
        /\ target' \in [Threads -> SUBSET Conns]
        /\ CallsConsistent' /\ LinkMatchesConnection'
    <3>1. CASE \E c \in subject : link[c] /\ Pass(Loop, what, c)
      <4>1. PICK c \in Conns : Pass(Loop, what, c)
        BY <3>1 DEF Inv, TypeOK
      <4> QED
        BY <4>1, Roles, PassSafe DEF conns
    <3>2. CASE UNCHANGED <<doing, target>>
      BY <3>2, CallsKept DEF Inv, TypeOK, conns
    <3> QED
      BY <3>1, <3>2
  <2>3. TypeOK'
    BY <2>1, <2>2 DEF Inv, TypeOK, loop, conns, stop
  <2>4. BreakAfterDisable' /\ PassesUseBreaks'
    BY PassesKept DEF Inv, BreakAfterDisable, loop, conns, stop
  <2>5. ThreadsKeepRoles'
    <3>1. phase \in {"first", "second"}
      BY DEF Inv, TypeOK, ThreadsKeepRoles
    <3>2. \A t \in Threads : t # Loop => doing'[t] = doing[t]
      BY Roles DEF Inv, TypeOK, Pass
    <3> QED
      BY <3>1, <3>2, Roles DEF Inv, ThreadsKeepRoles, loop, stop
  <2> QED
    BY <2>2, <2>3, <2>4, <2>5 DEF Inv
<1>2. CASE StepReport
  <2> USE <1>2 DEF StepReport
  <2>1. todo' \in Seq({"report", "close", "send"}) /\ subject' \in SUBSET Conns
    BY StepDone DEF Inv
  <2>2. TypeOK'
    BY <2>1, Roles DEF Inv, TypeOK, loop, conns, calls
  <2>3. CallsConsistent' /\ LinkMatchesConnection'
    BY CallsKept DEF conns, calls
  <2>4. BreakAfterDisable' /\ PassesUseBreaks'
    BY PassesKept, Roles DEF Inv, TypeOK, BreakAfterDisable, loop, conns
  <2>5. ThreadsKeepRoles'
    <3>1. phase \in {"first", "second"}
      BY DEF Inv, TypeOK, ThreadsKeepRoles
    <3>2. \A t \in Threads : t # Loop => pc'[t] = pc[t]
      BY Roles DEF Inv, TypeOK
    <3> QED
      BY <3>1, <3>2, Roles DEF Inv, TypeOK, ThreadsKeepRoles, loop, calls
  <2> QED
    BY <2>2, <2>3, <2>4, <2>5 DEF Inv
<1> QED
  BY <1>1, <1>2 DEF JobStep

-----------------------------------------------------------------------------
(* stop().                                                                 *)

\* The steps of stop() that call nothing on a connection.
LEMMA StopSafe ==
    ASSUME Inv, NEW t \in Threads,
           \/ t \in Stoppers /\ StopCalled(t)
           \/ LockConns(t) \/ UnlockConns(t) \/ DisableListener(t)
           \/ BreakLoop(t) \/ JoinFails(t) \/ JoinWaits(t) \/ JoinReturns(t)
    PROVE  Inv'
<1> USE DEF StopCalled, LockConns, UnlockConns, DisableListener, BreakLoop,
        JoinFails, JoinWaits, JoinReturns
<1>1. /\ pc \in [Threads -> {"idle", "lock", "sweep", "disable", "break",
                              "join", "wait", "done"}]
      /\ breaks \in 0 .. 2
      /\ breaks' = breaks \/ breaks' = IF breaks < 2 THEN breaks + 1 ELSE 2
  BY DEF Inv, TypeOK, loop, Counted, MaxBreaks
<1>2. pc' \in [Threads -> {"idle", "lock", "sweep", "disable", "break",
                            "join", "wait", "done"}]
  BY <1>1
<1>3. \A u \in Threads : u # t => pc'[u] = pc[u]
  BY <1>1
<1>4. TypeOK'
  <2>1. \E u \in Threads : holder' \subseteq {u}
    BY DEF Inv, TypeOK
  <2>2. left' \subseteq Conns
    BY DEF Inv, TypeOK, Accepted
  <2>3. breaks' \in 0 .. MaxBreaks
    BY <1>1 DEF MaxBreaks
  <2>4. joiner' \subseteq Stoppers /\ (\A u, v \in joiner' : u = v)
    <3>1. JoinWaits(t) => t \in Stoppers
      BY Roles DEF Inv, ThreadsKeepRoles
    <3> QED
      BY <3>1 DEF Inv, TypeOK
  <2>5. /\ stopped' \in BOOLEAN /\ broken' \in BOOLEAN
        /\ listening' \in BOOLEAN /\ phase' = phase
        /\ UNCHANGED <<conns, job, calls>>
    BY DEF Inv, TypeOK, loop
  <2> HIDE DEF StopCalled, LockConns, UnlockConns, DisableListener, BreakLoop,
           JoinFails, JoinWaits, JoinReturns
  <2> QED
    BY <1>2, <2>1, <2>2, <2>3, <2>4, <2>5 DEF Inv, TypeOK, conns, job, calls
<1>5. CallsConsistent' /\ LinkMatchesConnection'
  BY CallsKept DEF conns, calls
<1>6. BreakAfterDisable'
  BY <1>1, <1>3 DEF Inv, BreakAfterDisable, loop, Counted, MaxBreaks
<1>7. PassesUseBreaks'
  <2>1. NoEvents => NoEvents'
    BY DEF NoEvents, loop, conns
  <2>2. broken' = broken \/ breaks' = IF breaks < 2 THEN breaks + 1 ELSE 2
    BY <1>1 DEF loop, Counted, MaxBreaks
  <2>3. phase' = phase /\ conn' = conn
    BY DEF loop, conns
  <2>4. broken => breaks > 0
    BY DEF Inv, BreakAfterDisable
  <2>5. phase = "second" => NoEvents \/ breaks > (IF broken THEN 1 ELSE 0)
    BY DEF Inv, PassesUseBreaks
  <2>6. phase = "second" => NoEvents \/ breaks' > (IF broken' THEN 1 ELSE 0)
    BY <1>1, <2>2, <2>5
  <2>7. /\ phase = "between" => breaks' > 0 \/ NoEvents
        /\ phase = "returned" => NoEvents \/ breaks' > 1
    BY <1>1 DEF Inv, PassesUseBreaks
  <2>8. phase \in {"new", "entering"} => \A c \in Conns : conn[c] = "none"
    BY DEF Inv, PassesUseBreaks
  <2> QED
    BY <2>1, <2>3, <2>6, <2>7, <2>8 DEF PassesUseBreaks
<1>8. ThreadsKeepRoles'
  <2>1. t \in Stoppers \/ t = Loop
    BY Roles DEF Inv, ThreadsKeepRoles
  <2>2. t = Loop => phase \in {"first", "second"}
    BY Roles DEF Inv, TypeOK, ThreadsKeepRoles
  <2>3. phase' = phase /\ todo' = todo /\ doing' = doing
    BY DEF loop, job, calls
  <2>4. \A u \in joiner' :
           pc'[u] = "wait" \/ (pc'[u] = "done" /\ phase = "returned")
    BY <1>1, <1>3, Roles DEF Inv, TypeOK, ThreadsKeepRoles
  <2> QED
    BY <1>3, <2>1, <2>2, <2>3, <2>4, Roles DEF Inv, ThreadsKeepRoles
<1> QED
  BY <1>4, <1>5, <1>6, <1>7, <1>8 DEF Inv

LEMMA SweepSafe ==
    ASSUME Inv, NEW t \in Threads, SweepOne(t)
    PROVE  Inv'
<1> USE DEF SweepOne
<1>1. /\ doing' \in [Threads -> {"none", "close", "closed", "send"}]
      /\ target' \in [Threads -> SUBSET Conns]
      /\ CallsConsistent' /\ LinkMatchesConnection'
  <2>1. CASE \E c \in left : link[c] /\ Pass(t, "close", c)
    <3>1. PICK c \in Conns : Pass(t, "close", c)
      BY <2>1 DEF Inv, TypeOK
    <3> QED
      BY <3>1, PassSafe DEF conns
  <2>2. CASE UNCHANGED <<doing, target>>
    BY <2>2, CallsKept DEF Inv, TypeOK, conns
  <2> QED
    BY <2>1, <2>2
<1>2. TypeOK'
  BY <1>1 DEF Inv, TypeOK, loop, conns, job
<1>3. BreakAfterDisable' /\ PassesUseBreaks'
  BY PassesKept DEF Inv, BreakAfterDisable, loop, conns
<1>4. ThreadsKeepRoles'
  <2>1. \A u \in Threads : u # t => doing'[u] = doing[u]
    BY DEF Inv, TypeOK, Pass
  <2>2. t = Loop => phase \in {"first", "second"}
    BY Roles DEF Inv, TypeOK, ThreadsKeepRoles
  <2> QED
    BY <2>1, <2>2, Roles DEF Inv, ThreadsKeepRoles, loop, job
<1> QED
  BY <1>1, <1>2, <1>3, <1>4 DEF Inv

LEMMA Stepwise == Inv /\ [Next]_vars => Inv'
<1> SUFFICES ASSUME Inv, [Next]_vars PROVE Inv'
  OBVIOUS
<1>1. CASE UNCHANGED vars
  <2>1. TypeOK'
    BY <1>1 DEF Inv, TypeOK, vars, loop, conns, job, stop, calls
  <2>2. CallsConsistent' /\ LinkMatchesConnection'
    BY <1>1, CallsKept DEF vars, conns, calls
  <2>3. BreakAfterDisable' /\ PassesUseBreaks'
    BY <1>1, PassesKept DEF Inv, BreakAfterDisable, vars, loop, conns, stop
  <2>4. ThreadsKeepRoles'
    BY <1>1 DEF Inv, ThreadsKeepRoles, vars, loop, job, stop, calls
  <2> QED
    BY <2>1, <2>2, <2>3, <2>4 DEF Inv
<1>2. ASSUME NEW t \in Threads, ThreadStep(t)
      PROVE  Inv'
  BY <1>2, StopSafe, SweepSafe, ActivateSafe, ClearSafe, WriteSafe, RunSafe,
     JobSafe
     DEF ThreadStep, StopStep, CallStep
<1>3. ASSUME NEW t \in Stoppers, StopCalled(t)
      PROVE  Inv'
  BY <1>3, StopSafe, Roles
<1> QED
  BY <1>1, <1>2, <1>3, CallbackSafe, SendSafe DEF Next

LEMMA Invariance == Spec => []Inv
<1> QED
  BY Initially, Stepwise, PTL DEF Spec

-----------------------------------------------------------------------------
(* Theorems.                                                               *)

\* Every variable stays in its type; ofconnections_lock has one holder.
THEOREM TypeCorrect == Spec => []TypeOK
<1>1. Inv => TypeOK
  BY DEF Inv
<1> QED
  BY <1>1, Invariance, PTL

\* OFConnection and BaseOFConnection part together, whatever stops, timers,
\* losses and sends interleave: no open socket is left without its pointer.
THEOREM ConnectionsPartTogether == Spec => []LinkMatchesConnection
<1>1. Inv => LinkMatchesConnection
  BY DEF Inv
<1> QED
  BY <1>1, Invariance, PTL

\* A run() that returned after one stop() has deleted every connection.
THEOREM LoopDrained == Spec => []OneStopDrains
<1>1. Inv => OneStopDrains
  BY DEF Inv, TypeOK, PassesUseBreaks, OneStopDrains
<1> QED
  BY <1>1, Invariance, PTL

\* After stop() returned to the thread that joined first, no callback changes
\* anything; other threads may still be in their own stop().
THEOREM StoppedIsQuiet == Spec => QuietAfterStop
<1> DEFINE Quiet == /\ UNCHANGED <<alive, timers, todo>>
                    /\ \A c \in Conns : conn'[c] \in {conn[c], "closing"}
<1>1. ASSUME Inv, [Next]_vars, NEW s \in joiner, pc[s] = "done"
      PROVE  Quiet
  <2>1. phase = "returned" /\ todo = <<>>
    BY <1>1 DEF Inv, ThreadsKeepRoles
  <2>2. CASE RunStep
    BY <2>1, <2>2 DEF RunStep, StartRun, EnterFirst, LeaveFirst, EnterSecond,
       LeaveSecond, conns, job
  <2>3. ~JobStep /\ \A c \in Conns : ~Callback(c)
    BY <2>1 DEF JobStep, StepCall, StepReport, Callback, Accept, Down,
       EchoTimer, EchoReply, DoClose, Ready, Idle
  <2>4. ASSUME NEW c \in Conns, Hangup(c) \/ SenderSends(c)
        PROVE  Quiet
    BY <2>4 DEF Hangup, SenderSends, conns, job
  <2>5. ASSUME NEW t \in Threads, StopStep(t)
        PROVE  Quiet
    BY <2>5 DEF StopStep, LockConns, SweepOne, UnlockConns, DisableListener,
       BreakLoop, JoinFails, JoinWaits, JoinReturns, conns, job
  <2>6. ASSUME NEW t \in Threads, CallStep(t)
        PROVE  Quiet
    <3>1. conn \in [Conns -> {"none", "open", "closing", "freed"}]
      BY <1>1 DEF Inv, TypeOK
    <3>2. /\ conn' = conn \/ \E c : conn' = [conn EXCEPT ![c] = "closing"]
          /\ UNCHANGED <<alive, timers, todo>>
      BY <2>6 DEF CallStep, ActivateClose, ClearPointer, Write, Crash,
         conns, job
    <3> QED
      BY <3>1, <3>2
  <2>7. ASSUME NEW t \in Stoppers, StopCalled(t)
        PROVE  Quiet
    BY <2>7 DEF StopCalled, conns, job
  <2> QED
    BY <1>1, <2>2, <2>3, <2>4, <2>5, <2>6, <2>7
       DEF Next, ThreadStep, vars, conns, job
<1>2. Inv /\ [Next]_vars => [(\E t \in joiner : pc[t] = "done") => Quiet]_vars
  BY <1>1
<1> QED
  BY <1>2, Invariance, PTL DEF Spec, QuietAfterStop
=============================================================================
