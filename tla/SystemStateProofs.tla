--------------------------- MODULE SystemStateProofs ---------------------------
(***************************************************************************)
(* What the life of a run guarantees for every number of tenants and every *)
(* number of lost connections: types, the start after the last connection, *)
(* the stop after the last request, and an outcome that has its logs.      *)
(***************************************************************************)
EXTENDS SystemState, TLAPS

Stopping == {"stop", "break", "join", "wait", "open", "write"}
Requesting == {"off", "head", "burst"}

\* The log of tenant v was written, or is open.
Logged(v) == v \in written \/ writer[v] # {}

\* A thread that works on a tenant is at one.
PlacesInRange ==
    \A t \in Threads : at[t] \in Stopping \ {"stop"} => pos[t] \in Tenants

\* What the waiter saw connected was connected at some time, and senders
\* exist only once it has seen them all.
SeenConnected ==
    /\ scanned \subseteq ever /\ connected \subseteq ever
    /\ waiter \in {"launch", "ended"} => ever = Tenants
    /\ main = "start" => waiter = "off"
    /\ \A v \in Tenants :
          at[Sender(v)] # "off" => waiter \in {"launch", "ended"}

\* A sender stops the tenants only after it has seen all of them done, and
\* an event loop only after a failure.
FinishedLast ==
    /\ \A v \in Tenants :
          /\ at[Sender(v)] \in Requesting => v \notin done /\ pos[Sender(v)] = 1
          /\ at[Sender(v)] = "scan" =>
                \A u \in Tenants : u < pos[Sender(v)] => u \in done
          /\ at[Sender(v)] \in Stopping => done = Tenants
          /\ at[EventLoop(v)] \in Stopping \union {"lock"} => failures > 0
    /\ failures = 0 /\ told # {} => done = Tenants

\* A thread that stops the tenants leaves each one finished and logged.
LoggedBehind ==
    /\ \A t \in Threads :
          /\ at[t] \in Stopping =>
                \A u \in Tenants : u < pos[t] => u \in tested /\ Logged(u)
          /\ at[t] = "write" => Logged(pos[t])
    /\ finished \/ failed =>
          tested = Tenants /\ \A u \in Tenants : Logged(u)
    /\ main = "finished" => finished
    /\ main = "failed" => failed

Inv == TypeOK /\ PlacesInRange /\ SeenConnected /\ FinishedLast /\ LoggedBehind

-----------------------------------------------------------------------------
(* Threads and their places.                                               *)

Places == {"off", "starting", "idle", "head", "burst", "scan", "lock",
           "stop", "break", "join", "wait", "open", "write", "ended"}

LEMMA Names ==
    /\ \A v \in Tenants : Sender(v) \in Threads /\ EventLoop(v) \in Threads
    /\ \A u, v \in Tenants :
          /\ Sender(u) # EventLoop(v)
          /\ Sender(u) = Sender(v) => u = v
          /\ EventLoop(u) = EventLoop(v) => u = v
    /\ \A t \in Threads :
          \E v \in Tenants : t = Sender(v) \/ t = EventLoop(v)
    /\ \A v \in Tenants : EventLoop(v) \notin Senders /\ Sender(v) \notin Loops
BY DEF Threads, Senders, Loops, Sender, EventLoop

LEMMA Types ==
    ASSUME TypeOK
    PROVE  /\ at \in [Threads -> Places]
           /\ pos \in [Threads -> 1 .. NumTenants + 1]
           /\ failures \in Nat /\ MaxFailures \in Nat
           /\ NumTenants \in Nat \ {0}
           /\ Tenants = 1 .. NumTenants
BY SystemStateAssumption DEF TypeOK, Places, Tenants

\* One thread moves.
LEMMA Moved ==
    ASSUME TypeOK, NEW t \in Threads, NEW where \in Places, Goto(t, where)
    PROVE  /\ at' \in [Threads -> Places]
           /\ at'[t] = where
           /\ \A u \in Threads : u # t => at'[u] = at[u]
BY Types DEF Goto

\* One thread's place in its loop over the tenants changes.
LEMMA PosSet ==
    ASSUME TypeOK, NEW t \in Threads, NEW n \in 1 .. NumTenants + 1,
           pos' = [pos EXCEPT ![t] = n]
    PROVE  /\ pos' \in [Threads -> 1 .. NumTenants + 1]
           /\ pos'[t] = n
           /\ \A u \in Threads : u # t => pos'[u] = pos[u]
BY Types

-----------------------------------------------------------------------------
(* The initial states and the steps.                                       *)

LEMMA Initially == Init => Inv
<1> SUFFICES ASSUME Init PROVE Inv
  OBVIOUS
<1>1. NumTenants \in Nat \ {0} /\ MaxFailures \in Nat /\ 1 \in Tenants
  BY SystemStateAssumption DEF Tenants
<1>2. /\ \A t \in Threads : at[t] = "off" /\ pos[t] = 1
      /\ \A v \in Tenants : at[Sender(v)] = "off" /\ at[EventLoop(v)] = "off"
                            /\ pos[Sender(v)] = 1
  BY Names DEF Init
<1>3. TypeOK
  <2>1. /\ at \in [Threads -> {"off", "starting", "idle", "head", "burst",
                                "scan", "lock", "stop", "break", "join",
                                "wait", "open", "write", "ended"}]
        /\ pos \in [Threads -> 1 .. NumTenants + 1]
    BY <1>1 DEF Init
  <2>2. \E t \in Threads : mutex \subseteq {t}
    BY <1>1, Names DEF Init
  <2>3. joiner \in [Tenants -> SUBSET Threads]
        /\ writer \in [Tenants -> SUBSET Threads]
    BY DEF Init
  <2>4. failures \in 0 .. MaxFailures
    BY <1>1 DEF Init
  <2> QED
    BY <2>1, <2>2, <2>3, <2>4 DEF Init, TypeOK
<1>4. PlacesInRange /\ SeenConnected
  BY <1>2 DEF PlacesInRange, SeenConnected, Init, Stopping
<1>5. FinishedLast
  BY <1>2 DEF FinishedLast, Init, Stopping, Requesting
<1>6. LoggedBehind
  BY <1>2 DEF LoggedBehind, Init, Stopping
<1> QED
  BY <1>3, <1>4, <1>5, <1>6 DEF Inv

\* Steps of main, the waiter and the reporter that move no other thread.
LEMMA MainSafe ==
    ASSUME Inv,
           \/ InitSystem \/ Poll \/ HardTimeout
           \/ ScanConnected \/ AllConnected \/ ReporterEnds
    PROVE  Inv'
<1> USE DEF InitSystem, Poll, HardTimeout, ScanConnected, AllConnected,
            ReporterEnds
<1>1. UNCHANGED <<links, flags, threads, stopping, logs>>
  OBVIOUS
<1>2. TypeOK'
  <2>1. /\ main' \in {"start", "poll", "finished", "failed", "timeout", "crashed"}
        /\ started' \subseteq Tenants /\ initialised' \in BOOLEAN
        /\ waiter' \in {"off", "scan", "launch", "ended"}
        /\ reporter' \in {"off", "on", "ended"} /\ quiet' \in BOOLEAN
    <3>1. /\ main \in {"start", "poll", "finished", "failed", "timeout", "crashed"}
          /\ started \subseteq Tenants /\ initialised \in BOOLEAN
          /\ waiter \in {"off", "scan", "launch", "ended"}
          /\ reporter \in {"off", "on", "ended"} /\ quiet \in BOOLEAN
      BY DEF Inv, TypeOK
    <3> QED
      BY <3>1 DEF start, report
  <2>2. scanned' \subseteq Tenants
    <3>1. scanned \subseteq Tenants /\ connected \subseteq Tenants
      BY DEF Inv, TypeOK
    <3> QED
      BY <3>1 DEF start
  <2> HIDE DEF InitSystem, Poll, HardTimeout, ScanConnected, AllConnected,
               ReporterEnds
  <2>3. TypeOK
    BY DEF Inv
  <2> QED
    BY <1>1, <2>1, <2>2, <2>3 DEF TypeOK, links, flags, threads, stopping,
       passes, logs
<1>3. PlacesInRange'
  BY <1>1 DEF Inv, PlacesInRange, threads
<1>4. SeenConnected'
  <2>2. ever \subseteq Tenants
    BY DEF Inv, TypeOK
  <2>3. CASE InitSystem
    BY <1>1, <2>3 DEF Inv, SeenConnected, links, threads
  <2>4. CASE ScanConnected
    BY <1>1, <2>4 DEF Inv, SeenConnected, links, threads
  <2>5. CASE AllConnected
    BY <1>1, <2>2, <2>5 DEF Inv, SeenConnected, links, threads
  <2>6. CASE Poll \/ HardTimeout \/ ReporterEnds
    BY <1>1, <2>6 DEF Inv, SeenConnected, start, links, threads
  <2> QED
    BY <2>3, <2>4, <2>5, <2>6
<1>5. FinishedLast'
  BY <1>1 DEF Inv, FinishedLast, links, flags, threads, stopping
<1>6. LoggedBehind'
  BY <1>1 DEF Inv, LoggedBehind, Logged, flags, threads, logs
<1> QED
  BY <1>2, <1>3, <1>4, <1>5, <1>6 DEF Inv

\* A thread starts, or moves without touching flags and logs: it takes up
\* no tenant and its place stays.
LEMMA Quietly ==
    ASSUME Inv, NEW t \in Threads, NEW where \in Places, Goto(t, where),
           where \notin Stopping, pos' = pos,
           UNCHANGED <<tested, finished, failed, logs>>, main' = main
    PROVE  PlacesInRange' /\ LoggedBehind'
<1>1. /\ at' \in [Threads -> Places]
      /\ at'[t] = where
      /\ \A u \in Threads : u # t => at'[u] = at[u]
  BY Moved DEF Inv
<1>2. PlacesInRange'
  BY <1>1 DEF Inv, PlacesInRange, Stopping
<1>3. LoggedBehind'
  BY <1>1 DEF Inv, LoggedBehind, Logged, logs, Stopping
<1> QED
  BY <1>2, <1>3

LEMMA StartSafe ==
    ASSUME Inv, NEW v \in Tenants, StartTenant(v)
    PROVE  Inv'
<1> USE DEF StartTenant
<1>1. EventLoop(v) \in Threads /\ "starting" \in Places
  BY Names DEF Places
<1>2. /\ at' \in [Threads -> Places]
      /\ at'[EventLoop(v)] = "starting"
      /\ \A u \in Threads : u # EventLoop(v) => at'[u] = at[u]
  BY <1>1, Moved DEF Inv
<1>3. TypeOK'
  BY <1>2 DEF Inv, TypeOK, Places, links, flags, stopping, passes, logs, report
<1>4. PlacesInRange' /\ LoggedBehind'
  BY <1>1, Quietly DEF Stopping, flags
<1>5. SeenConnected'
  BY <1>2, Names DEF Inv, SeenConnected, links
<1>6. FinishedLast'
  <2>1. \A u \in Tenants :
           /\ at'[Sender(u)] = at[Sender(u)]
           /\ at'[EventLoop(u)] \in {at[EventLoop(u)], "starting"}
    BY <1>2, Names
  <2> QED
    BY <2>1 DEF Inv, FinishedLast, Stopping, links, flags, stopping
<1> QED
  BY <1>3, <1>4, <1>5, <1>6 DEF Inv

LEMMA LaunchSafe ==
    ASSUME Inv, NEW v \in Tenants, LaunchSender(v)
    PROVE  Inv'
<1> USE DEF LaunchSender
<1>1. Sender(v) \in Threads /\ "head" \in Places
  BY Names DEF Places
<1>2. /\ at' \in [Threads -> Places]
      /\ at'[Sender(v)] = "head"
      /\ \A u \in Threads : u # Sender(v) => at'[u] = at[u]
  BY <1>1, Moved DEF Inv
<1>3. TypeOK'
  BY <1>2 DEF Inv, TypeOK, Places, links, flags, stopping, passes, logs, report
<1>4. PlacesInRange' /\ LoggedBehind'
  BY <1>1, Quietly DEF Stopping, flags
<1>5. SeenConnected'
  BY <1>2, Names DEF Inv, SeenConnected, links, Alive
<1>6. FinishedLast'
  <2>1. \A u \in Tenants :
           /\ u # v => at'[Sender(u)] = at[Sender(u)]
           /\ at'[EventLoop(u)] = at[EventLoop(u)]
    BY <1>2, Names
  <2>2. v \notin done /\ pos[Sender(v)] = 1
    BY DEF Inv, FinishedLast, Requesting
  <2> QED
    BY <1>2, <2>1, <2>2
       DEF Inv, FinishedLast, Stopping, Requesting, links, flags, stopping
<1> QED
  BY <1>3, <1>4, <1>5, <1>6 DEF Inv

\* The sender's own steps, until it has seen all tenants done.
LEMMA SendingSafe ==
    ASSUME Inv, NEW v \in Tenants,
           Burst(v) \/ BurstSent(v) \/ LeaveLoop(v) \/ LimitReached(v)
    PROVE  Inv'
<1> USE DEF Burst, BurstSent, LeaveLoop, LimitReached
<1> DEFINE t == Sender(v)
<1>1. t \in Threads /\ at[t] \in {"head", "burst"}
  BY Names
<1>2. PICK where \in {"head", "burst", "ended", "scan"} :
         /\ Goto(t, where)
         /\ where \in {"head", "burst"} => done' = done
         /\ where = "ended" => done' = done
         /\ where = "scan" => done' = done \union {v}
  BY DEF flags
<1>3. where \in Places /\ where \notin Stopping
  BY DEF Places, Stopping
<1>4. /\ at' \in [Threads -> Places]
      /\ at'[t] = where
      /\ \A u \in Threads : u # t => at'[u] = at[u]
  BY <1>1, <1>2, <1>3, Moved DEF Inv
<1>5. UNCHANGED <<main, start, links, pos, stopping, logs, report,
                  tested, finished, failed>>
  BY DEF flags
<1>6. TypeOK'
  BY <1>2, <1>4, <1>5
     DEF Inv, TypeOK, Places, start, links, stopping, passes, logs, report
<1>7. PlacesInRange' /\ LoggedBehind'
  BY <1>1, <1>2, <1>3, <1>5, Quietly
<1>8. SeenConnected'
  <2>1. waiter \in {"launch", "ended"}
    BY <1>1 DEF Inv, SeenConnected
  <2> QED
    BY <1>5, <2>1 DEF Inv, SeenConnected, start, links
<1>9. FinishedLast'
  <2>1. \A u \in Tenants :
           /\ u # v => at'[Sender(u)] = at[Sender(u)]
           /\ at'[EventLoop(u)] = at[EventLoop(u)]
    BY <1>4, Names
  <2>2. v \notin done /\ pos[t] = 1
    BY <1>1 DEF Inv, FinishedLast, Requesting
  <2>3. done \subseteq done' /\ done' \subseteq done \union {v}
        /\ done' \subseteq Tenants
    BY <1>2, <1>6 DEF TypeOK
  <2>4. \A u \in Tenants : ~(u < 1)
    BY Types DEF Inv
  <2>5. failures' = failures /\ told' = told /\ pos' = pos
    BY <1>5 DEF links, stopping
  <2>6. ASSUME NEW u \in Tenants
        PROVE  /\ at'[Sender(u)] \in Requesting =>
                     u \notin done' /\ pos'[Sender(u)] = 1
               /\ at'[Sender(u)] = "scan" =>
                     \A w \in Tenants : w < pos'[Sender(u)] => w \in done'
               /\ at'[Sender(u)] \in Stopping => done' = Tenants
               /\ at'[EventLoop(u)] \in Stopping \union {"lock"} => failures' > 0
    <3>1. CASE u = v
      BY <1>2, <1>3, <1>4, <2>1, <2>2, <2>4, <2>5, <3>1
         DEF Inv, FinishedLast, Requesting
    <3>2. CASE u # v
      BY <2>1, <2>3, <2>5, <3>2 DEF Inv, FinishedLast
    <3> QED
      BY <3>1, <3>2
  <2>7. failures' = 0 /\ told' # {} => done' = Tenants
    BY <2>3, <2>5 DEF Inv, FinishedLast
  <2> QED
    BY <2>6, <2>7 DEF FinishedLast
<1> QED
  BY <1>6, <1>7, <1>8, <1>9 DEF Inv

\* The sender looks at the tenants one by one.
LEMMA ScanSafe ==
    ASSUME Inv, NEW v \in Tenants, ScanFinished(Sender(v))
    PROVE  Inv'
<1> USE DEF ScanFinished
<1> DEFINE t == Sender(v)
<1>1. t \in Threads /\ at[t] = "scan" /\ pos[t] \in Tenants /\ pos[t] \in Nat
  BY Names, Types DEF Inv
<1>2. UNCHANGED <<main, start, links, flags, stopping, logs, report>>
  OBVIOUS
<1>3. CASE pos[t] \notin done /\ Goto(t, "ended") /\ pos' = pos
  <2>1. /\ at' \in [Threads -> Places]
        /\ at'[t] = "ended"
        /\ \A u \in Threads : u # t => at'[u] = at[u]
    BY <1>1, <1>3, Moved DEF Inv, Places
  <2>2. TypeOK'
    BY <1>2, <1>3, <2>1
       DEF Inv, TypeOK, Places, start, links, flags, stopping, passes, logs, report
  <2>3. PlacesInRange' /\ LoggedBehind'
    BY <1>1, <1>2, <1>3, Quietly DEF flags, Stopping, Places
  <2>4. SeenConnected'
    <3>1. waiter \in {"launch", "ended"}
      BY <1>1 DEF Inv, SeenConnected
    <3> QED
      BY <1>2, <3>1 DEF Inv, SeenConnected, start, links
  <2>5. FinishedLast'
    <3>1. \A u \in Tenants :
             /\ u # v => at'[Sender(u)] = at[Sender(u)]
             /\ at'[EventLoop(u)] = at[EventLoop(u)]
      BY <2>1, Names
    <3> QED
      BY <1>2, <1>3, <2>1, <3>1
         DEF Inv, FinishedLast, Stopping, Requesting, links, flags, stopping
  <2> QED
    BY <2>2, <2>3, <2>4, <2>5 DEF Inv
<1>4. CASE pos[t] \in done /\ pos' = [pos EXCEPT ![t] = @ + 1] /\ at' = at
  <2>1. pos[t] + 1 \in 1 .. NumTenants + 1
    BY <1>1, Types DEF Inv
  <2>2. /\ pos' \in [Threads -> 1 .. NumTenants + 1]
        /\ pos'[t] = pos[t] + 1
        /\ \A u \in Threads : u # t => pos'[u] = pos[u]
    BY <1>1, <1>4, <2>1, PosSet DEF Inv
  <2>3. TypeOK'
    BY <1>2, <1>4, <2>2
       DEF Inv, TypeOK, start, links, flags, stopping, passes, logs, report
  <2>4. PlacesInRange' /\ LoggedBehind'
    BY <1>1, <1>2, <1>4, <2>2
       DEF Inv, PlacesInRange, LoggedBehind, Logged, Stopping, flags, logs
  <2>5. SeenConnected'
    BY <1>2, <1>4 DEF Inv, SeenConnected, start, links
  <2>6. FinishedLast'
    <3>1. \A u \in Tenants : u # v => pos'[Sender(u)] = pos[Sender(u)]
      BY <2>2, Names
    <3>2. \A w \in Tenants : w < pos[t] + 1 => w < pos[t] \/ w = pos[t]
      BY <1>1, Types DEF Inv
    <3> QED
      BY <1>1, <1>2, <1>4, <2>2, <3>1, <3>2
         DEF Inv, FinishedLast, Stopping, Requesting, links, flags, stopping
  <2> QED
    BY <2>3, <2>4, <2>5, <2>6 DEF Inv
<1> QED
  BY <1>3, <1>4

\* All tenants are done.
LEMMA AllFinishedSafe ==
    ASSUME Inv, NEW v \in Tenants, AllFinished(Sender(v))
    PROVE  Inv'
<1> USE DEF AllFinished
<1> DEFINE t == Sender(v)
<1>1. t \in Threads /\ at[t] = "scan" /\ pos[t] > NumTenants
      /\ 1 \in 1 .. NumTenants + 1 /\ "stop" \in Places
  BY Names, Types DEF Inv, Places
<1>2. /\ at' \in [Threads -> Places]
      /\ at'[t] = "stop"
      /\ \A u \in Threads : u # t => at'[u] = at[u]
  BY <1>1, Moved DEF Inv
<1>3. /\ pos' \in [Threads -> 1 .. NumTenants + 1]
      /\ pos'[t] = 1
      /\ \A u \in Threads : u # t => pos'[u] = pos[u]
  BY <1>1, PosSet DEF Inv
<1>4. TypeOK'
  BY <1>2, <1>3 DEF Inv, TypeOK, Places, start, links, flags, stopping, passes, logs
<1>5. PlacesInRange'
  BY <1>2, <1>3 DEF Inv, PlacesInRange, Stopping
<1>6. LoggedBehind'
  <2>1. \A u \in Tenants : ~(u < 1)
    BY Types DEF Inv
  <2> QED
    BY <1>2, <1>3, <2>1 DEF Inv, LoggedBehind, Logged, Stopping, flags, logs
<1>7. SeenConnected'
  <2>1. waiter \in {"launch", "ended"}
    BY <1>1 DEF Inv, SeenConnected
  <2> QED
    BY <2>1 DEF Inv, SeenConnected, start, links
<1>8. FinishedLast'
  <2>1. done = Tenants
    <3>1. \A u \in Tenants : u < pos[t]
      BY <1>1, Types DEF Inv
    <3> QED
      BY <1>1, <3>1 DEF Inv, FinishedLast, TypeOK
  <2>2. \A u \in Tenants :
           /\ u # v => /\ at'[Sender(u)] = at[Sender(u)]
                       /\ pos'[Sender(u)] = pos[Sender(u)]
           /\ at'[EventLoop(u)] = at[EventLoop(u)]
    BY <1>2, <1>3, Names
  <2> QED
    BY <1>2, <2>1, <2>2
       DEF Inv, FinishedLast, Stopping, Requesting, links, flags, stopping
<1> QED
  BY <1>4, <1>5, <1>6, <1>7, <1>8 DEF Inv

-----------------------------------------------------------------------------
(* The event loops.                                                        *)

\* The passes of event_base_loop begin and end.
LEMMA LoopSafe ==
    ASSUME Inv, NEW v \in Tenants,
           RunLoop(v) \/ LeaveFirst(v) \/ LeaveSecond(v)
    PROVE  Inv'
<1> USE DEF RunLoop, LeaveFirst, LeaveSecond
<1> DEFINE t == EventLoop(v)
<1>1. t \in Threads /\ at[t] \in {"starting", "idle"}
  BY Names
<1>2. PICK where \in {"idle", "ended"} : Goto(t, where)
  <2>1. at \in [Threads -> Places]
    BY Types DEF Inv
  <2>2. LeaveFirst(v) => Goto(t, "idle")
    BY <1>1, <2>1 DEF Goto, threads
  <2> QED
    BY <2>2
<1>3. where \in Places /\ where \notin Stopping
  BY DEF Places, Stopping
<1>4. /\ at' \in [Threads -> Places]
      /\ at'[t] = where
      /\ \A u \in Threads : u # t => at'[u] = at[u]
  BY <1>1, <1>2, <1>3, Moved DEF Inv
<1>5. /\ UNCHANGED <<main, start, links, flags, pos, told, joiner, mutex, logs,
                     report>>
      /\ broken' \subseteq Tenants /\ second' \subseteq Tenants
  BY DEF threads, stopping, passes, Inv, TypeOK
<1>6. TypeOK'
  BY <1>4, <1>5
     DEF Inv, TypeOK, Places, start, links, flags, logs, report
<1>7. PlacesInRange' /\ LoggedBehind'
  BY <1>1, <1>2, <1>3, <1>5, Quietly DEF flags
<1>8. \A u \in Tenants :
         /\ at'[Sender(u)] = at[Sender(u)]
         /\ u # v => at'[EventLoop(u)] = at[EventLoop(u)]
  BY <1>4, Names
<1>9. SeenConnected'
  BY <1>5, <1>8 DEF Inv, SeenConnected, start, links
<1>10. FinishedLast'
  BY <1>3, <1>4, <1>5, <1>8 DEF Inv, FinishedLast, links, flags, Stopping
<1> QED
  BY <1>6, <1>7, <1>9, <1>10 DEF Inv

\* Switches come and go.
LEMMA LinkSafe ==
    ASSUME Inv, NEW v \in Tenants,
           Connect(v) \/ Refuse(v) \/ Disconnect(v)
    PROVE  Inv'
<1> USE DEF Connect, Refuse, Disconnect, Ready
<1> DEFINE t == EventLoop(v)
<1>1. t \in Threads /\ at[t] = "idle"
  BY Names
<1>2. PICK where \in {"idle", "lock"} :
         Goto(t, where) /\ (where = "lock" => failures' = failures + 1)
  <2>1. at \in [Threads -> Places]
    BY Types DEF Inv
  <2>2. at' = at => Goto(t, "idle")
    BY <1>1, <2>1 DEF Goto
  <2>3. CASE Connect(v)
    BY <2>2, <2>3 DEF threads
  <2>4. CASE Refuse(v)
    BY <2>4
  <2>5. CASE Disconnect(v)
    <3>1. CASE initialised
      BY <2>5, <3>1 DEF Goto
    <3>2. CASE ~initialised
      BY <1>1, <2>5, <3>2 DEF Goto
    <3> QED
      BY <3>1, <3>2
  <2> QED
    BY <2>3, <2>4, <2>5
<1>3. where \in Places /\ where \notin Stopping
  BY DEF Places, Stopping
<1>4. /\ at' \in [Threads -> Places]
      /\ at'[t] = where
      /\ \A u \in Threads : u # t => at'[u] = at[u]
  BY <1>1, <1>2, <1>3, Moved DEF Inv
<1>5. /\ UNCHANGED <<main, start, flags, pos, stopping, logs, report>>
      /\ failures \in Nat /\ failures' \in {failures, failures + 1}
      /\ failures' \in 0 .. MaxFailures
  BY Types DEF threads, links, Inv, TypeOK
<1>6. /\ linked' \subseteq Tenants /\ connected' \subseteq Tenants
      /\ ever' \subseteq Tenants /\ ever \subseteq ever'
      /\ connected' \subseteq ever'
  BY DEF Inv, TypeOK, SeenConnected, links
<1>7. TypeOK'
  BY <1>4, <1>5, <1>6
     DEF Inv, TypeOK, Places, start, flags, stopping, passes, logs, report
<1>8. PlacesInRange' /\ LoggedBehind'
  BY <1>1, <1>2, <1>3, <1>5, Quietly DEF flags
<1>9. \A u \in Tenants :
         /\ at'[Sender(u)] = at[Sender(u)]
         /\ u # v => at'[EventLoop(u)] = at[EventLoop(u)]
  BY <1>4, Names
<1>10. SeenConnected'
  BY <1>5, <1>6, <1>9 DEF Inv, SeenConnected, start, TypeOK
<1>11. FinishedLast'
  <2>1. at'[t] \in Stopping \union {"lock"} => failures' > 0
    BY <1>2, <1>3, <1>4, <1>5
  <2>2. failures > 0 => failures' > 0
    BY <1>5
  <2>3. failures' = 0 => failures = 0
    BY <1>5
  <2>4. done' = done /\ told' = told /\ pos' = pos
    BY <1>5 DEF flags, stopping
  <2> QED
    BY <1>9, <2>1, <2>2, <2>3, <2>4 DEF Inv, FinishedLast
<1> QED
  BY <1>7, <1>8, <1>10, <1>11 DEF Inv

LEMMA LockSafe ==
    ASSUME Inv, NEW v \in Tenants, LockSystem(EventLoop(v))
    PROVE  Inv'
<1> USE DEF LockSystem
<1> DEFINE t == EventLoop(v)
<1>1. t \in Threads /\ at[t] = "lock"
      /\ 1 \in 1 .. NumTenants + 1 /\ "stop" \in Places
  BY Names, Types DEF Inv, Places
<1>2. /\ at' \in [Threads -> Places]
      /\ at'[t] = "stop"
      /\ \A u \in Threads : u # t => at'[u] = at[u]
  BY <1>1, Moved DEF Inv
<1>3. /\ pos' \in [Threads -> 1 .. NumTenants + 1]
      /\ pos'[t] = 1
      /\ \A u \in Threads : u # t => pos'[u] = pos[u]
  BY <1>1, PosSet DEF Inv
<1>4. TypeOK'
  <2>1. \E u \in Threads : mutex' \subseteq {u}
    BY <1>1
  <2> QED
    BY <1>2, <1>3, <2>1
       DEF Inv, TypeOK, Places, start, links, flags, passes, logs, report
<1>5. PlacesInRange'
  BY <1>2, <1>3 DEF Inv, PlacesInRange, Stopping
<1>6. LoggedBehind'
  <2>1. \A u \in Tenants : ~(u < 1)
    BY Types DEF Inv
  <2> QED
    BY <1>2, <1>3, <2>1 DEF Inv, LoggedBehind, Logged, Stopping, flags, logs
<1>7. \A u \in Tenants :
         /\ at'[Sender(u)] = at[Sender(u)]
         /\ pos'[Sender(u)] = pos[Sender(u)]
         /\ u # v => at'[EventLoop(u)] = at[EventLoop(u)]
  BY <1>2, <1>3, Names
<1>8. SeenConnected'
  BY <1>7 DEF Inv, SeenConnected, start, links
<1>9. FinishedLast'
  <2>1. failures > 0
    BY <1>1 DEF Inv, FinishedLast
  <2> QED
    BY <1>7, <2>1 DEF Inv, FinishedLast, links, flags
<1> QED
  BY <1>4, <1>5, <1>6, <1>8, <1>9 DEF Inv

-----------------------------------------------------------------------------
(* The thread that stops the tenants, a sender or an event loop.           *)

\* Where a thread in the middle of stopping may go.
LEMMA StoppingOn ==
    ASSUME Inv, NEW t \in Threads, at[t] \in Stopping,
           NEW where \in Stopping \union {"idle", "ended"}, Goto(t, where),
           UNCHANGED <<failures, done>>,
           \A u \in Threads : u # t => pos'[u] = pos[u],
           told' = told \/ at[t] = "stop"
    PROVE  FinishedLast'
<1>1. /\ at'[t] = where
      /\ \A u \in Threads : u # t => at'[u] = at[u]
  BY Moved DEF Inv, Stopping, Places
<1>2. failures = 0 => done = Tenants
  BY Names DEF Inv, FinishedLast
<1>3. ASSUME NEW v \in Tenants
      PROVE  /\ at'[Sender(v)] \in Requesting =>
                   v \notin done /\ pos'[Sender(v)] = 1
             /\ at'[Sender(v)] = "scan" =>
                   \A u \in Tenants : u < pos'[Sender(v)] => u \in done
             /\ at'[Sender(v)] \in Stopping => done = Tenants
             /\ at'[EventLoop(v)] \in Stopping \union {"lock"} => failures > 0
  <2>1. CASE t = Sender(v)
    BY <1>1, <2>1, Names DEF Inv, FinishedLast, Stopping, Requesting
  <2>2. CASE t = EventLoop(v)
    BY <1>1, <2>2, Names DEF Inv, FinishedLast, Stopping, Requesting
  <2>3. CASE t # Sender(v) /\ t # EventLoop(v)
    BY <1>1, <2>3, Names DEF Inv, FinishedLast
  <2> QED
    BY <2>1, <2>2, <2>3
<1> QED
  BY <1>2, <1>3 DEF FinishedLast

\* ... and no sender is created by that.
LEMMA StillSeen ==
    ASSUME Inv, NEW t \in Threads, at[t] \in Stopping,
           NEW where \in Places, Goto(t, where),
           UNCHANGED <<scanned, ever, connected, waiter>>,
           main' = "start" => main = "start"
    PROVE  SeenConnected'
<1>1. /\ at'[t] = where
      /\ \A u \in Threads : u # t => at'[u] = at[u]
  BY Moved DEF Inv
<1>2. \A v \in Tenants : at'[Sender(v)] # "off" => at[Sender(v)] # "off"
  BY <1>1, Names DEF Stopping
<1> QED
  BY <1>2 DEF Inv, SeenConnected

LEMMA StopSafe ==
    ASSUME Inv, NEW t \in Threads, StopController(t)
    PROVE  Inv'
<1> USE DEF StopController
<1>1. at[t] = "stop" /\ pos[t] \in Tenants /\ "break" \in Places
  BY Types DEF Inv, Places
<1>2. CASE main' = "crashed" /\ UNCHANGED <<told, at>>
  <2>1. TypeOK'
    BY <1>2 DEF Inv, TypeOK, start, links, flags, passes, logs, report
  <2>2. PlacesInRange' /\ SeenConnected'
    BY <1>2 DEF Inv, PlacesInRange, SeenConnected, start, links
  <2>3. FinishedLast' /\ LoggedBehind'
    BY <1>2 DEF Inv, FinishedLast, LoggedBehind, Logged, links, flags, logs
  <2> QED
    BY <2>1, <2>2, <2>3 DEF Inv
<1>3. CASE /\ told' = told \union {pos[t]}
           /\ Goto(t, "break")
           /\ main' = main
  <2>1. /\ at' \in [Threads -> Places]
        /\ at'[t] = "break"
        /\ \A u \in Threads : u # t => at'[u] = at[u]
    BY <1>1, <1>3, Moved DEF Inv
  <2>2. TypeOK'
    <3>1. told' \subseteq Tenants
      BY <1>1, <1>3 DEF Inv, TypeOK
    <3> QED
      BY <1>3, <2>1, <3>1
         DEF Inv, TypeOK, Places, start, links, flags, passes, logs, report
  <2>3. PlacesInRange'
    BY <1>1, <2>1 DEF Inv, PlacesInRange, Stopping
  <2>4. SeenConnected'
    BY <1>1, <1>3, StillSeen DEF Stopping, start, links
  <2>5. FinishedLast'
    BY <1>1, <1>3, StoppingOn DEF Stopping, links, flags
  <2>6. LoggedBehind'
    BY <1>1, <1>3, <2>1
       DEF Inv, LoggedBehind, Logged, Stopping, flags, logs
  <2> QED
    BY <2>2, <2>3, <2>4, <2>5, <2>6 DEF Inv
<1> QED
  BY <1>2, <1>3

\* The break and the join: the thread keeps its tenant.
LEMMA JoinSafe ==
    ASSUME Inv, NEW t \in Threads,
           BreakLoop(t) \/ JoinFails(t) \/ JoinWaits(t) \/ JoinReturns(t)
    PROVE  Inv'
<1> USE DEF BreakLoop, JoinFails, JoinWaits, JoinReturns
<1>1. at[t] \in {"break", "join", "wait"} /\ pos[t] \in Tenants
  BY DEF Inv, PlacesInRange, Stopping
<1>2. PICK where \in {"join", "wait", "open"} : Goto(t, where)
  OBVIOUS
<1>3. where \in Places /\ where \in Stopping
  BY DEF Places, Stopping
<1>4. /\ at' \in [Threads -> Places]
      /\ at'[t] = where
      /\ \A u \in Threads : u # t => at'[u] = at[u]
  BY <1>2, <1>3, Moved DEF Inv
<1>5. UNCHANGED <<main, start, links, flags, pos, told, mutex, logs, report>>
  BY DEF stopping
<1>6. TypeOK'
  <2>1. broken' \subseteq Tenants /\ second' \subseteq Tenants
    BY <1>1 DEF Inv, TypeOK, stopping, passes
  <2>2. joiner' \in [Tenants -> SUBSET Threads]
    BY <1>1 DEF Inv, TypeOK, stopping
  <2> QED
    BY <1>4, <1>5, <2>1, <2>2
       DEF Inv, TypeOK, Places, start, links, flags, logs, report
<1>7. PlacesInRange'
  BY <1>1, <1>4, <1>5 DEF Inv, PlacesInRange, Stopping
<1>8. SeenConnected' /\ FinishedLast'
  BY <1>1, <1>2, <1>3, <1>5, StillSeen, StoppingOn
     DEF Stopping, start, links, flags
<1>9. LoggedBehind'
  BY <1>1, <1>2, <1>4, <1>5 DEF Inv, LoggedBehind, Logged, Stopping, flags, logs
<1> QED
  BY <1>6, <1>7, <1>8, <1>9 DEF Inv

LEMMA OpenSafe ==
    ASSUME Inv, NEW t \in Threads, OpenLog(t)
    PROVE  Inv'
<1> USE DEF OpenLog
<1>1. at[t] = "open" /\ "write" \in Places /\ pos[t] \in Tenants
  BY DEF Inv, PlacesInRange, Places, Stopping
<1>2. /\ at' \in [Threads -> Places]
      /\ at'[t] = "write"
      /\ \A u \in Threads : u # t => at'[u] = at[u]
  BY <1>1, Moved DEF Inv
<1>3. /\ writer' \in [Tenants -> SUBSET Threads]
      /\ writer'[pos[t]] = {t}
      /\ \A v \in Tenants : v # pos[t] => writer'[v] = writer[v]
  BY <1>1 DEF Inv, TypeOK
<1>4. TypeOK'
  BY <1>2, <1>3 DEF Inv, TypeOK, Places, start, links, flags, stopping, passes, report
<1>5. PlacesInRange'
  BY <1>1, <1>2 DEF Inv, PlacesInRange, Stopping
<1>6. SeenConnected' /\ FinishedLast'
  BY <1>1, StillSeen, StoppingOn DEF Stopping, start, links, flags, stopping
<1>7. LoggedBehind'
  <2>1. Logged(pos[t])' /\ \A v \in Tenants : Logged(v) => Logged(v)'
    BY <1>1, <1>3 DEF Logged
  <2>2. \A u \in Threads : at[u] = "write" => pos[u] \in Tenants
    BY DEF Inv, PlacesInRange, Stopping
  <2> QED
    BY <1>1, <1>2, <2>1, <2>2 DEF Inv, LoggedBehind, Stopping, flags
<1> QED
  BY <1>4, <1>5, <1>6, <1>7 DEF Inv

LEMMA CloseSafe ==
    ASSUME Inv, NEW t \in Threads, CloseLog(t)
    PROVE  Inv'
<1> USE DEF CloseLog
<1>1. at[t] = "write" /\ "stop" \in Places /\ pos[t] \in Tenants
      /\ pos[t] \in Nat /\ pos[t] + 1 \in 1 .. NumTenants + 1
  BY Types DEF Inv, PlacesInRange, Places, Stopping
<1>2. /\ at' \in [Threads -> Places]
      /\ at'[t] = "stop"
      /\ \A u \in Threads : u # t => at'[u] = at[u]
  BY <1>1, Moved DEF Inv
<1>3. /\ pos' \in [Threads -> 1 .. NumTenants + 1]
      /\ pos'[t] = pos[t] + 1
      /\ \A u \in Threads : u # t => pos'[u] = pos[u]
  BY <1>1, PosSet DEF Inv
<1>4. /\ writer' \in [Tenants -> SUBSET Threads]
      /\ \A v \in Tenants :
            writer'[v] = IF v = pos[t] THEN writer[v] \ {t} ELSE writer[v]
  BY <1>1 DEF Inv, TypeOK
<1>5. TypeOK'
  BY <1>1, <1>2, <1>3, <1>4
     DEF Inv, TypeOK, Places, start, links, stopping, passes, report
<1>6. PlacesInRange'
  BY <1>1, <1>2, <1>3 DEF Inv, PlacesInRange, Stopping
<1>7. SeenConnected' /\ FinishedLast'
  BY <1>1, <1>3, StillSeen, StoppingOn
     DEF Stopping, start, links, stopping
<1>8. LoggedBehind'
  <2>1. Logged(pos[t])
    BY <1>1 DEF Inv, LoggedBehind
  <2>2. \A v \in Tenants : Logged(v) => Logged(v)'
    BY <1>1, <1>4 DEF Logged
  <2>3. \A u \in Threads : at[u] = "write" => pos[u] \in Tenants
    BY DEF Inv, PlacesInRange, Stopping
  <2>4. tested \subseteq tested' /\ pos[t] \in tested' /\ tested' \subseteq Tenants
    BY <1>5 DEF TypeOK
  <2>5. \A u \in Tenants : u < pos[t] + 1 => u < pos[t] \/ u = pos[t]
    BY <1>1, Types DEF Inv
  <2>6. ASSUME NEW s \in Threads, at'[s] \in Stopping,
               NEW u \in Tenants, u < pos'[s]
        PROVE  u \in tested' /\ Logged(u)'
    <3>1. CASE s = t
      BY <1>1, <1>3, <2>1, <2>2, <2>4, <2>5, <2>6, <3>1
         DEF Inv, LoggedBehind, Stopping
    <3>2. CASE s # t
      BY <1>2, <1>3, <2>2, <2>4, <2>6, <3>2 DEF Inv, LoggedBehind
    <3> QED
      BY <3>1, <3>2
  <2>7. finished' \/ failed' =>
           tested' = Tenants /\ \A u \in Tenants : Logged(u)'
    BY <2>2, <2>4 DEF Inv, LoggedBehind
  <2>8. /\ main' = "finished" => finished'
        /\ main' = "failed" => failed'
    BY DEF Inv, LoggedBehind
  <2>9. ASSUME NEW s \in Threads, at'[s] = "write"
        PROVE  Logged(pos[s])'
    <3>1. s # t /\ at[s] = "write" /\ pos'[s] = pos[s] /\ pos[s] \in Tenants
      BY <1>2, <1>3, <2>3, <2>9
    <3>2. Logged(pos[s])
      BY <3>1 DEF Inv, LoggedBehind
    <3> QED
      BY <1>4, <3>1, <3>2 DEF Logged
  <2> QED
    BY <2>6, <2>7, <2>8, <2>9 DEF LoggedBehind
<1> QED
  BY <1>5, <1>6, <1>7, <1>8 DEF Inv

LEMMA ConcludeSafe ==
    ASSUME Inv, NEW t \in Threads, Conclude(t)
    PROVE  Inv'
<1> USE DEF Conclude
<1>1. at[t] = "stop" /\ pos[t] > NumTenants
  OBVIOUS
<1>2. PICK where \in {"ended", "idle"} : Goto(t, where)
  OBVIOUS
<1>3. /\ at' \in [Threads -> Places]
      /\ at'[t] = where
      /\ \A u \in Threads : u # t => at'[u] = at[u]
  BY <1>2, Moved DEF Inv, Places
<1>4. TypeOK'
  <2>1. \E u \in Threads : mutex' \subseteq {u}
    BY DEF Inv, TypeOK
  <2>2. finished' \in BOOLEAN /\ failed' \in BOOLEAN
    BY DEF Inv, TypeOK
  <2> QED
    BY <1>3, <2>1, <2>2
       DEF Inv, TypeOK, Places, start, links, passes, logs, report
<1>5. PlacesInRange'
  BY <1>3 DEF Inv, PlacesInRange, Stopping
<1>6. SeenConnected' /\ FinishedLast'
  BY <1>1, <1>2, StillSeen, StoppingOn DEF Stopping, Places, start, links
<1>7. LoggedBehind'
  <2>1. \A u \in Tenants : u < pos[t]
    BY <1>1, Types DEF Inv
  <2>2. tested = Tenants /\ \A u \in Tenants : Logged(u)
    BY <1>1, <2>1 DEF Inv, LoggedBehind, Stopping, TypeOK
  <2> QED
    BY <1>3, <2>2 DEF Inv, LoggedBehind, Logged, Stopping, logs
<1> QED
  BY <1>4, <1>5, <1>6, <1>7 DEF Inv

-----------------------------------------------------------------------------

LEMMA Stepwise == Inv /\ [Next]_vars => Inv'
<1> SUFFICES ASSUME Inv, [Next]_vars PROVE Inv'
  OBVIOUS
<1>1. CASE UNCHANGED vars
  <2>1. TypeOK'
    BY <1>1 DEF vars, Inv, TypeOK, start, links, flags, threads, stopping,
       passes, logs, report
  <2>2. PlacesInRange' /\ SeenConnected'
    BY <1>1 DEF vars, Inv, PlacesInRange, SeenConnected, start, links, threads
  <2>3. FinishedLast' /\ LoggedBehind'
    BY <1>1 DEF vars, Inv, FinishedLast, LoggedBehind, Logged, links, flags,
       threads, stopping, logs
  <2> QED
    BY <2>1, <2>2, <2>3 DEF Inv
<1>2. ASSUME NEW t \in Threads, FinishStep(t)
      PROVE  Inv'
  BY <1>2, StopSafe, JoinSafe, OpenSafe, CloseSafe, ConcludeSafe DEF FinishStep
<1>3. ASSUME NEW v \in Tenants, SenderStep(v) \/ LoopStep(v)
      PROVE  Inv'
  BY <1>2, <1>3, Names, SendingSafe, ScanSafe, AllFinishedSafe, LoopSafe,
     LockSafe DEF SenderStep, LoopStep
<1> QED
  BY <1>1, <1>3, MainSafe, StartSafe, LaunchSafe, SendingSafe, LinkSafe,
     LoopSafe
     DEF Next, WaiterStep

LEMMA Invariance == Spec => []Inv
<1> QED
  BY Initially, Stepwise, PTL DEF Spec

-----------------------------------------------------------------------------
(* Theorems.                                                               *)

\* Every variable stays in its type; sys_mutex has one holder.
THEOREM TypeCorrect == Spec => []TypeOK
<1>1. Inv => TypeOK
  BY DEF Inv
<1> QED
  BY <1>1, Invariance, PTL

\* No sender is created before every tenant has been connected, however
\* connections come and go while the waiter reads their flags.
THEOREM NobodySendsEarly == Spec => []RunStartsConnected
<1>1. Inv => RunStartsConnected
  BY DEF Inv, SeenConnected, RunStartsConnected
<1> QED
  BY <1>1, Invariance, PTL

\* Without a failure no controller is stopped before the last sender has
\* met its end condition, for any number of tenants.
THEOREM NobodyStoppedEarly == Spec => []StoppedAfterLastRequest
<1>1. Inv => StoppedAfterLastRequest
  BY DEF Inv, FinishedLast, StoppedAfterLastRequest, Requesting
<1> QED
  BY <1>1, Invariance, PTL

\* The outcome main ends on finds every testcase finished and every log
\* written or being written, whatever threads stop the tenants at once.
THEOREM OutcomeIsLogged == Spec => []OutcomeHasLogs
<1>1. Inv => OutcomeHasLogs
  BY DEF Inv, LoggedBehind, Logged, OutcomeHasLogs
<1> QED
  BY <1>1, Invariance, PTL
=============================================================================
