------------------------------ MODULE Reporting ------------------------------
(***************************************************************************)
(* The reports of a running benchmark: the thread of Reporter              *)
(* (src/src/reporter.cpp) reads the interval counters of every tenant for  *)
(* the console, then for the interval log, then sets them back, while the  *)
(* senders and the event loops count on (src/src/counter.cpp) and, before  *)
(* the first burst, SystemState::all_tenants_connected resets them         *)
(* (src/src/systemstate.cpp).  Nothing but the atomicity of each counter   *)
(* orders these threads.                                                   *)
(*                                                                         *)
(* Losses and latencies are read and set back in the same way; only the    *)
(* counters that are divided by and printed are kept.  That the ratio is   *)
(* not computed when the losses are negative is a choice of the model.     *)
(***************************************************************************)
EXTENDS Integers

CONSTANTS
    NumTenants,  \* tenants are counted from 0 as in SystemState::tenants
    Reports,     \* "live" and "file", those that are active
    MaxCount     \* bound: requests, and responses, per tenant

ASSUME ReportingAssumption ==
    /\ NumTenants \in Nat \ {0}
    /\ Reports \subseteq {"live", "file"}
    /\ MaxCount \in Nat

Tenants == 0 .. NumTenants - 1
Columns == {"requests", "responses"}

VARIABLES
    interval,    \* interval[t][col]: interval_requests, interval_responses
    waiter,      \* "waiting", "resetting", "launching" or "done"
    next,        \* the tenant the waiter is at
    launched,    \* tenants whose sender runs
    finished,    \* Reporter::finished
    task,        \* the reporter: "off", "asleep", "live", "file", "restart"
    step,        \* where it is with one tenant: "check", "divide", "print"
    tenant,      \* the tenant it is at
    column,      \* the counter it is at
    counted,     \* history: counted[t][col] since the start
    printed,     \* history: sum of what the interval log shows
    undefined    \* history: TRUE when a divisor was 0

startup  == <<waiter, next, launched>>
reporter == <<task, step, tenant, column>>
history  == <<counted, printed, undefined>>
vars     == <<interval, startup, finished, reporter, history>>

Zero == [t \in Tenants |-> [c \in Columns |-> 0]]

Init ==
    /\ interval = Zero
    /\ waiter = "waiting" /\ next = 0 /\ launched = {}
    /\ finished = FALSE
    /\ task = "off" /\ step = "check" /\ tenant = 0 /\ column = "requests"
    /\ counted = Zero /\ printed = Zero /\ undefined = FALSE

-----------------------------------------------------------------------------
(* The thread that waits for the tenants to connect.                       *)

\* The signal AllTenantsConnected starts the reporter, which sleeps first.
AllConnected ==
    /\ waiter = "waiting"
    /\ waiter' = "resetting"
    /\ task' = "asleep"
    /\ UNCHANGED <<interval, next, launched, finished, step, tenant, column,
                   history>>

\* Counter::reset sets the requests of the interval back, not the responses.
ResetCounter ==
    /\ waiter = "resetting"
    /\ interval' = [interval EXCEPT ![next]["requests"] = 0]
    /\ waiter' = "launching"
    /\ UNCHANGED <<next, launched, finished, reporter, history>>

\* The sender thread of the tenant is created; then the next tenant.
LaunchSender ==
    /\ waiter = "launching"
    /\ launched' = launched \union {next}
    /\ next' = (next + 1) % NumTenants
    /\ waiter' = IF next = NumTenants - 1 THEN "done" ELSE "resetting"
    /\ UNCHANGED <<interval, finished, reporter, history>>

-----------------------------------------------------------------------------
(* The senders and the event loops.                                        *)

\* Slip: the sender is not held back until its counter was reset.
Count_AtOnce(t, c) ==
    /\ c = "responses" => counted[t]["requests"] > 0
    /\ counted[t][c] < MaxCount
    /\ interval' = [interval EXCEPT ![t][c] = @ + 1]
    /\ counted' = [counted EXCEPT ![t][c] = @ + 1]
    /\ UNCHANGED <<startup, finished, reporter, printed, undefined>>

\* count_request by the sender, count_response by the event loop once there
\* is something to answer.
Count(t, c) ==
    /\ t \in launched
    /\ c = "responses" => counted[t]["requests"] > 0
    /\ counted[t][c] < MaxCount
    /\ interval' = [interval EXCEPT ![t][c] = @ + 1]
    /\ counted' = [counted EXCEPT ![t][c] = @ + 1]
    /\ UNCHANGED <<startup, finished, reporter, printed, undefined>>

-----------------------------------------------------------------------------
(* The reporter thread.                                                    *)

\* The reports that are not active are passed over.
AfterLive  == IF "file" \in Reports THEN "file" ELSE "restart"
AfterSleep == IF "live" \in Reports THEN "live" ELSE AfterLive

\* The next tenant, or the next task after the last one.
Advance(then) ==
    /\ tenant' = (tenant + 1) % NumTenants
    /\ task' = IF tenant = NumTenants - 1 THEN then ELSE task

\* The interval is over.
WakeUp ==
    /\ task = "asleep"
    /\ task' = IF finished THEN "off" ELSE AfterSleep
    /\ UNCHANGED <<interval, startup, finished, step, tenant, column, history>>

\* The mean of this column is done: the next one, or the printing.
MeanDone ==
    IF column = "requests"
    THEN column' = "responses" /\ step' = "check"
    ELSE column' = "requests" /\ step' = "print"

\* The divisor is compared with 0, and read again for the division.  The
\* division by the requests is left out when the losses are negative.
Check ==
    /\ task \in Reports /\ step = "check"
    /\ \/ /\ interval[tenant][column] # 0
          /\ step' = "divide" /\ UNCHANGED column
       \/ /\ interval[tenant][column] = 0 \/ column = "requests"
          /\ MeanDone
    /\ UNCHANGED <<interval, startup, finished, task, tenant, history>>

Divide ==
    /\ task \in Reports /\ step = "divide"
    /\ undefined' = (undefined \/ interval[tenant][column] = 0)
    /\ MeanDone
    /\ UNCHANGED <<interval, startup, finished, task, tenant, counted, printed>>

\* A counter is read again and appended to the line.
PrintColumn ==
    /\ task \in Reports /\ step = "print"
    /\ printed' = IF task = "file"
                  THEN [printed EXCEPT ![tenant][column] =
                           @ + interval[tenant][column]]
                  ELSE printed
    /\ IF column = "requests"
       THEN column' = "responses" /\ UNCHANGED <<step, task, tenant>>
       ELSE /\ column' = "requests" /\ step' = "check"
            /\ Advance(IF task = "live" THEN AfterLive ELSE "restart")
    /\ UNCHANGED <<interval, startup, finished, counted, undefined>>

\* Slip: an interval only restarts the requests, as reset() does.
Restarted_RequestsOnly(c) == IF c = "requests" THEN 0 ELSE interval[tenant][c]

\* Slip: what was printed is taken off instead, of this interval or not.
Restarted_TakesOff(c) == interval[tenant][c] - printed[tenant][c]

\* What a counter is set to.
Restarted(c) == 0

\* newInterval, one counter after the other, when all tenants are reported.
NewInterval ==
    /\ task = "restart"
    /\ interval' = [interval EXCEPT ![tenant][column] = Restarted(column)]
    /\ IF column = "requests"
       THEN column' = "responses" /\ UNCHANGED <<task, tenant>>
       ELSE column' = "requests" /\ Advance("asleep")
    /\ UNCHANGED <<startup, finished, step, history>>

\* AllTenantsFinished.  The reporter ends after its next sleep.
Finish ==
    /\ waiter = "done" /\ ~finished
    /\ finished' = TRUE
    /\ UNCHANGED <<interval, startup, reporter, history>>

Next ==
    \/ AllConnected \/ ResetCounter \/ LaunchSender
    \/ \E t \in Tenants, c \in Columns : Count(t, c)
    \/ WakeUp \/ Check \/ Divide \/ PrintColumn \/ NewInterval
    \/ Finish

Spec == Init /\ [][Next]_vars

-----------------------------------------------------------------------------
(* Properties.                                                             *)

\* Every variable stays in its type; the counters of an interval never go
\* below zero.
TypeOK ==
    /\ interval \in [Tenants -> [Columns -> Nat]]
    /\ counted \in [Tenants -> [Columns -> 0 .. MaxCount]]
    /\ printed \in [Tenants -> [Columns -> Nat]]
    /\ waiter \in {"waiting", "resetting", "launching", "done"}
    /\ next \in Tenants /\ launched \subseteq Tenants
    /\ finished \in BOOLEAN /\ undefined \in BOOLEAN
    /\ task \in {"off", "asleep", "restart"} \union Reports
    /\ step \in {"check", "divide", "print"}
    /\ tenant \in Tenants /\ column \in Columns

\* Nothing is reported twice: the lines of the interval log never add up to
\* more than was counted, although the counters go on while a line is put
\* together and are set back only after all tenants were reported
\* (reporter.cpp:43-63).  What is counted between the reading and the
\* setting back is in no line.
ReportedOnce ==
    \A t \in Tenants, c \in Columns : printed[t][c] <= counted[t][c]

\* The divisor read for a ratio is not 0, although it is another read than
\* the one compared with 0 and two threads set the counter back
\* (reporter.cpp:76-98, counter.cpp:13).
RatioDefined == ~undefined
=============================================================================
