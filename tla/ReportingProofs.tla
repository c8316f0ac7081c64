--------------------------- MODULE ReportingProofs ---------------------------
(***************************************************************************)
(* What the reports of Reporting guarantee for every number of tenants and *)
(* every number of requests and responses.                                 *)
(***************************************************************************)
EXTENDS Reporting, TLAPS

\* t's counter c was not printed since it was last set back: what it holds
\* is in no line of the interval log.
Unprinted(t, c) ==
    /\ task = "file" =>
          /\ ~(t < tenant)
          /\ ~(t = tenant /\ step = "print" /\ column = "responses"
               /\ c = "requests")
    /\ task = "restart" =>
          \/ t < tenant
          \/ t = tenant /\ column = "responses" /\ c = "requests"

\* Nothing is reported twice, and what is unprinted can still be reported.
ReportedApart ==
    \A t \in Tenants, c \in Columns :
       /\ printed[t][c] <= counted[t][c]
       /\ Unprinted(t, c) => printed[t][c] + interval[t][c] <= counted[t][c]

\* The senders were created for the tenants before `next`; the others have
\* counted nothing.
LaunchedBefore ==
    /\ waiter # "done" => \A t \in launched : t < next
    /\ \A t \in Tenants \ launched, c \in Columns : interval[t][c] = 0

\* Between the check and the division the divisor stays, and the reporter
\* begins every tenant with a check and only after its start.
DivisorKept ==
    /\ task \in Reports /\ step = "divide" => interval[tenant][column] # 0
    /\ task \notin Reports => step = "check"
    /\ waiter = "waiting" => task = "off"

Inv == TypeOK /\ ReportedApart /\ LaunchedBefore /\ DivisorKept /\ RatioDefined

-----------------------------------------------------------------------------
(* Counters.                                                               *)

\* One counter of a table is set.
LEMMA TableSet ==
    ASSUME NEW S, NEW f \in [Tenants -> [Columns -> S]],
           NEW t \in Tenants, NEW c \in Columns, NEW v \in S
    PROVE  /\ [f EXCEPT ![t][c] = v] \in [Tenants -> [Columns -> S]]
           /\ \A u \in Tenants, d \in Columns :
                 [f EXCEPT ![t][c] = v][u][d]
                   = IF u = t /\ d = c THEN v ELSE f[u][d]
OBVIOUS

\* The place after tenant t, which is 0 after the last one.
LEMMA NextTenant ==
    ASSUME NEW t \in Tenants
    PROVE  /\ (t + 1) % NumTenants \in Tenants
           /\ t = NumTenants - 1 => (t + 1) % NumTenants = 0
           /\ t # NumTenants - 1 => (t + 1) % NumTenants = t + 1
<1>1. NumTenants \in Nat \ {0} /\ t \in 0 .. NumTenants - 1
  BY ReportingAssumption DEF Tenants
<1>2. CASE t = NumTenants - 1
  <2>1. (t + 1) % NumTenants = NumTenants % NumTenants
    BY <1>1, <1>2
  <2>2. NumTenants % NumTenants = 0
    BY <1>1, SMTT(30)
  <2> QED
    BY <1>1, <1>2, <2>1, <2>2 DEF Tenants
<1>3. CASE t # NumTenants - 1
  <2>1. t + 1 \in 1 .. NumTenants - 1
    BY <1>1, <1>3
  <2>2. (t + 1) % NumTenants = t + 1
    BY <1>1, <2>1, SMTT(30)
  <2> QED
    BY <1>1, <1>3, <2>1, <2>2 DEF Tenants
<1> QED
  BY <1>2, <1>3

-----------------------------------------------------------------------------
(* The initial states and the steps.                                       *)

LEMMA Initially == Init => Inv
<1> SUFFICES ASSUME Init PROVE Inv
  OBVIOUS
<1>1. NumTenants \in Nat \ {0} /\ MaxCount \in Nat /\ 0 \in Tenants
  BY ReportingAssumption DEF Tenants
<1>2. \A t \in Tenants, c \in Columns :
         interval[t][c] = 0 /\ counted[t][c] = 0 /\ printed[t][c] = 0
  BY DEF Init, Zero
<1>3. TypeOK
  <2>1. Zero \in [Tenants -> [Columns -> Nat]]
        /\ Zero \in [Tenants -> [Columns -> 0 .. MaxCount]]
    BY <1>1 DEF Zero
  <2> QED
    BY <1>1, <2>1 DEF Init, TypeOK, Columns
<1>4. ReportedApart
  BY <1>2 DEF ReportedApart
<1>5. LaunchedBefore
  BY <1>2 DEF Init, LaunchedBefore
<1>6. DivisorKept /\ RatioDefined
  BY DEF Init, DivisorKept, RatioDefined
<1> QED
  BY <1>3, <1>4, <1>5, <1>6 DEF Inv

LEMMA CountSafe ==
    ASSUME Inv, NEW t \in Tenants, NEW c \in Columns, Count(t, c)
    PROVE  Inv'
<1>1. /\ interval \in [Tenants -> [Columns -> Nat]]
      /\ counted \in [Tenants -> [Columns -> 0 .. MaxCount]]
      /\ MaxCount \in Nat
      /\ interval[t][c] + 1 \in Nat
      /\ counted[t][c] + 1 \in 0 .. MaxCount
  BY ReportingAssumption DEF Inv, TypeOK, Count
<1>2. /\ interval' \in [Tenants -> [Columns -> Nat]]
      /\ \A u \in Tenants, d \in Columns :
            interval'[u][d] = IF u = t /\ d = c THEN interval[t][c] + 1
                              ELSE interval[u][d]
  BY <1>1, TableSet DEF Count
<1>3. /\ counted' \in [Tenants -> [Columns -> 0 .. MaxCount]]
      /\ \A u \in Tenants, d \in Columns :
            counted'[u][d] = IF u = t /\ d = c THEN counted[t][c] + 1
                             ELSE counted[u][d]
  BY <1>1, TableSet DEF Count
<1>4. TypeOK'
  BY <1>2, <1>3 DEF Inv, TypeOK, Count, startup, reporter
<1>5. ReportedApart'
  <2> SUFFICES ASSUME NEW u \in Tenants, NEW d \in Columns
               PROVE  /\ printed'[u][d] <= counted'[u][d]
                      /\ Unprinted(u, d)' =>
                            printed'[u][d] + interval'[u][d] <= counted'[u][d]
    BY DEF ReportedApart
  <2>1. printed' = printed /\ (Unprinted(u, d)' <=> Unprinted(u, d))
    BY DEF Count, Unprinted, reporter
  <2>2. printed[u][d] \in Nat /\ interval[u][d] \in Nat /\ counted[u][d] \in Nat
    BY DEF Inv, TypeOK
  <2>3. /\ printed[u][d] <= counted[u][d]
        /\ Unprinted(u, d) =>
              printed[u][d] + interval[u][d] <= counted[u][d]
    BY DEF Inv, ReportedApart
  <2>4. \/ /\ interval'[u][d] = interval[u][d] + 1
           /\ counted'[u][d] = counted[u][d] + 1
        \/ /\ interval'[u][d] = interval[u][d]
           /\ counted'[u][d] = counted[u][d]
    BY <1>2, <1>3
  <2> HIDE DEF Unprinted
  <2> QED
    BY <2>1, <2>2, <2>3, <2>4
<1>6. LaunchedBefore'
  BY <1>2 DEF Inv, LaunchedBefore, Count, startup
<1>7. DivisorKept' /\ RatioDefined'
  <2>1. tenant \in Tenants /\ column \in Columns
    BY DEF Inv, TypeOK
  <2>2. interval[tenant][column] # 0 => interval'[tenant][column] # 0
    BY <1>1, <1>2, <2>1
  <2> QED
    BY <2>2 DEF Inv, DivisorKept, RatioDefined, Count, startup, reporter
<1> QED
  BY <1>4, <1>5, <1>6, <1>7 DEF Inv

\* The reset before the first burst meets a counter that is 0 already.
LEMMA ResetSafe ==
    ASSUME Inv, ResetCounter
    PROVE  Inv'
<1>1. next \in Tenants /\ "requests" \in Columns
      /\ interval \in [Tenants -> [Columns -> Nat]]
  BY DEF Inv, TypeOK, Columns
<1>2. next \notin launched
  BY <1>1 DEF Inv, LaunchedBefore, ResetCounter, Tenants
<1>3. interval[next]["requests"] = 0
  BY <1>1, <1>2 DEF Inv, LaunchedBefore
<1>4. interval' = interval
  <2>1. [interval EXCEPT ![next]["requests"] = 0]
           \in [Tenants -> [Columns -> Nat]]
    BY <1>1
  <2>2. \A u \in Tenants, d \in Columns :
           [interval EXCEPT ![next]["requests"] = 0][u][d] = interval[u][d]
    BY <1>1, <1>3
  <2> QED
    BY <1>1, <2>1, <2>2 DEF ResetCounter
<1> QED
  BY <1>4 DEF ResetCounter, Inv, TypeOK, ReportedApart, Unprinted,
     LaunchedBefore, DivisorKept, RatioDefined, reporter, history

LEMMA LaunchSafe ==
    ASSUME Inv, LaunchSender
    PROVE  Inv'
<1>1. next \in Tenants
  BY DEF Inv, TypeOK
<1>2. /\ (next + 1) % NumTenants \in Tenants
      /\ next # NumTenants - 1 => (next + 1) % NumTenants = next + 1
  BY <1>1, NextTenant
<1>3. TypeOK'
  BY <1>1, <1>2 DEF Inv, TypeOK, LaunchSender, reporter, history
<1>4. ReportedApart' /\ DivisorKept' /\ RatioDefined'
  BY DEF Inv, ReportedApart, Unprinted, DivisorKept, RatioDefined,
     LaunchSender, reporter, history
<1>5. LaunchedBefore'
  <2>1. ASSUME waiter' # "done", NEW t \in launched'
        PROVE  t < next'
    <3>1. next' = next + 1 /\ (t \in launched => t < next)
      BY <1>2, <2>1 DEF Inv, LaunchedBefore, LaunchSender
    <3>2. t \in launched \/ t = next
      BY DEF LaunchSender
    <3>3. t \in Nat /\ next \in Nat
      BY <1>1, <2>1, <1>3 DEF TypeOK, Tenants
    <3> QED
      BY <3>1, <3>2, <3>3
  <2> QED
    BY <2>1 DEF Inv, LaunchedBefore, LaunchSender
<1> QED
  BY <1>3, <1>4, <1>5 DEF Inv

LEMMA PrintSafe ==
    ASSUME Inv, PrintColumn
    PROVE  Inv'
<1>1. /\ tenant \in Tenants /\ column \in Columns
      /\ printed \in [Tenants -> [Columns -> Nat]]
      /\ interval \in [Tenants -> [Columns -> Nat]]
      /\ task \in {"live", "file"} /\ step = "print"
      /\ Reports \subseteq {"live", "file"}
  BY ReportingAssumption DEF Inv, TypeOK, PrintColumn
<1>2. /\ (tenant + 1) % NumTenants \in Tenants
      /\ tenant = NumTenants - 1 => (tenant + 1) % NumTenants = 0
      /\ tenant # NumTenants - 1 => (tenant + 1) % NumTenants = tenant + 1
  BY <1>1, NextTenant
<1>3. printed[tenant][column] + interval[tenant][column] \in Nat
  BY <1>1
<1>4. /\ printed' \in [Tenants -> [Columns -> Nat]]
      /\ \A u \in Tenants, d \in Columns :
            printed'[u][d] =
               IF task = "file" /\ u = tenant /\ d = column
               THEN printed[u][d] + interval[u][d] ELSE printed[u][d]
  <2>1. CASE task = "file"
    BY <1>1, <1>3, <2>1, TableSet DEF PrintColumn
  <2>2. CASE task # "file"
    BY <1>1, <2>2 DEF PrintColumn
  <2> QED
    BY <2>1, <2>2
<1>5. TypeOK'
  BY <1>1, <1>2, <1>4
     DEF Inv, TypeOK, PrintColumn, Advance, AfterLive, startup, Columns
<1>6. ReportedApart'
  <2> SUFFICES ASSUME NEW u \in Tenants, NEW d \in Columns
               PROVE  /\ printed'[u][d] <= counted'[u][d]
                      /\ Unprinted(u, d)' =>
                            printed'[u][d] + interval'[u][d] <= counted'[u][d]
    BY DEF ReportedApart
  <2>1. interval' = interval /\ counted' = counted
    BY DEF PrintColumn
  <2>2. printed[u][d] \in Nat /\ interval[u][d] \in Nat /\ counted[u][d] \in Nat
    BY DEF Inv, TypeOK
  <2>3. /\ printed[u][d] <= counted[u][d]
        /\ Unprinted(u, d) =>
              printed[u][d] + interval[u][d] <= counted[u][d]
    BY DEF Inv, ReportedApart
  <2>4. CASE task = "live"
    <3>1. Unprinted(u, d) /\ printed'[u][d] = printed[u][d]
      BY <1>4, <2>4 DEF Unprinted
    <3> QED
      BY <2>1, <2>3, <3>1
  <2>5. CASE task = "file" /\ ~(u = tenant /\ d = column)
    <3>1. printed'[u][d] = printed[u][d]
      BY <1>4, <2>5
    <3>2. Unprinted(u, d)' => Unprinted(u, d)
      <4>1. u \in Nat /\ tenant \in Nat /\ NumTenants \in Nat
        BY <1>1, ReportingAssumption DEF Tenants
      <4>2. CASE column = "requests"
        BY <2>5, <4>2 DEF PrintColumn, Unprinted
      <4>3. CASE column = "responses" /\ tenant = NumTenants - 1
        BY <1>1, <1>2, <2>5, <4>1, <4>3
           DEF PrintColumn, Unprinted, Advance, Tenants, Columns
      <4>4. CASE column = "responses" /\ tenant # NumTenants - 1
        BY <1>1, <1>2, <2>5, <4>1, <4>4
           DEF PrintColumn, Unprinted, Advance, Tenants, Columns
      <4> QED
        BY <1>1, <4>2, <4>3, <4>4 DEF Columns
    <3> QED
      BY <2>1, <2>3, <3>1, <3>2
  <2>6. CASE task = "file" /\ u = tenant /\ d = column
    <3>1. printed'[u][d] = printed[u][d] + interval[u][d]
      BY <1>4, <2>6
    <3>2. Unprinted(u, d)
      BY <1>1, <2>6 DEF Unprinted, Tenants
    <3>3. ~Unprinted(u, d)'
      <4>1. u \in Nat /\ tenant \in Nat /\ NumTenants \in Nat
        BY <1>1, ReportingAssumption DEF Tenants
      <4>2. CASE column = "requests"
        BY <1>1, <2>6, <4>2 DEF PrintColumn, Unprinted
      <4>3. CASE column = "responses" /\ tenant = NumTenants - 1
        BY <1>1, <1>2, <2>6, <4>1, <4>3
           DEF PrintColumn, Unprinted, Advance
      <4>4. CASE column = "responses" /\ tenant # NumTenants - 1
        BY <1>1, <1>2, <2>6, <4>1, <4>4
           DEF PrintColumn, Unprinted, Advance
      <4> QED
        BY <1>1, <4>2, <4>3, <4>4 DEF Columns
    <3> QED
      BY <2>1, <2>2, <2>3, <3>1, <3>2, <3>3
  <2> QED
    BY <1>1, <2>4, <2>5, <2>6
<1>7. LaunchedBefore'
  BY DEF Inv, LaunchedBefore, PrintColumn, startup
<1>8. DivisorKept' /\ RatioDefined'
  BY <1>1 DEF Inv, DivisorKept, RatioDefined, PrintColumn, Advance, startup
<1> QED
  BY <1>5, <1>6, <1>7, <1>8 DEF Inv

LEMMA NewIntervalSafe ==
    ASSUME Inv, NewInterval
    PROVE  Inv'
<1>1. /\ tenant \in Tenants /\ column \in Columns
      /\ interval \in [Tenants -> [Columns -> Nat]]
      /\ task = "restart" /\ "restart" \notin Reports /\ "asleep" \notin Reports
      /\ Reports \subseteq {"live", "file"}
  BY ReportingAssumption DEF Inv, TypeOK, NewInterval
<1>2. /\ (tenant + 1) % NumTenants \in Tenants
      /\ tenant = NumTenants - 1 => (tenant + 1) % NumTenants = 0
      /\ tenant # NumTenants - 1 => (tenant + 1) % NumTenants = tenant + 1
  BY <1>1, NextTenant
<1>3. /\ interval' \in [Tenants -> [Columns -> Nat]]
      /\ \A u \in Tenants, d \in Columns :
            interval'[u][d] = IF u = tenant /\ d = column THEN 0
                              ELSE interval[u][d]
  BY <1>1, TableSet DEF NewInterval, Restarted
<1>4. TypeOK'
  BY <1>1, <1>2, <1>3
     DEF Inv, TypeOK, NewInterval, Advance, startup, history, Columns
<1>5. ReportedApart'
  <2> SUFFICES ASSUME NEW u \in Tenants, NEW d \in Columns
               PROVE  /\ printed'[u][d] <= counted'[u][d]
                      /\ Unprinted(u, d)' =>
                            printed'[u][d] + interval'[u][d] <= counted'[u][d]
    BY DEF ReportedApart
  <2>1. printed' = printed /\ counted' = counted
    BY DEF NewInterval, history
  <2>2. printed[u][d] \in Nat /\ interval[u][d] \in Nat /\ counted[u][d] \in Nat
    BY DEF Inv, TypeOK
  <2>3. /\ printed[u][d] <= counted[u][d]
        /\ Unprinted(u, d) =>
              printed[u][d] + interval[u][d] <= counted[u][d]
    BY DEF Inv, ReportedApart
  <2>4. CASE u = tenant /\ d = column
    <3>1. interval'[u][d] = 0
      BY <1>3, <2>4
    <3> QED
      BY <2>1, <2>2, <2>3, <3>1
  <2>5. CASE ~(u = tenant /\ d = column)
    <3>1. interval'[u][d] = interval[u][d]
      BY <1>3, <2>5
    <3>2. Unprinted(u, d)' => Unprinted(u, d)
      <4>1. u \in 0 .. NumTenants - 1 /\ tenant \in 0 .. NumTenants - 1
            /\ NumTenants \in Nat
        BY <1>1, ReportingAssumption DEF Tenants
      <4>2. CASE column = "requests"
        BY <1>1, <2>5, <4>2 DEF NewInterval, Unprinted
      <4>3. CASE column = "responses" /\ tenant = NumTenants - 1
        <5>1. u < tenant \/ (u = tenant /\ d = "requests")
          BY <2>5, <4>1, <4>3 DEF Columns
        <5> QED
          BY <1>1, <4>3, <5>1 DEF Unprinted
      <4>4. CASE column = "responses" /\ tenant # NumTenants - 1
        <5>1. task' = "restart" /\ tenant' = tenant + 1 /\ column' = "requests"
          BY <1>1, <1>2, <4>4 DEF NewInterval, Advance
        <5>2. Unprinted(u, d)' => u < tenant + 1
          BY <5>1 DEF Unprinted
        <5>3. u < tenant + 1 => u < tenant \/ (u = tenant /\ d = "requests")
          BY <2>5, <4>1, <4>4 DEF Columns
        <5> QED
          BY <1>1, <4>4, <5>2, <5>3 DEF Unprinted
      <4> QED
        BY <1>1, <4>2, <4>3, <4>4 DEF Columns
    <3> QED
      BY <2>1, <2>3, <3>1, <3>2
  <2> QED
    BY <2>4, <2>5
<1>6. LaunchedBefore'
  BY <1>3 DEF Inv, LaunchedBefore, NewInterval, startup
<1>7. DivisorKept' /\ RatioDefined'
  <2>1. task' \notin Reports /\ task \notin Reports /\ step' = step
    BY <1>1 DEF NewInterval, Advance
  <2> QED
    BY <1>1, <2>1
       DEF Inv, DivisorKept, RatioDefined, NewInterval, startup, history
<1> QED
  BY <1>4, <1>5, <1>6, <1>7 DEF Inv

\* The steps of the reporter that leave every counter alone.
LEMMA ReadSafe ==
    ASSUME Inv, WakeUp \/ Check \/ Divide
    PROVE  Inv'
<1>1. Reports \subseteq {"live", "file"}
      /\ tenant \in Tenants /\ column \in Columns
  BY ReportingAssumption DEF Inv, TypeOK
<1>2. TypeOK'
  BY <1>1 DEF Inv, TypeOK, WakeUp, Check, Divide, MeanDone, AfterSleep,
     AfterLive, startup, history, Columns
<1>3. ReportedApart'
  <2> SUFFICES ASSUME NEW u \in Tenants, NEW d \in Columns,
                      Unprinted(u, d)'
               PROVE  Unprinted(u, d)
    BY DEF Inv, ReportedApart, WakeUp, Check, Divide, history
  <2> QED
    BY <1>1 DEF Unprinted, WakeUp, Check, Divide
<1>4. LaunchedBefore'
  BY DEF Inv, LaunchedBefore, WakeUp, Check, Divide, startup
<1>5. DivisorKept'
  <2>1. CASE WakeUp
    BY <1>1, <2>1 DEF Inv, DivisorKept, WakeUp, AfterSleep, AfterLive, startup
  <2>2. CASE Check
    BY <2>2 DEF Inv, Check, DivisorKept, MeanDone, startup
  <2>3. CASE Divide
    BY <2>3 DEF Inv, Divide, DivisorKept, MeanDone, startup
  <2> QED
    BY <2>1, <2>2, <2>3
<1>6. RatioDefined'
  BY DEF Inv, DivisorKept, RatioDefined, WakeUp, Check, Divide, history
<1> QED
  BY <1>2, <1>3, <1>4, <1>5, <1>6 DEF Inv

LEMMA Stepwise == Inv /\ [Next]_vars => Inv'
<1> SUFFICES ASSUME Inv, [Next]_vars PROVE Inv'
  OBVIOUS
<1>1. CASE AllConnected \/ Finish
  <2>1. Reports \subseteq {"live", "file"}
    BY ReportingAssumption
  <2>2. UNCHANGED <<interval, counted, printed, tenant, step, column>>
    BY <1>1 DEF AllConnected, Finish, reporter, history
  <2>3. TypeOK'
    BY <1>1 DEF Inv, TypeOK, AllConnected, Finish, startup, reporter, history
  <2>4. ReportedApart'
    BY <1>1, <2>2 DEF Inv, DivisorKept, ReportedApart, Unprinted, AllConnected,
       Finish, reporter
  <2>5. LaunchedBefore'
    BY <1>1 DEF Inv, LaunchedBefore, AllConnected, Finish, startup
  <2>6. DivisorKept' /\ RatioDefined'
    BY <1>1, <2>1 DEF Inv, DivisorKept, RatioDefined, AllConnected, Finish,
       startup, reporter, history
  <2> QED
    BY <2>3, <2>4, <2>5, <2>6 DEF Inv
<1>2. CASE UNCHANGED vars
  BY <1>2 DEF vars, Inv, TypeOK, ReportedApart, Unprinted,
     LaunchedBefore, DivisorKept, RatioDefined, startup, reporter, history
<1> QED
  BY <1>1, <1>2, CountSafe, ResetSafe, LaunchSafe, PrintSafe, NewIntervalSafe,
     ReadSafe DEF Next

LEMMA Invariance == Spec => []Inv
<1> QED
  BY Initially, Stepwise, PTL DEF Spec

-----------------------------------------------------------------------------
(* Theorems.                                                               *)

\* Every variable stays in its type; no counter of an interval is negative.
THEOREM TypeCorrect == Spec => []TypeOK
<1>1. Inv => TypeOK
  BY DEF Inv
<1> QED
  BY <1>1, Invariance, PTL

\* The lines of the interval log never add up to more than was counted, for
\* any number of tenants and any interleaving of the reporter's reads with
\* the counting threads.
THEOREM NothingTwice == Spec => []ReportedOnce
<1>1. Inv => ReportedOnce
  BY DEF Inv, ReportedApart, ReportedOnce
<1> QED
  BY <1>1, Invariance, PTL

\* No ratio of a report is divided by zero, although the divisor is read
\* twice and two threads set it back.
THEOREM NoZeroDivisor == Spec => []RatioDefined
<1>1. Inv => RatioDefined
  BY DEF Inv
<1> QED
  BY <1>1, Invariance, PTL
=============================================================================
