-------------------------------- MODULE Pacing --------------------------------
(***************************************************************************)
(* How many requests a tenant sends, and when: the loop of                 *)
(* PacketDispatcher::send_loop (src/src/packetdispatcher.cpp), the samples *)
(* of its Scheduler (src/src/scheduler.cpp), the burst rate computed by    *)
(* BaseTestCase::pps (src/src/testcases.cpp) and the packet limit of       *)
(* Counter::limit_reached (src/src/counter.cpp).                           *)
(*                                                                         *)
(* Sample i of the schedule is a burst size and the time to wait before    *)
(* that burst; the code keeps the two in two vectors with an index each.   *)
(* Only the sizes have values here, the times are told apart by their      *)
(* index.  Fractions of packets are counted in units of 1/Second, which is *)
(* exact where the code adds up floats.  A file with a negative burst size *)
(* is left out.                                                            *)
(***************************************************************************)
EXTENDS Integers, FiniteSets, Functions

CONSTANTS
    NumConns,    \* connections a packet of a burst is sent on, 1 on the
                 \* data plane, which counts on the first list only
    Word,        \* modulus of uint8_t, the type of the connection loop
    Second,      \* milliseconds in a second, the unit of a packet's fraction
    Rates,       \* packets per second the user may ask for (-p)
    Intervals,   \* send intervals in milliseconds the user may ask for
    Sizes,       \* burst sizes a file may hold or a distribution may draw
    MaxLines,    \* bound: samples of a schedule
    MaxPackets,  \* end condition -M, 0 when there is none
    TimeLimit,   \* TRUE: there is an end condition in seconds
    MaxBursts    \* bound: bursts in a run

ASSUME PacingAssumption ==
    /\ NumConns \in Nat \ {0}
    /\ Word \in Nat /\ NumConns < Word
    /\ Second \in Nat \ {0}
    /\ Rates \subseteq Nat \ {0}
    /\ Intervals \subseteq Nat
    /\ Sizes \subseteq Nat
    /\ MaxLines \in Nat \ {0}
    /\ MaxPackets \in Nat
    /\ TimeLimit \in BOOLEAN
    /\ MaxBursts \in Nat

VARIABLES
    schedule,    \* schedule[i], burst size of sample i
    share,       \* _missing_packets_per_sendinterval, in 1/Second
    credit,      \* _missing_packets, in 1/Second
    iTime,       \* _i_btime
    iSize,       \* _i_bsize
    at,          \* where the tenant is: "new", "head", "burst" or "done"
    left,        \* packets of the burst still to send, this one included
    conn,        \* loop counter over the connections, a uint8_t
    requests,    \* requests[c], counted on connection c
    stopped,     \* testcase->finished, set by whoever ends the run
    bursts,      \* history: bursts begun
    planned      \* history: sum of the sizes the schedule gave them

samples == <<schedule, share>>
indices == <<iTime, iSize>>
sending == <<left, conn, requests>>
history == <<bursts, planned>>
vars    == <<samples, credit, indices, at, sending, stopped, history>>

Targets == 0 .. NumConns - 1

-----------------------------------------------------------------------------
(* The parameters: BaseTestCase::pps, Scheduler::populate_data.            *)

\* Packets per send interval in 1/Second.  An interval in which less than
\* one packet is due is stretched until one is.
Effective(pps, interval) ==
    IF pps * interval < Second THEN Second ELSE pps * interval

BurstRate(rate) == rate \div Second
Share(rate) == rate % Second

\* Samples that hold one of the sizes S.
Schedules(S) == UNION {[0 .. n - 1 -> S] : n \in 1 .. MaxLines}

\* A scheduling file: pps() is not called and no share is left over.
FromFile ==
    /\ schedule \in Schedules(Sizes)
    /\ share = 0

\* Drawn samples: the mean, or whatever the distribution gives.
FromRate ==
    \E pps \in Rates, interval \in Intervals :
       LET rate == Effective(pps, interval) IN
       /\ schedule \in Schedules(Sizes \union {BurstRate(rate)})
       /\ share = Share(rate)

Init ==
    /\ FromFile \/ FromRate
    /\ credit = 0 /\ iTime = 0 /\ iSize = 0
    /\ at = "new" /\ left = 0 /\ conn = 0
    /\ requests = [c \in Targets |-> 0]
    /\ stopped = FALSE /\ bursts = 0 /\ planned = 0

-----------------------------------------------------------------------------
(* The scheduler.                                                          *)

Lines == Cardinality(DOMAIN schedule)

\* Slip: the index wraps one sample late.
Following_Late(i) == IF i + 1 > Lines THEN 0 ELSE i + 1

\* The index after i: it is incremented and wraps before it is used.
Following(i) == IF i + 2 > Lines THEN 0 ELSE i + 1

-----------------------------------------------------------------------------
(* The tenant.                                                             *)

\* Slip: start() leaves the first time to the loop.
Start_TakesNoTime ==
    /\ at = "new"
    /\ at' = "head"
    /\ UNCHANGED <<samples, credit, indices, sending, stopped, history>>

\* BaseTestCase::start draws the first time; the loop runs once all tenants
\* are connected.
Start ==
    /\ at = "new"
    /\ iTime' = Following(iTime)
    /\ at' = "head"
    /\ UNCHANGED <<samples, credit, iSize, sending, stopped, history>>

\* Another tenant's failure, or the end of the run, finishes the testcase.
Stop ==
    /\ ~stopped
    /\ stopped' = TRUE
    /\ UNCHANGED <<samples, credit, indices, at, sending, history>>

\* The loop condition.
LeaveLoop ==
    /\ at = "head" /\ stopped
    /\ at' = "done"
    /\ UNCHANGED <<samples, credit, indices, sending, stopped, history>>

\* Slips: the limit is met exactly, or looked for on the first connection.
PacketLimit_Exactly ==
    MaxPackets > 0 /\ SumFunction(requests) = MaxPackets
PacketLimit_FirstConnection ==
    MaxPackets > 0 /\ requests[0] >= MaxPackets

PacketLimit == MaxPackets > 0 /\ SumFunction(requests) >= MaxPackets

\* limit_reached() finds a limit passed, after the time of the next burst
\* was drawn.
FinishRequesting(limit) ==
    /\ at = "head" /\ ~stopped
    /\ iTime' = Following(iTime)
    /\ limit
    /\ at' = "done"
    /\ UNCHANGED <<samples, credit, iSize, sending, stopped, history>>

\* Slips: the credit is not reduced by what it paid for, or dropped.
TakeCredit_Keeps(sum) == credit' = sum
TakeCredit_Drops(sum) == credit' = 0

\* What is left of the credit when its whole packets have joined a burst.
TakeCredit(sum) == credit' = sum % Second

\* The head of a burst of the next size, and the packets the credit has
\* grown to.
StartBurst ==
    /\ at = "head" /\ ~stopped /\ ~PacketLimit
    /\ bursts < MaxBursts
    /\ iTime' = Following(iTime)
    /\ iSize' = Following(iSize)
    /\ TakeCredit(credit + share)
    /\ left' = schedule[iSize'] + (credit + share) \div Second
    /\ at' = IF left' > 0 THEN "burst" ELSE "head"
    /\ bursts' = bursts + 1
    /\ planned' = planned + schedule[iSize']
    /\ UNCHANGED <<samples, conn, requests, stopped>>

\* One packet on one connection; after the last one the next packet of the
\* burst, then the sleep that ends the burst.  conn is compared with the
\* number of connections after it was incremented as a uint8_t.
SendOne ==
    LET next == (conn + 1) % Word
        last == next >= NumConns
    IN
    /\ at = "burst"
    /\ requests' = [requests EXCEPT ![conn] = @ + 1]
    /\ conn' = IF last THEN 0 ELSE next
    /\ left' = IF last THEN left - 1 ELSE left
    /\ at' = IF left' = 0 THEN "head" ELSE "burst"
    /\ UNCHANGED <<samples, credit, indices, stopped, history>>

\* The time limit may expire before any burst.
Next ==
    \/ Start \/ LeaveLoop
    \/ FinishRequesting(PacketLimit) \/ FinishRequesting(TimeLimit)
    \/ StartBurst \/ SendOne
    \/ Stop

Spec == Init /\ [][Next]_vars

\* The sender thread is scheduled; the time limit need not come.
FairSpec ==
    /\ Spec
    /\ WF_vars(\/ Start \/ LeaveLoop \/ FinishRequesting(PacketLimit)
               \/ StartBurst \/ SendOne)

-----------------------------------------------------------------------------
(* Properties.                                                             *)

\* Every variable stays in its type; the carried credit is below a packet,
\* and the loop counter always names a connection.
TypeOK ==
    /\ DOMAIN schedule = 0 .. Lines - 1 /\ Lines \in 1 .. MaxLines
    /\ \A i \in DOMAIN schedule : schedule[i] \in Nat
    /\ share \in 0 .. Second - 1 /\ credit \in 0 .. Second - 1
    /\ iTime \in DOMAIN schedule /\ iSize \in DOMAIN schedule
    /\ at \in {"new", "head", "burst", "done"}
    /\ left \in Nat /\ conn \in Targets
    /\ requests \in [Targets -> Nat]
    /\ stopped \in BOOLEAN
    /\ bursts \in Nat /\ planned \in Nat

\* What connection c has been given by the bursts begun so far, the packets
\* of the current burst it has not sent yet included.
Granted(c) == requests[c] + left - (IF c < conn THEN 1 ELSE 0)

\* No packet is lost or invented by rounding: after any number of bursts
\* every connection has been given the scheduled sizes and the whole part of
\* the shares, and the fraction is what is carried on
\* (packetdispatcher.cpp:35-40).
CreditExact ==
    \A c \in Targets :
       (Granted(c) - planned) * Second + credit = bursts * share

\* A burst of one line of a scheduling file goes out after the time of the
\* same line, through every wrap of the two indices: at the head of the
\* loop, the time slept last belongs to the size taken next
\* (testcases.cpp:76 draws the one time that keeps them together).
BurstAfterItsLine == at = "head" => iTime = Following(iSize)

\* A sum over the connections passes the limit by less than one burst on
\* every connection: the largest burst is the largest size plus one packet
\* paid by the credit.
OvershootBounded ==
    MaxPackets > 0 =>
       \E i \in DOMAIN schedule :
          SumFunction(requests) < MaxPackets
             + NumConns * (schedule[i] + (IF share > 0 THEN 1 ELSE 0))

\* A schedule that sends anything at all reaches its packet limit, or the
\* run is stopped: the sender does not pass the limit by, and does not stay
\* in a burst.
SenderStops ==
    (MaxPackets > 0 /\ (share > 0 \/ \E i \in DOMAIN schedule : schedule[i] > 0))
       ~> at = "done"
=============================================================================
