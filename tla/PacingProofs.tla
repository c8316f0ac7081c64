----------------------------- MODULE PacingProofs -----------------------------
(***************************************************************************)
(* What Pacing guarantees for every schedule, rate, interval, number of    *)
(* connections below the width of the loop counter, and limit: types, the  *)
(* exactness of the carried credit, the pairing of times and sizes, and by *)
(* how much a packet limit is passed.                                      *)
(***************************************************************************)
EXTENDS Pacing, Sums, FiniteSetTheorems, TLAPS

LEMMA Division ==
    ASSUME NEW a \in Nat, NEW n \in Nat \ {0}
    PROVE  /\ a \div n \in Nat
           /\ a % n \in 0 .. n - 1
           /\ a = n * (a \div n) + (a % n)
  BY SMT

\* What a burst adds to the credit is a share, whichever part of it is
\* turned into packets.
LEMMA CarryOver ==
    ASSUME NEW given \in Int, NEW carried \in Int, NEW s \in Int,
           NEW n \in Int, NEW whole \in Int, NEW rest \in Int,
           NEW unit \in Int,
           given * unit + carried = n * s,
           carried + s = unit * whole + rest
    PROVE  (given + whole) * unit + rest = (n + 1) * s
<1>1. (given + whole) * unit = given * unit + unit * whole
  BY SMT
<1>2. (n + 1) * s = n * s + s
  BY SMT
<1>3. given * unit \in Int /\ unit * whole \in Int /\ n * s \in Int
  BY SMT
<1> QED
  BY <1>1, <1>2, <1>3, SMT

LEMMA LinesOfSchedule ==
    ASSUME NEW n \in 1 .. MaxLines, NEW S, schedule \in [0 .. n - 1 -> S]
    PROVE  DOMAIN schedule = 0 .. Lines - 1 /\ Lines = n
<1>1. n \in Int /\ n - 1 \in Int /\ ~(0 > n - 1)
  BY PacingAssumption, SMT DEF PacingAssumption
<1>2. DOMAIN schedule = 0 .. n - 1
  OBVIOUS
<1>3. Cardinality(0 .. n - 1) = (n - 1) - 0 + 1
  BY <1>1, FS_Interval, SMT
<1> QED
  BY <1>1, <1>2, <1>3, SMT DEF Lines

LEMMA FollowingInRange ==
    ASSUME TypeOK, NEW i \in DOMAIN schedule
    PROVE  Following(i) \in DOMAIN schedule
  BY SMT DEF TypeOK, Following

-----------------------------------------------------------------------------
(* The inductive invariant.                                                *)

\* Only inside a burst are packets left and connections half served.
BurstOpen ==
    /\ at = "burst" <=> left > 0
    /\ at # "burst" => conn = 0

\* The time drawn last belongs to the size taken next; before start() drew
\* the first time, the two indices are equal.
IndicesPaired ==
    IF at = "new" THEN iTime = iSize
    ELSE at \in {"head", "burst"} => iTime = Following(iSize)

Inv == TypeOK /\ BurstOpen /\ IndicesPaired /\ CreditExact

LEMMA ConnectionsBelowWord ==
    ASSUME TypeOK
    PROVE  /\ (conn + 1) % Word = conn + 1
           /\ conn \in Nat /\ conn + 1 <= NumConns
<1>1. conn \in Nat /\ conn + 1 <= NumConns /\ NumConns < Word /\ Word \in Nat
      /\ NumConns \in Nat
  BY PacingAssumption, SMT DEF TypeOK, Targets, PacingAssumption
<1>2. ASSUME NEW a \in Nat, NEW n \in Nat, a < n
      PROVE  a % n = a
  BY <1>2, SMT
<1> QED
  BY <1>1, <1>2, SMT

LEMMA InitTypes == Init => TypeOK
<1> SUFFICES ASSUME Init PROVE TypeOK
  OBVIOUS
<1>1. PICK S \in SUBSET Nat : schedule \in Schedules(S) /\ share \in 0 .. Second - 1
  <2>1. CASE FromFile
    BY <2>1, PacingAssumption, SMT DEF FromFile, PacingAssumption
  <2>2. CASE FromRate
    <3>1. PICK pps \in Rates, interval \in Intervals :
             LET rate == Effective(pps, interval) IN
             /\ schedule \in Schedules(Sizes \union {BurstRate(rate)})
             /\ share = Share(rate)
      BY <2>2 DEF FromRate
    <3> DEFINE rate == Effective(pps, interval)
    <3>2. pps \in Nat /\ interval \in Nat /\ Second \in Nat \ {0}
      BY PacingAssumption DEF PacingAssumption
    <3>3. rate \in Nat
      BY <3>2, SMT DEF Effective
    <3>4. BurstRate(rate) \in Nat /\ Share(rate) \in 0 .. Second - 1
      BY <3>2, <3>3, Division DEF BurstRate, Share
    <3>5. Sizes \union {BurstRate(rate)} \in SUBSET Nat
      BY <3>4, PacingAssumption DEF PacingAssumption
    <3> QED
      BY <3>1, <3>4, <3>5
  <2> QED
    BY <2>1, <2>2 DEF Init
<1>2. PICK n \in 1 .. MaxLines : schedule \in [0 .. n - 1 -> S]
  BY <1>1 DEF Schedules
<1>3. DOMAIN schedule = 0 .. Lines - 1 /\ Lines = n
  BY <1>2, LinesOfSchedule
<1>4. 0 \in DOMAIN schedule /\ Lines \in 1 .. MaxLines
  BY <1>3, PacingAssumption, SMT DEF PacingAssumption
<1>5. \A i \in DOMAIN schedule : schedule[i] \in Nat
  BY <1>2, <1>1
<1>6. 0 \in 0 .. Second - 1 /\ 0 \in Targets
  BY PacingAssumption, SMT DEF PacingAssumption, Targets
<1>7. requests \in [Targets -> Nat]
  BY DEF Init
<1> QED
  BY <1>1, <1>3, <1>4, <1>5, <1>6, <1>7 DEF TypeOK, Init

LEMMA InitInv == Init => Inv
<1> SUFFICES ASSUME Init PROVE Inv
  OBVIOUS
<1>1. TypeOK
  BY InitTypes
<1>2. BurstOpen /\ IndicesPaired
  BY DEF Init, BurstOpen, IndicesPaired
<1>3. CreditExact
  <2> SUFFICES ASSUME NEW c \in Targets
               PROVE (Granted(c) - planned) * Second + credit = bursts * share
    BY DEF CreditExact
  <2>1. Granted(c) = 0
    BY SMT DEF Init, Granted, Targets
  <2>2. share \in Int /\ Second \in Int
    BY <1>1, PacingAssumption, SMT DEF TypeOK, PacingAssumption
  <2> QED
    BY <2>1, <2>2, SMT DEF Init
<1> QED
  BY <1>1, <1>2, <1>3 DEF Inv

-----------------------------------------------------------------------------
(* The steps.                                                              *)

\* Steps that leave the burst and the credit alone only move the program
\* counter and the time.
LEMMA StartKeeps == Inv /\ Start => Inv'
<1> SUFFICES ASSUME Inv, Start PROVE Inv'
  OBVIOUS
<1> USE DEF Start, samples, sending, history
<1>1. iTime' \in DOMAIN schedule /\ iTime' = Following(iSize)
  BY FollowingInRange DEF Inv, TypeOK, IndicesPaired
<1>2. TypeOK'
  BY <1>1 DEF Inv, TypeOK, Lines
<1>3. BurstOpen'
  BY DEF Inv, BurstOpen
<1>4. IndicesPaired'
  BY <1>1 DEF IndicesPaired, Following, Lines
<1>5. CreditExact'
  BY DEF Inv, CreditExact, Granted
<1> QED
  BY <1>2, <1>3, <1>4, <1>5 DEF Inv

LEMMA StopKeeps == Inv /\ Stop => Inv'
  BY DEF Inv, Stop, samples, indices, sending, history, TypeOK, Lines, BurstOpen,
         IndicesPaired, Following, CreditExact, Granted

LEMMA LeaveLoopKeeps == Inv /\ LeaveLoop => Inv'
<1> SUFFICES ASSUME Inv, LeaveLoop PROVE Inv'
  OBVIOUS
<1> USE DEF LeaveLoop, samples, indices, sending, history
<1>1. TypeOK'
  BY DEF Inv, TypeOK, Lines
<1>2. BurstOpen' /\ IndicesPaired'
  BY DEF Inv, BurstOpen, IndicesPaired
<1>3. CreditExact'
  BY DEF Inv, CreditExact, Granted
<1> QED
  BY <1>1, <1>2, <1>3 DEF Inv

LEMMA FinishRequestingKeeps ==
    ASSUME Inv, NEW limit, FinishRequesting(limit)
    PROVE  Inv'
<1> USE DEF FinishRequesting, samples, sending, history
<1>1. TypeOK'
  BY FollowingInRange DEF Inv, TypeOK, Lines
<1>2. BurstOpen' /\ IndicesPaired'
  BY DEF Inv, BurstOpen, IndicesPaired
<1>3. CreditExact'
  BY DEF Inv, CreditExact, Granted
<1> QED
  BY <1>1, <1>2, <1>3 DEF Inv

LEMMA StartBurstKeeps == Inv /\ StartBurst => Inv'
<1> SUFFICES ASSUME Inv, StartBurst PROVE Inv'
  OBVIOUS
<1> DEFINE size  == schedule[iSize']
           whole == (credit + share) \div Second
           rest  == (credit + share) % Second
<1>1. iTime' \in DOMAIN schedule /\ iSize' \in DOMAIN schedule
  BY FollowingInRange DEF Inv, TypeOK, StartBurst
<1>2. size \in Nat
  BY <1>1 DEF Inv, TypeOK
<1>3. /\ credit \in Nat /\ share \in Nat /\ Second \in Nat \ {0}
      /\ credit + share \in Nat
  BY PacingAssumption, SMT DEF Inv, TypeOK, PacingAssumption
<1>4. /\ whole \in Nat /\ rest \in 0 .. Second - 1
      /\ credit + share = Second * whole + rest
  BY <1>3, Division
<1>5. /\ left' = size + whole /\ credit' = rest
      /\ bursts' = bursts + 1 /\ planned' = planned + size
      /\ UNCHANGED <<schedule, share, conn, requests, stopped>>
  BY DEF StartBurst, TakeCredit, samples
<1>6. left = 0 /\ conn = 0
  BY SMT DEF Inv, TypeOK, BurstOpen, StartBurst
<1> HIDE DEF size, whole, rest
<1>7. left' \in Nat /\ credit' \in 0 .. Second - 1
  BY <1>2, <1>4, <1>5, SMT
<1>8. at' = IF left' > 0 THEN "burst" ELSE "head"
  BY DEF StartBurst
<1>9. TypeOK'
  <2>1. bursts' \in Nat /\ planned' \in Nat
    BY <1>2, <1>5, SMT DEF Inv, TypeOK
  <2>2. at' \in {"new", "head", "burst", "done"}
    BY <1>8
  <2> QED
    BY <1>1, <1>5, <1>7, <2>1, <2>2 DEF Inv, TypeOK, Lines
<1>10. BurstOpen'
  BY <1>5, <1>6, <1>8 DEF BurstOpen
<1>11. IndicesPaired'
  <2>1. iTime = Following(iSize) /\ iTime' = Following(iTime)
        /\ iSize' = Following(iSize)
    BY DEF Inv, IndicesPaired, StartBurst
  <2>2. at' \in {"head", "burst"}
    BY <1>8
  <2> QED
    BY <2>1, <2>2, <1>5 DEF IndicesPaired, Following, Lines
<1>12. CreditExact'
  <2> SUFFICES ASSUME NEW c \in Targets
               PROVE  (Granted(c)' - planned') * Second + credit'
                         = bursts' * share'
    BY DEF CreditExact
  <2> DEFINE given == Granted(c) - planned
  <2>1. c \in Nat /\ requests[c] \in Nat /\ planned \in Nat /\ bursts \in Nat
    BY SMT DEF Inv, TypeOK, Targets
  <2>2. Granted(c) = requests[c] /\ Granted(c)' = requests[c] + left'
    BY <1>5, <1>6, <1>7, <2>1, SMT DEF Granted
  <2>3. given \in Int /\ Granted(c)' - planned' = given + whole
    BY <1>2, <1>4, <1>5, <2>1, <2>2, SMT
  <2>4. given * Second + credit = bursts * share
    BY DEF Inv, CreditExact
  <2> HIDE DEF given
  <2>5. (given + whole) * Second + rest = (bursts + 1) * share
    <3>1. /\ given \in Int /\ credit \in Int /\ share \in Int
          /\ bursts \in Int /\ whole \in Int /\ rest \in Int
          /\ Second \in Int
      BY <1>3, <1>4, <2>1, <2>3, SMT
    <3> QED
      BY <1>4, <2>4, <3>1, CarryOver
  <2> QED
    BY <1>5, <2>3, <2>5
<1> QED
  BY <1>9, <1>10, <1>11, <1>12 DEF Inv

LEMMA SendOneKeeps == Inv /\ SendOne => Inv'
<1> SUFFICES ASSUME Inv, SendOne PROVE Inv'
  OBVIOUS
<1> DEFINE last == conn + 1 >= NumConns
<1>1. /\ (conn + 1) % Word = conn + 1
      /\ conn \in Nat /\ conn + 1 <= NumConns /\ conn \in Targets
  BY ConnectionsBelowWord DEF Inv, TypeOK
<1>2. /\ at = "burst"
      /\ requests' = [requests EXCEPT ![conn] = @ + 1]
      /\ conn' = IF last THEN 0 ELSE conn + 1
      /\ left' = IF last THEN left - 1 ELSE left
      /\ at' = IF left' = 0 THEN "head" ELSE "burst"
      /\ UNCHANGED <<samples, credit, indices, stopped, history>>
  BY <1>1 DEF SendOne
<1>3. left \in Nat /\ left > 0 /\ NumConns \in Nat /\ requests \in [Targets -> Nat]
  BY <1>2, PacingAssumption DEF Inv, TypeOK, BurstOpen, PacingAssumption
<1>4. left' \in Nat /\ conn' \in Targets
  BY <1>1, <1>2, <1>3, SMT DEF Targets
<1>5. requests' \in [Targets -> Nat]
  BY <1>1, <1>2, <1>3
<1>6. TypeOK'
  <2>1. at' \in {"new", "head", "burst", "done"}
    BY <1>2
  <2> QED
    BY <1>2, <1>4, <1>5, <2>1
       DEF Inv, TypeOK, Lines, samples, indices, history
<1>7. BurstOpen'
  BY <1>1, <1>2, <1>3, <1>4, SMT DEF BurstOpen
<1>8. IndicesPaired'
  <2>1. at' \in {"head", "burst"}
    BY <1>2
  <2>2. iTime = Following(iSize)
    BY <1>2 DEF Inv, IndicesPaired
  <2> QED
    BY <1>2, <2>1, <2>2
       DEF IndicesPaired, Following, Lines, samples, indices
<1>9. CreditExact'
  <2> SUFFICES ASSUME NEW c \in Targets PROVE Granted(c)' = Granted(c)
    BY <1>2 DEF Inv, CreditExact, samples, history
  <2>1. c \in Nat /\ c < NumConns /\ requests[c] \in Nat
    BY <1>3, SMT DEF Targets
  <2>2. requests'[c] = IF c = conn THEN requests[c] + 1 ELSE requests[c]
    BY <1>1, <1>2, <1>3
  <2>3. CASE last
    BY <1>1, <1>2, <1>3, <2>1, <2>2, <2>3, SMT DEF Granted
  <2>4. CASE ~last
    BY <1>1, <1>2, <1>3, <2>1, <2>2, <2>4, SMT DEF Granted
  <2> QED
    BY <2>3, <2>4
<1> QED
  BY <1>6, <1>7, <1>8, <1>9 DEF Inv

LEMMA StutterKeeps == Inv /\ UNCHANGED vars => Inv'
  BY DEF Inv, vars, samples, indices, sending, history, TypeOK, Lines, BurstOpen,
         IndicesPaired, Following, CreditExact, Granted

LEMMA StepKeeps == Inv /\ [Next]_vars => Inv'
  BY StartKeeps, StopKeeps, LeaveLoopKeeps, FinishRequestingKeeps,
     StartBurstKeeps, SendOneKeeps, StutterKeeps DEF Next

LEMMA InvHolds == Spec => []Inv
  BY InitInv, StepKeeps, PTL DEF Spec

-----------------------------------------------------------------------------
(* Passing the packet limit.                                               *)

\* The largest size of a burst of sample i: a share is less than a packet,
\* so the carried credit pays for one packet at most.
Largest(i) == schedule[i] + (IF share > 0 THEN 1 ELSE 0)

\* What is counted and what the current burst will still add: the burst was
\* begun below the limit.
Committed == SumFunction(requests) + left * NumConns - conn
Overshoot == MaxPackets > 0 => Committed < MaxPackets + NumConns * Largest(iSize)

LEMMA FiniteTargets == IsFiniteSet(Targets)
  BY PacingAssumption, FS_Interval DEF Targets, PacingAssumption

LEMMA SumCounted == TypeOK => SumFunction(requests) \in Nat
  BY FiniteTargets, SumIsNat DEF TypeOK

LEMMA ProductOfNats ==
    ASSUME NEW a \in Nat, NEW b \in Nat
    PROVE  a * b \in Nat
  BY SMT

LEMMA ProductMonotone ==
    ASSUME NEW a \in Nat, NEW b \in Nat, NEW n \in Nat, a <= b
    PROVE  a * n <= n * b
  BY SMT

LEMMA LargestIsNat ==
    ASSUME TypeOK, NEW i \in DOMAIN schedule
    PROVE  Largest(i) \in Nat
<1>1. schedule[i] \in Nat
  BY DEF TypeOK
<1> QED
  BY <1>1 DEF Largest

LEMMA InitOvershoot == Init => Overshoot
<1> SUFFICES ASSUME Init, MaxPackets > 0
             PROVE  Committed < MaxPackets + NumConns * Largest(iSize)
  BY DEF Overshoot
<1>1. SumFunction(requests) = 0
  BY FiniteTargets, SumOfZeros DEF Init
<1>2. Committed = 0
  BY <1>1, PacingAssumption DEF Init, Committed, PacingAssumption
<1>3. Largest(iSize) \in Nat
  BY InitTypes, LargestIsNat DEF TypeOK
<1>4. NumConns * Largest(iSize) \in Nat
  BY <1>3, ProductOfNats, PacingAssumption DEF PacingAssumption
<1> QED
  BY <1>2, <1>4, PacingAssumption DEF PacingAssumption

\* A step that leaves the samples, the burst and the counts alone.
LEMMA OtherStepsKeep ==
    ASSUME Overshoot, UNCHANGED <<samples, iSize, sending>>
    PROVE  Overshoot'
  BY DEF Overshoot, Committed, Largest, samples, sending

\* A share and a credit are both less than a packet.
LEMMA CreditPays ==
    ASSUME NEW a \in 0 .. Second - 1, NEW b \in 0 .. Second - 1
    PROVE  (a + b) \div Second <= (IF b > 0 THEN 1 ELSE 0)
<1> DEFINE q == (a + b) \div Second
           r == (a + b) % Second
<1>1. a \in Nat /\ b \in Nat /\ Second \in Nat \ {0} /\ a < Second /\ b < Second
      /\ a + b \in Nat
  BY PacingAssumption, SMT DEF PacingAssumption
<1>2. q \in Nat /\ r \in 0 .. Second - 1 /\ a + b = Second * q + r
  BY <1>1, Division
<1> HIDE DEF q, r
<1>3. a + b < Second + b /\ r >= 0 /\ a + b < Second + Second
  BY <1>1, <1>2
<1>4. Second * q < Second + b
  BY <1>1, <1>2, <1>3
<1>5. q <= 1
  <2>1. ASSUME q >= 2 PROVE FALSE
    <3>1. 2 * Second <= Second * q
      BY <1>1, <1>2, <2>1, ProductMonotone
    <3> QED
      BY <1>1, <1>2, <1>3, <3>1
  <2> QED
    BY <1>2, <2>1
<1>6. ASSUME b = 0 PROVE q = 0
  <2>1. CASE q = 1
    BY <1>1, <1>4, <1>6, <2>1
  <2> QED
    BY <1>2, <1>5, <2>1
<1>7. q <= (IF b > 0 THEN 1 ELSE 0)
  BY <1>1, <1>2, <1>5, <1>6
<1> QED
  BY <1>7 DEF q

LEMMA StartBurstOvershoot ==
    ASSUME Inv, StartBurst
    PROVE  Overshoot'
<1> SUFFICES ASSUME MaxPackets > 0
             PROVE  Committed' < MaxPackets + NumConns * Largest(iSize)'
  BY DEF Overshoot
<1> DEFINE whole == (credit + share) \div Second
           total == SumFunction(requests)
           grant == left'
           top   == Largest(iSize)'
<1>1. iSize' \in DOMAIN schedule
  BY FollowingInRange DEF Inv, TypeOK, StartBurst
<1>2. /\ schedule[iSize'] \in Nat /\ credit \in 0 .. Second - 1
      /\ share \in 0 .. Second - 1 /\ Second \in Nat \ {0}
  BY <1>1, PacingAssumption DEF Inv, TypeOK, PacingAssumption
<1>3. whole \in Nat /\ whole <= (IF share > 0 THEN 1 ELSE 0)
  <2>1. credit + share \in Nat
    BY <1>2
  <2> QED
    BY <1>2, <2>1, Division, CreditPays
<1>4. /\ grant = schedule[iSize'] + whole
      /\ top = schedule[iSize'] + (IF share > 0 THEN 1 ELSE 0)
  BY DEF StartBurst, samples, Largest
<1>5. total \in Nat /\ total < MaxPackets
  BY SumCounted, PacingAssumption DEF Inv, StartBurst, PacketLimit, PacingAssumption
<1>6. Committed' = total + grant * NumConns
  <2>1. conn = 0 /\ conn' = conn /\ requests' = requests
    BY DEF Inv, BurstOpen, StartBurst
  <2>2. Committed' = total + grant * NumConns - 0
    BY <2>1 DEF Committed
  <2>3. grant * NumConns \in Nat
    BY <1>2, <1>3, <1>4, ProductOfNats, PacingAssumption DEF PacingAssumption
  <2> HIDE DEF total, grant
  <2> QED
    BY <1>5, <2>2, <2>3
<1> HIDE DEF whole, total, grant, top
<1>7. grant \in Nat /\ top \in Nat /\ grant <= top
  BY <1>2, <1>3, <1>4
<1>8. /\ grant * NumConns <= NumConns * top
      /\ grant * NumConns \in Nat /\ NumConns * top \in Nat
  BY <1>7, ProductMonotone, ProductOfNats, PacingAssumption DEF PacingAssumption
<1>9. Committed' < MaxPackets + NumConns * top
  BY <1>5, <1>6, <1>8, PacingAssumption DEF PacingAssumption
<1> QED
  BY <1>9 DEF top

\* A packet moves from the ones still to send to the ones counted.
LEMMA SendOneOvershoot ==
    ASSUME Inv, Overshoot, SendOne
    PROVE  Overshoot'
<1> DEFINE last == conn + 1 >= NumConns
           total == SumFunction(requests)
<1>1. /\ (conn + 1) % Word = conn + 1
      /\ conn \in Nat /\ conn + 1 <= NumConns /\ conn \in Targets
  BY ConnectionsBelowWord DEF Inv, TypeOK
<1>2. /\ requests' = [requests EXCEPT ![conn] = @ + 1]
      /\ conn' = IF last THEN 0 ELSE conn + 1
      /\ left' = IF last THEN left - 1 ELSE left
      /\ UNCHANGED <<samples, iSize>>
  BY <1>1 DEF SendOne, indices
<1>3. left \in Nat /\ NumConns \in Nat /\ requests \in [Targets -> Nat]
  BY PacingAssumption DEF Inv, TypeOK, PacingAssumption
<1>4. SumFunction(requests') = total + 1
  <2>1. requests \in [Targets -> Int] /\ requests' \in [Targets -> Int]
    BY <1>1, <1>2, <1>3
  <2>2. requests'[conn] = requests[conn] + 1 /\ requests[conn] \in Nat
    BY <1>1, <1>2, <1>3
  <2>3. \A x \in Targets \ {conn} : requests'[x] = requests[x]
    BY <1>2, <1>3
  <2>4. SumFunction(requests')
           = SumFunction(requests) + (requests'[conn] - requests[conn])
    BY <1>1, <2>1, <2>3, FiniteTargets, SumChanges
  <2>5. total \in Nat
    BY SumCounted DEF Inv
  <2> HIDE DEF total
  <2>6. SumFunction(requests') = total + (requests'[conn] - requests[conn])
    BY <2>4 DEF total
  <2> QED
    BY <2>2, <2>5, <2>6
<1>5. Committed' = Committed
  <2>1. total \in Nat
    BY SumCounted DEF Inv
  <2>2. /\ Committed = total + left * NumConns - conn
        /\ Committed' = total + 1 + left' * NumConns - conn'
    BY <1>4 DEF Committed
  <2>3. left * NumConns \in Nat
    BY <1>3, ProductOfNats
  <2> HIDE DEF total
  <2>4. CASE last
    <3>1. NumConns = conn + 1 /\ left' = left - 1 /\ conn' = 0
      BY <1>1, <1>2, <1>3, <2>4
    <3>2. left' * NumConns = left * NumConns - NumConns
      BY <1>3, <3>1
    <3> QED
      BY <1>1, <2>1, <2>2, <2>3, <3>1, <3>2
  <2>5. CASE ~last
    <3>1. left' = left /\ conn' = conn + 1
      BY <1>2, <2>5
    <3> QED
      BY <1>1, <2>1, <2>2, <2>3, <3>1
  <2> QED
    BY <2>4, <2>5
<1>6. Largest(iSize)' = Largest(iSize)
  BY <1>2 DEF Largest, samples
<1> QED
  BY <1>5, <1>6 DEF Overshoot

LEMMA OvershootKeeps == Inv /\ Overshoot /\ [Next]_vars => Overshoot'
<1> SUFFICES ASSUME Inv, Overshoot, [Next]_vars PROVE Overshoot'
  OBVIOUS
<1>1. ASSUME Start \/ Stop \/ LeaveLoop \/ UNCHANGED vars
      PROVE  UNCHANGED <<samples, iSize, sending>>
  BY <1>1 DEF Start, Stop, LeaveLoop, vars, indices
<1>2. ASSUME NEW limit, FinishRequesting(limit)
      PROVE  UNCHANGED <<samples, iSize, sending>>
  BY <1>2 DEF FinishRequesting
<1> QED
  BY <1>1, <1>2, OtherStepsKeep, StartBurstOvershoot, SendOneOvershoot DEF Next

-----------------------------------------------------------------------------
(* The theorems.                                                           *)

\* Every variable stays in its type for every schedule and rate: the credit
\* of PacketDispatcher::send_loop stays below one packet, the two indices
\* within the schedule and the loop counter within the connections.
THEOREM TypeCorrect == Spec => []TypeOK
<1>1. Inv => TypeOK
  BY DEF Inv
<1> QED
  BY <1>1, InvHolds, PTL

\* After any number of bursts, every connection has been given exactly the
\* scheduled packets and the whole part of the shares: carrying the
\* fractions of a packet in PacketDispatcher::send_loop neither loses nor
\* invents one.
THEOREM NoPacketLost == Spec => []CreditExact
<1>1. Inv => CreditExact
  BY DEF Inv
<1> QED
  BY <1>1, InvHolds, PTL

\* The times and sizes of Scheduler stay paired through every wrap of the
\* two indices.
THEOREM LinesStayPaired == Spec => []BurstAfterItsLine
<1>1. Inv => BurstAfterItsLine
  BY DEF Inv, IndicesPaired, BurstAfterItsLine
<1> QED
  BY <1>1, InvHolds, PTL
\* The sender passes its packet limit by less than one burst on every
\* connection, for every schedule, rate and limit: Counter::limit_reached is
\* asked before every burst and never inside one, and the credit adds one
\* packet at most.
THEOREM OvershootIsBounded == Spec => []OvershootBounded
<1>1. Init => Overshoot
  BY InitOvershoot
<1>2. Inv /\ Overshoot => OvershootBounded
  <2> SUFFICES ASSUME Inv, Overshoot, MaxPackets > 0
               PROVE  \E i \in DOMAIN schedule :
                         SumFunction(requests)
                            < MaxPackets + NumConns * Largest(i)
    BY DEF OvershootBounded, Largest
  <2> DEFINE total == SumFunction(requests)
             top   == NumConns * Largest(iSize)
             rest  == left * NumConns
  <2>1. iSize \in DOMAIN schedule
    BY DEF Inv, TypeOK
  <2>2. Largest(iSize) \in Nat
    BY <2>1, LargestIsNat DEF Inv
  <2>3. top \in Nat /\ rest \in Nat /\ total \in Nat
    BY <2>2, ProductOfNats, SumCounted, PacingAssumption
       DEF Inv, TypeOK, PacingAssumption
  <2>4. total + rest - conn < MaxPackets + top
    BY DEF Overshoot, Committed
  <2>5. conn <= rest /\ conn \in Nat
    <3>1. conn \in Nat /\ conn < NumConns /\ left \in Nat /\ NumConns \in Nat
      BY ConnectionsBelowWord, PacingAssumption
         DEF Inv, TypeOK, PacingAssumption
    <3>2. CASE left > 0
      <4>1. 1 * NumConns <= NumConns * left
        BY <3>1, <3>2, ProductMonotone
      <4> QED
        BY <3>1, <4>1
    <3>3. CASE left = 0
      BY <3>1, <3>3 DEF Inv, BurstOpen
    <3> QED
      BY <3>1, <3>2, <3>3
  <2> HIDE DEF total, rest, top
  <2>6. total < MaxPackets + top
    BY <2>3, <2>4, <2>5, PacingAssumption DEF PacingAssumption
  <2> QED
    BY <2>1, <2>6 DEF total, top
<1> QED
  BY <1>1, <1>2, InvHolds, OvershootKeeps, PTL DEF Spec

=============================================================================
