---------------------------- MODULE CounterProofs ----------------------------
(***************************************************************************)
(* What Counter guarantees for every number of connections, every bound    *)
(* and every network: types, the pairing of the two tables, what the       *)
(* answers counted are, the losses, and that the tables implement          *)
(* ResponseLog.                                                            *)
(***************************************************************************)
EXTENDS Counter, Sums, SequenceTheorems, FiniteSetTheorems, TLAPS

\* t is s followed by n placeholders and a last row x.
ExtendedBy(s, n, x, t) ==
    /\ t \in Seq(Nat)
    /\ Len(t) = Len(s) + n + 1
    /\ \A k \in 1 .. Len(s) : t[k] = s[k]
    /\ \A k \in Len(s) + 1 .. Len(s) + n : t[k] = 0
    /\ t[Len(s) + n + 1] = x

\* The response table after Record: the old rows, n placeholders, and a
\* last row.
LEMMA RecordedTable ==
    ASSUME NEW s \in Seq(Nat), NEW n \in Nat, NEW x \in Nat
    PROVE  ExtendedBy(s, n, x, Padded(s, n, x))
<1> DEFINE p == [i \in 1 .. n |-> 0]
           u == s \o p
           t == Append(u, x)
<1>1. p \in Seq(Nat) /\ Len(p) = n /\ \A i \in 1 .. n : p[i] = 0
  OBVIOUS
<1>2. u \in Seq(Nat) /\ Len(u) = Len(s) + n
  BY <1>1, ConcatProperties, SMTT(30)
<1>3. /\ \A k \in 1 .. Len(s) : u[k] = s[k]
      /\ \A k \in Len(s) + 1 .. Len(s) + n : u[k] = 0
  BY <1>1, ConcatProperties, SMTT(30)
<1>4. Padded(s, n, x) = t
  BY DEF Padded
<1> HIDE DEF u, p
<1>5. t \in Seq(Nat) /\ Len(t) = Len(u) + 1
  <2> HIDE DEF t
  <2>1. t = Append(u, x)
    BY DEF t
  <2> QED
    BY <1>2, <2>1, AppendProperties
<1>6. \A k \in 1 .. Len(u) : t[k] = u[k]
  BY <1>2, SMTT(30)
<1>7. t[Len(u) + 1] = x
  BY <1>2, SMTT(30)
<1> HIDE DEF t
<1>8. ExtendedBy(s, n, x, t)
  <2>1. \A k \in 1 .. Len(s) : t[k] = s[k]
    BY <1>2, <1>3, <1>6
  <2>2. \A k \in Len(s) + 1 .. Len(s) + n : t[k] = 0
    BY <1>2, <1>3, <1>6
  <2>3. Len(t) = Len(s) + n + 1 /\ t[Len(s) + n + 1] = x
    BY <1>2, <1>5, <1>7
  <2>4. QED
    BY <1>5, <2>1, <2>2, <2>3 DEF ExtendedBy
<1>9. QED
  BY <1>4, <1>8

-----------------------------------------------------------------------------
(* Arithmetic of xids: kept apart, so that no later step meets a product.  *)

\* Reduction modulo a positive number (cited, so that no step meets it raw).
LEMMA ModInRange ==
    ASSUME NEW a \in Int, NEW m \in Nat \ {0}
    PROVE  a % m \in 0 .. m - 1
BY SMTT(30)

\* The xids of a connection are consecutive from that of its first request.
LEMMA XidIncrements ==
    \A c \in Conns : /\ XidOf(c, 0) \in Nat
                     /\ \A n \in Nat : /\ XidOf(c, n) = XidOf(c, 0) + n
                                       /\ XidOf(c, n) \in Nat
<1> SUFFICES ASSUME NEW c \in Conns
             PROVE  /\ XidOf(c, 0) \in Nat
                    /\ \A n \in Nat : /\ XidOf(c, n) = XidOf(c, 0) + n
                                      /\ XidOf(c, n) \in Nat
  OBVIOUS
<1>1. Stride * c \in Nat /\ FirstXid \in Nat
  BY CounterAssumption DEF Conns
<1>2. QED
  BY <1>1 DEF XidOf

\* What a connection may be sent: an answer to one of its requests, or the
\* liveness reply.
Genuine(c, x) == \E n \in 0 .. requests[c] - 1 : x = XidOf(c, n)
Liveness(c, x) == c \in EchoConns /\ x = EchoXid

\* Constants under which the tables cannot be corrupted: liveness replies
\* arrive only where their xid is no smaller than the first request's and
\* unpublished rows read 0; the xid ranges do not run into each other where
\* the index is recomputed from the xid.
WellConfigured ==
    /\ EchoConns # {} => Junk = {0}
    /\ \A c \in EchoConns : XidOf(c, 0) <= EchoXid
    /\ RouteByXid => FirstXid + MaxReq <= Stride

\* Within its range an xid leads back to the connection it was sent on.
LEMMA RoutedHome ==
    ASSUME WellConfigured, NEW c \in Conns, NEW n \in 0 .. MaxReq - 1
    PROVE  Route(c, XidOf(c, n)) = c
<1>1. CASE ~RouteByXid
  BY <1>1 DEF Route
<1>2. CASE RouteByXid
  <2> DEFINE m == n + FirstXid
  <2>1. m \in 0 .. Stride - 1 /\ Stride \in Nat \ {0}
    BY <1>2, CounterAssumption DEF WellConfigured
  <2>2. c \in Nat
    BY CounterAssumption DEF Conns
  <2> HIDE DEF m
  <2>3. (m + Stride * c) \div Stride = c
    BY <2>1, <2>2
  <2>4. n + Stride * c + FirstXid = m + Stride * c
    BY <2>1, <2>2, CounterAssumption DEF m
  <2>5. QED
    BY <1>2, <2>3, <2>4 DEF Route, XidOf
<1>3. QED
  BY <1>1, <1>2

-----------------------------------------------------------------------------
(* Type correctness.                                                       *)

LEMMA InitTyped == Init => TypeOK
<1> USE CounterAssumption
<1>1. 0 \in Conns /\ 0 \in 0 .. UInt - 1 /\ 0 \in 0 .. MaxExtra
  BY DEF Conns
<1>2. QED
  BY <1>1 DEF Init, TypeOK

\* Storing into a table, at any row, keeps it a table.
LEMMA StoredTable ==
    ASSUME NEW s \in Seq(Nat), NEW k, NEW x \in Nat
    PROVE  [s EXCEPT ![k] = x] \in Seq(Nat)
<1>1. CASE k \in 1 .. Len(s)
  BY <1>1, ExceptSeq
<1>2. CASE k \notin 1 .. Len(s)
  <2>1. [s EXCEPT ![k] = x] = s
    BY <1>2
  <2>2. QED
    BY <2>1
<1>3. QED
  BY <1>1, <1>2

\* The counter's share of the types, for one answer.
LEMMA CountResponseTyped ==
    ASSUME TypeOK, NEW c \in Conns, NEW x \in Nat, CountResponse(c, x)
    PROVE  /\ UNCHANGED <<reqXids, requests, iReq>>
           /\ respXids' \in [Conns -> Seq(Nat)]
           /\ responses' \in [Conns -> Nat]
           /\ last' \in [Conns -> Nat]
           /\ missing' \in [Conns -> 0 .. UInt - 1]
           /\ iResp' \in Nat /\ iLoss' \in Int
<1> USE CounterAssumption DEF TypeOK
<1>1. ASSUME NEW n \in Nat, Record(c, n, x)
      PROVE  /\ UNCHANGED <<reqXids, requests, iReq>>
             /\ respXids' \in [Conns -> Seq(Nat)]
             /\ responses' \in [Conns -> Nat]
             /\ last' \in [Conns -> Nat]
             /\ missing' \in [Conns -> 0 .. UInt - 1]
             /\ iResp' \in Nat /\ iLoss' \in Int
  <2>1. Padded(respXids[c], n, x) \in Seq(Nat)
    BY RecordedTable DEF ExtendedBy
  <2>2. (missing[c] + n) % UInt \in 0 .. UInt - 1
    <3>1. missing[c] + n \in Int /\ UInt \in Nat \ {0}
      OBVIOUS
    <3> HIDE DEF TypeOK
    <3>2. QED
      BY <3>1, ModInRange
  <2>3. /\ respXids' \in [Conns -> Seq(Nat)]
        /\ missing' \in [Conns -> 0 .. UInt - 1]
    BY <1>1, <2>1, <2>2 DEF Record
  <2>4. /\ responses' \in [Conns -> Nat]
        /\ last' \in [Conns -> Nat]
    <3>1. /\ responses' = [responses EXCEPT ![c] = @ + n + 1]
          /\ last' = [last EXCEPT ![c] = x]
      BY <1>1 DEF Record
    <3>2. responses[c] \in Nat
      OBVIOUS
    <3>3. responses[c] + n + 1 \in Nat
      <4> HIDE DEF TypeOK
      <4> QED
        BY <3>2
    <3>4. QED
      BY <3>1, <3>3
  <2>5. iResp' \in Nat /\ iLoss' \in Int
    BY <1>1 DEF Record
  <2>6. UNCHANGED <<reqXids, requests, iReq>>
    BY <1>1 DEF Record
  <2> HIDE DEF TypeOK
  <2>7. QED
    BY <2>3, <2>4, <2>5, <2>6
<1>2. ASSUME LateCounted(c)
      PROVE  /\ UNCHANGED <<reqXids, requests, responses, last, iReq>>
             /\ missing' \in [Conns -> 0 .. UInt - 1]
             /\ iResp' \in Nat /\ iLoss' \in Int
  <2>1. (missing[c] - 1) % UInt \in 0 .. UInt - 1
    <3>1. missing[c] - 1 \in Int /\ UInt \in Nat \ {0}
      OBVIOUS
    <3> HIDE DEF TypeOK
    <3>2. QED
      BY <3>1, ModInRange
  <2>2. QED
    BY <1>2, <2>1 DEF LateCounted
<1>3. CASE Repeated(c, x) \/ LateUnknown(c, x) \/ AheadUnknown(c, x)
  BY <1>3 DEF Repeated, LateUnknown, AheadUnknown, tables, losses, rates
<1>4. CASE LateFound(c, x)
  <2>1. PICK i \in LateRows(c, x) :
             respXids' = [respXids EXCEPT ![c][i + 1] = x]
    BY <1>4 DEF LateFound
  <2>2. [respXids[c] EXCEPT ![i + 1] = x] \in Seq(Nat)
    BY StoredTable
  <2>3. respXids' \in [Conns -> Seq(Nat)]
    BY <2>1, <2>2
  <2>4. QED
    BY <1>2, <1>4, <2>3 DEF LateFound
<1>5. CASE LateBeyond(c, x)
  BY <1>2, <1>5 DEF LateBeyond
<1>6. CASE Expected(c, x)
  BY <1>1, <1>6 DEF Expected
<1>7. CASE Ahead(c, x)
  <2>1. PICK i \in AheadRows(c, x) : Record(c, i - responses[c], x)
    BY <1>7 DEF Ahead
  <2>2. i - responses[c] \in Nat
    <3>1. i \in responses[c] + 1 .. requests[c] - 1
      BY DEF AheadRows
    <3>2. responses[c] \in Nat /\ requests[c] \in Nat
      OBVIOUS
    <3>3. QED
      BY <3>1, <3>2
  <2>3. QED
    BY <1>1, <2>1, <2>2
<1>8. QED
  BY <1>3, <1>4, <1>5, <1>6, <1>7 DEF CountResponse

LEMMA NextTyped == TypeOK /\ [Next]_vars => TypeOK'
<1> USE CounterAssumption DEF TypeOK
<1> SUFFICES ASSUME TypeOK, [Next]_vars
             PROVE  TypeOK'
  OBVIOUS
<1> USE DEF vars, tables, losses, rates, sender, network
<1>1. CASE PushRequest
  <2>1. XidOf(turn, requests[turn]) \in Nat
    <3>1. turn \in Conns /\ requests[turn] \in Nat
      OBVIOUS
    <3> HIDE DEF TypeOK
    <3>2. QED
      BY <3>1, XidIncrements
  <2>2. Append(reqXids[turn], XidOf(turn, requests[turn])) \in Seq(Nat)
    BY <2>1, AppendProperties
  <2>3. reqXids' \in [Conns -> Seq(Nat)]
    BY <1>1, <2>2 DEF PushRequest
  <2>4. QED
    BY <1>1, <2>3 DEF PushRequest
<1>2. CASE SendRequest
  <2>1. XidOf(turn, requests[turn]) \in Nat
    <3>1. turn \in Conns /\ requests[turn] \in Nat
      OBVIOUS
    <3> HIDE DEF TypeOK
    <3>2. QED
      BY <3>1, XidIncrements
  <2>2. (turn + 1) % NumConns \in Conns
    <3>1. turn + 1 \in Int /\ NumConns \in Nat \ {0}
      BY DEF Conns
    <3> HIDE DEF TypeOK
    <3>2. QED
      BY <3>1, ModInRange DEF Conns
  <2>3. wire' \in [Conns -> SUBSET Nat]
    BY <1>2, <2>1 DEF SendRequest
  <2>4. requests' \in [Conns -> Nat] /\ iReq' \in Nat
    BY <1>2 DEF SendRequest
  <2>5. turn' \in Conns /\ sending' \in BOOLEAN
    BY <1>2, <2>2 DEF SendRequest
  <2>6. QED
    BY <1>2, <2>3, <2>4, <2>5 DEF SendRequest
<1>3. CASE LimitReached
  BY <1>3 DEF LimitReached
<1>4. ASSUME NEW c \in Conns, NEW x \in wire[c], Answer(c, x),
             wire' = wire \/ wire' = [wire EXCEPT ![c] = @ \ {x}],
             extra' \in 0 .. MaxExtra
      PROVE  TypeOK'
  <2>1. Route(c, x) \in Conns /\ x \in Nat /\ CountResponse(Route(c, x), x)
    BY <1>4 DEF Answer
  <2>2. /\ UNCHANGED <<reqXids, requests, iReq>>
        /\ respXids' \in [Conns -> Seq(Nat)]
        /\ responses' \in [Conns -> Nat]
        /\ last' \in [Conns -> Nat]
        /\ missing' \in [Conns -> 0 .. UInt - 1]
        /\ iResp' \in Nat /\ iLoss' \in Int
    BY <2>1, CountResponseTyped
  <2>3. UNCHANGED sender /\ answered' \in [Conns -> SUBSET Nat]
    BY <1>4, <2>1 DEF Answer
  <2>4. wire' \in [Conns -> SUBSET Nat]
    BY <1>4
  <2>5. QED
    BY <1>4, <2>2, <2>3, <2>4
<1>5. ASSUME NEW c \in Conns, NEW x \in wire[c], Lose(c, x)
      PROVE  TypeOK'
  <2>1. wire' \in [Conns -> SUBSET Nat]
    BY <1>5 DEF Lose
  <2>2. QED
    BY <1>5, <2>1 DEF Lose
<1>6. ASSUME NEW c \in Conns, LivenessReply(c)
      PROVE  TypeOK'
  <2>1. /\ UNCHANGED <<reqXids, requests, iReq>>
        /\ respXids' \in [Conns -> Seq(Nat)]
        /\ responses' \in [Conns -> Nat]
        /\ last' \in [Conns -> Nat]
        /\ missing' \in [Conns -> 0 .. UInt - 1]
        /\ iResp' \in Nat /\ iLoss' \in Int
    BY <1>6, CountResponseTyped DEF LivenessReply
  <2>2. UNCHANGED <<sender, wire, answered>> /\ extra' \in 0 .. MaxExtra
    BY <1>6 DEF LivenessReply
  <2>3. QED
    BY <2>1, <2>2
<1>7. CASE NewInterval
  BY <1>7 DEF NewInterval
<1>8. CASE UNCHANGED vars
  BY <1>8
<1>9. ASSUME NEW c \in Conns, NEW x \in wire[c],
             Receive(c, x) \/ ReceiveCopy(c, x) \/ Lose(c, x)
      PROVE  TypeOK'
  <2>1. CASE Receive(c, x)
    BY <1>4, <2>1 DEF Receive
  <2>2. CASE ReceiveCopy(c, x)
    <3>1. Answer(c, x) /\ wire' = wire
      BY <2>2 DEF ReceiveCopy
    <3>2. extra' \in 0 .. MaxExtra
      BY <2>2 DEF ReceiveCopy
    <3>3. QED
      BY <1>4, <3>1, <3>2
  <2>3. QED
    BY <1>5, <1>9, <2>1, <2>2
<1>10. QED
  BY <1>1, <1>2, <1>3, <1>6, <1>7, <1>8, <1>9 DEF Next

\* The unsigned and the signed counters, the tables and the sender's position
\* keep their types in every run of the counter, on every network.
THEOREM TypeCorrect == Spec => []TypeOK
BY InitTyped, NextTyped, PTL DEF Spec

-----------------------------------------------------------------------------
(* The inductive invariant.                                                *)

\* Requests of c whose row the sender has published.
Published(c) == requests[c] + (IF sending /\ turn = c THEN 1 ELSE 0)

\* The request table holds the xids of the published requests, in order.
RequestTable(c) ==
    /\ Len(reqXids[c]) = Published(c)
    /\ Published(c) <= MaxReq
    /\ \A k \in 1 .. Len(reqXids[c]) : reqXids[c][k] = XidOf(c, k - 1)

\* The response table is a prefix of the requests, the watermark is the xid
\* of its end, and every row is empty or holds the xid of its request.
ResponseTable(c) ==
    /\ responses[c] = Len(respXids[c])
    /\ responses[c] <= Len(reqXids[c])
    /\ c \notin EchoConns => responses[c] <= requests[c]
    /\ responses[c] = 0 => last[c] = 0
    /\ responses[c] > 0 => last[c] = XidOf(c, responses[c] - 1)
    /\ \A k \in 1 .. Len(respXids[c]) : respXids[c][k] \in {0, reqXids[c][k]}

\* Only answers to requests already counted are on their way.
WireGenuine(c) == \A x \in wire[c] : Genuine(c, x)

Inv ==
    /\ TypeOK
    /\ \A c \in Conns : RequestTable(c) /\ ResponseTable(c) /\ WireGenuine(c)

\* The part of it that needs no assumption on the answers: the request table
\* holds the published requests, and the response table has as many rows as
\* the code thinks, each beside a request.
Aligned(c) ==
    responses[c] = Len(respXids[c]) /\ responses[c] <= Len(reqXids[c])

RowsInv ==
    /\ TypeOK
    /\ \A c \in Conns : RequestTable(c) /\ Aligned(c)

LEMMA InvAligns == Inv => RowsInv
BY DEF Inv, RowsInv, ResponseTable, Aligned

LEMMA InitSafe == Init => Inv
<1> SUFFICES ASSUME Init PROVE Inv
  OBVIOUS
<1>1. TypeOK
  BY InitTyped
<1>2. ASSUME NEW c \in Conns
      PROVE  RequestTable(c) /\ ResponseTable(c) /\ WireGenuine(c)
  BY CounterAssumption DEF Init, Conns, RequestTable, ResponseTable, WireGenuine,
     Published
<1>3. QED
  BY <1>1, <1>2 DEF Inv

\* The facts about connection c that the cases below argue from.
LEMMA TablesOf ==
    ASSUME Inv, NEW c \in Conns
    PROVE  /\ requests[c] \in Nat /\ responses[c] \in Nat /\ last[c] \in Nat
           /\ reqXids[c] \in Seq(Nat) /\ respXids[c] \in Seq(Nat)
           /\ Len(respXids[c]) = responses[c]
           /\ responses[c] <= Len(reqXids[c])
           /\ requests[c] <= Len(reqXids[c])
           /\ Len(reqXids[c]) <= requests[c] + 1
BY DEF Inv, TypeOK, RequestTable, ResponseTable, Published

\* An answer that is past the watermark but not past the row the search
\* starts at is the answer to that very row.
LEMMA ExpectedIsNext ==
    ASSUME Inv, WellConfigured, NEW c \in Conns, NEW x \in Nat,
           Genuine(c, x) \/ Liveness(c, x), x > last[c],
           NEW r \in ReqReads(c, responses[c]), x <= r
    PROVE  /\ responses[c] < Len(reqXids[c])
           /\ reqXids[c][responses[c] + 1] = x
           /\ c \notin EchoConns => responses[c] < requests[c]
<1> DEFINE n == responses[c]
           b == XidOf(c, 0)
<1>1. n \in Nat /\ last[c] \in Nat /\ requests[c] \in Nat
      /\ requests[c] <= Len(reqXids[c]) /\ n <= Len(reqXids[c])
      /\ Len(reqXids[c]) \in Nat
  BY TablesOf
<1>2. /\ b \in Nat
      /\ \A m \in Nat : XidOf(c, m) = b + m
  BY XidIncrements
<1>3. /\ n = 0 => last[c] = 0
      /\ n > 0 => last[c] = b + n - 1
  <2>1. (n = 0 => last[c] = 0) /\ (n > 0 => last[c] = XidOf(c, n - 1))
    BY DEF Inv, ResponseTable
  <2> HIDE DEF n, b
  <2>2. ASSUME n > 0 PROVE XidOf(c, n - 1) = b + n - 1
    <3>1. n - 1 \in Nat
      BY <1>1, <2>2
    <3>2. XidOf(c, n - 1) = b + (n - 1)
      BY <1>2, <3>1
    <3> QED
      BY <1>1, <1>2, <3>2
  <2> QED
    BY <1>1, <1>2, <2>1, <2>2
<1>4. \A k \in 1 .. Len(reqXids[c]) : reqXids[c][k] = b + k - 1
  BY <1>1, <1>2 DEF Inv, RequestTable
<1>5. x >= b
  <2>1. CASE Genuine(c, x)
    BY <2>1, <1>1, <1>2 DEF Genuine
  <2>2. CASE Liveness(c, x)
    BY <2>2 DEF Liveness, WellConfigured
  <2>3. QED
    BY <2>1, <2>2
<1>6. n < Len(reqXids[c])
  <2> SUFFICES ASSUME n = Len(reqXids[c]) PROVE FALSE
    BY <1>1
  <2>1. r \in Junk
    BY DEF ReqReads
  <2>2. CASE Genuine(c, x)
    <3>1. PICK m \in 0 .. requests[c] - 1 : x = b + m
      BY <2>2, <1>1, <1>2 DEF Genuine
    <3>2. m < n
      BY <1>1, <3>1
    <3>3. n > 0 /\ n \in Nat /\ m \in Nat /\ b \in Nat
      BY <1>1, <1>2, <3>1, <3>2
    <3>4. last[c] = b + n - 1
      BY <1>3, <3>3
    <3> HIDE DEF n, b
    <3>5. x <= last[c]
      BY <3>1, <3>2, <3>3, <3>4
    <3>6. QED
      BY <1>1, <3>5
  <2>3. CASE Liveness(c, x)
    <3>1. r = 0 /\ x \in Nat \ {0}
      BY <2>1, <2>3, CounterAssumption DEF Liveness, WellConfigured
    <3>2. QED
      BY <3>1
  <2>4. QED
    BY <2>2, <2>3
<1>7. r = b + n
  <2>1. r = reqXids[c][n + 1]
    BY <1>6 DEF ReqReads
  <2> HIDE DEF n, b
  <2>2. n + 1 \in 1 .. Len(reqXids[c]) /\ n \in Nat
    BY <1>1, <1>6
  <2>3. reqXids[c][n + 1] = b + (n + 1) - 1
    BY <1>4, <2>2
  <2> QED
    BY <1>2, <2>1, <2>2, <2>3
<1>8. x = b + n
  <2>1. n \in Nat /\ b \in Nat /\ last[c] \in Nat
    BY <1>1, <1>2
  <2> HIDE DEF n, b
  <2>2. CASE n = 0
    BY <1>5, <1>7, <2>1, <2>2
  <2>3. CASE n > 0
    BY <1>3, <1>7, <2>1, <2>3
  <2>4. QED
    BY <2>1, <2>2, <2>3
<1>9. reqXids[c][n + 1] = x
  <2> HIDE DEF n, b
  <2>1. n + 1 \in 1 .. Len(reqXids[c]) /\ n \in Nat
    BY <1>1, <1>6
  <2>2. reqXids[c][n + 1] = b + (n + 1) - 1
    BY <1>4, <2>1
  <2> QED
    BY <1>2, <1>8, <2>1, <2>2
<1>10. c \notin EchoConns => n < requests[c]
  <2> SUFFICES ASSUME c \notin EchoConns PROVE n < requests[c]
    OBVIOUS
  <2>1. PICK m \in 0 .. requests[c] - 1 : x = XidOf(c, m)
    BY DEF Genuine, Liveness
  <2> HIDE DEF n, b
  <2>2. requests[c] \in Nat /\ n \in Nat
    BY <1>1
  <2>3. m \in Nat /\ m < requests[c]
    BY <2>1, <2>2
  <2>4. x = b + m
    BY <1>2, <2>1, <2>3
  <2> QED
    BY <1>2, <1>8, <2>2, <2>3, <2>4
<1>11. QED
  BY <1>6, <1>9, <1>10

\* A response table that did not change is still right.
LEMMA UntouchedTable ==
    ASSUME NEW d \in Conns, ResponseTable(d),
           reqXids'[d] = reqXids[d], requests'[d] = requests[d],
           respXids'[d] = respXids[d], responses'[d] = responses[d],
           last'[d] = last[d]
    PROVE  ResponseTable(d)'
BY DEF ResponseTable, XidOf

\* Appending placeholders up to the row of x, and x, keeps the table right.
LEMMA RecordSafe ==
    ASSUME Inv, NEW c \in Conns, NEW n \in Nat, NEW x \in Nat,
           responses[c] + n + 1 <= Len(reqXids[c]),
           reqXids[c][responses[c] + n + 1] = x,
           c \notin EchoConns => responses[c] + n + 1 <= requests[c],
           Record(c, n, x)
    PROVE  \A d \in Conns : ResponseTable(d)'
<1> SUFFICES ASSUME NEW d \in Conns PROVE ResponseTable(d)'
  OBVIOUS
<1> DEFINE s == respXids[c]
           t == Padded(s, n, x)
           w == responses[c] + n + 1
<1>1. /\ responses[c] \in Nat /\ s \in Seq(Nat) /\ Len(s) = responses[c]
      /\ w \in Nat
  <2>1. responses[c] \in Nat /\ s \in Seq(Nat) /\ Len(s) = responses[c]
    BY TablesOf
  <2> HIDE DEF s
  <2> QED
    BY <2>1
<1>2. /\ t \in Seq(Nat) /\ Len(t) = w
      /\ \A k \in 1 .. Len(s) : t[k] = s[k]
      /\ \A k \in Len(s) + 1 .. Len(s) + n : t[k] = 0
      /\ t[w] = x
  <2>1. w = Len(s) + n + 1
    BY <1>1
  <2>2. ExtendedBy(s, n, x, t)
    BY <1>1, RecordedTable
  <2> HIDE DEF s, w, t
  <2>3. QED
    BY <2>1, <2>2 DEF ExtendedBy
<1>3. /\ reqXids' = reqXids /\ requests' = requests
      /\ respXids' = [respXids EXCEPT ![c] = t]
      /\ responses' = [responses EXCEPT ![c] = w]
      /\ last' = [last EXCEPT ![c] = x]
  BY DEF Record
<1>4. /\ respXids \in [Conns -> Seq(Nat)]
      /\ responses \in [Conns -> Nat]
      /\ last \in [Conns -> Nat]
  BY DEF Inv, TypeOK
<1>5. ResponseTable(c) /\ ResponseTable(d) /\ RequestTable(c)
  BY DEF Inv
<1>6. CASE d # c
  <2>1. /\ respXids'[d] = respXids[d] /\ responses'[d] = responses[d]
        /\ last'[d] = last[d]
    BY <1>3, <1>4, <1>6
  <2>2. reqXids'[d] = reqXids[d] /\ requests'[d] = requests[d]
    BY <1>3
  <2>3. QED
    BY <1>5, <2>1, <2>2, UntouchedTable
<1>7. CASE d = c
  <2>1. /\ respXids'[c] = t /\ responses'[c] = w /\ last'[c] = x
        /\ reqXids'[c] = reqXids[c] /\ requests'[c] = requests[c]
    BY <1>3, <1>4
  <2>2. w <= Len(reqXids[c]) /\ reqXids[c][w] = x
    OBVIOUS
  <2>3. x = XidOf(c, w - 1)
    <3>1. w \in 1 .. Len(reqXids[c])
      BY <1>1, <2>2, TablesOf
    <3>2. QED
      BY <1>5, <2>2, <3>1 DEF RequestTable
  <2>4. \A k \in 1 .. w : t[k] \in {0, reqXids[c][k]}
    <3> SUFFICES ASSUME NEW k \in 1 .. w PROVE t[k] \in {0, reqXids[c][k]}
      OBVIOUS
    <3> HIDE DEF t, s
    <3>1. CASE k \in 1 .. Len(s)
      <4>1. s[k] \in {0, reqXids[c][k]}
        BY <1>5, <3>1 DEF ResponseTable, s
      <4>2. QED
        BY <1>2, <3>1, <4>1
    <3>2. CASE k \in Len(s) + 1 .. Len(s) + n
      BY <1>2, <3>2
    <3>3. CASE k = w
      BY <1>2, <2>2, <3>3
    <3>4. QED
      BY <1>1, <3>1, <3>2, <3>3
  <2>5. c \notin EchoConns => w <= requests[c]
    OBVIOUS
  <2> HIDE DEF t, s
  <2>6. w > 0 /\ w # 0
    BY <1>1
  <2> HIDE DEF w
  <2>7. ResponseTable(c)'
    BY <1>2, <2>1, <2>2, <2>3, <2>4, <2>5, <2>6 DEF ResponseTable, XidOf
  <2>8. QED
    BY <1>7, <2>7
<1>8. QED
  BY <1>6, <1>7

\* Whatever way an answer takes through count_response, it leaves every
\* response table right.
LEMMA CountResponseSafe ==
    ASSUME Inv, WellConfigured, NEW c \in Conns, NEW x \in Nat,
           Genuine(c, x) \/ Liveness(c, x), CountResponse(c, x)
    PROVE  \A d \in Conns : ResponseTable(d)'
<1>1. reqXids' = reqXids /\ requests' = requests
  BY CountResponseTyped DEF Inv
<1>2. \A d \in Conns : ResponseTable(d)
  BY DEF Inv
<1>3. CASE UNCHANGED <<respXids, responses, last>>
  BY <1>1, <1>2, <1>3, UntouchedTable
<1>4. CASE Repeated(c, x) \/ LateUnknown(c, x) \/ AheadUnknown(c, x)
  BY <1>3, <1>4 DEF Repeated, LateUnknown, AheadUnknown, tables
<1>5. CASE LateFound(c, x)
  <2>1. PICK i \in LateRows(c, x) :
             respXids' = [respXids EXCEPT ![c][i + 1] = x]
    BY <1>5 DEF LateFound
  <2>2. responses' = responses /\ last' = last
    BY <1>5 DEF LateFound, LateCounted
  <2>3. /\ responses[c] \in Nat /\ Len(respXids[c]) = responses[c]
        /\ respXids[c] \in Seq(Nat) /\ respXids \in [Conns -> Seq(Nat)]
    BY TablesOf DEF Inv, TypeOK
  <2>4. i \in 1 .. responses[c] - 1 /\ reqXids[c][i + 1] = x
    BY DEF LateRows
  <2>5. i + 1 \in 1 .. Len(respXids[c])
    <3>1. i + 1 \in 1 .. responses[c]
      BY <2>3, <2>4
    <3> QED
      BY <2>3, <3>1
  <2> DEFINE t == [respXids[c] EXCEPT ![i + 1] = x]
  <2>6. /\ t \in Seq(Nat) /\ Len(t) = Len(respXids[c])
        /\ \A k \in 1 .. Len(respXids[c]) :
              t[k] = IF k = i + 1 THEN x ELSE respXids[c][k]
    BY <2>3, <2>5, ExceptSeq
  <2>7. respXids' = [respXids EXCEPT ![c] = t]
    BY <2>1
  <2> SUFFICES ASSUME NEW d \in Conns PROVE ResponseTable(d)'
    OBVIOUS
  <2> HIDE DEF t
  <2>8. CASE d # c
    <3>1. respXids'[d] = respXids[d]
      BY <2>3, <2>7, <2>8
    <3>2. QED
      BY <1>1, <1>2, <2>2, <3>1, UntouchedTable
  <2>9. CASE d = c
    <3>1. respXids'[c] = t
      BY <2>3, <2>7
    <3>2. ResponseTable(c)
      BY <1>2
    <3>3. \A k \in 1 .. Len(t) : t[k] \in {0, reqXids[c][k]}
      BY <2>4, <2>6, <3>2 DEF ResponseTable
    <3>4. ResponseTable(c)'
      BY <1>1, <2>2, <2>6, <3>1, <3>2, <3>3 DEF ResponseTable, XidOf
    <3>5. QED
      BY <2>9, <3>4
  <2>10. QED
    BY <2>8, <2>9
<1>6. CASE LateBeyond(c, x)
  BY <1>3, <1>6 DEF LateBeyond, LateCounted
<1>7. CASE Expected(c, x)
  <2>1. PICK r \in ReqReads(c, responses[c]) : x <= r
    BY <1>7 DEF Expected
  <2>2. x > last[c] /\ Record(c, 0, x)
    BY <1>7 DEF Expected
  <2>3. /\ responses[c] < Len(reqXids[c])
        /\ reqXids[c][responses[c] + 1] = x
        /\ c \notin EchoConns => responses[c] < requests[c]
    BY <2>1, <2>2, ExpectedIsNext
  <2>4. /\ responses[c] \in Nat /\ requests[c] \in Nat
        /\ Len(reqXids[c]) \in Nat
    BY TablesOf
  <2>5. /\ responses[c] + 0 + 1 <= Len(reqXids[c])
        /\ reqXids[c][responses[c] + 0 + 1] = x
        /\ c \notin EchoConns => responses[c] + 0 + 1 <= requests[c]
    BY <2>3, <2>4
  <2>6. QED
    BY <2>2, <2>5, RecordSafe
<1>8. CASE Ahead(c, x)
  <2>1. PICK i \in AheadRows(c, x) : Record(c, i - responses[c], x)
    BY <1>8 DEF Ahead
  <2>2. /\ responses[c] \in Nat /\ requests[c] \in Nat
        /\ Len(reqXids[c]) \in Nat /\ requests[c] <= Len(reqXids[c])
    BY TablesOf
  <2>3. i \in responses[c] + 1 .. requests[c] - 1 /\ reqXids[c][i + 1] = x
    BY DEF AheadRows
  <2> DEFINE n == i - responses[c]
  <2>4. n \in Nat /\ responses[c] + n + 1 = i + 1 /\ i + 1 <= requests[c]
    <3>1. ASSUME NEW w \in Nat, NEW q \in Nat, i \in w + 1 .. q - 1
          PROVE  i - w \in Nat /\ w + (i - w) + 1 = i + 1 /\ i + 1 <= q
      BY <3>1
    <3> QED
      BY <2>2, <2>3, <3>1
  <2>5. /\ responses[c] + n + 1 <= Len(reqXids[c])
        /\ reqXids[c][responses[c] + n + 1] = x
        /\ c \notin EchoConns => responses[c] + n + 1 <= requests[c]
    <3> HIDE DEF n
    <3>1. /\ i \in Int /\ i + 1 <= requests[c]
          /\ requests[c] \in Nat /\ Len(reqXids[c]) \in Nat
          /\ requests[c] <= Len(reqXids[c])
      BY <2>2, <2>3
    <3>2. i + 1 <= Len(reqXids[c])
      BY <3>1
    <3> QED
      BY <2>3, <2>4, <3>1, <3>2
  <2>6. Record(c, n, x)
    BY <2>1
  <2> HIDE DEF n
  <2>7. QED
    BY <2>4, <2>5, <2>6, RecordSafe
<1>9. QED
  BY <1>4, <1>5, <1>6, <1>7, <1>8 DEF CountResponse

\* An answer is counted for the connection whose request it answers.
LEMMA AnswerSafe ==
    ASSUME Inv, WellConfigured, NEW c \in Conns, NEW x \in wire[c],
           Answer(c, x)
    PROVE  /\ x \in Nat /\ Genuine(c, x)
           /\ CountResponse(c, x)
           /\ \A d \in Conns : ResponseTable(d)'
           /\ UNCHANGED <<reqXids, requests, iReq, sender>>
<1>1. x \in Nat
  BY DEF Inv, TypeOK
<1>2. Genuine(c, x)
  BY DEF Inv, WireGenuine
<1>3. PICK n \in 0 .. requests[c] - 1 : x = XidOf(c, n)
  BY <1>2 DEF Genuine
<1>4. n \in 0 .. MaxReq - 1
  <2>1. requests[c] \in Nat /\ MaxReq \in Nat
    BY CounterAssumption DEF Inv, TypeOK
  <2>2. Published(c) <= MaxReq
    BY DEF Inv, RequestTable
  <2>3. requests[c] <= MaxReq
    BY <2>1, <2>2 DEF Published
  <2>4. QED
    BY <1>3, <2>1, <2>3
<1>5. Route(c, x) = c
  BY <1>3, <1>4, RoutedHome
<1>6. CountResponse(c, x) /\ UNCHANGED sender
  BY <1>5 DEF Answer
<1>7. \A d \in Conns : ResponseTable(d)'
  BY <1>1, <1>2, <1>6, CountResponseSafe
<1>8. UNCHANGED <<reqXids, requests, iReq>>
  BY <1>1, <1>6, CountResponseTyped DEF Inv
<1>9. QED
  BY <1>1, <1>2, <1>6, <1>7, <1>8

\* Steps that leave the request tables and the sender alone, and only take
\* messages off the wire.
LEMMA RequestsUntouched ==
    ASSUME Inv, UNCHANGED <<reqXids, requests, sender>>,
           \A c \in Conns : wire'[c] \subseteq wire[c]
    PROVE  \A c \in Conns : RequestTable(c)' /\ WireGenuine(c)'
BY DEF Inv, RequestTable, WireGenuine, Genuine, Published, sender, XidOf

\* Every step keeps the request tables: push and count are the two halves of
\* one growth, and nothing else writes them.
LEMMA RequestTablesKept ==
    ASSUME RowsInv, [Next]_vars
    PROVE  \A c \in Conns : RequestTable(c)'
<1> SUFFICES ASSUME NEW c \in Conns PROVE RequestTable(c)'
  OBVIOUS
<1>t. TypeOK /\ RequestTable(c) /\ RequestTable(turn) /\ turn \in Conns
  BY DEF RowsInv, TypeOK
<1>1. CASE UNCHANGED <<reqXids, requests, turn, sending>>
  BY <1>t, <1>1 DEF RequestTable, Published, XidOf
<1>2. CASE PushRequest
  <2>1. requests[turn] \in Nat /\ reqXids[turn] \in Seq(Nat)
        /\ requests[c] \in Nat /\ reqXids \in [Conns -> Seq(Nat)]
    BY <1>t DEF TypeOK
  <2>2. XidOf(turn, requests[turn]) \in Nat
    BY <1>t, <2>1, XidIncrements
  <2> DEFINE t == Append(reqXids[turn], XidOf(turn, requests[turn]))
  <2>3. /\ Len(t) = Len(reqXids[turn]) + 1
        /\ \A k \in 1 .. Len(reqXids[turn]) : t[k] = reqXids[turn][k]
        /\ t[Len(reqXids[turn]) + 1] = XidOf(turn, requests[turn])
    BY <2>1, <2>2, AppendProperties
  <2>4. ~sending /\ sending' /\ requests[turn] < MaxReq
        /\ reqXids' = [reqXids EXCEPT ![turn] = t]
        /\ UNCHANGED <<requests, turn>>
    BY <1>2 DEF PushRequest
  <2> HIDE DEF t
  <2>5. CASE c # turn
    BY <1>t, <2>1, <2>4, <2>5 DEF RequestTable, Published, XidOf
  <2>6. CASE c = turn
    <3>1. Len(reqXids[c]) = requests[c]
      BY <1>t, <2>1, <2>4, <2>6 DEF RequestTable, Published
    <3>2. reqXids'[c] = t /\ Len(t) = requests[c] + 1
      BY <2>1, <2>3, <2>4, <2>6, <3>1
    <3>3. Published(c)' = requests[c] + 1
      BY <2>4, <2>6 DEF Published
    <3>4. requests[c] + 1 <= MaxReq
      BY <2>1, <2>4, <2>6, CounterAssumption
    <3>5. \A k \in 1 .. Len(t) : t[k] = XidOf(c, k - 1)
      <4>1. \A k \in 1 .. requests[c] : t[k] = XidOf(c, k - 1)
        BY <1>t, <2>3, <2>6, <3>1 DEF RequestTable
      <4>2. t[requests[c] + 1] = XidOf(c, requests[c])
        BY <2>3, <2>6, <3>1
      <4> QED
        BY <2>1, <3>2, <4>1, <4>2
    <3> QED
      BY <3>2, <3>3, <3>4, <3>5 DEF RequestTable, XidOf
  <2> QED
    BY <2>5, <2>6
<1>3. CASE SendRequest
  <2>1. requests \in [Conns -> Nat]
    BY <1>t DEF TypeOK
  <2>2. /\ sending /\ ~sending'
        /\ requests' = [requests EXCEPT ![turn] = @ + 1]
        /\ reqXids' = reqXids
    BY <1>3 DEF SendRequest
  <2>3. Published(c)' = Published(c)
    BY <1>t, <2>1, <2>2 DEF Published
  <2> QED
    BY <1>t, <2>2, <2>3 DEF RequestTable, XidOf
<1>4. ASSUME NEW d \in Conns, NEW x \in Nat, CountResponse(d, x),
             UNCHANGED sender
      PROVE  RequestTable(c)'
  <2>1. UNCHANGED <<reqXids, requests>>
    BY <1>4, CountResponseTyped DEF RowsInv
  <2> QED
    BY <1>1, <1>4, <2>1 DEF sender
<1>5. ASSUME NEW d \in Conns, NEW x \in wire[d], Answer(d, x)
      PROVE  RequestTable(c)'
  <2>1. x \in Nat /\ Route(d, x) \in Conns
    BY <1>t, <1>5 DEF TypeOK, Answer
  <2> QED
    BY <1>4, <1>5, <2>1 DEF Answer
<1>6. ASSUME NEW d \in Conns, LivenessReply(d)
      PROVE  RequestTable(c)'
  BY <1>4, <1>6, CounterAssumption DEF LivenessReply
<1>7. CASE LimitReached \/ NewInterval \/ UNCHANGED vars
           \/ \E d \in Conns : \E x \in wire[d] : Lose(d, x)
  BY <1>1, <1>7 DEF LimitReached, NewInterval, Lose, vars, tables, sender
<1> QED
  BY <1>2, <1>3, <1>5, <1>6, <1>7 DEF Next, Receive, ReceiveCopy

LEMMA NextSafe == WellConfigured /\ Inv /\ [Next]_vars => Inv'
<1> SUFFICES ASSUME WellConfigured, Inv, [Next]_vars
             PROVE  Inv'
  OBVIOUS
<1>t. TypeOK /\ TypeOK'
  BY NextTyped DEF Inv
<1>i. \A c \in Conns : RequestTable(c) /\ ResponseTable(c) /\ WireGenuine(c)
  BY DEF Inv
<1>r. \A c \in Conns : RequestTable(c)'
  BY InvAligns, RequestTablesKept
<1>1. CASE PushRequest
  <2>1. turn \in Conns /\ requests[turn] \in Nat /\ reqXids[turn] \in Seq(Nat)
    BY <1>t DEF TypeOK
  <2>2. XidOf(turn, requests[turn]) \in Nat
    BY <2>1, XidIncrements
  <2> DEFINE t == Append(reqXids[turn], XidOf(turn, requests[turn]))
  <2>3. /\ Len(t) = Len(reqXids[turn]) + 1
        /\ \A k \in 1 .. Len(reqXids[turn]) : t[k] = reqXids[turn][k]
        /\ t[Len(reqXids[turn]) + 1] = XidOf(turn, requests[turn])
    BY <2>1, <2>2, AppendProperties
  <2>4. ~sending /\ sending' /\ requests[turn] < MaxReq
        /\ reqXids' = [reqXids EXCEPT ![turn] = t]
        /\ UNCHANGED <<requests, respXids, responses, last, turn, wire>>
    BY <1>1 DEF PushRequest, network
  <2>5. Len(reqXids[turn]) = requests[turn]
    BY <1>i, <2>1, <2>4 DEF RequestTable, Published
  <2> SUFFICES ASSUME NEW c \in Conns
               PROVE  (RequestTable(c) /\ ResponseTable(c) /\ WireGenuine(c))'
    BY <1>t DEF Inv
  <2> HIDE DEF t
  <2>6. WireGenuine(c)'
    BY <1>i, <2>4 DEF WireGenuine, Genuine, XidOf
  <2>7. CASE c # turn
    <3>1. reqXids'[c] = reqXids[c]
      BY <1>t, <2>4, <2>7 DEF TypeOK
    <3>2. QED
      BY <1>i, <1>r, <2>4, <2>6, <3>1, UntouchedTable
  <2>8. CASE c = turn
    <3>1. reqXids'[c] = t /\ Len(t) = requests[c] + 1
      BY <1>t, <2>3, <2>4, <2>5, <2>8 DEF TypeOK
    <3>2. ResponseTable(c)'
      <4>1. /\ respXids'[c] = respXids[c] /\ responses'[c] = responses[c]
            /\ last'[c] = last[c] /\ requests'[c] = requests[c]
        BY <2>4
      <4>2. /\ responses[c] = Len(respXids[c])
            /\ responses[c] <= Len(reqXids'[c])
            /\ responses[c] \in Nat
        <5>1. responses[c] \in Nat /\ ResponseTable(c)
          BY <1>i, <1>t DEF TypeOK
        <5>2. responses[c] <= requests[c]
          BY <2>5, <2>8, <5>1 DEF ResponseTable
        <5>3. QED
          BY <2>1, <2>8, <3>1, <5>1, <5>2 DEF ResponseTable
      <4>3. ASSUME NEW k \in 1 .. Len(respXids[c])
            PROVE  respXids[c][k] \in {0, reqXids'[c][k]}
        <5>1. respXids[c][k] \in {0, reqXids[c][k]}
          BY <1>i DEF ResponseTable
        <5>2. k \in 1 .. Len(reqXids[turn])
          <6>1. Len(respXids[c]) <= Len(reqXids[c]) /\ Len(reqXids[c]) \in Nat
            BY <1>i, <2>1, <2>8 DEF ResponseTable
          <6>2. QED
            BY <2>8, <4>2, <6>1
        <5>3. QED
          BY <2>3, <2>8, <3>1, <5>1, <5>2
      <4>4. QED
        BY <1>i, <4>1, <4>2, <4>3 DEF ResponseTable, XidOf
    <3>3. QED
      BY <1>r, <2>6, <3>2
  <2>9. QED
    BY <2>7, <2>8
<1>2. CASE SendRequest
  <2>1. turn \in Conns /\ requests[turn] \in Nat
        /\ requests \in [Conns -> Nat] /\ wire \in [Conns -> SUBSET Nat]
    BY <1>t DEF TypeOK
  <2>2. /\ sending /\ ~sending' /\ sending' \in BOOLEAN
        /\ requests' = [requests EXCEPT ![turn] = @ + 1]
        /\ wire' = [wire EXCEPT ![turn] =
                       @ \union {XidOf(turn, requests[turn])}]
        /\ UNCHANGED <<reqXids, respXids, responses, last>>
    BY <1>2 DEF SendRequest
  <2> SUFFICES ASSUME NEW c \in Conns
               PROVE  (RequestTable(c) /\ ResponseTable(c) /\ WireGenuine(c))'
    BY <1>t DEF Inv
  <2>3. CASE c # turn
    <3>1. requests'[c] = requests[c] /\ wire'[c] = wire[c]
      BY <2>1, <2>2, <2>3
    <3>2. WireGenuine(c)'
      BY <1>i, <3>1 DEF WireGenuine, Genuine, XidOf
    <3>3. ResponseTable(c)'
      BY <1>i, <2>2, <3>1, UntouchedTable
    <3>4. QED
      BY <1>r, <3>2, <3>3
  <2>4. CASE c = turn
    <3>1. /\ requests'[c] = requests[c] + 1
          /\ wire'[c] = wire[c] \union {XidOf(c, requests[c])}
      BY <2>1, <2>2, <2>4
    <3>2. WireGenuine(c)'
      <4> SUFFICES ASSUME NEW x \in wire'[c]
                   PROVE  \E n \in 0 .. requests'[c] - 1 : x = XidOf(c, n)
        BY DEF WireGenuine, Genuine, XidOf
      <4>1. CASE x \in wire[c]
        <5>1. PICK n \in 0 .. requests[c] - 1 : x = XidOf(c, n)
          BY <1>i, <4>1 DEF WireGenuine, Genuine
        <5>2. n \in 0 .. requests'[c] - 1
          BY <2>1, <2>4, <3>1
        <5>3. QED
          BY <5>1, <5>2
      <4>2. CASE x = XidOf(c, requests[c])
        <5>1. requests[c] \in 0 .. requests'[c] - 1
          BY <2>1, <2>4, <3>1
        <5>2. QED
          BY <4>2, <5>1
      <4>3. QED
        BY <3>1, <4>1, <4>2
    <3>3. ResponseTable(c)'
      <4>1. responses[c] \in Nat
        BY <1>t DEF TypeOK
      <4>2. c \notin EchoConns => responses[c] <= requests'[c]
        BY <1>i, <2>1, <2>4, <3>1, <4>1 DEF ResponseTable
      <4>3. QED
        BY <1>i, <2>2, <4>2 DEF ResponseTable, XidOf
    <3>4. QED
      BY <1>r, <3>2, <3>3
  <2>5. QED
    BY <2>3, <2>4<1>3. ASSUME \A d \in Conns : ResponseTable(d)',
             UNCHANGED <<reqXids, requests, sender>>,
             \A c \in Conns : wire'[c] \subseteq wire[c]
      PROVE  Inv'
  BY <1>t, <1>3, RequestsUntouched DEF Inv
<1>4. ASSUME UNCHANGED <<respXids, responses, last>>,
             UNCHANGED <<reqXids, requests, sender>>,
             \A c \in Conns : wire'[c] \subseteq wire[c]
      PROVE  Inv'
  BY <1>i, <1>3, <1>4, UntouchedTable
<1>5. CASE NewInterval
  BY <1>4, <1>5 DEF NewInterval, tables, network
<1>6. CASE UNCHANGED vars
  BY <1>4, <1>6 DEF vars, tables, network
<1>7. ASSUME NEW c \in Conns, LivenessReply(c)
      PROVE  Inv'
  <2>1. c \in EchoConns /\ EchoXid \in Nat
    BY <1>7, CounterAssumption DEF LivenessReply
  <2>2. CountResponse(c, EchoXid) /\ UNCHANGED <<sender, wire>>
    BY <1>7 DEF LivenessReply
  <2>3. \A d \in Conns : ResponseTable(d)'
    BY <2>1, <2>2, CountResponseSafe DEF Liveness
  <2>4. UNCHANGED <<reqXids, requests>>
    BY <1>t, <2>1, <2>2, CountResponseTyped
  <2>5. QED
    BY <1>3, <2>2, <2>3, <2>4
<1>8. ASSUME NEW c \in Conns, NEW x \in wire[c],
             Receive(c, x) \/ ReceiveCopy(c, x) \/ Lose(c, x)
      PROVE  Inv'
  <2>1. \A d \in Conns : wire'[d] \subseteq wire[d]
    BY <1>t, <1>8 DEF Receive, ReceiveCopy, Lose, TypeOK
  <2>2. CASE Lose(c, x)
    BY <1>4, <2>1, <2>2 DEF Lose, tables
  <2>3. CASE Answer(c, x)
    BY <1>3, <2>1, <2>3, AnswerSafe
  <2>4. QED
    BY <1>8, <2>2, <2>3 DEF Receive, ReceiveCopy
<1>9. CASE LimitReached
  <2>1. /\ UNCHANGED <<turn, sending>> /\ UNCHANGED wire
        /\ UNCHANGED <<reqXids, requests, respXids, responses, last>>
    BY <1>9 DEF LimitReached, tables, network
  <2>2. \A c \in Conns : RequestTable(c)' /\ WireGenuine(c)'
    BY <1>i, <2>1 DEF RequestTable, WireGenuine, Genuine, Published, XidOf
  <2>3. \A d \in Conns : ResponseTable(d)'
    BY <1>i, <2>1, UntouchedTable
  <2>4. QED
    BY <1>t, <2>2, <2>3 DEF Inv
<1>10. QED
  BY <1>1, <1>2, <1>5, <1>6, <1>7, <1>8, <1>9 DEF Next

LEMMA Invariance == WellConfigured => (Spec => []Inv)
<1> SUFFICES ASSUME WellConfigured PROVE Spec => []Inv
  OBVIOUS
<1>1. Init => Inv
  BY InitSafe
<1>2. Inv /\ [Next]_vars => Inv'
  BY NextSafe
<1>3. QED
  BY <1>1, <1>2, PTL DEF Spec

\* Every line of the log pairs a request with its own answer or with none,
\* for any number of connections and requests and any loss, repetition and
\* reordering of the answers.
THEOREM LogIsPaired == WellConfigured => (Spec => []RowsPaired)
<1>1. Inv => RowsPaired
  <2> SUFFICES ASSUME Inv, NEW c \in Conns, NEW k \in 1 .. Len(respXids[c])
               PROVE  /\ k <= Len(reqXids[c])
                      /\ respXids[c][k] \in {0, reqXids[c][k]}
    BY DEF RowsPaired
  <2>1. ResponseTable(c) /\ Len(reqXids[c]) \in Nat /\ responses[c] \in Nat
    BY TablesOf DEF Inv
  <2>2. QED
    BY <2>1 DEF ResponseTable
<1>2. QED
  BY <1>1, Invariance, PTL

\* The watermark every search starts from is the newest row of the response
\* table, and no answer is recorded before its request was counted.
THEOREM WatermarkKept == WellConfigured => (Spec => []WatermarkIsTail)
<1>1. Inv => WatermarkIsTail
  <2> SUFFICES ASSUME Inv, NEW c \in Conns
               PROVE  /\ responses[c] = Len(respXids[c])
                      /\ c \notin EchoConns => responses[c] <= requests[c]
                      /\ responses[c] > 0 => last[c] = reqXids[c][responses[c]]
    BY DEF WatermarkIsTail
  <2>1. ResponseTable(c) /\ RequestTable(c)
    BY DEF Inv
  <2>2. Len(reqXids[c]) \in Nat /\ responses[c] \in Nat
    BY TablesOf
  <2>3. QED
    BY <2>1, <2>2 DEF ResponseTable, RequestTable
<1>2. QED
  BY <1>1, Invariance, PTL

-----------------------------------------------------------------------------
(* What a step may do to the log.                                          *)

\* The log of connection c keeps every answer and its watermark.
Improves(c) ==
    /\ last'[c] >= last[c]
    /\ \A k \in 1 .. Len(respXids[c]) :
          /\ k <= Len(respXids'[c])
          /\ respXids[c][k] # 0 => respXids'[c][k] = respXids[c][k]

LEMMA UntouchedImproves ==
    ASSUME Inv, NEW d \in Conns, respXids'[d] = respXids[d], last'[d] = last[d]
    PROVE  Improves(d)
<1>1. last[d] \in Nat /\ Len(respXids[d]) \in Nat
  BY TablesOf
<1>2. QED
  BY <1>1 DEF Improves

\* Record only appends, and moves the watermark forward to x.
LEMMA RecordImproves ==
    ASSUME Inv, NEW c \in Conns, NEW n \in Nat, NEW x \in Nat, x > last[c],
           Record(c, n, x)
    PROVE  \A d \in Conns : Improves(d)
<1> SUFFICES ASSUME NEW d \in Conns PROVE Improves(d)
  OBVIOUS
<1> DEFINE t == Padded(respXids[c], n, x)
<1>1. /\ respXids \in [Conns -> Seq(Nat)] /\ last \in [Conns -> Nat]
      /\ respXids[c] \in Seq(Nat) /\ Len(respXids[c]) \in Nat
  BY TablesOf DEF Inv, TypeOK
<1>2. ExtendedBy(respXids[c], n, x, t)
  BY <1>1, RecordedTable
<1>3. respXids' = [respXids EXCEPT ![c] = t] /\ last' = [last EXCEPT ![c] = x]
  BY DEF Record
<1> HIDE DEF t
<1>4. CASE d # c
  <2>1. respXids'[d] = respXids[d] /\ last'[d] = last[d]
    BY <1>1, <1>3, <1>4
  <2>2. QED
    BY <2>1, UntouchedImproves
<1>5. CASE d = c
  <2>1. respXids'[c] = t /\ last'[c] = x
    BY <1>1, <1>3
  <2>2. Len(t) >= Len(respXids[c])
    BY <1>1, <1>2 DEF ExtendedBy
  <2>3. \A k \in 1 .. Len(respXids[c]) : k <= Len(t) /\ t[k] = respXids[c][k]
    <3>1. Len(t) \in Nat
      BY <1>2 DEF ExtendedBy
    <3>2. QED
      BY <1>1, <1>2, <2>2, <3>1 DEF ExtendedBy
  <2>4. last[c] \in Nat
    BY <1>1
  <2>5. QED
    BY <1>5, <2>1, <2>3, <2>4 DEF Improves
<1>6. QED
  BY <1>4, <1>5

\* A late answer is stored in the row of its request, which is empty or holds
\* that answer already.
LEMMA LateImproves ==
    ASSUME Inv, NEW c \in Conns, NEW x \in Nat, LateFound(c, x)
    PROVE  \A d \in Conns : Improves(d)
<1> SUFFICES ASSUME NEW d \in Conns PROVE Improves(d)
  OBVIOUS
<1>1. PICK i \in LateRows(c, x) : respXids' = [respXids EXCEPT ![c][i + 1] = x]
  BY DEF LateFound
<1>2. last' = last
  BY DEF LateFound, LateCounted
<1>3. /\ respXids \in [Conns -> Seq(Nat)]
      /\ respXids[c] \in Seq(Nat) /\ responses[c] \in Nat
      /\ Len(respXids[c]) = responses[c]
  BY TablesOf DEF Inv, TypeOK
<1>4. i \in 1 .. responses[c] - 1 /\ reqXids[c][i + 1] = x
  BY DEF LateRows
<1> DEFINE t == [respXids[c] EXCEPT ![i + 1] = x]
<1>5. i + 1 \in 1 .. Len(respXids[c])
  <2>1. i + 1 \in 1 .. responses[c]
    BY <1>3, <1>4
  <2> QED
    BY <1>3, <2>1
<1>6. /\ Len(t) = Len(respXids[c])
      /\ \A k \in 1 .. Len(respXids[c]) :
            t[k] = IF k = i + 1 THEN x ELSE respXids[c][k]
  BY <1>3, <1>5, ExceptSeq
<1>7. respXids' = [respXids EXCEPT ![c] = t]
  BY <1>1
<1>8. respXids[c][i + 1] \in {0, x}
  BY <1>4, <1>5 DEF Inv, ResponseTable
<1> HIDE DEF t
<1>9. CASE d # c
  <2>1. respXids'[d] = respXids[d] /\ last'[d] = last[d]
    BY <1>2, <1>3, <1>7, <1>9
  <2>2. QED
    BY <2>1, UntouchedImproves
<1>10. CASE d = c
  <2>1. respXids'[c] = t /\ last'[c] = last[c] /\ last[c] \in Nat
    BY <1>2, <1>3, <1>7, TablesOf
  <2>2. \A k \in 1 .. Len(respXids[c]) :
           k <= Len(t) /\ (respXids[c][k] # 0 => t[k] = respXids[c][k])
    BY <1>3, <1>6, <1>8
  <2>3. QED
    BY <1>10, <2>1, <2>2 DEF Improves
<1>11. QED
  BY <1>9, <1>10

LEMMA CountResponseImproves ==
    ASSUME Inv, NEW c \in Conns, NEW x \in Nat, CountResponse(c, x)
    PROVE  \A d \in Conns : Improves(d)
<1>1. CASE UNCHANGED <<respXids, last>>
  BY <1>1, UntouchedImproves
<1>2. CASE Repeated(c, x) \/ LateUnknown(c, x) \/ AheadUnknown(c, x)
           \/ LateBeyond(c, x)
  BY <1>1, <1>2 DEF Repeated, LateUnknown, AheadUnknown, LateBeyond, LateCounted,
     tables
<1>3. CASE LateFound(c, x)
  BY <1>3, LateImproves
<1>4. CASE Expected(c, x)
  BY <1>4, RecordImproves DEF Expected
<1>5. CASE Ahead(c, x)
  <2>1. PICK i \in AheadRows(c, x) : Record(c, i - responses[c], x)
    BY <1>5 DEF Ahead
  <2>2. responses[c] \in Nat /\ requests[c] \in Nat
    BY TablesOf
  <2> DEFINE n == i - responses[c]
  <2>3. n \in Nat
    BY <2>2 DEF AheadRows
  <2>4. x > last[c] /\ Record(c, n, x)
    BY <1>5, <2>1 DEF Ahead
  <2> HIDE DEF n
  <2>5. QED
    BY <2>3, <2>4, RecordImproves
<1>6. QED
  BY <1>2, <1>3, <1>4, <1>5 DEF CountResponse

LEMMA NextImproves ==
    ASSUME WellConfigured, Inv, [Next]_vars
    PROVE  \A d \in Conns : Improves(d)
<1>1. CASE UNCHANGED <<respXids, last>>
  BY <1>1, UntouchedImproves
<1>2. ASSUME NEW c \in Conns, NEW x \in wire[c], Answer(c, x)
      PROVE  \A d \in Conns : Improves(d)
  <2>1. x \in Nat /\ CountResponse(c, x)
    BY <1>2, AnswerSafe
  <2>2. QED
    BY <2>1, CountResponseImproves
<1>3. ASSUME NEW c \in Conns, LivenessReply(c)
      PROVE  \A d \in Conns : Improves(d)
  BY <1>3, CountResponseImproves, CounterAssumption DEF LivenessReply
<1>4. CASE PushRequest \/ SendRequest \/ LimitReached \/ NewInterval
  BY <1>1, <1>4 DEF PushRequest, SendRequest, LimitReached, NewInterval, tables
<1>5. ASSUME NEW c \in Conns, NEW x \in wire[c], Lose(c, x)
      PROVE  UNCHANGED <<respXids, last>>
  BY <1>5 DEF Lose, tables
<1>6. CASE UNCHANGED vars
  BY <1>1, <1>6 DEF vars, tables
<1>7. QED
  BY <1>1, <1>2, <1>3, <1>4, <1>5, <1>6 DEF Next, Receive, ReceiveCopy

\* count_response never takes an answer back: a row of the log that has its
\* answer keeps it, rows are only appended, and the watermark does not go back.
THEOREM LogNeverWorsens == WellConfigured => (Spec => LogOnlyImproves)
<1> SUFFICES ASSUME WellConfigured PROVE Spec => LogOnlyImproves
  OBVIOUS
<1>1. Spec => []Inv
  BY Invariance
<1>2. Inv /\ [Next]_vars =>
        [\A c \in Conns :
           /\ last'[c] >= last[c]
           /\ \A k \in 1 .. Len(respXids[c]) :
                 /\ k <= Len(respXids'[c])
                 /\ respXids[c][k] # 0 => respXids'[c][k] = respXids[c][k]]_vars
  BY NextImproves DEF Improves
<1>3. QED
  BY <1>1, <1>2, PTL DEF Spec, LogOnlyImproves

-----------------------------------------------------------------------------
(* What was delivered and what was recorded.                               *)

\* What one answer can do to the log of its connection.
Keeps(c) == respXids'[c] = respXids[c] /\ last'[c] = last[c]
Fills(c, k, x) ==
    /\ respXids'[c] = [respXids[c] EXCEPT ![k] = x] /\ last'[c] = last[c]
    /\ reqXids[c][k] = x
Extends(c, n, x) ==
    ExtendedBy(respXids[c], n, x, respXids'[c]) /\ last'[c] = x
Changes(c, x) ==
    \/ \E k \in 1 .. Len(respXids[c]) : Fills(c, k, x)
    \/ \E n \in Nat : Extends(c, n, x)

LEMMA RecordExtends ==
    ASSUME Inv, NEW c \in Conns, NEW n \in Nat, NEW x \in Nat, Record(c, n, x)
    PROVE  /\ Extends(c, n, x)
           /\ \A d \in Conns \ {c} : Keeps(d)
<1>1. /\ respXids \in [Conns -> Seq(Nat)] /\ last \in [Conns -> Nat]
      /\ respXids[c] \in Seq(Nat)
  BY DEF Inv, TypeOK
<1> DEFINE t == Padded(respXids[c], n, x)
<1>2. ExtendedBy(respXids[c], n, x, t)
  BY <1>1, RecordedTable
<1>3. respXids' = [respXids EXCEPT ![c] = t] /\ last' = [last EXCEPT ![c] = x]
  BY DEF Record
<1> HIDE DEF t
<1>4. respXids'[c] = t /\ last'[c] = x
  BY <1>1, <1>3
<1>5. \A d \in Conns \ {c} : Keeps(d)
  BY <1>1, <1>3 DEF Keeps
<1> QED
  BY <1>2, <1>4, <1>5 DEF Extends

LEMMA LateFills ==
    ASSUME Inv, NEW c \in Conns, NEW x \in Nat, LateFound(c, x)
    PROVE  /\ \E k \in 1 .. Len(respXids[c]) : Fills(c, k, x)
           /\ \A d \in Conns \ {c} : Keeps(d)
<1>1. PICK i \in LateRows(c, x) : respXids' = [respXids EXCEPT ![c][i + 1] = x]
  BY DEF LateFound
<1>2. last' = last
  BY DEF LateFound, LateCounted
<1>3. /\ respXids \in [Conns -> Seq(Nat)] /\ responses[c] \in Nat
      /\ Len(respXids[c]) = responses[c]
  BY TablesOf DEF Inv, TypeOK
<1>4. i + 1 \in 1 .. Len(respXids[c]) /\ reqXids[c][i + 1] = x
  BY <1>3 DEF LateRows
<1> DEFINE t == [respXids[c] EXCEPT ![i + 1] = x]
<1>t. respXids' = [respXids EXCEPT ![c] = t]
  BY <1>1
<1> HIDE DEF t
<1>5. respXids'[c] = t
  BY <1>t, <1>3
<1>6. \A d \in Conns \ {c} : Keeps(d)
  BY <1>t, <1>2, <1>3 DEF Keeps
<1> QED
  BY <1>2, <1>4, <1>5, <1>6 DEF Fills, t

\* The answer changes the log of its connection, or none of the branches
\* that record anything was taken.
LEMMA Outcome ==
    ASSUME Inv, NEW c \in Conns, NEW x \in Nat, CountResponse(c, x)
    PROVE  /\ \A d \in Conns \ {c} : Keeps(d)
           /\ \/ Changes(c, x)
              \/ Keeps(c) /\ \/ Repeated(c, x) \/ LateBeyond(c, x)
                             \/ LateUnknown(c, x) \/ AheadUnknown(c, x)
<1>1. CASE Repeated(c, x) \/ LateUnknown(c, x) \/ AheadUnknown(c, x)
           \/ LateBeyond(c, x)
  <2>1. UNCHANGED <<respXids, last>>
    BY <1>1 DEF Repeated, LateUnknown, AheadUnknown, LateBeyond, LateCounted,
       tables
  <2> QED
    BY <1>1, <2>1 DEF Keeps
<1>2. CASE LateFound(c, x)
  BY <1>2, LateFills DEF Changes
<1>3. CASE Expected(c, x)
  BY <1>3, RecordExtends DEF Expected, Changes
<1>4. CASE Ahead(c, x)
  <2>1. PICK i \in AheadRows(c, x) : Record(c, i - responses[c], x)
    BY <1>4 DEF Ahead
  <2>2. responses[c] \in Nat /\ requests[c] \in Nat
    BY TablesOf
  <2> DEFINE n == i - responses[c]
  <2>3. n \in Nat
    BY <2>2 DEF AheadRows
  <2>4. Record(c, n, x)
    BY <2>1
  <2> HIDE DEF n
  <2> QED
    BY <2>3, <2>4, RecordExtends DEF Changes
<1> QED
  BY <1>1, <1>2, <1>3, <1>4 DEF CountResponse

\* The newest row holds the watermark; it is never a placeholder.
TailHeld(c) ==
    Len(respXids[c]) > 0 => respXids[c][Len(respXids[c])] = last[c]

\* A row that is past the request table reads as empty.
RowsReadZero == Junk = {0}

HoldsRow(c, x) == \E k \in 1 .. Len(respXids[c]) : respXids[c][k] = x

\* An answer that leaves the log alone although it is not the first one was
\* in the log before: the searches miss nothing but row 0.
LEMMA NothingMissed ==
    ASSUME Inv, RowsReadZero, NEW c \in Conns, TailHeld(c), NEW x \in Nat,
           Genuine(c, x), x # XidOf(c, 0),
           Repeated(c, x) \/ LateBeyond(c, x) \/ LateUnknown(c, x)
              \/ AheadUnknown(c, x)
    PROVE  HoldsRow(c, x)
<1> DEFINE w == responses[c]
           b == XidOf(c, 0)
           q == requests[c]
           l == last[c]
<1>1. /\ w \in Nat /\ q \in Nat /\ l \in Nat
      /\ Len(respXids[c]) = w /\ Len(reqXids[c]) \in Nat
      /\ w <= Len(reqXids[c]) /\ q <= Len(reqXids[c])
  BY TablesOf
<1>b. b \in Nat /\ \A m \in Nat : XidOf(c, m) = b + m
  BY XidIncrements
<1>2. PICK n \in 0 .. q - 1 : x = b + n
  <2>1. PICK n \in 0 .. q - 1 : x = XidOf(c, n)
    BY DEF Genuine
  <2> HIDE DEF q, b
  <2>2. n \in Nat
    BY <1>1, <2>1
  <2> QED
    BY <1>b, <2>1, <2>2
<1>3. n \in Nat /\ n > 0 /\ n < q /\ x > 0
  <2> HIDE DEF q, w, l
  <2>1. n \in Nat /\ n < q
    BY <1>1, <1>2
  <2>2. n # 0
    BY <1>2, <1>b
  <2> HIDE DEF b
  <2> QED
    BY <1>2, <1>b, <2>1, <2>2
<1>4. (w = 0 => l = 0) /\ (w > 0 => l = b + w - 1)
  <2>1. ResponseTable(c)
    BY DEF Inv
  <2>2. w = 0 => l = 0
    BY <2>1 DEF ResponseTable
  <2>3. w > 0 => l = XidOf(c, w - 1)
    BY <2>1 DEF ResponseTable
  <2> HIDE DEF w, b, q, l
  <2>4. w > 0 => w - 1 \in Nat /\ XidOf(c, w - 1) = b + (w - 1)
    BY <1>1, <1>b
  <2> QED
    BY <1>1, <1>b, <2>2, <2>3, <2>4
<1>5. \A k \in 1 .. Len(reqXids[c]) : reqXids[c][k] = b + k - 1
  <2>1. \A k \in 1 .. Len(reqXids[c]) : reqXids[c][k] = XidOf(c, k - 1)
    BY DEF Inv, RequestTable
  <2> SUFFICES ASSUME NEW k \in 1 .. Len(reqXids[c])
               PROVE  reqXids[c][k] = b + k - 1
    OBVIOUS
  <2> HIDE DEF b
  <2>2. k - 1 \in Nat /\ k \in Nat
    BY <1>1
  <2>3. XidOf(c, k - 1) = b + (k - 1)
    BY <1>b, <2>2
  <2> QED
    BY <1>b, <2>1, <2>2, <2>3
<1>6. \A r \in ReqReads(c, w) :
         IF w < Len(reqXids[c]) THEN r = b + w ELSE r = 0
  <2>1. CASE w < Len(reqXids[c])
    <3> DEFINE z == reqXids[c]
               m == w + 1
    <3> HIDE DEF w, b, q, l, z
    <3>1. m \in 1 .. Len(z) /\ m - 1 = w
      BY <1>1, <2>1 DEF z
    <3>2. z[m] = b + m - 1
      BY <1>5, <3>1 DEF z
    <3>3. z[m] = b + w
      BY <1>1, <1>b, <3>2
    <3> QED
      BY <2>1, <3>3 DEF ReqReads, z
  <2>2. CASE ~(w < Len(reqXids[c]))
    BY <2>2 DEF ReqReads, RowsReadZero
  <2> QED
    BY <2>1, <2>2
<1>7. CASE Repeated(c, x)
  <2>1. l = x
    BY <1>7 DEF Repeated
  <2>w. w > 0
    <3> HIDE DEF w, b, q, l
    <3> QED
      BY <1>1, <1>3, <1>4, <2>1
  <2>2. respXids[c][w] = x
    BY <1>1, <2>1, <2>w DEF TailHeld
  <2> QED
    BY <1>1, <2>w, <2>2 DEF HoldsRow
<1>8. CASE LateBeyond(c, x)
  <2>1. x < l /\ x \in ReqReads(c, w)
    BY <1>8 DEF LateBeyond
  <2> HIDE DEF w, b, q, l
  <2>2. w > 0 /\ l = b + w - 1
    BY <1>1, <1>3, <1>4, <2>1
  <2> QED
    BY <1>1, <1>b, <1>3, <1>6, <2>1, <2>2
<1>9. CASE LateUnknown(c, x)
  <2>1. x < l /\ LateRows(c, x) = {}
    BY <1>9 DEF LateUnknown
  <2>2. n \in 1 .. w - 1
    <3> HIDE DEF w, b, q, l
    <3> QED
      BY <1>1, <1>b, <1>2, <1>3, <1>4, <2>1
  <2>3. reqXids[c][n + 1] = x
    <3> HIDE DEF w, b, q, l
    <3>1. n + 1 \in 1 .. Len(reqXids[c])
      BY <1>1, <1>3
    <3>2. reqXids[c][n + 1] = b + (n + 1) - 1
      BY <1>5, <3>1
    <3> QED
      BY <1>b, <1>2, <1>3, <3>2
  <2> QED
    BY <2>1, <2>2, <2>3 DEF LateRows
<1>10. CASE AheadUnknown(c, x)
  <2>1. x > l /\ AheadRows(c, x) = {}
    BY <1>10 DEF AheadUnknown
  <2>2. PICK r \in ReqReads(c, w) : x > r
    BY <1>10 DEF AheadUnknown
  <2>3. n \in w + 1 .. q - 1
    <3>1. w < Len(reqXids[c]) => r = b + w
      BY <1>6, <2>2
    <3> HIDE DEF w, b, q, l
    <3>2. CASE w = 0
      BY <1>1, <1>3, <3>2
    <3>3. CASE w > 0
      <4>1. w <= n
        BY <1>1, <1>b, <1>2, <1>3, <1>4, <2>1, <3>3
      <4>2. w < Len(reqXids[c])
        BY <1>1, <1>3, <4>1
      <4>3. x > b + w
        BY <2>2, <3>1, <4>2
      <4> QED
        BY <1>1, <1>b, <1>2, <1>3, <4>3
    <3> QED
      BY <1>1, <3>2, <3>3
  <2>4. reqXids[c][n + 1] = x
    <3> HIDE DEF w, b, q, l
    <3>1. n + 1 \in 1 .. Len(reqXids[c])
      BY <1>1, <1>3
    <3>2. reqXids[c][n + 1] = b + (n + 1) - 1
      BY <1>5, <3>1
    <3> QED
      BY <1>b, <1>2, <1>3, <3>2
  <2> QED
    BY <2>1, <2>3, <2>4 DEF AheadRows
<1> QED
  BY <1>7, <1>8, <1>9, <1>10

\* The history of a connection agrees with its log: rows are filled by
\* answers only, and every answer but the first request's has its row.
OnlyAnswered(c) ==
    c \notin EchoConns =>
       \A k \in 1 .. Len(respXids[c]) : respXids[c][k] \in {0} \union answered[c]
AnswersGenuine(c) == \A x \in answered[c] : Genuine(c, x)
AnswersHeld(c) ==
    RowsReadZero => \A x \in answered[c] \ {XidOf(c, 0)} : HoldsRow(c, x)

History(c) ==
    TailHeld(c) /\ OnlyAnswered(c) /\ AnswersGenuine(c) /\ AnswersHeld(c)

HistoryInv == \A c \in Conns : History(c)

LEMMA InitHistory == Init => HistoryInv
BY DEF Init, HistoryInv, History, TailHeld, OnlyAnswered, AnswersGenuine,
   AnswersHeld, HoldsRow

\* A connection that is not concerned keeps its history.
LEMMA HistoryUntouched ==
    ASSUME Inv, NEW c \in Conns, History(c), Keeps(c),
           requests'[c] \in Nat, requests'[c] >= requests[c],
           answered'[c] = answered[c]
    PROVE  History(c)'
<1>1. requests[c] \in Nat
  BY TablesOf
<1>2. AnswersGenuine(c)'
  <2> SUFFICES ASSUME NEW x \in answered[c]
               PROVE  \E n \in 0 .. requests'[c] - 1 : x = XidOf(c, n)
    BY DEF AnswersGenuine, Genuine, XidOf
  <2>1. PICK n \in 0 .. requests[c] - 1 : x = XidOf(c, n)
    BY DEF History, AnswersGenuine, Genuine
  <2>2. n \in 0 .. requests'[c] - 1
    BY <1>1
  <2> QED
    BY <2>1, <2>2
<1>3. TailHeld(c)'
  BY DEF History, Keeps, TailHeld
<1>4. OnlyAnswered(c)'
  BY DEF History, Keeps, OnlyAnswered
<1>5. AnswersHeld(c)'
  BY DEF History, Keeps, AnswersHeld, HoldsRow, XidOf, RowsReadZero
<1> QED
  BY <1>2, <1>3, <1>4, <1>5 DEF History

\* What a changed log holds: its old answers, the new one, and placeholders;
\* its newest row is the watermark.
LEMMA ChangedLog ==
    ASSUME Inv, NEW c \in Conns, NEW x \in Nat, TailHeld(c), Changes(c, x)
    PROVE  /\ TailHeld(c)'
           /\ HoldsRow(c, x)'
           /\ \A k \in 1 .. Len(respXids'[c]) :
                 respXids'[c][k] \in {0, x} \union
                    {respXids[c][j] : j \in 1 .. Len(respXids[c])}
<1> DEFINE s == respXids[c]
           t == respXids'[c]
<1>1. /\ s \in Seq(Nat) /\ Len(s) \in Nat /\ Len(s) = responses[c]
      /\ Len(s) <= Len(reqXids[c]) /\ Len(reqXids[c]) \in Nat
  BY TablesOf
<1>2. ASSUME NEW k \in 1 .. Len(s), Fills(c, k, x)
      PROVE  /\ TailHeld(c)'
             /\ HoldsRow(c, x)'
             /\ \A i \in 1 .. Len(t) : t[i] \in {0, x} \union
                   {s[j] : j \in 1 .. Len(s)}
  <2>1. t = [s EXCEPT ![k] = x] /\ last'[c] = last[c] /\ reqXids[c][k] = x
    BY <1>2 DEF Fills
  <2> HIDE DEF t
  <2>2. /\ Len(t) = Len(s)
        /\ \A i \in 1 .. Len(s) : t[i] = IF i = k THEN x ELSE s[i]
    BY <1>1, <2>1, ExceptSeq
  <2>3. k = Len(s) => x = last[c]
    <3> SUFFICES ASSUME k = Len(s) PROVE x = last[c]
      OBVIOUS
    <3>1. k \in 1 .. Len(reqXids[c])
      BY <1>1
    <3>2. x = XidOf(c, k - 1)
      BY <2>1, <3>1 DEF Inv, RequestTable
    <3>3. last[c] = XidOf(c, k - 1)
      <4>1. responses[c] = k /\ responses[c] > 0
        BY <1>1
      <4> QED
        BY <4>1 DEF Inv, ResponseTable
    <3> QED
      BY <3>2, <3>3
  <2>4. Len(t) > 0 => t[Len(t)] = last'[c]
    BY <1>1, <2>1, <2>2, <2>3 DEF TailHeld
  <2>5. \E i \in 1 .. Len(t) : t[i] = x
    BY <2>2
  <2> QED
    BY <2>2, <2>4, <2>5 DEF TailHeld, HoldsRow, t
<1>3. ASSUME NEW n \in Nat, Extends(c, n, x)
      PROVE  /\ TailHeld(c)'
             /\ HoldsRow(c, x)'
             /\ \A i \in 1 .. Len(t) : t[i] \in {0, x} \union
                   {s[j] : j \in 1 .. Len(s)}
  <2>1. ExtendedBy(s, n, x, t) /\ last'[c] = x
    BY <1>3 DEF Extends
  <2> HIDE DEF s, t
  <2>2. /\ Len(t) = Len(s) + n + 1
        /\ t[Len(t)] = x
    BY <2>1 DEF ExtendedBy
  <2>3. ASSUME NEW i \in 1 .. Len(t)
        PROVE  t[i] \in {0, x} \union {s[j] : j \in 1 .. Len(s)}
    <3>1. CASE i \in 1 .. Len(s)
      BY <2>1, <3>1 DEF ExtendedBy
    <3>2. CASE i \in Len(s) + 1 .. Len(s) + n
      BY <2>1, <3>2 DEF ExtendedBy
    <3>3. CASE i = Len(t)
      BY <2>2, <3>3
    <3>4. \/ i \in 1 .. Len(s) \/ i \in Len(s) + 1 .. Len(s) + n
          \/ i = Len(s) + n + 1
      BY <1>1, <2>2, SMTT(20)
    <3> QED
      BY <2>2, <3>1, <3>2, <3>3, <3>4
  <2>4. Len(t) \in 1 .. Len(t)
    BY <1>1, <2>2
  <2> QED
    BY <2>1, <2>2, <2>3, <2>4 DEF TailHeld, HoldsRow, s, t
<1> QED
  BY <1>2, <1>3 DEF Changes

\* A connection keeps its history through an answer to it.
LEMMA HistoryAnswered ==
    ASSUME Inv, NEW c \in Conns, History(c), NEW x \in Nat, CountResponse(c, x),
           requests' = requests,
           \/ Genuine(c, x) /\ answered'[c] = answered[c] \union {x}
           \/ c \in EchoConns /\ answered'[c] = answered[c]
    PROVE  History(c)'
<1>1. AnswersGenuine(c)'
  BY DEF History, AnswersGenuine, Genuine, XidOf
<1>2. CASE Changes(c, x)
  <2>1. /\ TailHeld(c)'
        /\ HoldsRow(c, x)'
        /\ \A k \in 1 .. Len(respXids'[c]) :
              respXids'[c][k] \in {0, x} \union
                 {respXids[c][j] : j \in 1 .. Len(respXids[c])}
    BY <1>2, ChangedLog DEF History
  <2>2. OnlyAnswered(c)'
    BY <2>1 DEF History, OnlyAnswered
  <2>3. AnswersHeld(c)'
    <3> SUFFICES ASSUME RowsReadZero, NEW y \in answered'[c] \ {XidOf(c, 0)}
                 PROVE  HoldsRow(c, y)'
      BY DEF AnswersHeld, RowsReadZero, XidOf
    <3>1. CASE y = x
      BY <2>1, <3>1 DEF HoldsRow
    <3>2. CASE y \in answered[c]
      <4>1. PICK k \in 1 .. Len(respXids[c]) : respXids[c][k] = y
        BY <3>2 DEF History, AnswersHeld, HoldsRow
      <4>2. y # 0
        <5>1. PICK n \in 0 .. requests[c] - 1 : y = XidOf(c, n)
          BY <3>2 DEF History, AnswersGenuine, Genuine
        <5>2. n \in Nat /\ n # 0
          BY <5>1, TablesOf
        <5>3. XidOf(c, n) = XidOf(c, 0) + n /\ XidOf(c, 0) \in Nat
          BY <5>2, XidIncrements
        <5> QED
          BY <5>1, <5>2, <5>3
      <4>3. Improves(c)
        BY CountResponseImproves
      <4>4. k <= Len(respXids'[c]) /\ respXids'[c][k] = y
        BY <4>1, <4>2, <4>3 DEF Improves
      <4>5. Len(respXids[c]) \in Nat /\ Len(respXids'[c]) \in Nat
        <5>1. respXids[c] \in Seq(Nat) /\ respXids'[c] \in Seq(Nat)
          BY TablesOf, CountResponseTyped DEF Inv
        <5> QED
          BY <5>1, LenProperties
      <4>6. k \in 1 .. Len(respXids'[c])
        BY <4>4, <4>5
      <4> QED
        BY <4>4, <4>6 DEF HoldsRow
    <3> QED
      BY <3>1, <3>2
  <2> QED
    BY <1>1, <2>1, <2>2, <2>3 DEF History
<1>3. CASE Keeps(c) /\ (Repeated(c, x) \/ LateBeyond(c, x)
                        \/ LateUnknown(c, x) \/ AheadUnknown(c, x))
  <2>1. TailHeld(c)' /\ OnlyAnswered(c)'
    BY <1>3 DEF History, Keeps, TailHeld, OnlyAnswered
  <2>2. AnswersHeld(c)'
    <3> SUFFICES ASSUME RowsReadZero, NEW y \in answered'[c] \ {XidOf(c, 0)}
                 PROVE  HoldsRow(c, y)
      BY <1>3 DEF AnswersHeld, RowsReadZero, XidOf, HoldsRow, Keeps
    <3>1. CASE y \in answered[c]
      BY <3>1 DEF History, AnswersHeld
    <3>2. CASE y = x /\ Genuine(c, x)
      BY <1>3, <3>2, NothingMissed DEF History
    <3> QED
      BY <3>1, <3>2
  <2> QED
    BY <1>1, <2>1, <2>2 DEF History
<1> QED
  BY <1>2, <1>3, Outcome

LEMMA NextHistory ==
    ASSUME WellConfigured, Inv, HistoryInv, [Next]_vars
    PROVE  HistoryInv'
<1> SUFFICES ASSUME NEW d \in Conns PROVE History(d)'
  BY DEF HistoryInv, Conns
<1>1. History(d) /\ requests[d] \in Nat
  BY TablesOf DEF HistoryInv
<1>2. CASE UNCHANGED <<respXids, last, requests, answered>>
  BY <1>1, <1>2, HistoryUntouched DEF Keeps
<1>3. CASE SendRequest
  <2>1. UNCHANGED <<respXids, last, answered>>
    BY <1>3 DEF SendRequest
  <2>2. requests' = [requests EXCEPT ![turn] = @ + 1]
    BY <1>3 DEF SendRequest
  <2>3. requests \in [Conns -> Nat] /\ turn \in Conns
    BY DEF Inv, TypeOK
  <2>4. requests'[d] \in Nat /\ requests'[d] >= requests[d]
    BY <1>1, <2>2, <2>3
  <2> QED
    BY <1>1, <2>1, <2>4, HistoryUntouched DEF Keeps
<1>4. ASSUME NEW c \in Conns, NEW x \in wire[c], Answer(c, x)
      PROVE  History(d)'
  <2>1. /\ x \in Nat /\ Genuine(c, x) /\ CountResponse(c, x)
        /\ requests' = requests
    BY <1>4, AnswerSafe
  <2>2. answered' = [answered EXCEPT ![c] = @ \union {x}]
    BY <1>4 DEF Answer
  <2>3. answered \in [Conns -> SUBSET Nat]
    BY DEF Inv, TypeOK
  <2>4. CASE d = c
    <3>1. answered'[c] = answered[c] \union {x}
      BY <2>2, <2>3
    <3> QED
      BY <1>1, <2>1, <2>4, <3>1, HistoryAnswered
  <2>5. CASE d # c
    <3>1. answered'[d] = answered[d] /\ Keeps(d)
      BY <2>1, <2>2, <2>3, <2>5, Outcome
    <3>2. requests'[d] \in Nat /\ requests'[d] >= requests[d]
      BY <1>1, <2>1
    <3> QED
      BY <1>1, <3>1, <3>2, HistoryUntouched
  <2> QED
    BY <2>4, <2>5
<1>5. ASSUME NEW c \in Conns, LivenessReply(c)
      PROVE  History(d)'
  <2>1. /\ c \in EchoConns /\ EchoXid \in Nat /\ CountResponse(c, EchoXid)
        /\ answered' = answered
    BY <1>5, CounterAssumption DEF LivenessReply
  <2>2. requests' = requests
    BY <2>1, CountResponseTyped DEF Inv
  <2>3. CASE d = c
    BY <1>1, <2>1, <2>2, <2>3, HistoryAnswered
  <2>4. CASE d # c
    <3>1. Keeps(d)
      BY <2>1, <2>4, Outcome
    <3>2. requests'[d] \in Nat /\ requests'[d] >= requests[d]
      BY <1>1, <2>2
    <3> QED
      BY <1>1, <2>1, <3>1, <3>2, HistoryUntouched
  <2> QED
    BY <2>3, <2>4
<1>6. CASE PushRequest \/ LimitReached \/ NewInterval
  BY <1>2, <1>6 DEF PushRequest, LimitReached, NewInterval, tables, network
<1>7. ASSUME NEW c \in Conns, NEW x \in wire[c], Lose(c, x)
      PROVE  History(d)'
  BY <1>2, <1>7 DEF Lose, tables
<1>8. CASE UNCHANGED vars
  BY <1>2, <1>8 DEF vars, tables, network
<1> QED
  BY <1>3, <1>4, <1>5, <1>6, <1>7, <1>8 DEF Next, Receive, ReceiveCopy

LEMMA HistoryKept == WellConfigured => (Spec => []HistoryInv)
<1> SUFFICES ASSUME WellConfigured PROVE Spec => []HistoryInv
  OBVIOUS
<1>1. Spec => []Inv
  BY Invariance
<1>2. Init => HistoryInv
  BY InitHistory
<1>3. Inv /\ HistoryInv /\ [Next]_vars => HistoryInv'
  BY NextHistory
<1> QED
  BY <1>1, <1>2, <1>3, PTL DEF Spec

\* The rows of a response table are its range.
LEMMA RangeOfRows ==
    ASSUME Inv, NEW c \in Conns
    PROVE  Range(respXids[c]) = {respXids[c][k] : k \in 1 .. Len(respXids[c])}
<1>1. respXids[c] \in Seq(Nat)
  BY TablesOf
<1>2. DOMAIN respXids[c] = 1 .. Len(respXids[c])
  BY <1>1, LenProperties
<1> QED
  BY <1>2 DEF Range

\* Nothing but an answer of the device puts an xid in the log of a connection
\* that gets no liveness replies: no search writes a row of its own accord.
THEOREM OnlyAnswersRecorded == WellConfigured => (Spec => []RecordedAnswered)
<1>1. Inv /\ HistoryInv => RecordedAnswered
  <2> SUFFICES ASSUME Inv, HistoryInv, NEW c \in Conns \ EchoConns
               PROVE  Range(respXids[c]) \ {0} \subseteq answered[c]
    BY DEF RecordedAnswered
  <2>1. OnlyAnswered(c) /\ c \in Conns
    BY DEF HistoryInv, History
  <2>2. Range(respXids[c]) = {respXids[c][k] : k \in 1 .. Len(respXids[c])}
    BY <2>1, RangeOfRows
  <2> QED
    BY <2>1, <2>2 DEF OnlyAnswered
<1> QED
  BY <1>1, Invariance, HistoryKept, PTL

\* Every answer handed to count_response is in the log, in whatever order the
\* answers came and however often, but for the first request of a connection:
\* provided a row past the request table reads 0.
THEOREM NoAnswerDropped ==
    WellConfigured /\ RowsReadZero => (Spec => []DeliveredRecorded)
<1> SUFFICES ASSUME WellConfigured, RowsReadZero
             PROVE  Spec => []DeliveredRecorded
  OBVIOUS
<1>1. Inv /\ HistoryInv => DeliveredRecorded
  <2> SUFFICES ASSUME Inv, HistoryInv, NEW c \in Conns,
                      NEW x \in answered[c] \ {XidOf(c, 0)}
               PROVE  x \in Range(respXids[c])
    BY DEF DeliveredRecorded
  <2>1. HoldsRow(c, x)
    BY DEF HistoryInv, History, AnswersHeld
  <2> QED
    BY <2>1, RangeOfRows DEF HoldsRow
<1> QED
  BY <1>1, Invariance, HistoryKept, PTL

-----------------------------------------------------------------------------
(* The count of the placeholders.                                          *)

Gaps(s) == {k \in 1 .. Len(s) : s[k] = 0}

\* n rows from row a + 1 on.
LEMMA RowsCounted ==
    ASSUME NEW a \in Nat, NEW n \in Nat
    PROVE  /\ IsFiniteSet(a + 1 .. a + n)
           /\ Cardinality(a + 1 .. a + n) = n
<1> DEFINE lo == a + 1
           hi == a + n
<1>1. lo \in Int /\ hi \in Int
  OBVIOUS
<1>2. IF lo > hi THEN n = 0 ELSE hi - lo + 1 = n
  OBVIOUS
<1> HIDE DEF lo, hi
<1>3. /\ IsFiniteSet(lo .. hi)
      /\ Cardinality(lo .. hi) = IF lo > hi THEN 0 ELSE hi - lo + 1
  BY <1>1, FS_Interval
<1>4. IsFiniteSet(lo .. hi) /\ Cardinality(lo .. hi) = n
  BY <1>2, <1>3
<1> QED
  BY <1>4 DEF lo, hi

LEMMA GapsCounted ==
    ASSUME NEW s \in Seq(Nat)
    PROVE  /\ IsFiniteSet(Gaps(s)) /\ Cardinality(Gaps(s)) \in Nat
           /\ Cardinality(Gaps(s)) <= Len(s)
<1>1. Len(s) \in Nat
  BY LenProperties
<1>2. IsFiniteSet(1 .. Len(s)) /\ Cardinality(1 .. Len(s)) = Len(s)
  <2>1. 0 + 1 .. 0 + Len(s) = 1 .. Len(s)
    BY <1>1
  <2>2. /\ IsFiniteSet(0 + 1 .. 0 + Len(s))
        /\ Cardinality(0 + 1 .. 0 + Len(s)) = Len(s)
    BY <1>1, RowsCounted
  <2> QED
    BY <2>1, <2>2
<1>3. Gaps(s) \subseteq 1 .. Len(s)
  BY DEF Gaps
<1>4. IsFiniteSet(Gaps(s)) /\ Cardinality(Gaps(s)) <= Cardinality(1 .. Len(s))
  BY <1>2, <1>3, FS_Subset
<1> QED
  BY <1>2, <1>4, FS_CardinalityType

\* Recording an answer adds the placeholders before it.
LEMMA GapsExtended ==
    ASSUME NEW s \in Seq(Nat), NEW n \in Nat, NEW x \in Nat \ {0}, NEW t,
           ExtendedBy(s, n, x, t)
    PROVE  /\ Cardinality(Gaps(t)) = Cardinality(Gaps(s)) + n
           /\ Cardinality(Gaps(s)) + n <= Len(t)
<1> DEFINE p == Len(s) + 1 .. Len(s) + n
<1>1. Len(s) \in Nat
  BY LenProperties
<1>2. IsFiniteSet(p) /\ Cardinality(p) = n
  BY <1>1, RowsCounted
<1>3. Gaps(t) = Gaps(s) \union p
  <2>1. /\ \A i \in 1 .. Len(s) : t[i] = s[i]
        /\ \A i \in p : t[i] = 0
        /\ t[Len(s) + n + 1] # 0 /\ Len(t) = Len(s) + n + 1
    BY DEF ExtendedBy
  <2>2. \A i : i \in 1 .. Len(t) <=>
                  i \in 1 .. Len(s) \/ i \in p \/ i = Len(s) + n + 1
    <3>1. ASSUME NEW m \in Nat, NEW i
          PROVE  i \in 1 .. m + n + 1 <=>
                    i \in 1 .. m \/ i \in m + 1 .. m + n \/ i = m + n + 1
      OBVIOUS
    <3> QED
      BY <1>1, <2>1, <3>1
  <2> HIDE DEF p
  <2> QED
    BY <2>1, <2>2 DEF Gaps
<1>4. Gaps(s) \intersect p = {}
  BY <1>1 DEF Gaps
<1>5. /\ IsFiniteSet(Gaps(s)) /\ Cardinality(Gaps(s)) \in Nat
      /\ Cardinality(Gaps(s)) <= Len(s)
  BY GapsCounted
<1>6. Cardinality(Gaps(s) \union p) =
         Cardinality(Gaps(s)) + Cardinality(p)
            - Cardinality(Gaps(s) \intersect p)
  BY <1>2, <1>5, FS_Union
<1>7. Cardinality({}) = 0
  BY FS_EmptySet
<1>8. Len(t) = Len(s) + n + 1
  BY DEF ExtendedBy
<1> DEFINE g == Cardinality(Gaps(s))
           h == Cardinality(Gaps(t))
<1> HIDE DEF p, g, h
<1>9. h = g + n - 0
  <2>1. h = Cardinality(Gaps(s) \union p)
    BY <1>3 DEF h
  <2>2. Cardinality(Gaps(s) \intersect p) = 0
    BY <1>4, <1>7
  <2> QED
    BY <1>2, <1>6, <2>1, <2>2 DEF g
<1>10. g \in Nat /\ g <= Len(s)
  BY <1>5 DEF g
<1>11. h = g + n /\ g + n <= Len(t)
  BY <1>1, <1>8, <1>9, <1>10
<1> QED
  BY <1>11 DEF g, h

\* A late answer takes one away.
LEMMA GapsFilled ==
    ASSUME NEW s \in Seq(Nat), NEW k \in 1 .. Len(s), s[k] = 0,
           NEW x \in Nat \ {0}
    PROVE  /\ Cardinality(Gaps([s EXCEPT ![k] = x])) = Cardinality(Gaps(s)) - 1
           /\ Cardinality(Gaps(s)) > 0
<1> DEFINE t == [s EXCEPT ![k] = x]
<1>1. /\ Len(t) = Len(s)
      /\ \A i \in 1 .. Len(s) : t[i] = IF i = k THEN x ELSE s[i]
  BY ExceptSeq
<1> HIDE DEF t
<1>2. Gaps(t) = Gaps(s) \ {k}
  BY <1>1 DEF Gaps
<1>3. k \in Gaps(s)
  BY DEF Gaps
<1>4. IsFiniteSet(Gaps(s)) /\ Cardinality(Gaps(s)) \in Nat
  BY GapsCounted
<1>5. /\ IsFiniteSet(Gaps(s) \ {k})
      /\ Cardinality(Gaps(s) \ {k}) = Cardinality(Gaps(s)) - 1
  BY <1>3, <1>4, FS_RemoveElement
<1>6. Cardinality(Gaps(s) \ {k}) \in Nat
  BY <1>5, FS_CardinalityType
<1> DEFINE g == Cardinality(Gaps(s))
           h == Cardinality(Gaps(t))
<1>7. h = g - 1 /\ h \in Nat /\ g \in Nat
  BY <1>2, <1>4, <1>5, <1>6
<1> HIDE DEF g, h
<1>8. h = g - 1 /\ g > 0
  BY <1>7
<1> QED
  BY <1>8 DEF g, h, t

\* OpenFlow requests, whose xids start at 1, and fewer of them than an
\* unsigned counter can count.
Countable == RowsReadZero /\ FirstXid = 1 /\ MaxReq < UInt

\* Before any answer was repeated: no answer counted is still to come, rows
\* are filled by answers on every connection, and the placeholders are counted.
Once(c) ==
    /\ wire[c] \intersect answered[c] = {}
    /\ \A k \in 1 .. Len(respXids[c]) : respXids[c][k] \in {0} \union answered[c]
    /\ missing[c] = Cardinality(Gaps(respXids[c]))

OnceInv == extra = 0 => \A c \in Conns : Once(c)

\* Counting below the modulus does not wrap.
LEMMA ModBelow ==
    ASSUME NEW a \in Nat, NEW m \in Nat \ {0}, a < m
    PROVE  a % m = a
BY SMTT(30)

LEMMA InitOnce == Init => OnceInv
<1> SUFFICES ASSUME Init, NEW c \in Conns PROVE Once(c)
  BY DEF OnceInv
<1>1. respXids[c] = <<>> /\ missing[c] = 0 /\ answered[c] = {}
  BY DEF Init
<1>2. Gaps(<<>>) = {}
  BY DEF Gaps
<1>3. Cardinality({}) = 0
  BY FS_EmptySet
<1>4. \A k \in 1 .. Len(<<>>) : FALSE
  OBVIOUS
<1> QED
  BY <1>1, <1>2, <1>3, <1>4 DEF Once

\* An answer that comes for the first time.
LEMMA AnsweredOnce ==
    ASSUME WellConfigured, Countable, Inv, NEW c \in Conns, NEW x \in wire[c],
           Genuine(c, x), Once(c), CountResponse(c, x),
           wire'[c] = wire[c] \ {x}, answered'[c] = answered[c] \union {x},
           Inv'
    PROVE  Once(c)'
<1> DEFINE s == respXids[c]
           m == missing[c]
<1>1. /\ s \in Seq(Nat) /\ responses[c] \in Nat /\ Len(s) = responses[c]
      /\ Len(s) <= Len(reqXids[c]) /\ Len(reqXids[c]) \in Nat
      /\ respXids \in [Conns -> Seq(Nat)]
      /\ missing \in [Conns -> 0 .. UInt - 1] /\ m \in Nat
      /\ UInt \in Nat \ {0}
  <2>1. /\ s \in Seq(Nat) /\ responses[c] \in Nat /\ Len(s) = responses[c]
        /\ Len(s) <= Len(reqXids[c]) /\ reqXids[c] \in Seq(Nat)
    BY TablesOf
  <2>2. Len(reqXids[c]) \in Nat
    BY <2>1, LenProperties
  <2>3. missing \in [Conns -> 0 .. UInt - 1] /\ respXids \in [Conns -> Seq(Nat)]
    BY DEF Inv, TypeOK
  <2> QED
    BY <2>1, <2>2, <2>3, CounterAssumption
<1>2. x \in Nat \ {0}
  <2>1. PICK n \in 0 .. requests[c] - 1 : x = XidOf(c, n)
    BY DEF Genuine
  <2>2. n \in Nat
    BY <2>1, TablesOf
  <2>3. c \in Nat /\ Stride * c \in Nat /\ FirstXid = 1
    BY CounterAssumption DEF Countable, Conns
  <2> QED
    BY <2>1, <2>2, <2>3 DEF XidOf
<1>3. m = Cardinality(Gaps(s)) /\ m <= Len(s)
  BY <1>1, GapsCounted DEF Once
<1>4. wire'[c] \intersect answered'[c] = {}
  BY DEF Once
<1>5. CASE Repeated(c, x) \/ LateUnknown(c, x) \/ AheadUnknown(c, x)
  <2>1. UNCHANGED <<respXids, missing>>
    BY <1>5 DEF Repeated, LateUnknown, AheadUnknown, tables, losses
  <2> QED
    BY <1>4, <2>1 DEF Once, Gaps
<1>6. CASE LateBeyond(c, x)
  <2> SUFFICES FALSE
    OBVIOUS
  <2>1. x < last[c] /\ x \in ReqReads(c, responses[c])
    BY <1>6 DEF LateBeyond
  <2>2. ResponseTable(c) /\ RequestTable(c) /\ last[c] \in Nat
    BY TablesOf DEF Inv
  <2>3. responses[c] > 0 /\ last[c] = XidOf(c, responses[c] - 1)
    BY <1>1, <1>2, <2>1, <2>2 DEF ResponseTable
  <2>4. responses[c] < Len(reqXids[c])
    BY <1>2, <2>1 DEF ReqReads, Countable, RowsReadZero
  <2>5. x = XidOf(c, responses[c])
    BY <1>1, <2>1, <2>2, <2>4 DEF ReqReads, RequestTable
  <2>6. XidOf(c, responses[c] - 1) = XidOf(c, 0) + responses[c] - 1
        /\ XidOf(c, responses[c]) = XidOf(c, 0) + responses[c]
        /\ XidOf(c, 0) \in Nat
    <3> DEFINE w == responses[c]
    <3>1. w \in Nat /\ w - 1 \in Nat
      BY <1>1, <2>3
    <3> HIDE DEF w
    <3>2. /\ XidOf(c, w - 1) = XidOf(c, 0) + (w - 1)
          /\ XidOf(c, w) = XidOf(c, 0) + w
          /\ XidOf(c, 0) \in Nat
      BY <3>1, XidIncrements
    <3>3. XidOf(c, 0) + (w - 1) = XidOf(c, 0) + w - 1
      BY <3>1, <3>2
    <3> QED
      BY <3>2, <3>3 DEF w
  <2> QED
    BY <1>1, <2>1, <2>3, <2>5, <2>6
<1>7. CASE LateFound(c, x)
  <2>1. PICK k \in 1 .. Len(s) : Fills(c, k, x)
    BY <1>2, <1>7, LateFills
  <2>2. respXids'[c] = [s EXCEPT ![k] = x] /\ reqXids[c][k] = x
    BY <2>1 DEF Fills
  <2>3. s[k] = 0
    <3>1. s[k] \in {0, x}
      BY <2>2 DEF Inv, ResponseTable
    <3>2. s[k] \in {0} \union answered[c] /\ x \notin answered[c]
      BY DEF Once
    <3> QED
      BY <3>1, <3>2
  <2> DEFINE t == [s EXCEPT ![k] = x]
  <2>4. Cardinality(Gaps(t)) = m - 1 /\ m > 0
    BY <1>1, <1>2, <1>3, <2>3, GapsFilled
  <2>5. missing'[c] = m - 1
    <3>1. missing' = [missing EXCEPT ![c] = (@ - 1) % UInt]
      BY <1>7 DEF LateFound, LateCounted
    <3>2. missing'[c] = (m - 1) % UInt
      BY <1>1, <3>1
    <3>3. m \in 0 .. UInt - 1
      BY <1>1
    <3> HIDE DEF m
    <3>4. m - 1 \in Nat /\ m - 1 < UInt
      BY <1>1, <2>4, <3>3
    <3> QED
      BY <1>1, <3>2, <3>4, ModBelow
  <2>6. Len(t) = Len(s) /\ \A i \in 1 .. Len(s) : t[i] = IF i = k THEN x ELSE s[i]
    BY <1>1, ExceptSeq
  <2>7. \A i \in 1 .. Len(t) : t[i] \in {0} \union answered'[c]
    BY <2>6 DEF Once
  <2> HIDE DEF t
  <2>8. respXids'[c] = t
    BY <2>2 DEF t
  <2> QED
    BY <1>4, <2>4, <2>5, <2>7, <2>8 DEF Once, Gaps
<1>8. ASSUME NEW n \in Nat, Record(c, n, x)
      PROVE  Once(c)'
  <2> DEFINE t == respXids'[c]
  <2>1. ExtendedBy(s, n, x, t)
    BY <1>2, <1>8, RecordExtends DEF Extends
  <2>2. Len(t) <= MaxReq
    <3>1. RequestTable(c)' /\ ResponseTable(c)' /\ TypeOK'
      BY DEF Inv
    <3>2. /\ responses'[c] = Len(t) /\ Len(reqXids'[c]) <= MaxReq
          /\ responses'[c] <= Len(reqXids'[c])
      BY <3>1 DEF RequestTable, ResponseTable
    <3>3. responses'[c] \in Nat /\ Len(reqXids'[c]) \in Nat
      <4>1. responses'[c] \in Nat /\ reqXids'[c] \in Seq(Nat)
        BY <3>1 DEF TypeOK
      <4> QED
        BY <4>1, LenProperties
    <3> QED
      BY <3>2, <3>3, CounterAssumption
  <2>3. Cardinality(Gaps(t)) = m + n /\ m + n < UInt
    BY <1>1, <1>2, <1>3, <2>1, <2>2, GapsExtended, CounterAssumption
       DEF Countable
  <2>4. missing'[c] = (m + n) % UInt
    BY <1>1, <1>8 DEF Record
  <2>5. missing'[c] = m + n
    <3> HIDE DEF m
    <3>1. m + n \in Nat
      BY <1>1
    <3> QED
      BY <1>1, <2>3, <2>4, <3>1, ModBelow
  <2>6. \A i \in 1 .. Len(t) : t[i] \in {0} \union answered'[c]
    <3>1. /\ \A i \in 1 .. Len(s) : t[i] = s[i]
          /\ \A i \in Len(s) + 1 .. Len(s) + n : t[i] = 0
          /\ t[Len(s) + n + 1] = x /\ Len(t) = Len(s) + n + 1
      BY <2>1 DEF ExtendedBy
    <3>2. \A i \in 1 .. Len(s) : s[i] \in {0} \union answered[c]
      BY DEF Once
    <3>3. Len(s) \in Nat
      BY <1>1
    <3> HIDE DEF s, t
    <3> SUFFICES ASSUME NEW i \in 1 .. Len(t)
                 PROVE  t[i] \in {0} \union answered'[c]
      OBVIOUS
    <3>4. CASE i \in 1 .. Len(s)
      BY <3>1, <3>2, <3>4
    <3>5. CASE i \in Len(s) + 1 .. Len(s) + n
      BY <3>1, <3>5
    <3>6. CASE i = Len(s) + n + 1
      BY <3>1, <3>6
    <3> QED
      BY <3>1, <3>3, <3>4, <3>5, <3>6
  <2> QED
    BY <1>4, <2>3, <2>5, <2>6 DEF Once, Gaps
<1>9. CASE Expected(c, x)
  BY <1>8, <1>9 DEF Expected
<1>10. CASE Ahead(c, x)
  <2>1. PICK i \in AheadRows(c, x) : Record(c, i - responses[c], x)
    BY <1>10 DEF Ahead
  <2>2. responses[c] \in Nat /\ requests[c] \in Nat
    BY TablesOf
  <2> DEFINE n == i - responses[c]
  <2>3. n \in Nat
    BY <2>2 DEF AheadRows
  <2>4. Record(c, n, x)
    BY <2>1
  <2> HIDE DEF n
  <2> QED
    BY <1>8, <2>3, <2>4
<1> QED
  BY <1>5, <1>6, <1>7, <1>9, <1>10 DEF CountResponse

LEMMA OnceUntouched ==
    ASSUME NEW c \in Conns, Once(c), wire'[c] \subseteq wire[c],
           respXids'[c] = respXids[c], missing'[c] = missing[c],
           answered'[c] = answered[c]
    PROVE  Once(c)'
BY DEF Once, Gaps

\* One answer leaves the counters of the other connections alone.
LEMMA OthersUncounted ==
    ASSUME Inv, NEW c \in Conns, NEW x \in Nat, CountResponse(c, x),
           NEW d \in Conns, d # c
    PROVE  missing'[d] = missing[d] /\ respXids'[d] = respXids[d]
<1>1. respXids'[d] = respXids[d]
  BY Outcome DEF Keeps
<1>2. missing \in [Conns -> 0 .. UInt - 1]
  BY DEF Inv, TypeOK
<1>3. ASSUME NEW n, Record(c, n, x)
      PROVE  missing'[d] = missing[d]
  BY <1>2, <1>3 DEF Record
<1>4. ASSUME LateCounted(c)
      PROVE  missing'[d] = missing[d]
  BY <1>2, <1>4 DEF LateCounted
<1>5. CASE Repeated(c, x) \/ LateUnknown(c, x) \/ AheadUnknown(c, x)
  BY <1>1, <1>5 DEF Repeated, LateUnknown, AheadUnknown, losses
<1> QED
  BY <1>1, <1>3, <1>4, <1>5 DEF CountResponse, LateFound, LateBeyond, Expected,
     Ahead

LEMMA NextOnce ==
    ASSUME WellConfigured, Countable, Inv, Inv', HistoryInv, OnceInv,
           [Next]_vars
    PROVE  OnceInv'
<1> SUFFICES ASSUME extra' = 0, NEW d \in Conns PROVE Once(d)'
  BY DEF OnceInv, Conns
<1>t. /\ wire \in [Conns -> SUBSET Nat] /\ answered \in [Conns -> SUBSET Nat]
      /\ extra \in Nat /\ requests \in [Conns -> Nat] /\ turn \in Conns
  <2>1. /\ wire \in [Conns -> SUBSET Nat] /\ answered \in [Conns -> SUBSET Nat]
        /\ requests \in [Conns -> Nat] /\ turn \in Conns
    BY DEF Inv, TypeOK
  <2>2. extra \in Nat
    BY DEF Inv, TypeOK
  <2> QED
    BY <2>1, <2>2
<1>1. ASSUME extra' = extra PROVE Once(d)
  BY <1>1 DEF OnceInv
<1>2. CASE UNCHANGED <<respXids, missing, wire, answered, extra>>
  BY <1>1, <1>2, OnceUntouched
<1>3. CASE SendRequest
  <2>1. UNCHANGED <<respXids, missing, answered, extra>>
    BY <1>3 DEF SendRequest, losses
  <2>2. wire' = [wire EXCEPT ![turn] =
                    @ \union {XidOf(turn, requests[turn])}]
    BY <1>3 DEF SendRequest
  <2>3. CASE d # turn
    BY <1>t, <1>1, <2>1, <2>2, <2>3, OnceUntouched
  <2>4. CASE d = turn
    <3>1. XidOf(d, requests[d]) \notin answered[d]
      <4> SUFFICES ASSUME XidOf(d, requests[d]) \in answered[d] PROVE FALSE
        OBVIOUS
      <4>1. PICK n \in 0 .. requests[d] - 1 : XidOf(d, requests[d]) = XidOf(d, n)
        BY DEF HistoryInv, History, AnswersGenuine, Genuine
      <4>2. requests[d] \in Nat /\ n \in Nat /\ n # requests[d]
        BY <1>t, <4>1
      <4>3. /\ XidOf(d, requests[d]) = XidOf(d, 0) + requests[d]
            /\ XidOf(d, n) = XidOf(d, 0) + n /\ XidOf(d, 0) \in Nat
        BY <4>2, XidIncrements
      <4>4. ASSUME NEW b \in Nat, NEW q \in Nat, NEW m \in Nat,
                   b + q = b + m
            PROVE  q = m
        BY <4>4
      <4> QED
        BY <4>1, <4>2, <4>3, <4>4
    <3>2. wire'[d] = wire[d] \union {XidOf(d, requests[d])}
      BY <1>t, <2>2, <2>4
    <3>3. Once(d)
      BY <1>1, <2>1
    <3>4. wire'[d] \intersect answered[d] = {}
      BY <3>1, <3>2, <3>3 DEF Once
    <3> QED
      BY <2>1, <3>3, <3>4 DEF Once, Gaps
  <2> QED
    BY <2>3, <2>4
<1>4. ASSUME NEW c \in Conns, NEW x \in wire[c], Receive(c, x)
      PROVE  Once(d)'
  <2>1. /\ Answer(c, x) /\ extra' = extra
        /\ wire' = [wire EXCEPT ![c] = @ \ {x}]
        /\ answered' = [answered EXCEPT ![c] = @ \union {x}]
    BY <1>4 DEF Receive, Answer
  <2>2. x \in Nat /\ Genuine(c, x) /\ CountResponse(c, x)
    BY <2>1, AnswerSafe
  <2>3. Once(d)
    BY <1>1, <2>1
  <2>4. CASE d = c
    <3>1. wire'[c] = wire[c] \ {x} /\ answered'[c] = answered[c] \union {x}
      BY <1>t, <2>1
    <3> QED
      BY <2>2, <2>3, <2>4, <3>1, AnsweredOnce
  <2>5. CASE d # c
    <3>1. wire'[d] = wire[d] /\ answered'[d] = answered[d]
      BY <1>t, <2>1, <2>5
    <3>2. missing'[d] = missing[d] /\ respXids'[d] = respXids[d]
      BY <2>2, <2>5, OthersUncounted
    <3> QED
      BY <2>3, <3>1, <3>2, OnceUntouched
  <2> QED
    BY <2>4, <2>5
<1>5. ASSUME NEW c \in Conns, NEW x \in wire[c], Lose(c, x)
      PROVE  Once(d)'
  <2>1. /\ UNCHANGED <<respXids, missing, answered, extra>>
        /\ wire' = [wire EXCEPT ![c] = @ \ {x}]
    BY <1>5 DEF Lose, tables, losses
  <2>2. wire'[d] \subseteq wire[d]
    BY <1>t, <2>1
  <2> QED
    BY <1>1, <2>1, <2>2, OnceUntouched
<1>6. ASSUME extra' = extra + 1 PROVE FALSE
  BY <1>t, <1>6
<1>7. CASE PushRequest \/ LimitReached \/ NewInterval
  BY <1>2, <1>7 DEF PushRequest, LimitReached, NewInterval, tables, losses,
     network
<1>8. CASE UNCHANGED vars
  BY <1>2, <1>8 DEF vars, tables, losses, network
<1> QED
  BY <1>3, <1>4, <1>5, <1>6, <1>7, <1>8 DEF Next, ReceiveCopy, LivenessReply

\* As long as no answer was repeated the losses reported at the end are the
\* placeholders in the log: each late answer takes exactly one away, and the
\* unsigned counter does not wrap.
THEOREM LossesAreGaps ==
    WellConfigured /\ Countable => (Spec => []MissingIsPlaceholders)
<1> SUFFICES ASSUME WellConfigured, Countable
             PROVE  Spec => []MissingIsPlaceholders
  OBVIOUS
<1>1. Init => OnceInv
  BY InitOnce
<1>2. Inv /\ Inv' /\ HistoryInv /\ OnceInv /\ [Next]_vars => OnceInv'
  BY NextOnce
<1>3. OnceInv => MissingIsPlaceholders
  BY DEF OnceInv, Once, Gaps, MissingIsPlaceholders
<1> QED
  BY <1>1, <1>2, <1>3, Invariance, HistoryKept, PTL DEF Spec
-----------------------------------------------------------------------------
(* The losses of an interval.                                              *)

LEMMA FiniteConns == IsFiniteSet(Conns)
  BY CounterAssumption, FS_Interval DEF Conns

LEMMA MissingTypes ==
    ASSUME Inv, Inv'
    PROVE  /\ missing \in [Conns -> Int] /\ missing' \in [Conns -> Int]
           /\ missing' \in [Conns -> Nat]
<1>1. missing \in [Conns -> 0 .. UInt - 1]
  BY DEF Inv, TypeOK
<1>2. missing' \in [Conns -> 0 .. UInt - 1]
  BY DEF Inv, TypeOK
<1>3. 0 .. UInt - 1 \subseteq Nat /\ 0 .. UInt - 1 \subseteq Int
  BY CounterAssumption
<1> QED
  BY <1>1, <1>2, <1>3

LEMMA SameDifference ==
    \A a, b, u, v, p, q \in Int :
       b - a <= q - p /\ v = u + (q - p) => b - a <= v - u
  OBVIOUS

LEMMA StaysBelow ==
    \A a, b, u, v \in Int : b - a <= v - u /\ a <= u => b <= v
  OBVIOUS

\* What an answer adds to the losses of the interval it adds to the missing
\* answers of its connection: the unsigned counter only wraps upwards.
LEMMA LossIsMissing ==
    ASSUME WellConfigured, Countable, Inv, NEW c \in Conns, NEW x \in Nat \ {0},
           Once(c), Once(c)', CountResponse(c, x)
    PROVE  iLoss' - iLoss <= missing'[c] - missing[c]
<1> DEFINE m == missing[c]
           s == respXids[c]
<1>1. /\ iLoss \in Int /\ missing \in [Conns -> 0 .. UInt - 1] /\ m \in Nat
      /\ m < UInt /\ UInt \in Nat \ {0} /\ s \in Seq(Nat)
  BY CounterAssumption DEF Inv, TypeOK
<1>2. CASE Repeated(c, x) \/ LateUnknown(c, x) \/ AheadUnknown(c, x)
  <2>1. UNCHANGED <<iLoss, missing>>
    BY <1>2 DEF Repeated, LateUnknown, AheadUnknown, losses
  <2> QED
    BY <1>1, <2>1
<1>3. ASSUME LateCounted(c)
      PROVE  iLoss' - iLoss <= missing'[c] - m
  <2>1. iLoss' = iLoss - 1 /\ missing'[c] = (m - 1) % UInt
    BY <1>1, <1>3 DEF LateCounted
  <2> HIDE DEF m
  <2>2. m - 1 \in Int
    BY <1>1
  <2>3. (m - 1) % UInt \in 0 .. UInt - 1
    BY <1>1, <2>2, ModInRange
  <2>4. CASE m = 0
    BY <1>1, <2>1, <2>3, <2>4
  <2>5. CASE m > 0
    <3>1. m - 1 \in Nat /\ m - 1 < UInt
      BY <1>1, <2>5
    <3>2. (m - 1) % UInt = m - 1
      BY <1>1, <3>1, ModBelow
    <3> QED
      BY <1>1, <2>1, <3>2
  <2> QED
    BY <1>1, <2>4, <2>5
<1>4. ASSUME NEW n \in Nat, Record(c, n, x)
      PROVE  iLoss' - iLoss <= missing'[c] - m
  <2> DEFINE t == respXids'[c]
  <2>1. ExtendedBy(s, n, x, t)
    BY <1>4, RecordExtends DEF Extends
  <2>2. Cardinality(Gaps(t)) = Cardinality(Gaps(s)) + n
    BY <1>1, <2>1, GapsExtended
  <2>3. m = Cardinality(Gaps(s)) /\ missing'[c] = Cardinality(Gaps(t))
    BY DEF Once, Gaps
  <2>4. iLoss' = iLoss + n
    BY <1>4 DEF Record
  <2>5. missing'[c] = m + n
    BY <2>2, <2>3
  <2> HIDE DEF m
  <2> QED
    BY <1>1, <2>4, <2>5
<1>5. CASE Expected(c, x)
  BY <1>4, <1>5 DEF Expected
<1>6. CASE Ahead(c, x)
  <2>1. PICK i \in AheadRows(c, x) : Record(c, i - responses[c], x)
    BY <1>6 DEF Ahead
  <2>2. responses[c] \in Nat /\ requests[c] \in Nat
    BY TablesOf
  <2> DEFINE n == i - responses[c]
  <2>3. n \in Nat /\ Record(c, n, x)
    BY <2>1, <2>2 DEF AheadRows
  <2> HIDE DEF n, m
  <2>4. iLoss' - iLoss <= missing'[c] - m
    BY <1>4, <2>3
  <2> QED
    BY <2>4 DEF m
<1> QED
  BY <1>2, <1>3, <1>5, <1>6 DEF CountResponse, LateFound, LateBeyond

\* The same for the sum over the connections.
LEMMA LossesAreMissing ==
    ASSUME WellConfigured, Countable, Inv, Inv', OnceInv, OnceInv',
           HistoryInv, extra = 0, extra' = 0,
           NEW c \in Conns, NEW x \in wire[c], Answer(c, x)
    PROVE  iLoss' - iLoss <= SumFunction(missing') - SumFunction(missing)
<1>1. x \in Nat /\ Genuine(c, x) /\ CountResponse(c, x)
  BY AnswerSafe
<1>2. x \in Nat \ {0}
  <2>1. PICK n \in 0 .. requests[c] - 1 : x = XidOf(c, n)
    BY <1>1 DEF Genuine
  <2>2. n \in Nat
    BY <2>1, TablesOf
  <2>3. c \in Nat /\ Stride * c \in Nat /\ FirstXid = 1
    BY CounterAssumption DEF Countable, Conns
  <2> QED
    BY <2>1, <2>2, <2>3 DEF XidOf
<1>3. Once(c) /\ Once(c)'
  BY DEF OnceInv, Conns
<1>4. iLoss' - iLoss <= missing'[c] - missing[c]
  BY <1>1, <1>2, <1>3, LossIsMissing
<1>5. missing \in [Conns -> Int] /\ missing' \in [Conns -> Int]
  BY MissingTypes
<1>6. \A d \in Conns \ {c} : missing'[d] = missing[d]
  BY <1>1, OthersUncounted
<1>7. SumFunction(missing')
         = SumFunction(missing) + (missing'[c] - missing[c])
  BY <1>5, <1>6, FiniteConns, SumChanges
<1> DEFINE u == SumFunction(missing)
           v == SumFunction(missing')
           p == missing[c]
           q == missing'[c]
<1>8. u \in Int /\ v \in Int /\ p \in Int /\ q \in Int
  BY <1>5, FiniteConns, SumIsInt
<1>9. iLoss \in Int /\ iLoss' \in Int
  BY DEF Inv, TypeOK
<1>10. iLoss' - iLoss <= q - p /\ v = u + (q - p)
  BY <1>4, <1>7
<1> HIDE DEF u, v, p, q
<1>11. iLoss' - iLoss <= v - u
  BY <1>8, <1>9, <1>10, SameDifference
<1> QED
  BY <1>11 DEF u, v

LEMMA NextLosses ==
    ASSUME WellConfigured, Countable, Inv, Inv', HistoryInv, OnceInv, OnceInv',
           IntervalLossBounded, [Next]_vars
    PROVE  IntervalLossBounded'
<1> SUFFICES ASSUME extra' = 0 PROVE iLoss' <= SumFunction(missing')
  BY DEF IntervalLossBounded
<1>1. extra \in Nat /\ iLoss \in Int /\ iLoss' \in Int
  BY DEF Inv, TypeOK
<1>2. ASSUME extra' = extra PROVE iLoss <= SumFunction(missing)
  BY <1>2 DEF IntervalLossBounded
<1>3. CASE UNCHANGED <<iLoss, missing, extra>>
  BY <1>2, <1>3
<1>4. CASE NewInterval
  <2>1. iLoss' = 0
    BY <1>4 DEF NewInterval
  <2>2. missing' \in [Conns -> Nat]
    BY MissingTypes
  <2>3. SumFunction(missing') \in Nat
    BY <2>2, FiniteConns, SumIsNat
  <2> QED
    BY <2>1, <2>3
<1>5. ASSUME NEW c \in Conns, NEW x \in wire[c], Receive(c, x)
      PROVE  iLoss' <= SumFunction(missing')
  <2>1. Answer(c, x) /\ extra' = extra
    BY <1>5 DEF Receive
  <2>2. iLoss' - iLoss <= SumFunction(missing') - SumFunction(missing)
    BY <2>1, LossesAreMissing
  <2>3. iLoss <= SumFunction(missing)
    BY <1>2, <2>1
  <2> DEFINE u == SumFunction(missing)
             v == SumFunction(missing')
  <2>4. u \in Int /\ v \in Int
    <3>1. missing \in [Conns -> Int] /\ missing' \in [Conns -> Int]
      BY MissingTypes
    <3> QED
      BY <3>1, FiniteConns, SumIsInt
  <2>5. iLoss' - iLoss <= v - u /\ iLoss <= u
    BY <2>2, <2>3
  <2> HIDE DEF u, v
  <2>6. iLoss' <= v
    BY <1>1, <2>4, <2>5, StaysBelow
  <2> QED
    BY <2>6 DEF v
<1>6. ASSUME extra' = extra + 1 PROVE FALSE
  BY <1>1, <1>6
<1>7. ASSUME NEW c \in Conns, NEW x \in wire[c], Lose(c, x)
      PROVE  UNCHANGED <<iLoss, missing, extra>>
  BY <1>7 DEF Lose, losses
<1>8. CASE PushRequest \/ SendRequest \/ LimitReached \/ UNCHANGED vars
  BY <1>3, <1>8 DEF PushRequest, SendRequest, LimitReached, vars, losses, network
<1> QED
  BY <1>3, <1>4, <1>5, <1>6, <1>7, <1>8 DEF Next, ReceiveCopy, LivenessReply

\* As long as no answer was repeated, the losses reported for an interval
\* never exceed the answers missing over the whole run, although a late answer
\* is taken off the interval it arrives in and not off the one it was counted
\* lost in (count_response and newInterval).
THEOREM IntervalLossesBounded ==
    WellConfigured /\ Countable => (Spec => []IntervalLossBounded)
<1> SUFFICES ASSUME WellConfigured, Countable
             PROVE  Spec => []IntervalLossBounded
  OBVIOUS
<1>1. Init => OnceInv
  BY InitOnce
<1>2. Inv /\ Inv' /\ HistoryInv /\ OnceInv /\ [Next]_vars => OnceInv'
  BY NextOnce
<1>3. Init => IntervalLossBounded
  <2> SUFFICES ASSUME Init PROVE iLoss <= SumFunction(missing)
    BY DEF IntervalLossBounded
  <2>1. SumFunction(missing) = 0
    BY FiniteConns, SumOfZeros DEF Init
  <2> QED
    BY <2>1 DEF Init
<1>4. /\ Inv /\ Inv' /\ HistoryInv /\ OnceInv /\ OnceInv'
      /\ IntervalLossBounded /\ [Next]_vars
      => IntervalLossBounded'
  BY NextLosses
<1> QED
  BY <1>1, <1>2, <1>3, <1>4, Invariance, HistoryKept, PTL DEF Spec

-----------------------------------------------------------------------------
(* The tables implement ResponseLog.                                       *)

\* The facts about connection c that the steps below argue from.
LEMMA RowsHave ==
    ASSUME RowsInv, NEW c \in Conns
    PROVE  /\ requests[c] \in Nat /\ responses[c] \in Nat /\ last[c] \in Nat
           /\ reqXids[c] \in Seq(Nat) /\ respXids[c] \in Seq(Nat)
           /\ Len(respXids[c]) = responses[c]
           /\ Len(reqXids[c]) \in Nat
           /\ responses[c] <= Len(reqXids[c])
           /\ requests[c] <= Len(reqXids[c])
           /\ Len(reqXids[c]) <= requests[c] + 1
BY DEF RowsInv, TypeOK, RequestTable, Aligned, Published

\* Record leaves the tables aligned when the row of the answer is published.
LEMMA RecordAligns ==
    ASSUME RowsInv, NEW c \in Conns, NEW n \in Nat, NEW x \in Nat,
           responses[c] + n + 1 <= Len(reqXids[c]), Record(c, n, x)
    PROVE  \A d \in Conns : Aligned(d)'
<1> DEFINE s == respXids[c]
           t == Padded(s, n, x)
<1>1. /\ s \in Seq(Nat) /\ Len(s) = responses[c] /\ responses[c] \in Nat
      /\ respXids \in [Conns -> Seq(Nat)] /\ responses \in [Conns -> Nat]
  BY RowsHave DEF RowsInv, TypeOK
<1>2. /\ respXids' = [respXids EXCEPT ![c] = t]
      /\ responses' = [responses EXCEPT ![c] = responses[c] + n + 1]
      /\ reqXids' = reqXids
  BY DEF Record
<1>3. Len(t) = Len(s) + n + 1
  <2>1. ExtendedBy(s, n, x, t)
    BY <1>1, RecordedTable
  <2> HIDE DEF s, t
  <2> QED
    BY <2>1 DEF ExtendedBy
<1> HIDE DEF s, t
<1>4. \A d \in Conns : Aligned(d)
  BY DEF RowsInv
<1>5. Aligned(c)'
  BY <1>1, <1>2, <1>3 DEF Aligned
<1>6. ASSUME NEW d \in Conns, d # c PROVE Aligned(d)'
  BY <1>1, <1>2, <1>4, <1>6 DEF Aligned
<1> QED
  BY <1>5, <1>6

\* Whatever x is, count_response adds rows only beside published requests:
\* the common case compares x with such a row, the forward search looks at
\* no other, and the backward search adds none.
LEMMA CountResponseAligns ==
    ASSUME RowsReadZero, RowsInv, NEW c \in Conns, NEW x \in Nat,
           CountResponse(c, x)
    PROVE  \A d \in Conns : Aligned(d)'
<1>1. reqXids' = reqXids
  BY CountResponseTyped DEF RowsInv
<1>2. /\ \A d \in Conns : Aligned(d)
      /\ respXids \in [Conns -> Seq(Nat)]
  BY DEF RowsInv, TypeOK
<1>3. CASE UNCHANGED <<respXids, responses>>
  BY <1>1, <1>2, <1>3 DEF Aligned
<1>4. CASE Repeated(c, x) \/ LateUnknown(c, x) \/ AheadUnknown(c, x)
           \/ LateBeyond(c, x)
  BY <1>3, <1>4 DEF Repeated, LateUnknown, AheadUnknown, LateBeyond,
     LateCounted, tables
<1>5. CASE LateFound(c, x)
  <2>1. PICK i \in LateRows(c, x) :
             respXids' = [respXids EXCEPT ![c][i + 1] = x]
    BY <1>5 DEF LateFound
  <2>2. responses' = responses
    BY <1>5 DEF LateFound, LateCounted
  <2>3. /\ respXids[c] \in Seq(Nat) /\ Len(respXids[c]) = responses[c]
        /\ responses[c] \in Nat
    BY RowsHave
  <2>4. i + 1 \in 1 .. Len(respXids[c])
    <3>1. i \in 1 .. responses[c] - 1
      BY DEF LateRows
    <3>2. ASSUME NEW q \in Nat, i \in 1 .. q - 1
          PROVE  i + 1 \in 1 .. q
      BY <3>2
    <3> QED
      BY <2>3, <3>1, <3>2
  <2> DEFINE t == [respXids[c] EXCEPT ![i + 1] = x]
  <2>5. Len(t) = Len(respXids[c])
    BY <2>3, <2>4, ExceptSeq
  <2>6. respXids' = [respXids EXCEPT ![c] = t]
    BY <2>1
  <2> HIDE DEF t
  <2> QED
    BY <1>1, <1>2, <2>2, <2>5, <2>6 DEF Aligned
<1>6. CASE Expected(c, x)
  <2>1. PICK r \in ReqReads(c, responses[c]) : x <= r
    BY <1>6 DEF Expected
  <2>2. x > last[c] /\ Record(c, 0, x)
    BY <1>6 DEF Expected
  <2>3. responses[c] < Len(reqXids[c])
    <3> SUFFICES ASSUME ~(responses[c] < Len(reqXids[c])) PROVE FALSE
      OBVIOUS
    <3>1. r = 0
      BY <2>1 DEF ReqReads, RowsReadZero
    <3> QED
      BY <2>1, <2>2, <3>1, RowsHave
  <2>4. responses[c] + 0 + 1 <= Len(reqXids[c])
    BY <2>3, RowsHave
  <2> QED
    BY <2>2, <2>4, RecordAligns
<1>7. CASE Ahead(c, x)
  <2>1. PICK i \in AheadRows(c, x) : Record(c, i - responses[c], x)
    BY <1>7 DEF Ahead
  <2>2. i \in responses[c] + 1 .. requests[c] - 1
    BY DEF AheadRows
  <2> DEFINE n == i - responses[c]
  <2>3. n \in Nat /\ responses[c] + n + 1 <= Len(reqXids[c])
    <3>1. ASSUME NEW w \in Nat, NEW q \in Nat, NEW l \in Nat, q <= l,
                 i \in w + 1 .. q - 1
          PROVE  i - w \in Nat /\ w + (i - w) + 1 <= l
      BY <3>1
    <3> QED
      BY <2>2, <3>1, RowsHave
  <2>4. Record(c, n, x)
    BY <2>1
  <2> HIDE DEF n
  <2> QED
    BY <2>3, <2>4, RecordAligns
<1> QED
  BY <1>4, <1>5, <1>6, <1>7 DEF CountResponse

LEMMA NextAligns ==
    ASSUME RowsReadZero, RowsInv, [Next]_vars
    PROVE  RowsInv'
<1>t. TypeOK' /\ \A c \in Conns : RequestTable(c)'
  BY NextTyped, RequestTablesKept DEF RowsInv
<1>a. \A c \in Conns : Aligned(c)
  BY DEF RowsInv
<1> SUFFICES \A c \in Conns : Aligned(c)'
  BY <1>t DEF RowsInv
<1>1. CASE UNCHANGED <<reqXids, respXids, responses>>
  BY <1>1, <1>a DEF Aligned
<1>2. CASE PushRequest
  <2> SUFFICES ASSUME NEW c \in Conns PROVE Aligned(c)'
    OBVIOUS
  <2>1. responses' = responses /\ respXids' = respXids /\ requests' = requests
        /\ ~sending /\ sending' /\ turn' = turn
    BY <1>2 DEF PushRequest
  <2>2. Len(reqXids'[c]) >= Len(reqXids[c])
    <3>1. Len(reqXids'[c]) = Published(c)' /\ Len(reqXids[c]) = Published(c)
      BY <1>t DEF RowsInv, RequestTable
    <3> QED
      BY <2>1, <3>1, RowsHave DEF Published
  <2>3. Len(reqXids'[c]) \in Nat
    BY <1>t DEF TypeOK
  <2> QED
    BY <1>a, <2>1, <2>2, <2>3, RowsHave DEF Aligned
<1>3. ASSUME NEW c \in Conns, NEW x \in wire[c], Answer(c, x)
      PROVE  \A d \in Conns : Aligned(d)'
  <2>1. x \in Nat /\ Route(c, x) \in Conns
    BY <1>3 DEF RowsInv, TypeOK, Answer
  <2> QED
    BY <1>3, <2>1, CountResponseAligns DEF Answer
<1>4. ASSUME NEW c \in Conns, LivenessReply(c)
      PROVE  \A d \in Conns : Aligned(d)'
  BY <1>4, CountResponseAligns, CounterAssumption DEF LivenessReply
<1>5. CASE SendRequest \/ LimitReached \/ NewInterval \/ UNCHANGED vars
           \/ \E d \in Conns : \E x \in wire[d] : Lose(d, x)
  BY <1>1, <1>5 DEF SendRequest, LimitReached, NewInterval, Lose, vars, tables
<1> QED
  BY <1>2, <1>3, <1>4, <1>5 DEF Next, Receive, ReceiveCopy

LEMMA InitAligns == Init => RowsInv
BY InitSafe, InvAligns

\* The alignment holds in every run of either kind: the answers may be any,
\* or the rows beyond the table may hold anything.
LEMMA AlignmentKept ==
    RowsReadZero \/ WellConfigured => (Spec => []RowsInv)
<1>1. RowsReadZero => (Spec => []RowsInv)
  <2> SUFFICES ASSUME RowsReadZero PROVE Spec => []RowsInv
    OBVIOUS
  <2>1. RowsInv /\ [Next]_vars => RowsInv'
    BY NextAligns
  <2> QED
    BY <2>1, InitAligns, PTL DEF Spec
<1>2. WellConfigured => (Spec => []RowsInv)
  <2> SUFFICES ASSUME WellConfigured PROVE Spec => []RowsInv
    OBVIOUS
  <2>1. Spec => []Inv
    BY Invariance
  <2> QED
    BY <2>1, InvAligns, PTL
<1> QED
  BY <1>1, <1>2

\* The rows of connection c as ResponseLog sees them, and all of them.
RowsOf(c) == [k \in 1 .. Len(reqXids[c]) |-> RowState(c, k)]
TheLog == [c \in Conns |-> RowsOf(c)]

\* What the rows of c become when row r gets its answer.
RowsAnswered(c, r) ==
    [k \in 1 .. Len(reqXids[c]) |->
        IF k = r THEN "answered"
        ELSE IF k < r /\ RowsOf(c)[k] = "open" THEN "gap"
        ELSE RowsOf(c)[k]]

LEMMA SameTablesSameRows ==
    ASSUME NEW d \in Conns, reqXids'[d] = reqXids[d], respXids'[d] = respXids[d]
    PROVE  RowsOf(d)' = RowsOf(d)
BY DEF RowsOf, RowState

LEMMA SameLog ==
    ASSUME \A d \in Conns : RowsOf(d)' = RowsOf(d)
    PROVE  TheLog' = TheLog
BY DEF TheLog

\* A step that changes the rows of c alone, as an answer to row r does.
LEMMA AnswerStep ==
    ASSUME NEW c \in Conns, NEW r \in 1 .. Len(reqXids[c]),
           RowsOf(c)[r] # "answered",
           RowsOf(c)' = RowsAnswered(c, r),
           \A d \in Conns : d # c => RowsOf(d)' = RowsOf(d)
    PROVE  Log!Next
<1>1. /\ DOMAIN RowsOf(c) = 1 .. Len(reqXids[c])
      /\ TheLog[c] = RowsOf(c)
  BY DEF RowsOf, TheLog
<1>2. RowsAnswered(c, r) =
        [k \in DOMAIN TheLog[c] |->
            IF k = r THEN "answered"
            ELSE IF k < r /\ TheLog[c][k] = "open" THEN "gap"
            ELSE TheLog[c][k]]
  BY <1>1 DEF RowsAnswered
<1>3. TheLog' = [TheLog EXCEPT ![c] = RowsAnswered(c, r)]
  BY DEF TheLog
<1>4. Log!Answer(c, r)
  BY <1>1, <1>2, <1>3 DEF Log!Answer, TheLog, RowsOf
<1>5. r \in DOMAIN TheLog[c]
  BY <1>1
<1> QED
  BY <1>4, <1>5 DEF Log!Next, TheLog, RowsOf

-----------------------------------------------------------------------------
(* The steps that change a table.                                          *)

\* A row added to the rows f of a table.
LEMMA RowAppended ==
    ASSUME NEW S, NEW n \in Nat, NEW f \in [1 .. n -> S], NEW e \in S
    PROVE  Append(f, e) = [k \in 1 .. n + 1 |-> IF k = n + 1 THEN e ELSE f[k]]
<1>1. f \in Seq(S)
  OBVIOUS
<1>2. Len(f) = n
  BY <1>1, LenProperties, SMTT(30)
<1> DEFINE g == Append(f, e)
           h == [k \in 1 .. n + 1 |-> IF k = n + 1 THEN e ELSE f[k]]
<1>3. /\ g \in Seq(S) /\ Len(g) = n + 1
      /\ \A k \in 1 .. n : g[k] = f[k]
      /\ g[n + 1] = e
  BY <1>1, <1>2, AppendProperties
<1>4. h \in Seq(S)
  <2>1. h \in [1 .. n + 1 -> S]
    BY SMTT(30)
  <2> QED
    BY <2>1
<1>5. Len(h) = n + 1 /\ \A k \in 1 .. n + 1 : g[k] = h[k]
  <2>1. DOMAIN h = 1 .. n + 1
    OBVIOUS
  <2>2. \A k \in 1 .. n + 1 : g[k] = h[k]
    BY <1>3
  <2> HIDE DEF g, h
  <2> QED
    BY <1>4, <2>1, <2>2, LenProperties
<1> HIDE DEF g, h
<1>6. g = h
  BY <1>3, <1>4, <1>5, SeqEqual
<1> QED
  BY <1>6 DEF g, h

\* The tables have sequences for rows.
LEMMA TablesAreSequences ==
    ASSUME RowsInv
    PROVE  /\ reqXids \in [Conns -> Seq(Nat)]
           /\ respXids \in [Conns -> Seq(Nat)]
BY DEF RowsInv, TypeOK

\* A new row is open.
LEMMA AskStep ==
    ASSUME RowsInv, PushRequest
    PROVE  Log!Next
<1>1. PICK c \in Conns : c = turn
  BY DEF RowsInv, TypeOK
<1> DEFINE s == reqXids[c]
           x == XidOf(c, requests[c])
<1>2. /\ reqXids \in [Conns -> Seq(Nat)] /\ s \in Seq(Nat)
      /\ Len(s) \in Nat
      /\ Len(respXids[c]) \in Nat /\ Len(respXids[c]) <= Len(s)
  <2>1. /\ s \in Seq(Nat) /\ responses[c] \in Nat
        /\ Len(respXids[c]) = responses[c] /\ responses[c] <= Len(s)
    BY RowsHave
  <2>2. Len(s) \in Nat
    BY <2>1, LenProperties
  <2> QED
    BY <2>1, <2>2, TablesAreSequences
<1>3. x \in Nat
  BY <1>2, RowsHave, XidIncrements
<1>4. reqXids' = [reqXids EXCEPT ![c] = Append(s, x)] /\ respXids' = respXids
  BY <1>1 DEF PushRequest
<1> HIDE DEF x
<1>5. Len(reqXids'[c]) = Len(s) + 1
  BY <1>2, <1>3, <1>4
<1>6. RowsOf(c)' = Append(RowsOf(c), "open")
  <2>1. RowsOf(c) \in [1 .. Len(s) -> {"open", "gap", "answered"}]
    BY DEF RowsOf, RowState
  <2>2. Append(RowsOf(c), "open")
          = [k \in 1 .. Len(s) + 1 |->
                IF k = Len(s) + 1 THEN "open" ELSE RowsOf(c)[k]]
    <3> DEFINE f == RowsOf(c)
               S == {"open", "gap", "answered"}
               n == Len(s)
    <3>1. f \in [1 .. n -> S] /\ n \in Nat /\ "open" \in S
      BY <1>2, <2>1
    <3> HIDE DEF f, S, n
    <3>2. Append(f, "open")
            = [k \in 1 .. n + 1 |-> IF k = n + 1 THEN "open" ELSE f[k]]
      BY <3>1, RowAppended
    <3> QED
      BY <3>2 DEF f, n
  <2>3. RowsOf(c)' = [k \in 1 .. Len(s) + 1 |-> RowState(c, k)]
    BY <1>4, <1>5 DEF RowsOf, RowState
  <2>4. ASSUME NEW k \in 1 .. Len(s) + 1
        PROVE  RowState(c, k)
                 = IF k = Len(s) + 1 THEN "open" ELSE RowsOf(c)[k]
    <3>1. CASE k = Len(s) + 1
      BY <1>2, <3>1 DEF RowState
    <3>2. CASE k # Len(s) + 1
      <4>1. k \in 1 .. Len(s)
        BY <1>2, <3>2
      <4> QED
        BY <3>2, <4>1 DEF RowsOf
    <3> QED
      BY <3>1, <3>2
  <2> QED
    BY <2>2, <2>3, <2>4
<1>7. \A d \in Conns : d # c => RowsOf(d)' = RowsOf(d)
  BY <1>2, <1>4, SameTablesSameRows
<1>8. TheLog' = [TheLog EXCEPT ![c] = Append(@, "open")]
  BY <1>6, <1>7 DEF TheLog
<1>9. Log!Ask(c)
  BY <1>8 DEF Log!Ask, TheLog, RowsOf
<1> QED
  BY <1>9 DEF Log!Next

\* Where a row lies: in the old table, in the n new gaps, at or past the
\* new answer.
LEMMA RowCases ==
    ASSUME NEW q \in Nat, NEW n \in Nat, NEW m \in Nat, NEW k \in 1 .. m
    PROVE  \/ k \in 1 .. q \/ k \in q + 1 .. q + n
           \/ k = q + n + 1 \/ k > q + n + 1
OBVIOUS

\* Record answers the row after n gaps.
LEMMA RecordStep ==
    ASSUME RowsInv, RowsInv', NEW c \in Conns, NEW n \in Nat, NEW x \in Nat, x # 0,
           Record(c, n, x)
    PROVE  Log!Next
<1> DEFINE t == Padded(respXids[c], n, x)
           q == Len(respXids[c])
           r == q + n + 1
           rows == 1 .. Len(reqXids[c])
<1>1. /\ respXids \in [Conns -> Seq(Nat)] /\ respXids[c] \in Seq(Nat)
      /\ q \in Nat /\ Len(reqXids[c]) \in Nat
  BY RowsHave, TablesAreSequences
<1>2. ExtendedBy(respXids[c], n, x, t)
  BY <1>1, RecordedTable
<1>3. respXids' = [respXids EXCEPT ![c] = t] /\ reqXids' = reqXids
  BY DEF Record
<1> HIDE DEF t
<1>4. respXids'[c] = t
  BY <1>1, <1>3
<1>5. Len(t) = r /\ r \in Nat /\ r \in rows
  <2>1. Len(t) = r /\ r \in Nat
    BY <1>1, <1>2 DEF ExtendedBy
  <2>2. Len(respXids'[c]) <= Len(reqXids'[c])
    BY DEF RowsInv, Aligned
  <2> QED
    BY <1>1, <1>3, <1>4, <2>1, <2>2
<1>6. RowsOf(c)[r] = "open"
  BY <1>1, <1>5 DEF RowsOf, RowState
<1>7. RowsOf(c)' = RowsAnswered(c, r)
  <2>1. RowsOf(c)' = [k \in rows |-> IF k > Len(t) THEN "open"
                                     ELSE IF t[k] = 0 THEN "gap" ELSE "answered"]
    BY <1>3, <1>4 DEF RowsOf, RowState
  <2>2. ASSUME NEW k \in rows
        PROVE  (IF k > Len(t) THEN "open"
                ELSE IF t[k] = 0 THEN "gap" ELSE "answered")
                 = (IF k = r THEN "answered"
                    ELSE IF k < r /\ RowsOf(c)[k] = "open" THEN "gap"
                    ELSE RowsOf(c)[k])
    <3>1. RowsOf(c)[k] = IF k > q THEN "open"
                         ELSE IF respXids[c][k] = 0 THEN "gap" ELSE "answered"
      BY DEF RowsOf, RowState
    <3>2. CASE k \in 1 .. q
      <4>1. t[k] = respXids[c][k]
        BY <1>2, <3>2 DEF ExtendedBy
      <4>2. k <= Len(t) /\ k <= q /\ k # r
        BY <1>1, <1>5, <3>2
      <4> QED
        BY <1>1, <3>1, <3>2, <4>1, <4>2
    <3>3. CASE k \in q + 1 .. q + n
      BY <1>1, <1>2, <1>5, <3>1, <3>3 DEF ExtendedBy
    <3>4. CASE k = r
      BY <1>1, <1>2, <1>5, <3>1, <3>4 DEF ExtendedBy
    <3>5. CASE k > r
      BY <1>1, <1>5, <3>1, <3>5
    <3>6. \/ k \in 1 .. q \/ k \in q + 1 .. q + n
          \/ k = r \/ k > r
      BY <1>1, RowCases
    <3> QED
      BY <3>2, <3>3, <3>4, <3>5, <3>6
  <2> QED
    BY <2>1, <2>2 DEF RowsAnswered
<1>8. \A d \in Conns : d # c => RowsOf(d)' = RowsOf(d)
  BY <1>1, <1>3, SameTablesSameRows
<1> QED
  BY <1>5, <1>6, <1>7, <1>8, AnswerStep

\* A late answer fills a gap, or a row that has it already.
LEMMA LateStep ==
    ASSUME RowsInv, NEW c \in Conns, NEW x \in Nat, LateFound(c, x),
           UNCHANGED reqXids
    PROVE  Log!Next \/ TheLog' = TheLog
<1>1. PICK i \in LateRows(c, x) : respXids' = [respXids EXCEPT ![c][i + 1] = x]
  BY DEF LateFound
<1> DEFINE t == [respXids[c] EXCEPT ![i + 1] = x]
           q == Len(respXids[c])
           r == i + 1
           rows == 1 .. Len(reqXids[c])
<1>2. /\ respXids \in [Conns -> Seq(Nat)] /\ respXids[c] \in Seq(Nat)
      /\ q \in Nat /\ q = responses[c]
      /\ Len(reqXids[c]) \in Nat /\ q <= Len(reqXids[c])
  <2>1. respXids \in [Conns -> Seq(Nat)]
    BY TablesAreSequences
  <2>2. /\ respXids[c] \in Seq(Nat) /\ reqXids[c] \in Seq(Nat)
        /\ responses[c] \in Nat /\ q = responses[c]
        /\ responses[c] <= Len(reqXids[c])
    BY RowsHave
  <2>3. Len(reqXids[c]) \in Nat
    BY <2>2, LenProperties
  <2> HIDE DEF q
  <2> QED
    BY <2>1, <2>2, <2>3
<1>3. i \in 1 .. q - 1 /\ reqXids[c][r] = x
  BY <1>2 DEF LateRows
<1>4. r \in 1 .. q /\ r \in rows
  <2> HIDE DEF q
  <2>1. r \in 1 .. q
    BY <1>2, <1>3
  <2> QED
    BY <1>2, <2>1
<1>5. x # 0
  <2>1. x = XidOf(c, i)
    BY <1>3, <1>4 DEF RowsInv, RequestTable
  <2>2. XidOf(c, i) = XidOf(c, 0) + i /\ XidOf(c, 0) \in Nat
    BY <1>2, <1>3, XidIncrements
  <2> QED
    BY <1>2, <1>3, <2>1, <2>2
<1>6. respXids' = [respXids EXCEPT ![c] = t] /\ respXids'[c] = t
  BY <1>1, <1>2
<1>7. /\ Len(t) = q
      /\ \A k \in 1 .. q : t[k] = IF k = r THEN x ELSE respXids[c][k]
  BY <1>2, <1>4, ExceptSeq
<1> HIDE DEF t
<1>9. RowsOf(c)' = [k \in rows |-> IF k > q THEN "open"
                                   ELSE IF t[k] = 0 THEN "gap" ELSE "answered"]
  BY <1>6, <1>7 DEF RowsOf, RowState
<1>10. \A k \in rows :
         RowsOf(c)[k] = IF k > q THEN "open"
                        ELSE IF respXids[c][k] = 0 THEN "gap" ELSE "answered"
  BY DEF RowsOf, RowState
<1>11. \A d \in Conns : d # c => RowsOf(d)' = RowsOf(d)
  BY <1>2, <1>6, SameTablesSameRows
<1>12. CASE respXids[c][r] = 0
  <2>1. RowsOf(c)[r] = "gap"
    BY <1>2, <1>4, <1>10, <1>12
  <2>2. ASSUME NEW k \in rows
        PROVE  (IF k > q THEN "open"
                ELSE IF t[k] = 0 THEN "gap" ELSE "answered")
                 = (IF k = r THEN "answered"
                    ELSE IF k < r /\ RowsOf(c)[k] = "open" THEN "gap"
                    ELSE RowsOf(c)[k])
    <3>1. CASE k \in 1 .. q
      <4>1. t[k] = IF k = r THEN x ELSE respXids[c][k]
        BY <1>7, <3>1
      <4>2. RowsOf(c)[k] = IF respXids[c][k] = 0 THEN "gap" ELSE "answered"
        BY <1>2, <1>10, <3>1
      <4>3. ~(k > q)
        BY <1>2, <3>1
      <4> QED
        BY <1>5, <4>1, <4>2, <4>3
    <3>2. CASE k > q
      BY <1>2, <1>4, <1>10, <3>2
    <3> QED
      BY <1>2, <3>1, <3>2
  <2>3. RowsOf(c)' = RowsAnswered(c, r)
    BY <1>9, <2>2 DEF RowsAnswered
  <2> QED
    BY <1>4, <1>11, <2>1, <2>3, AnswerStep
<1>13. CASE respXids[c][r] # 0
  <2>1. \A k \in 1 .. q : t[k] = 0 <=> respXids[c][k] = 0
    BY <1>5, <1>7, <1>13
  <2>2. RowsOf(c)' = RowsOf(c)
    BY <1>2, <1>9, <2>1 DEF RowsOf, RowState
  <2> QED
    BY <1>11, <2>2, SameLog
<1> QED
  BY <1>12, <1>13

-----------------------------------------------------------------------------
(* The refinement.                                                         *)

LEMMA CountResponseStep ==
    ASSUME RowsInv, RowsInv', NEW c \in Conns, NEW x \in Nat, CountResponse(c, x)
    PROVE  Log!Next \/ TheLog' = TheLog
<1>1. ASSUME UNCHANGED <<reqXids, respXids>>
      PROVE  TheLog' = TheLog
  BY <1>1, SameTablesSameRows, SameLog
<1>2. CASE Repeated(c, x) \/ LateUnknown(c, x) \/ AheadUnknown(c, x)
           \/ LateBeyond(c, x)
  BY <1>1, <1>2 DEF Repeated, LateUnknown, AheadUnknown, LateBeyond, LateCounted,
     tables
<1>3. CASE LateFound(c, x)
  BY <1>3, LateStep DEF LateFound, LateCounted
<1>4. last[c] \in Nat /\ responses[c] \in Nat /\ requests[c] \in Nat
  BY RowsHave
<1>5. CASE Expected(c, x)
  BY <1>4, <1>5, RecordStep DEF Expected
<1>6. CASE Ahead(c, x)
  <2>1. PICK i \in AheadRows(c, x) : Record(c, i - responses[c], x)
    BY <1>6 DEF Ahead
  <2> DEFINE n == i - responses[c]
  <2>2. n \in Nat /\ x # 0
    BY <1>4, <1>6 DEF Ahead, AheadRows
  <2>3. Record(c, n, x)
    BY <2>1
  <2> HIDE DEF n
  <2> QED
    BY <2>2, <2>3, RecordStep
<1> QED
  BY <1>2, <1>3, <1>5, <1>6 DEF CountResponse

LEMMA NextStep ==
    ASSUME RowsInv, RowsInv', [Next]_vars
    PROVE  Log!Next \/ TheLog' = TheLog
<1>1. ASSUME UNCHANGED <<reqXids, respXids>>
      PROVE  TheLog' = TheLog
  BY <1>1, SameTablesSameRows, SameLog
<1>2. ASSUME NEW c \in Conns, NEW x \in wire[c], Answer(c, x)
      PROVE  Log!Next \/ TheLog' = TheLog
  <2>1. /\ x \in Nat /\ Route(c, x) \in Conns
        /\ CountResponse(Route(c, x), x)
    BY <1>2 DEF RowsInv, TypeOK, Answer
  <2> QED
    BY <2>1, CountResponseStep
<1>3. ASSUME NEW c \in Conns, LivenessReply(c)
      PROVE  Log!Next \/ TheLog' = TheLog
  BY <1>3, CountResponseStep, CounterAssumption DEF LivenessReply
<1>4. CASE SendRequest \/ LimitReached \/ NewInterval
  BY <1>1, <1>4 DEF SendRequest, LimitReached, NewInterval, tables
<1>5. ASSUME NEW c \in Conns, NEW x \in wire[c], Lose(c, x)
      PROVE  TheLog' = TheLog
  BY <1>1, <1>5 DEF Lose, tables
<1>6. CASE UNCHANGED vars
  BY <1>1, <1>6 DEF vars, tables
<1> QED
  BY <1>2, <1>3, <1>4, <1>5, <1>6, AskStep DEF Next, Receive, ReceiveCopy

\* The request and response tables of Counter are a log: every call of
\* count_request and count_response is a step of ResponseLog or changes
\* nothing in it, whatever answers are lost, repeated or late.  With rows
\* beyond the table that read 0 this holds for any stray answer too: one
\* counted for another connection because its xid ran past its range, or a
\* liveness reply with any xid.  With rows that read anything it holds when
\* every answer is the answer to a request of the connection it is counted for.
THEOREM TablesAreALog ==
    RowsReadZero \/ WellConfigured => (Spec => KeepsLog)
<1> SUFFICES ASSUME RowsReadZero \/ WellConfigured PROVE Spec => KeepsLog
  OBVIOUS
<1>1. Init => Log!Init
  <2> SUFFICES ASSUME Init PROVE Log!Init
    OBVIOUS
  <2>1. \A c \in Conns : RowsOf(c) = <<>>
    BY DEF Init, RowsOf
  <2> QED
    BY <2>1 DEF Log!Init, RowsOf
<1>2. RowsInv /\ RowsInv' /\ [Next]_vars
        => [Log!Next]_([c \in Conns |->
                          [k \in 1 .. Len(reqXids[c]) |-> RowState(c, k)]])
  BY NextStep DEF TheLog, RowsOf
<1>3. Spec => []RowsInv
  BY AlignmentKept
<1> QED
  BY <1>1, <1>2, <1>3, PTL DEF Spec, KeepsLog, Log!Spec
=============================================================================
