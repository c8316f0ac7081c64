------------------------------ MODULE Counter ------------------------------
(***************************************************************************)
(* The request/response accounting of one tenant: class Counter            *)
(* (src/src/counter.cpp), written by the tenant's sender thread            *)
(* (count_request) and by the event-loop thread that receives the answers  *)
(* (count_response), and read by the reporter and by the log writer.       *)
(*                                                                         *)
(* Tables are indexed by the list index of a connection and then by row.   *)
(* Row r of the request table and row r of the response table become one   *)
(* line of the log, so the response table holds 0 where the answer to a    *)
(* request has not been seen.  Rows count from 0 in the code and from 1    *)
(* here: row r of the code is element r+1.                                 *)
(*                                                                         *)
(* Of the four parallel columns of a row (xid, time, bytes, type) only the *)
(* xid is kept: it tells which message the other columns belong to.        *)
(***************************************************************************)
EXTENDS Integers, Sequences, FiniteSets, FiniteSetsExt, Functions

CONSTANTS
    NumConns,    \* connections of the tenant; list indices 0 .. NumConns-1
    Stride,      \* distance between the xid ranges of two connections
    FirstXid,    \* 1 for OpenFlow requests, 0 for the PacketIn data plane
    RouteByXid,  \* TRUE: the list index is recomputed as xid / Stride
    MaxPackets,  \* end condition -M, 0 when there is none
    TimeLimit,   \* TRUE: there is an end condition in seconds
    UInt,        \* modulus of uint32_t
    Junk,        \* what a row beyond the end of the request table may hold
    EchoXid,     \* xid of the server's own liveness echo request
    EchoConns,   \* connections whose liveness reply reaches the counter
    Reordering,  \* TRUE: answers may overtake each other
    MaxReq,      \* bound: requests per connection
    MaxExtra     \* bound: duplicated answers and liveness replies in a run

ASSUME CounterAssumption ==
    /\ NumConns \in Nat \ {0}
    /\ Stride \in Nat \ {0}
    /\ FirstXid \in {0, 1}
    /\ FirstXid = 0 => NumConns = 1
    /\ RouteByXid \in BOOLEAN
    /\ MaxPackets \in Nat
    /\ TimeLimit \in BOOLEAN
    /\ UInt \in Nat \ {0}
    /\ Junk \subseteq Nat /\ Junk # {}
    /\ EchoXid \in Nat \ {0}
    /\ EchoConns \subseteq 0 .. NumConns - 1
    /\ Reordering \in BOOLEAN
    /\ MaxReq \in Nat
    /\ MaxExtra \in Nat

VARIABLES
    reqXids,     \* request table: reqXids[c] is a sequence of xids
    requests,    \* requests[c], incremented after the row is pushed
    respXids,    \* response table, 0 in a placeholder row
    responses,   \* responses[c], the rows of the response table
    last,        \* last_response_xid[c]
    missing,     \* missing_responses[c], an unsigned 32-bit counter
    iReq,        \* interval_requests
    iResp,       \* interval_responses
    iLoss,       \* interval_losses, may go negative
    finished,    \* Counter::finished
    turn,        \* connection the sender serves next
    sending,     \* TRUE between the push of a row and the send
    wire,        \* wire[c]: requests sent on c whose answer may still come
    answered,    \* history: answered[c], genuine answers counted for c
    extra        \* bound: duplicates and liveness replies so far

tables  == <<reqXids, requests, respXids, responses, last>>
losses  == <<missing, iLoss>>
rates   == <<iReq, iResp>>
sender  == <<finished, turn, sending>>
network == <<wire, answered, extra>>
vars    == <<tables, losses, rates, sender, network>>

Conns == 0 .. NumConns - 1

\* xid of request number n (from 0) of connection c.
XidOf(c, n) == n + Stride * c + FirstXid

\* The list index an answer with this xid received on connection c is
\* counted under: the index stored in the connection, or the one the
\* FlowMod sandwich testcases compute from the xid.
Route(c, x) == IF RouteByXid THEN x \div Stride ELSE c

Init ==
    /\ reqXids = [c \in Conns |-> <<>>] /\ requests = [c \in Conns |-> 0]
    /\ respXids = [c \in Conns |-> <<>>] /\ responses = [c \in Conns |-> 0]
    /\ last = [c \in Conns |-> 0] /\ missing = [c \in Conns |-> 0]
    /\ iReq = 0 /\ iResp = 0 /\ iLoss = 0
    /\ finished = FALSE /\ turn = 0 /\ sending = FALSE
    /\ wire = [c \in Conns |-> {}] /\ answered = [c \in Conns |-> {}]
    /\ extra = 0

-----------------------------------------------------------------------------
(* The sender thread.                                                      *)

\* First half of count_request: the row is visible, the count is not.
PushRequest ==
    /\ ~finished /\ ~sending /\ requests[turn] < MaxReq
    /\ reqXids' = [reqXids EXCEPT ![turn] =
                      Append(@, XidOf(turn, requests[turn]))]
    /\ sending' = TRUE
    /\ UNCHANGED <<requests, respXids, responses, last, losses, rates,
                   finished, turn, network>>

\* Second half of count_request, then the send, then the next connection.
SendRequest ==
    /\ sending
    /\ requests' = [requests EXCEPT ![turn] = @ + 1]
    /\ iReq' = iReq + 1
    /\ wire' = [wire EXCEPT ![turn] = @ \union {XidOf(turn, requests[turn])}]
    /\ turn' = (turn + 1) % NumConns
    /\ sending' = FALSE
    /\ UNCHANGED <<reqXids, respXids, responses, last, losses, iResp,
                   finished, answered, extra>>

\* limit_reached() at the head of a burst, which starts at connection 0.
\* The time limit may expire before any burst.
LimitReached ==
    /\ ~finished /\ ~sending /\ turn = 0
    /\ \/ TimeLimit
       \/ MaxPackets > 0 /\ SumFunction(requests) >= MaxPackets
    /\ finished' = TRUE
    /\ UNCHANGED <<tables, losses, rates, turn, sending, network>>

-----------------------------------------------------------------------------
(* count_response(x) for connection c, run by an event-loop thread.  It    *)
(* reads `requests` and published rows only, so one step stands for it:    *)
(* the sender's two half steps give every value its reads can see.         *)

\* Values read in row i (from 0) of the request table.  The index is not
\* checked: a row that does not exist holds whatever the memory held.
ReqReads(c, i) ==
    IF i < Len(reqXids[c]) THEN {reqXids[c][i + 1]} ELSE Junk

\* A duplicate of the last answer is skipped.
Repeated(c, x) ==
    /\ x = last[c]
    /\ UNCHANGED <<tables, losses, rates>>

\* Slip: the backward search stops a row early.
LateRows_StopsEarly(c, x) ==
    {i \in 2 .. responses[c] - 1 : reqXids[c][i + 1] = x}

\* Rows the backward search of a late answer compares, below the first.
LateRows(c, x) == {i \in 1 .. responses[c] - 1 : reqXids[c][i + 1] = x}

\* Slips in the bookkeeping of a late answer: the unsigned counter is not
\* wrapped, or not decremented; the interval's losses are not corrected.
LateCounted_NoWrap(c) ==
    /\ iLoss' = iLoss - 1
    /\ missing' = [missing EXCEPT ![c] = @ - 1]
    /\ iResp' = iResp + 1
    /\ UNCHANGED <<reqXids, requests, responses, last, iReq>>

LateCounted_KeepsMissing(c) ==
    /\ iLoss' = iLoss - 1
    /\ iResp' = iResp + 1
    /\ UNCHANGED <<reqXids, requests, responses, last, iReq, missing>>

LateCounted_KeepsLoss(c) ==
    /\ missing' = [missing EXCEPT ![c] = (@ - 1) % UInt]
    /\ iResp' = iResp + 1
    /\ UNCHANGED <<reqXids, requests, responses, last, iReq, iLoss>>

\* Slip: the watermark follows a late answer back.
LateCounted_MovesWatermark(c) ==
    /\ iLoss' = iLoss - 1
    /\ missing' = [missing EXCEPT ![c] = (@ - 1) % UInt]
    /\ iResp' = iResp + 1
    /\ last' = [last EXCEPT ![c] = XidOf(c, 1)]
    /\ UNCHANGED <<reqXids, requests, responses, iReq>>

\* The bookkeeping of a late answer that found its request.
LateCounted(c) ==
    /\ iLoss' = iLoss - 1
    /\ missing' = [missing EXCEPT ![c] = (@ - 1) % UInt]
    /\ iResp' = iResp + 1
    /\ UNCHANGED <<reqXids, requests, responses, last, iReq>>

\* x < last: fill the row of the request, found from the newest row down.
LateFound(c, x) ==
    /\ x < last[c]
    /\ \E r \in ReqReads(c, responses[c]) : r # x
    /\ \E i \in LateRows(c, x) :
          /\ \A j \in LateRows(c, x) : j <= i
          /\ respXids' = [respXids EXCEPT ![c][i + 1] = x]
    /\ LateCounted(c)

\* The search starts one row past the response table.  If that row matches
\* (only a row that does not exist can), the store misses the table.
LateBeyond(c, x) ==
    /\ x < last[c]
    /\ x \in ReqReads(c, responses[c])
    /\ LateCounted(c)
    /\ UNCHANGED respXids

\* The search ends at row 0 without looking at it.
LateUnknown(c, x) ==
    /\ x < last[c]
    /\ \E r \in ReqReads(c, responses[c]) : r # x
    /\ LateRows(c, x) = {}
    /\ UNCHANGED <<tables, losses, rates>>

\* The rows s, n placeholders and the answer x.
Padded(s, n, x) == Append(s \o [i \in 1 .. n |-> 0], x)

\* Slips in Record: the placeholders are forgotten, or counted once, or hold
\* the xids of the skipped requests.
Record_NoPlaceholders(c, n, x) ==
    /\ respXids' = [respXids EXCEPT ![c] = Append(@, x)]
    /\ responses' = [responses EXCEPT ![c] = @ + 1]
    /\ last' = [last EXCEPT ![c] = x]
    /\ missing' = [missing EXCEPT ![c] = (@ + n) % UInt]
    /\ iLoss' = iLoss + n
    /\ iResp' = iResp + 1
    /\ UNCHANGED <<reqXids, requests, iReq>>

Record_CountsOnce(c, n, x) ==
    /\ respXids' = [respXids EXCEPT ![c] = Padded(@, n, x)]
    /\ responses' = [responses EXCEPT ![c] = @ + 1]
    /\ last' = [last EXCEPT ![c] = x]
    /\ missing' = [missing EXCEPT ![c] = (@ + n) % UInt]
    /\ iLoss' = iLoss + n
    /\ iResp' = iResp + 1
    /\ UNCHANGED <<reqXids, requests, iReq>>

Record_FillsSkipped(c, n, x) ==
    /\ respXids' = [respXids EXCEPT ![c] =
                       @ \o [i \in 1 .. n |-> x - n + i - 1] \o <<x>>]
    /\ responses' = [responses EXCEPT ![c] = @ + n + 1]
    /\ last' = [last EXCEPT ![c] = x]
    /\ missing' = [missing EXCEPT ![c] = (@ + n) % UInt]
    /\ iLoss' = iLoss + n
    /\ iResp' = iResp + 1
    /\ UNCHANGED <<reqXids, requests, iReq>>

\* Append n placeholders and the answer x.
Record(c, n, x) ==
    /\ respXids' = [respXids EXCEPT ![c] = Padded(@, n, x)]
    /\ responses' = [responses EXCEPT ![c] = @ + n + 1]
    /\ last' = [last EXCEPT ![c] = x]
    /\ missing' = [missing EXCEPT ![c] = (@ + n) % UInt]
    /\ iLoss' = iLoss + n
    /\ iResp' = iResp + 1
    /\ UNCHANGED <<reqXids, requests, iReq>>

\* x > last and x is not past the next expected xid: the common case.
Expected(c, x) ==
    /\ x > last[c]
    /\ \E r \in ReqReads(c, responses[c]) : x <= r
    /\ Record(c, 0, x)

\* Rows the forward search compares.
AheadRows(c, x) ==
    {i \in responses[c] + 1 .. requests[c] - 1 : reqXids[c][i + 1] = x}

\* x is past the next expected xid: the requests in between are skipped.
Ahead(c, x) ==
    /\ x > last[c]
    /\ \E r \in ReqReads(c, responses[c]) : x > r
    /\ \E i \in AheadRows(c, x) :
          /\ \A j \in AheadRows(c, x) : i <= j
          /\ Record(c, i - responses[c], x)

\* No request has that xid: nothing is counted.
AheadUnknown(c, x) ==
    /\ x > last[c]
    /\ \E r \in ReqReads(c, responses[c]) : x > r
    /\ AheadRows(c, x) = {}
    /\ UNCHANGED <<tables, losses, rates>>

CountResponse(c, x) ==
    \/ Repeated(c, x)
    \/ LateFound(c, x)
    \/ LateBeyond(c, x)
    \/ LateUnknown(c, x)
    \/ Expected(c, x)
    \/ Ahead(c, x)
    \/ AheadUnknown(c, x)

-----------------------------------------------------------------------------
(* The network and the device (external).                                  *)

\* Answers that may come next on connection c.
Deliverable(c) ==
    IF Reordering THEN wire[c]
    ELSE {x \in wire[c] : \A y \in wire[c] : x <= y}

\* An answer to x arrives on c and is counted.  An index outside the
\* tables (x of the last connection, past its stride) is undefined
\* behaviour and left out.
Answer(c, x) ==
    /\ x \in Deliverable(c)
    /\ Route(c, x) \in Conns
    /\ CountResponse(Route(c, x), x)
    /\ answered' = [answered EXCEPT ![c] = @ \union {x}]
    /\ UNCHANGED sender

Receive(c, x) ==
    /\ Answer(c, x)
    /\ wire' = [wire EXCEPT ![c] = @ \ {x}]
    /\ UNCHANGED extra

\* The answer will arrive once more.
ReceiveCopy(c, x) ==
    /\ extra < MaxExtra
    /\ Answer(c, x)
    /\ extra' = extra + 1
    /\ UNCHANGED wire

Lose(c, x) ==
    /\ x \in wire[c]
    /\ wire' = [wire EXCEPT ![c] = @ \ {x}]
    /\ UNCHANGED <<tables, losses, rates, sender, answered, extra>>

\* With dispatch_all_messages(true) the reply to the server's own liveness
\* echo reaches the EchoRequest testcase, which counts it.  Before the first
\* request the tables are empty and the read is undefined: left out.
LivenessReply(c) ==
    /\ c \in EchoConns /\ requests[c] > 0
    /\ extra < MaxExtra
    /\ CountResponse(c, EchoXid)
    /\ extra' = extra + 1
    /\ UNCHANGED <<sender, wire, answered>>

\* newInterval(), by the reporter thread.
NewInterval ==
    /\ iReq' = 0 /\ iResp' = 0 /\ iLoss' = 0
    /\ UNCHANGED <<tables, missing, sender, network>>

Next ==
    \/ PushRequest
    \/ SendRequest
    \/ LimitReached
    \/ \E c \in Conns : \E x \in wire[c] :
          Receive(c, x) \/ ReceiveCopy(c, x) \/ Lose(c, x)
    \/ \E c \in Conns : LivenessReply(c)
    \/ NewInterval

Spec == Init /\ [][Next]_vars

-----------------------------------------------------------------------------
(* Properties.                                                             *)

\* Every variable stays in its type.
TypeOK ==
    /\ reqXids \in [Conns -> Seq(Nat)] /\ requests \in [Conns -> Nat]
    /\ respXids \in [Conns -> Seq(Nat)] /\ responses \in [Conns -> Nat]
    /\ last \in [Conns -> Nat] /\ missing \in [Conns -> 0 .. UInt - 1]
    /\ iReq \in Nat /\ iResp \in Nat /\ iLoss \in Int
    /\ finished \in BOOLEAN /\ turn \in Conns /\ sending \in BOOLEAN
    /\ wire \in [Conns -> SUBSET Nat] /\ answered \in [Conns -> SUBSET Nat]
    /\ extra \in 0 .. MaxExtra

\* Every line of the log pairs a request with its own answer or with none:
\* however answers are lost, repeated and reordered, the searches of
\* count_response never store an answer in the row of another request.
RowsPaired ==
    \A c \in Conns : \A k \in 1 .. Len(respXids[c]) :
       /\ k <= Len(reqXids[c])
       /\ respXids[c][k] \in {0, reqXids[c][k]}

\* The watermark of a connection is the xid of the newest row of its
\* response table, which is the row of that request; the response table is
\* never longer than the requests counted, although the sender publishes a
\* row before it counts it (a liveness reply can match the published row).
WatermarkIsTail ==
    \A c \in Conns :
       /\ responses[c] = Len(respXids[c])
       /\ c \notin EchoConns => responses[c] <= requests[c]
       /\ responses[c] > 0 => last[c] = reqXids[c][responses[c]]

\* An answer handed to count_response is in the log, in whatever order it
\* came, except the answer to the first request of a connection.
DeliveredRecorded ==
    \A c \in Conns : \A x \in answered[c] \ {XidOf(c, 0)} :
       x \in Range(respXids[c])

\* Only an answer puts a row in the log: a row holds an xid only when the
\* device answered that request (liveness replies can break this).
RecordedAnswered ==
    \A c \in Conns \ EchoConns :
       Range(respXids[c]) \ {0} \subseteq answered[c]

\* As long as no answer was repeated, missing_responses counts exactly the
\* placeholder rows, across every fill of a placeholder by a late answer.
MissingIsPlaceholders ==
    extra = 0 =>
       \A c \in Conns :
          missing[c] = Cardinality({k \in 1 .. Len(respXids[c]) :
                                      respXids[c][k] = 0})

\* As long as no answer was repeated, the losses of an interval never exceed
\* the answers still missing, although late answers are taken off the losses
\* of an interval other than the one they were counted lost in.
IntervalLossBounded == extra = 0 => iLoss <= SumFunction(missing)

\* The log only improves: rows are appended, and a row that has its answer
\* keeps it; a watermark never goes back.
LogOnlyImproves ==
    [][\A c \in Conns :
          /\ last'[c] >= last[c]
          /\ \A k \in 1 .. Len(respXids[c]) :
                /\ k <= Len(respXids'[c])
                /\ respXids[c][k] # 0 => respXids'[c][k] = respXids[c][k]
      ]_vars

\* The two tables together are a log as ResponseLog describes it: whatever
\* is lost, late, repeated or not an answer at all, a call of count_response
\* gives at most one row its answer, turns open rows into gaps only below an
\* answer, and never reopens or empties a row.
RowState(c, k) ==
    IF k > Len(respXids[c]) THEN "open"
    ELSE IF respXids[c][k] = 0 THEN "gap" ELSE "answered"

Log == INSTANCE ResponseLog WITH
    Connections <- Conns,
    log <- [c \in Conns |-> [k \in 1 .. Len(reqXids[c]) |-> RowState(c, k)]]

KeepsLog == Log!Spec

\* counter.cpp says of skipped rows "We put placeholders for the skipped
\* responses / Maybe they will come later": an answer that does come later
\* replaces its placeholder, the first request's included.
LateAnswersFillTheirRow ==
    \A c \in Conns : \A x \in answered[c] :
       last[c] > x => x \in Range(respXids[c])
=============================================================================
