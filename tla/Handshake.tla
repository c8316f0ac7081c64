----------------------------- MODULE Handshake -----------------------------
(***************************************************************************)
(* How a tenant becomes connected.  The emulated switches of the process   *)
(* (switch/OFClient.cc, switch/Switch.cc, switch/base/BaseOFClient.cc) and *)
(* foreign peers dial the controller endpoint (OFServer.cc,                *)
(* Controller.cpp); both sides exchange HELLO, FEATURES and, in OpenFlow   *)
(* 1.3, the port description; the testcase numbers each connection, gives  *)
(* it a row of tables and counts the listed connections until it calls the *)
(* tenant connected (testcases.cpp, testcases/flowmodsandwich.cpp,         *)
(* testcases/packetinsandwich.cpp); then the packet dispatcher walks the   *)
(* connections by their number (packetdispatcher.cpp).                     *)
(*                                                                         *)
(* Threads: the main thread, the one event loop of the controller, the     *)
(* event loop and the connect thread of each switch, and the dispatcher.   *)
(* Closing within one endpoint is in OFServer, what follows a failure in   *)
(* SystemState, the tables themselves in Counter.                          *)
(***************************************************************************)
EXTENDS Integers, Sequences, FiniteSets, SequencesExt

CONSTANTS
    Own,            \* emulated switches of the tenant
    External,       \* other peers: a hypervisor, a foreign switch
    CtrlVersion,    \* wire version the tenant is configured for
    PeerVersions,   \* wire versions external peers may offer
    MaxDials,       \* bound: connections a switch makes (a foreign peer: one)
    MaxCuts         \* bound: connections the network may cut

ASSUME HandshakeAssumption ==
    /\ Own \intersect External = {}
    /\ IsFiniteSet(Own)
    /\ CtrlVersion \in {1, 4}
    /\ PeerVersions \subseteq {1, 4}
    /\ MaxDials \in Nat \ {0} /\ MaxCuts \in Nat

VARIABLES
    testcase,       \* which testcase runs: FlowModSandwich, PacketInSandwich
    main,           \* how far the main thread is
    switchSender,   \* BaseTestCase::switch_sender
    dial,           \* dial[p]: "off", "dialling", "up", or "dead" for good
    dials,          \* dials[p]: connections p has made
    offer,          \* offer[c]: version of the HELLO of the peer of c
    swt,            \* swt[c]: OFConnection::state at the peer
    ctl,            \* ctl[c]: OFConnection::state at the controller
    version,        \* version[c]: OFConnection::version at the controller
    up, down,       \* messages under way to the controller, to the peer
    cut,            \* cut[c]: c is lost, or was closed by the controller
    conns,          \* Controller::conns
    entering,       \* the connection just listed, not yet established
    index,          \* index[c]: OFConnection::list_index, {} before it is set
    numbering,      \* switches between the two halves of their numbering
    rows,           \* length of Counter::conn_ids
    tables,         \* rows of the other tables of the counter
    connected,      \* Tenant::connected
    sending,        \* the dispatcher walks the connections
    failed,         \* SystemState::tenant_failed was called
    crashed         \* a missing factory, connection or row was used

setup == <<testcase, main, switchSender>>
peers == <<dial, dials, offer, swt>>
server == <<ctl, version>>
wires == <<up, down, cut>>
numbers == <<index, numbering, rows, tables>>
outcome == <<connected, sending, failed, crashed>>
vars == <<setup, peers, server, wires, conns, entering, numbers, outcome>>

Peers == Own \union External
\* The k-th connection of peer p.
Conns == Peers \X (1 .. MaxDials)
\* Messages either way.
ToController == {"hello", "features_reply", "ports_reply"}
ToPeer == {"hello", "features_request", "ports_request", "error"}
NumSwitches == Cardinality(Own)
Listed == ToSet(conns)

Init ==
    /\ testcase \in {"FlowModSandwich", "PacketInSandwich"}
    /\ main = "listening" /\ switchSender = FALSE
    /\ dial = [p \in Peers |-> IF p \in Own THEN "off" ELSE "dialling"]
    /\ dials = [p \in Peers |-> 0]
    /\ offer = [c \in Conns |-> 0]
    /\ swt = [c \in Conns |-> "none"] /\ ctl = [c \in Conns |-> "none"]
    /\ version = [c \in Conns |-> 0]
    /\ up = [c \in Conns |-> <<>>] /\ down = [c \in Conns |-> <<>>]
    /\ cut = [c \in Conns |-> FALSE]
    /\ conns = <<>> /\ entering = {}
    /\ index = [c \in Conns |-> {}] /\ numbering = {}
    /\ rows = 0 /\ tables = 0
    /\ connected = FALSE /\ sending = FALSE
    /\ failed = FALSE /\ crashed = FALSE

\* The process goes on: no failure stopped the run, no fault ended it.
Alive == ~failed /\ ~crashed

-----------------------------------------------------------------------------
(* The main thread: BaseTestCase::start after the controller listens, then *)
(* SystemState::init.                                                      *)

CreateFactory ==
    /\ Alive /\ main = "listening"
    /\ main' = "factory"
    /\ UNCHANGED <<testcase, switchSender, peers, server, wires, conns,
                   entering, numbers, outcome>>

\* Slip: the loop of start_switches leaves one switch out.
StartTestcase_SkipsOne ==
    /\ Alive /\ main = "factory"
    /\ main' = "started"
    /\ switchSender' = (testcase = "PacketInSandwich")
    /\ \E q \in Own :
          dial' = [p \in Peers |-> IF p \in Own \ {q} THEN "dialling" ELSE dial[p]]
    /\ UNCHANGED <<testcase, dials, offer, swt, server, wires, conns,
                   entering, numbers, outcome>>

\* start_testcase: the direction of the requests, then the switches start
\* their connect threads.
StartTestcase ==
    /\ Alive /\ main = "factory"
    /\ main' = "started"
    /\ switchSender' = (testcase = "PacketInSandwich")
    /\ dial' = [p \in Peers |-> IF p \in Own THEN "dialling" ELSE dial[p]]
    /\ UNCHANGED <<testcase, dials, offer, swt, server, wires, conns,
                   entering, numbers, outcome>>

\* SystemState::init: from here on a lost connection fails the run.
Arm ==
    /\ Alive /\ main = "started"
    /\ main' = "armed"
    /\ UNCHANGED <<testcase, switchSender, peers, server, wires, conns,
                   entering, numbers, outcome>>

\* wait_for_tenants_to_connect has seen the flag: send_loop starts.
StartSending ==
    /\ Alive /\ main = "armed" /\ connected /\ ~sending
    /\ sending' = TRUE
    /\ UNCHANGED <<setup, peers, server, wires, conns, entering, numbers,
                   connected, failed, crashed>>

-----------------------------------------------------------------------------
(* A peer.  try_connect runs in its own thread; everything after it in the *)
(* event loop of the switch.                                               *)

\* try_connect, the BaseOFConnection constructor and EVENT_UP: HELLO goes
\* out before reads are enabled.  SystemState::start_switch has every switch
\* dial port 6633, while each tenant listens on a port of its own: the tenant
\* here is the one that listens on 6633.
Dial(p) ==
    /\ Alive /\ dial[p] = "dialling"
    /\ dials[p] < IF p \in Own THEN MaxDials ELSE 1
    /\ dials' = [dials EXCEPT ![p] = @ + 1]
    /\ dial' = [dial EXCEPT ![p] = "up"]
    /\ LET c == <<p, dials'[p]>> IN
          /\ swt' = [swt EXCEPT ![c] = "handshake"]
          /\ \E v \in IF p \in Own THEN {CtrlVersion} ELSE PeerVersions :
                /\ offer' = [offer EXCEPT ![c] = v]
                /\ up' = [up EXCEPT ![c] = Append(@, "hello")]
    /\ UNCHANGED <<setup, server, down, cut, conns, entering, numbers, outcome>>

Reads(c, m) ==
    /\ Alive /\ dial[c[1]] = "up" /\ c[2] = dials[c[1]]
    /\ c[1] \notin numbering
    /\ down[c] # <<>> /\ Head(down[c]) = m

\* HELLO: the test for a version it does not support is never true, so any
\* version is accepted.
PeerHello(c) ==
    /\ Reads(c, "hello")
    /\ down' = [down EXCEPT ![c] = Tail(@)]
    /\ UNCHANGED <<setup, peers, server, up, cut, conns, entering, numbers,
                   outcome>>

\* Slip: the reply is sent before the connection is numbered.
FeaturesRequested_RepliesFirst(c) ==
    /\ Reads(c, "features_request")
    /\ swt' = [swt EXCEPT ![c] = "running"]
    /\ down' = [down EXCEPT ![c] = Tail(@)]
    /\ up' = [up EXCEPT ![c] = Append(@, "features_reply")]
    /\ IF c[1] \in Own /\ switchSender
         THEN rows' = rows + 1 /\ numbering' = numbering \union {c[1]}
         ELSE UNCHANGED <<rows, numbering>>
    /\ UNCHANGED <<setup, dial, dials, offer, server, cut, conns, entering,
                   index, tables, outcome>>

\* FEATURES_REQUEST, which comes once, so the connection is not running yet.
\* A sending switch is numbered before it replies, in two halves: the rows of
\* all switches grow without a common lock.
FeaturesRequested(c) ==
    /\ Reads(c, "features_request")
    /\ swt' = [swt EXCEPT ![c] = "running"]
    /\ down' = [down EXCEPT ![c] = Tail(@)]
    /\ IF c[1] \in Own /\ switchSender
         THEN /\ rows' = rows + 1 /\ numbering' = numbering \union {c[1]}
              /\ UNCHANGED up
         ELSE /\ up' = [up EXCEPT ![c] = Append(@, "features_reply")]
              /\ UNCHANGED <<rows, numbering>>
    /\ UNCHANGED <<setup, dial, dials, offer, server, cut, conns, entering,
                   index, tables, outcome>>

\* switch_conn_established reads the length it has made, and replies.
Numbered(c) ==
    /\ Alive /\ c[1] \in numbering /\ c[2] = dials[c[1]]
    /\ numbering' = numbering \ {c[1]}
    /\ index' = [index EXCEPT ![c] = {rows - 1}]
    /\ tables' = tables + 1
    /\ up' = [up EXCEPT ![c] = Append(@, "features_reply")]
    /\ UNCHANGED <<setup, peers, server, down, cut, conns, entering, rows,
                   outcome>>

\* MULTIPART_REQUEST: an external 1.3 peer describes its ports.
PortsRequested(c) ==
    /\ Reads(c, "ports_request")
    /\ down' = [down EXCEPT ![c] = Tail(@)]
    /\ up' = [up EXCEPT ![c] = Append(@, "ports_reply")]
    /\ UNCHANGED <<setup, peers, server, cut, conns, entering, numbers, outcome>>

\* Slip: the switch waits for somebody to start it again.
PeerDown_StaysDown(c) ==
    /\ Alive /\ dial[c[1]] = "up" /\ c[2] = dials[c[1]] /\ cut[c]
    /\ c[1] \notin numbering
    /\ swt' = [swt EXCEPT ![c] = "down"]
    /\ dial' = [dial EXCEPT ![c[1]] = "off"]
    /\ UNCHANGED <<setup, dials, offer, server, wires, conns, entering,
                   numbers, outcome>>

\* EVENT_DOWN: stop_conn, then start_conn dials again at once.
PeerDown(c) ==
    /\ Alive /\ dial[c[1]] = "up" /\ c[2] = dials[c[1]] /\ cut[c]
    /\ c[1] \notin numbering
    /\ swt' = [swt EXCEPT ![c] = "down"]
    /\ dial' = [dial EXCEPT ![c[1]] = "dialling"]
    /\ UNCHANGED <<setup, dials, offer, server, wires, conns, entering,
                   numbers, outcome>>

\* send_echo finds a silent controller: EVENT_DEAD is ignored by Switch, so
\* the connection is closed and none is dialled.
PeerDead(c) ==
    /\ Alive /\ dial[c[1]] = "up" /\ c[2] = dials[c[1]] /\ cut[c]
    /\ c[1] \in Own \ numbering /\ swt[c] = "running"
    /\ swt' = [swt EXCEPT ![c] = "down"]
    /\ dial' = [dial EXCEPT ![c[1]] = "dead"]
    /\ UNCHANGED <<setup, dials, offer, server, wires, conns, entering,
                   numbers, outcome>>

\* The network, or an external peer, gives a connection up.  The last
\* connection of a peer within MaxDials is kept, so that one remains.
Cut(c) ==
    /\ Alive /\ dial[c[1]] = "up" /\ c[2] = dials[c[1]] /\ ~cut[c]
    /\ c[2] < MaxDials /\ Cardinality({d \in Conns : cut[d]}) < MaxCuts
    /\ cut' = [cut EXCEPT ![c] = TRUE]
    /\ UNCHANGED <<setup, peers, server, up, down, conns, entering, numbers,
                   outcome>>

-----------------------------------------------------------------------------
(* The event loop of the controller: one callback at a time.               *)

LoopFree == Alive /\ entering = {}

\* EVENT_UP: HELLO, then the OFConnection is created.
Accept(c) ==
    /\ LoopFree /\ swt[c] # "none" /\ ctl[c] = "none"
    /\ ctl' = [ctl EXCEPT ![c] = "handshake"]
    /\ down' = [down EXCEPT ![c] = Append(@, "hello")]
    /\ UNCHANGED <<setup, peers, version, up, cut, conns, entering, numbers,
                   outcome>>

\* A connection the controller still reads, and the next message on it.
Receives(c, m) ==
    /\ LoopFree /\ ctl[c] \in {"handshake", "running"}
    /\ up[c] # <<>> /\ Head(up[c]) = m
    /\ up' = [up EXCEPT ![c] = Tail(@)]

\* Slip: a peer of another version is not refused.
Hello_AnyVersion(c) ==
    /\ Receives(c, "hello")
    /\ down' = [down EXCEPT ![c] = Append(@, "features_request")]
    /\ UNCHANGED <<setup, peers, server, cut, conns, entering, numbers, outcome>>

\* HELLO: go on in the peer's version, or report the error, close, and tell
\* nobody.
Hello(c) ==
    /\ Receives(c, "hello")
    /\ \/ /\ offer[c] = CtrlVersion
          /\ down' = [down EXCEPT ![c] = Append(@, "features_request")]
          /\ UNCHANGED <<ctl, cut>>
       \/ /\ offer[c] # CtrlVersion
          /\ down' = [down EXCEPT ![c] = Append(@, "error")]
          /\ ctl' = [ctl EXCEPT ![c] = "failed"]
          /\ cut' = [cut EXCEPT ![c] = TRUE]
    /\ UNCHANGED <<setup, peers, version, conns, entering, numbers, outcome>>

\* The connection joins the list; its handler comes next in this callback.
Enlist(c) ==
    /\ ctl' = [ctl EXCEPT ![c] = "running"]
    /\ conns' = Append(conns, c)
    /\ entering' = {c}

\* FEATURES_REPLY before the connection runs.  An emulated switch replies in
\* 1.0 whatever was negotiated; a 1.3 peer is asked for its ports.
FeaturesReply(c) ==
    /\ Receives(c, "features_reply") /\ ctl[c] # "running"
    /\ version' = [version EXCEPT ![c] = IF c[1] \in Own THEN 1 ELSE offer[c]]
    /\ \/ /\ version'[c] = 1
          /\ Enlist(c)
          /\ UNCHANGED down
       \/ /\ version'[c] = 4
          /\ down' = [down EXCEPT ![c] = Append(@, "ports_request")]
          /\ UNCHANGED <<ctl, conns, entering>>
    /\ UNCHANGED <<setup, peers, cut, numbers, outcome>>

\* MULTIPART_REPLY before the connection runs.
PortsReply(c) ==
    /\ Receives(c, "ports_reply") /\ ctl[c] # "running"
    /\ Enlist(c)
    /\ UNCHANGED <<setup, peers, version, down, cut, numbers, outcome>>

\* Slips: the number of a connection counts from 1; it is the length less one,
\* as in the sandwich, but read before the row is pushed; the tenant counts as
\* connected with the first connection.
Number_FromOne(c) ==
    /\ index' = [index EXCEPT ![c] = {rows + 1}]
    /\ rows' = rows + 1 /\ tables' = tables + 1
    /\ UNCHANGED numbering

Number_BeforePush(c) ==
    /\ index' = [index EXCEPT ![c] = {rows - 1}]
    /\ rows' = rows + 1 /\ tables' = tables + 1
    /\ UNCHANGED numbering

\* ctrl_conn_established when the controller sends: a row for the connection.
Number(c) ==
    /\ index' = [index EXCEPT ![c] = {rows}]
    /\ rows' = rows + 1 /\ tables' = tables + 1
    /\ UNCHANGED numbering

Established_AtOnce(c) ==
    /\ Alive /\ entering = {c}
    /\ entering' = {}
    /\ IF switchSender THEN UNCHANGED numbers ELSE Number(c)
    /\ crashed' = (main = "listening")
    /\ connected' = TRUE
    /\ UNCHANGED <<setup, peers, server, wires, conns, sending, failed>>

\* ctrl_conn_established: number the connection, make a packet (with the
\* factory), and compare the length of the list with the number of switches.
Established(c) ==
    /\ Alive /\ entering = {c}
    /\ entering' = {}
    /\ IF switchSender THEN UNCHANGED numbers ELSE Number(c)
    /\ crashed' = (main = "listening")
    /\ connected' = (connected \/ Len(conns) = NumSwitches)
    /\ UNCHANGED <<setup, peers, server, wires, conns, sending, failed>>

\* EVENT_DOWN, or EVENT_DEAD of a peer that stays silent after its
\* FEATURES_REPLY: tenant_disconnected, tenant_failed, and the connection is
\* closed.  It stays in the list.
Lost(c) ==
    /\ LoopFree /\ ctl[c] \in {"handshake", "running"}
    /\ cut[c] \/ (c[1] \in External /\ version[c] # 0)
    /\ ctl' = [ctl EXCEPT ![c] = "down"]
    /\ cut' = [cut EXCEPT ![c] = TRUE]
    /\ connected' = FALSE
    /\ failed' = (main = "armed")
    /\ UNCHANGED <<setup, peers, version, up, down, conns, entering, numbers,
                   sending, crashed>>

-----------------------------------------------------------------------------
(* The dispatcher.                                                         *)

\* The connections send_loop walks.  A switch that never dialled has none.
Walked ==
    IF switchSender THEN {<<p, dials[p]>> : p \in Own} ELSE Listed

\* A connection that exists and has a number within the tables.
Usable(c) == c \in Conns /\ \E i \in index[c] : i < tables

\* requests.at(list_index) throws, or a NULL connection is used.
SendFault ==
    /\ Alive /\ sending
    /\ \E c \in Walked : ~Usable(c)
    /\ crashed' = TRUE
    /\ UNCHANGED <<setup, peers, server, wires, conns, entering, numbers,
                   connected, sending, failed>>

-----------------------------------------------------------------------------
MainStep == CreateFactory \/ StartTestcase \/ Arm \/ StartSending

PeerReads(c) ==
    PeerHello(c) \/ FeaturesRequested(c) \/ Numbered(c) \/ PortsRequested(c)

ServerReads(c) ==
    Hello(c) \/ FeaturesReply(c) \/ PortsReply(c) \/ Established(c)

Next ==
    \/ MainStep
    \/ \E p \in Peers : Dial(p)
    \/ \E c \in Conns :
          \/ PeerReads(c) \/ PeerDown(c) \/ PeerDead(c) \/ Cut(c)
          \/ Accept(c) \/ ServerReads(c) \/ Lost(c)
    \/ SendFault

\* Threads and loops run; the emulated switches dial and answer.  Foreign
\* peers owe nothing, and no connection has to be lost.
Fairness ==
    /\ WF_vars(MainStep)
    /\ \A p \in Own : WF_vars(Dial(p))
    /\ \A c \in Own \X (1 .. MaxDials) :
          /\ WF_vars(PeerReads(c)) /\ WF_vars(PeerDown(c))
    /\ \A c \in Conns : WF_vars(Accept(c)) /\ WF_vars(ServerReads(c))

Spec == Init /\ [][Next]_vars
FairSpec == Spec /\ Fairness

-----------------------------------------------------------------------------
(* Properties.                                                             *)

\* Every variable stays in its type.
SetupType ==
    /\ testcase \in {"FlowModSandwich", "PacketInSandwich"}
    /\ main \in {"listening", "factory", "started", "armed"}
    /\ switchSender \in BOOLEAN
PeersType ==
    /\ dial \in [Peers -> {"off", "dialling", "up", "dead"}]
    /\ dials \in [Peers -> 0 .. MaxDials]
    /\ offer \in [Conns -> {0, 1, 4}]
    /\ swt \in [Conns -> {"none", "handshake", "running", "down"}]
ServerType ==
    /\ ctl \in [Conns -> {"none", "handshake", "running", "down", "failed"}]
    /\ version \in [Conns -> {0, 1, 4}]
UpType == up \in [Conns -> Seq(ToController)]
DownType == down \in [Conns -> Seq(ToPeer)]
ListType ==
    /\ cut \in [Conns -> BOOLEAN]
    /\ conns \in Seq(Conns) /\ entering \subseteq Conns
NumbersType ==
    /\ index \in [Conns -> SUBSET Nat] /\ numbering \subseteq Own
    /\ rows \in Nat /\ tables \in Nat
OutcomeType ==
    /\ connected \in BOOLEAN /\ sending \in BOOLEAN
    /\ failed \in BOOLEAN /\ crashed \in BOOLEAN
TypeOK ==
    /\ SetupType /\ PeersType /\ ServerType
    /\ UpType /\ DownType /\ ListType
    /\ NumbersType /\ OutcomeType

\* When the controller sends, the number of a connection is its place in the
\* list and has a row: xid ranges and tables belong to one connection each,
\* whatever connections were refused, lost or replaced.
NumberIsPlace ==
    testcase = "FlowModSandwich" =>
       \A i \in 1 .. Len(conns) :
          conns[i] \in entering \/ (index[conns[i]] = {i - 1} /\ i <= tables)

\* A connection is listed at most once, only if its peer speaks the version
\* the tenant is configured for, and is no longer refused or unaccepted.
ListedCompatible ==
    /\ IsInjective(conns)
    /\ \A c \in Listed : offer[c] = CtrlVersion /\ ctl[c] \in {"running", "down"}

\* What the controller lists has been established at the switch before: a
\* listed connection of a sending switch has its number.
ListedAfterSwitch ==
    \A c \in Listed :
       /\ swt[c] \in {"running", "down"}
       /\ c[1] \in Own /\ switchSender => \E i \in index[c] : i < rows

\* As long as every switch made one connection, it was kept, and no other
\* peer connected, a connected tenant has every switch on the line and the
\* dispatcher finds the row of each.
Undisturbed ==
    /\ \A p \in External : dials[p] = 0
    /\ \A c \in Conns : ~cut[c]
ConnectedWhole ==
    Undisturbed =>
       /\ ~crashed /\ ~failed
       /\ connected => \A p \in Own : ctl[<<p, 1>>] = "running"
       /\ sending => \A c \in Walked : Usable(c)

\* Every emulated switch ends up listed and running on the connection it
\* keeps, unless the run failed, the process crashed, or the switch took its
\* controller for dead.
SwitchesJoin ==
    \A p \in Own :
       <>[](\/ ~Alive \/ dial[p] = "dead"
            \/ \E c \in Listed : c[1] = p /\ c[2] = dials[p] /\ ctl[c] = "running")

\* The dispatcher starts when every switch keeps its first connection, no
\* other peer gets listed and no other peer's loss is reported: the length of
\* the list meets the number of switches at one of their establishments,
\* however their handshakes interleave and whomever the controller refuses
\* meanwhile.  (A foreign peer that is lost before the run is armed marks the
\* tenant disconnected, and nothing marks it connected again.)
OnlySwitches ==
    /\ Listed \subseteq Own \X {1}
    /\ \A c \in Own \X (1 .. MaxDials) : ~cut[c]
    /\ \A c \in Conns : ctl[c] # "down"
RunStarts == <>(sending \/ ~OnlySwitches \/ ~Alive)

\* flowmodsandwich.cpp says of the comparison that precedes the call of
\* tenant_connected "Wait for all the connections (conn-num == switch-num)":
\* when the tenant becomes connected, every switch has a live connection.
ConnectedAfterAll ==
    [][~connected /\ connected' =>
          \A p \in Own : \E c \in ToSet(conns') :
             c[1] = p /\ ctl'[c] = "running"]_vars
=============================================================================
