-------------------------- MODULE HandshakeProofs --------------------------
(***************************************************************************)
(* Proofs about Handshake for every set of switches and foreign peers, any *)
(* number of connections and of losses: types, who is listed, the number   *)
(* each listed connection has, and that an undisturbed tenant is connected *)
(* with all its switches.                                                  *)
(***************************************************************************)
EXTENDS Handshake, FiniteSetTheorems, TLAPS

-----------------------------------------------------------------------------
(* The inductive invariant.                                                *)

\* A connection that was not dialled yet has left no trace.
Fresh ==
    \A c \in Conns : c[2] > dials[c[1]] =>
       /\ swt[c] = "none" /\ ctl[c] = "none"
       /\ up[c] = <<>> /\ down[c] = <<>>

\* The messages that follow the HELLO of the controller's own version.
Onward == {"features_request", "ports_request", "features_reply", "ports_reply"}
\* Those that only a connection established at the peer gives rise to.
Late == {"ports_request", "features_reply", "ports_reply"}
Without(s, M) == \A i \in 1 .. Len(s) : s[i] \notin M
Greeting(s) == Without(s, Onward)

\* They only pass between the controller and a peer of its version.
Negotiated ==
    \A c \in Conns :
       offer[c] # CtrlVersion => Greeting(down[c]) /\ Greeting(up[c])

\* A switch that is being numbered is up, on a negotiated connection, and has
\* pushed its row; only sending switches are numbered.
NumberingUp ==
    /\ \A p \in numbering :
          /\ dial[p] = "up" /\ dials[p] > 0
          /\ offer[<<p, dials[p]>>] = CtrlVersion
          /\ swt[<<p, dials[p]>>] = "running"
    /\ numbering # {} => rows > 0 /\ switchSender

\* Only the last of the list can be without its number.
EnteringLast ==
    entering # {} => Len(conns) > 0 /\ entering = {conns[Len(conns)]}

\* When the controller sends, it alone pushes rows, one per connection.
RowsFollowList ==
    /\ switchSender => testcase = "PacketInSandwich" /\ main \in {"started", "armed"}
    /\ testcase = "FlowModSandwich" =>
          /\ rows = tables
          /\ rows = IF entering = {} THEN Len(conns) ELSE Len(conns) - 1

\* No switch dials before the testcase has started.
OffBeforeStart ==
    main \in {"listening", "factory"} =>
       \A p \in Own : dial[p] = "off" /\ dials[p] = 0

\* The connection is established at the peer, and numbered if it sends.
Ready(c) ==
    /\ swt[c] \in {"running", "down"}
    /\ c[1] \in Own /\ switchSender => \E i \in index[c] : i < rows
SwitchFirst ==
    \A c \in Conns : ~Ready(c) =>
       Without(up[c], Late) /\ Without(down[c], Late) /\ c \notin Listed

Inv ==
    /\ TypeOK
    /\ OffBeforeStart /\ SwitchFirst
    /\ Fresh /\ Negotiated /\ NumberingUp
    /\ ListedCompatible
    /\ EnteringLast /\ RowsFollowList /\ NumberIsPlace

-----------------------------------------------------------------------------
(* Sequences of messages.                                                  *)

LEMMA AppendFacts ==
    ASSUME NEW S, NEW s \in Seq(S), NEW x \in S
    PROVE  /\ Append(s, x) \in Seq(S)
           /\ Len(Append(s, x)) = Len(s) + 1
           /\ Append(s, x)[Len(s) + 1] = x
           /\ \A i \in 1 .. Len(s) : Append(s, x)[i] = s[i]
  OBVIOUS

LEMMA TailFacts ==
    ASSUME NEW S, NEW s \in Seq(S), s # <<>>
    PROVE  /\ Tail(s) \in Seq(S)
           /\ Len(Tail(s)) = Len(s) - 1
           /\ Head(s) \in S /\ Head(s) = s[1] /\ Len(s) > 0
           /\ \A i \in 1 .. Len(Tail(s)) : Tail(s)[i] = s[i + 1]
  OBVIOUS

-----------------------------------------------------------------------------
(* Types.                                                                  *)

LEMMA Enqueue ==
    ASSUME NEW S, NEW f \in [Conns -> Seq(S)], NEW c \in Conns, NEW x \in S
    PROVE  [f EXCEPT ![c] = Append(@, x)] \in [Conns -> Seq(S)]
<1>1. Append(f[c], x) \in Seq(S)
  BY AppendFacts
<1> QED BY <1>1

LEMMA Dequeue ==
    ASSUME NEW S, NEW f \in [Conns -> Seq(S)], NEW c \in Conns, f[c] # <<>>
    PROVE  [f EXCEPT ![c] = Tail(@)] \in [Conns -> Seq(S)]
<1>1. Tail(f[c]) \in Seq(S)
  BY TailFacts
<1> QED BY <1>1

\* What a handler does to the messages under way keeps their types.
LEMMA WireSteps ==
    ASSUME TypeOK, NEW c \in Conns
    PROVE  /\ \A m \in ToController :
                 [up EXCEPT ![c] = Append(@, m)] \in [Conns -> Seq(ToController)]
           /\ \A m \in ToPeer :
                 [down EXCEPT ![c] = Append(@, m)] \in [Conns -> Seq(ToPeer)]
           /\ up[c] # <<>> =>
                 [up EXCEPT ![c] = Tail(@)] \in [Conns -> Seq(ToController)]
           /\ down[c] # <<>> =>
                 [down EXCEPT ![c] = Tail(@)] \in [Conns -> Seq(ToPeer)]
<1>1. up \in [Conns -> Seq(ToController)] /\ down \in [Conns -> Seq(ToPeer)]
  BY DEF TypeOK, UpType, DownType
<1>2. \A m \in ToController :
         [up EXCEPT ![c] = Append(@, m)] \in [Conns -> Seq(ToController)]
  BY <1>1, Enqueue
<1>3. \A m \in ToPeer :
         [down EXCEPT ![c] = Append(@, m)] \in [Conns -> Seq(ToPeer)]
  BY <1>1, Enqueue
<1>4. ASSUME up[c] # <<>>
      PROVE  [up EXCEPT ![c] = Tail(@)] \in [Conns -> Seq(ToController)]
  BY <1>1, <1>4, Dequeue
<1>5. ASSUME down[c] # <<>>
      PROVE  [down EXCEPT ![c] = Tail(@)] \in [Conns -> Seq(ToPeer)]
  BY <1>1, <1>5, Dequeue
<1> QED BY <1>2, <1>3, <1>4, <1>5

LEMMA Messages ==
    /\ "hello" \in ToController /\ "features_reply" \in ToController
    /\ "ports_reply" \in ToController
    /\ "hello" \in ToPeer /\ "features_request" \in ToPeer
    /\ "ports_request" \in ToPeer /\ "error" \in ToPeer
  BY DEF ToController, ToPeer

LEMMA ListSteps ==
    ASSUME TypeOK, NEW c \in Conns, Enlist(c)
    PROVE  /\ ctl' \in [Conns -> {"none", "handshake", "running", "down", "failed"}]
           /\ conns' \in Seq(Conns) /\ entering' \subseteq Conns
<1>1. conns \in Seq(Conns)
  BY DEF TypeOK, ListType
<1>2. conns' \in Seq(Conns)
  BY <1>1, AppendFacts DEF Enlist
<1>3. ctl' \in [Conns -> {"none", "handshake", "running", "down", "failed"}]
  BY DEF Enlist, TypeOK, ServerType
<1> QED BY <1>2, <1>3 DEF Enlist

LEMMA InitType == Init => TypeOK
<1> SUFFICES ASSUME Init PROVE TypeOK
  OBVIOUS
<1>1. UpType /\ DownType
  BY DEF Init, UpType, DownType
<1>2. ListType
  BY DEF Init, ListType
<1>3. SetupType /\ ServerType
  BY DEF Init, SetupType, ServerType
<1>4. PeersType
  BY HandshakeAssumption DEF Init, PeersType, Peers
<1>5. NumbersType /\ OutcomeType
  BY DEF Init, NumbersType, OutcomeType
<1> QED BY <1>1, <1>2, <1>3, <1>4, <1>5 DEF TypeOK

\* A group of variables that a step leaves alone keeps its type.
LEMMA Unchanged ==
    ASSUME TypeOK
    PROVE  /\ UNCHANGED setup => SetupType'
           /\ UNCHANGED peers => PeersType'
           /\ UNCHANGED server => ServerType'
           /\ UNCHANGED up => UpType'
           /\ UNCHANGED down => DownType'
           /\ UNCHANGED <<cut, conns, entering>> => ListType'
           /\ UNCHANGED numbers => NumbersType'
           /\ UNCHANGED outcome => OutcomeType'
<1>1. UNCHANGED setup => SetupType'
  BY DEF TypeOK, SetupType, setup
<1>2. UNCHANGED peers => PeersType'
  BY DEF TypeOK, PeersType, peers
<1>3. UNCHANGED server => ServerType'
  BY DEF TypeOK, ServerType, server
<1>4. (UNCHANGED up => UpType') /\ (UNCHANGED down => DownType')
  BY DEF TypeOK, UpType, DownType
<1>5. UNCHANGED <<cut, conns, entering>> => ListType'
  BY DEF TypeOK, ListType
<1>6. UNCHANGED numbers => NumbersType'
  BY DEF TypeOK, NumbersType, numbers
<1>7. UNCHANGED outcome => OutcomeType'
  BY DEF TypeOK, OutcomeType, outcome
<1> QED BY <1>1, <1>2, <1>3, <1>4, <1>5, <1>6, <1>7

LEMMA MainType ==
    ASSUME TypeOK, MainStep
    PROVE  TypeOK'
<1>1. SetupType'
  BY DEF MainStep, CreateFactory, StartTestcase, Arm, StartSending, TypeOK,
         SetupType, setup
<1>2. PeersType'
  BY DEF MainStep, CreateFactory, StartTestcase, Arm, StartSending, TypeOK,
         PeersType, peers
<1>3. OutcomeType'
  BY DEF MainStep, CreateFactory, StartTestcase, Arm, StartSending, TypeOK,
         OutcomeType, outcome
<1>4. UNCHANGED <<server, wires, conns, entering, numbers>>
  BY DEF MainStep, CreateFactory, StartTestcase, Arm, StartSending
<1> QED BY <1>1, <1>2, <1>3, <1>4, Unchanged DEF TypeOK, wires

LEMMA DialType ==
    ASSUME TypeOK, NEW p \in Peers, Dial(p)
    PROVE  TypeOK'
<1> DEFINE c == <<p, dials[p] + 1>>
<1>1. dials[p] \in Nat /\ dials[p] + 1 \in 1 .. MaxDials
  BY HandshakeAssumption DEF Dial, TypeOK, PeersType
<1>2. c \in Conns
  BY <1>1 DEF Conns
<1>3. dials' \in [Peers -> 0 .. MaxDials] /\ dials'[p] = dials[p] + 1
  BY <1>1 DEF Dial, TypeOK, PeersType
<1>4. UpType'
  BY <1>2, <1>3, WireSteps, Messages DEF Dial, UpType
<1>5. offer' \in [Conns -> {0, 1, 4}]
  BY <1>2, <1>3, HandshakeAssumption DEF Dial, TypeOK, PeersType
<1>6. PeersType'
  BY <1>2, <1>3, <1>5 DEF Dial, TypeOK, PeersType
<1>7. UNCHANGED <<setup, server, down, cut, conns, entering, numbers, outcome>>
  BY DEF Dial
<1> QED BY <1>4, <1>6, <1>7, Unchanged DEF TypeOK

LEMMA PeerType ==
    ASSUME TypeOK, NumberingUp, NEW c \in Conns,
           PeerReads(c) \/ PeerDown(c) \/ PeerDead(c) \/ Cut(c)
    PROVE  TypeOK'
<1>0. c[1] \in Peers
  BY DEF Conns
<1>1. CASE PeerHello(c)
  <2>1. DownType'
    BY <1>1, WireSteps DEF PeerHello, Reads, DownType
  <2> QED BY <1>1, <2>1, Unchanged DEF PeerHello, TypeOK
<1>2. CASE FeaturesRequested(c)
  <2>1. DownType'
    BY <1>2, WireSteps DEF FeaturesRequested, Reads, DownType
  <2>2. UpType'
    <3>1. \/ UNCHANGED up
          \/ up' = [up EXCEPT ![c] = Append(@, "features_reply")]
      BY <1>2 DEF FeaturesRequested
    <3>2. up' = [up EXCEPT ![c] = Append(@, "features_reply")] => UpType'
      BY WireSteps, Messages DEF UpType
    <3> QED BY <3>1, <3>2, Unchanged
  <2>3. NumbersType'
    BY <1>2 DEF FeaturesRequested, NumbersType, TypeOK
  <2>4. PeersType'
    BY <1>2 DEF FeaturesRequested, PeersType, TypeOK
  <2> QED BY <1>2, <2>1, <2>2, <2>3, <2>4, Unchanged DEF FeaturesRequested, TypeOK
<1>3. CASE Numbered(c)
  <2>1. UpType'
    BY <1>3, WireSteps, Messages DEF Numbered, UpType
  <2>2. NumbersType'
    BY <1>3 DEF Numbered, NumberingUp, NumbersType, TypeOK
  <2> QED BY <1>3, <2>1, <2>2, Unchanged DEF Numbered, TypeOK
<1>4. CASE PortsRequested(c)
  <2>1. DownType'
    BY <1>4, WireSteps DEF PortsRequested, Reads, DownType
  <2>2. UpType'
    BY <1>4, WireSteps, Messages DEF PortsRequested, UpType
  <2> QED BY <1>4, <2>1, <2>2, Unchanged DEF PortsRequested, TypeOK
<1>5. CASE PeerDown(c) \/ PeerDead(c)
  <2>1. PeersType'
    BY <1>0, <1>5 DEF PeerDown, PeerDead, PeersType, TypeOK
  <2>2. UNCHANGED <<setup, server, wires, conns, entering, numbers, outcome>>
    BY <1>5 DEF PeerDown, PeerDead
  <2> QED BY <2>1, <2>2, Unchanged DEF wires, TypeOK
<1>6. CASE Cut(c)
  <2>1. ListType'
    BY <1>6 DEF Cut, ListType, TypeOK
  <2> QED BY <1>6, <2>1, Unchanged DEF Cut, TypeOK
<1> QED BY <1>1, <1>2, <1>3, <1>4, <1>5, <1>6 DEF PeerReads

LEMMA ServerTypes ==
    ASSUME TypeOK, NEW c \in Conns,
           Accept(c) \/ ServerReads(c) \/ Lost(c)
    PROVE  TypeOK'
<1>1. CASE Accept(c)
  <2>1. DownType'
    BY <1>1, WireSteps, Messages DEF Accept, DownType
  <2>2. ServerType'
    BY <1>1 DEF Accept, ServerType, TypeOK
  <2> QED BY <1>1, <2>1, <2>2, Unchanged DEF Accept, TypeOK
<1>2. CASE Hello(c)
  <2>1. DownType'
    <3>1. \/ down' = [down EXCEPT ![c] = Append(@, "features_request")]
          \/ down' = [down EXCEPT ![c] = Append(@, "error")]
      BY <1>2 DEF Hello
    <3>2. down' = [down EXCEPT ![c] = Append(@, "features_request")] => DownType'
      BY WireSteps, Messages DEF DownType
    <3>3. down' = [down EXCEPT ![c] = Append(@, "error")] => DownType'
      BY WireSteps, Messages DEF DownType
    <3> QED BY <3>1, <3>2, <3>3
  <2>2. UpType'
    BY <1>2, WireSteps DEF Hello, Receives, UpType
  <2>3. ServerType'
    BY <1>2 DEF Hello, ServerType, TypeOK
  <2>4. ListType'
    BY <1>2 DEF Hello, ListType, TypeOK
  <2> QED BY <1>2, <2>1, <2>2, <2>3, <2>4, Unchanged DEF Hello, TypeOK
<1>3. CASE FeaturesReply(c)
  <2>1. DownType'
    <3>1. \/ UNCHANGED down
          \/ down' = [down EXCEPT ![c] = Append(@, "ports_request")]
      BY <1>3 DEF FeaturesReply
    <3>2. down' = [down EXCEPT ![c] = Append(@, "ports_request")] => DownType'
      BY WireSteps, Messages DEF DownType
    <3> QED BY <3>1, <3>2, Unchanged
  <2>2. UpType'
    BY <1>3, WireSteps DEF FeaturesReply, Receives, UpType
  <2>3. version' \in [Conns -> {0, 1, 4}]
    BY <1>3 DEF FeaturesReply, PeersType, ServerType, TypeOK
  <2>4. CASE Enlist(c)
    BY <1>3, <2>1, <2>2, <2>3, <2>4, ListSteps, Unchanged
       DEF FeaturesReply, TypeOK, ServerType, ListType
  <2>5. CASE UNCHANGED <<ctl, conns, entering>>
    <3>1. ServerType'
      BY <2>3, <2>5 DEF TypeOK, ServerType
    <3>2. ListType'
      BY <1>3, <2>5, Unchanged DEF FeaturesReply
    <3> QED BY <1>3, <2>1, <2>2, <3>1, <3>2, Unchanged DEF FeaturesReply, TypeOK
  <2> QED BY <1>3, <2>4, <2>5 DEF FeaturesReply
<1>4. CASE PortsReply(c)
  <2>1. UpType'
    BY <1>4, WireSteps DEF PortsReply, Receives, UpType
  <2>2. Enlist(c)
    BY <1>4 DEF PortsReply
  <2>3. ServerType' /\ ListType'
    BY <1>4, <2>2, ListSteps DEF PortsReply, ServerType, ListType, TypeOK
  <2> QED BY <1>4, <2>1, <2>3, Unchanged DEF PortsReply, TypeOK
<1>5. CASE Established(c)
  <2>1. NumbersType'
    <3>1. CASE Number(c)
      BY <3>1 DEF Number, NumbersType, TypeOK
    <3>2. CASE UNCHANGED numbers
      BY <3>2, Unchanged
    <3> QED BY <1>5, <3>1, <3>2 DEF Established
  <2>2. OutcomeType'
    BY <1>5, Zenon DEF Established, OutcomeType, TypeOK
  <2>3. ListType'
    BY <1>5 DEF Established, ListType, TypeOK, wires
  <2> QED BY <1>5, <2>1, <2>2, <2>3, Unchanged DEF Established, TypeOK, wires
<1>6. CASE Lost(c)
  <2>1. ServerType'
    BY <1>6 DEF Lost, ServerType, TypeOK
  <2>2. ListType'
    BY <1>6 DEF Lost, ListType, TypeOK
  <2>3. OutcomeType'
    BY <1>6 DEF Lost, OutcomeType, TypeOK
  <2> QED BY <1>6, <2>1, <2>2, <2>3, Unchanged DEF Lost, TypeOK
<1> QED BY <1>1, <1>2, <1>3, <1>4, <1>5, <1>6 DEF ServerReads

LEMMA NextType ==
    ASSUME TypeOK, NumberingUp, [Next]_vars
    PROVE  TypeOK'
<1>1. CASE SendFault
  <2>1. OutcomeType'
    BY <1>1 DEF SendFault, OutcomeType, TypeOK
  <2> QED BY <1>1, <2>1, Unchanged DEF SendFault, TypeOK, wires
<1>2. CASE UNCHANGED vars
  BY <1>2, Unchanged DEF vars, TypeOK, wires
<1> QED
  BY <1>1, <1>2, MainType, DialType, PeerType, ServerTypes DEF Next

-----------------------------------------------------------------------------
(* Who has negotiated.                                                     *)

LEMMA WithoutFacts ==
    ASSUME NEW S, NEW s \in Seq(S), NEW M, Without(s, M)
    PROVE  /\ \A x \in S : x \notin M => Without(Append(s, x), M)
           /\ s # <<>> => Without(Tail(s), M) /\ Head(s) \notin M
<1>1. ASSUME NEW x \in S, x \notin M
      PROVE  Without(Append(s, x), M)
  BY <1>1, AppendFacts DEF Without
<1>2. ASSUME s # <<>>
      PROVE  Without(Tail(s), M) /\ Head(s) \notin M
  <2>1. Head(s) = s[1] /\ Len(s) > 0 /\ Len(s) \in Nat
    BY <1>2, TailFacts
  <2>2. \A i \in 1 .. Len(Tail(s)) : Tail(s)[i] = s[i + 1] /\ i + 1 \in 1 .. Len(s)
    BY <1>2, <2>1, TailFacts
  <2> QED BY <2>1, <2>2 DEF Without
<1> QED BY <1>1, <1>2

\* A step on connection c alone, which has been dialled.
Local(c) ==
    /\ UNCHANGED <<dials, offer>>
    /\ c[2] <= dials[c[1]]
    /\ \A d \in Conns \ {c} :
          /\ swt'[d] = swt[d] /\ ctl'[d] = ctl[d]
          /\ up'[d] = up[d] /\ down'[d] = down[d]

LEMMA LocalKeeps ==
    ASSUME TypeOK, Fresh, Negotiated, NEW c \in Conns, Local(c),
           offer[c] # CtrlVersion => Greeting(down'[c]) /\ Greeting(up'[c])
    PROVE  Fresh' /\ Negotiated'
<1>1. dials[c[1]] \in Nat /\ c[2] \in Nat
  BY DEF TypeOK, PeersType, Conns
<1>2. Fresh'
  BY <1>1 DEF Fresh, Local
<1>3. Negotiated'
  BY DEF Negotiated, Local
<1> QED BY <1>2, <1>3

\* What a connection has sent or received shows that it was dialled.
LEMMA Dialled ==
    ASSUME TypeOK, Fresh, NEW c \in Conns,
           swt[c] # "none" \/ ctl[c] # "none" \/ up[c] # <<>> \/ down[c] # <<>>
    PROVE  c[2] <= dials[c[1]]
<1>1. dials[c[1]] \in Nat /\ c[2] \in Nat
  BY DEF TypeOK, PeersType, Conns
<1> QED BY <1>1 DEF Fresh

\* What the handlers may put on, or take from, the wire of connection c.
LEMMA WireGreets ==
    ASSUME TypeOK, Negotiated, NEW c \in Conns, offer[c] # CtrlVersion
    PROVE  /\ Greeting(up[c]) /\ Greeting(down[c])
           /\ Greeting(Append(down[c], "hello"))
           /\ Greeting(Append(down[c], "error"))
           /\ up[c] # <<>> => Greeting(Tail(up[c])) /\ Head(up[c]) \notin Onward
           /\ down[c] # <<>> => Greeting(Tail(down[c])) /\ Head(down[c]) \notin Onward
<1>1. up[c] \in Seq(ToController) /\ down[c] \in Seq(ToPeer)
  BY DEF TypeOK, UpType, DownType
<1>2. Greeting(up[c]) /\ Greeting(down[c])
  BY DEF Negotiated
<1>3. "hello" \notin Onward /\ "error" \notin Onward
  BY DEF Onward
<1> QED BY <1>1, <1>2, <1>3, WithoutFacts, Messages DEF Greeting

LEMMA OnwardMessages ==
    /\ "features_request" \in Onward /\ "ports_request" \in Onward
    /\ "features_reply" \in Onward /\ "ports_reply" \in Onward
  BY DEF Onward

\* A handler of a message that follows the HELLO runs for the controller's
\* version only.
LEMMA HandlersNegotiated ==
    ASSUME TypeOK, Negotiated, NEW c \in Conns
    PROVE  /\ FeaturesRequested(c) => offer[c] = CtrlVersion
           /\ PortsRequested(c) => offer[c] = CtrlVersion
           /\ FeaturesReply(c) => offer[c] = CtrlVersion
           /\ PortsReply(c) => offer[c] = CtrlVersion
<1>1. offer[c] # CtrlVersion => ~FeaturesRequested(c) /\ ~PortsRequested(c)
  BY WireGreets, OnwardMessages DEF FeaturesRequested, PortsRequested, Reads
<1>2. offer[c] # CtrlVersion => ~FeaturesReply(c) /\ ~PortsReply(c)
  BY WireGreets, OnwardMessages DEF FeaturesReply, PortsReply, Receives
<1> QED BY <1>1, <1>2

LEMMA PeerNegotiation ==
    ASSUME TypeOK, Fresh, Negotiated, NumberingUp, NEW c \in Conns,
           PeerReads(c) \/ PeerDown(c) \/ PeerDead(c) \/ Cut(c)
    PROVE  Fresh' /\ Negotiated'
<1> USE DEF peers, server, wires
<1>0. c[1] \in Peers /\ c[2] \in 1 .. MaxDials /\ c = <<c[1], c[2]>>
  BY DEF Conns
<1>1. CASE PeerHello(c)
  <2>1. Local(c)
    BY <1>1, Dialled DEF PeerHello, Reads, Local, TypeOK, DownType
  <2>2. down'[c] = Tail(down[c]) /\ down[c] # <<>> /\ up' = up
    BY <1>1 DEF PeerHello, Reads, TypeOK, DownType
  <2> QED BY <2>1, <2>2, WireGreets, LocalKeeps
<1>2. CASE FeaturesRequested(c)
  <2>1. Local(c)
    BY <1>2, Dialled DEF FeaturesRequested, Reads, Local, TypeOK, DownType,
       UpType, PeersType
  <2> QED BY <1>2, <2>1, HandlersNegotiated, LocalKeeps
<1>3. CASE Numbered(c)
  <2>1. c[2] <= dials[c[1]] /\ offer[c] = CtrlVersion
    BY <1>0, <1>3 DEF Numbered, NumberingUp
  <2>2. Local(c)
    BY <1>3, <2>1 DEF Numbered, Local, TypeOK, UpType
  <2> QED BY <2>1, <2>2, LocalKeeps
<1>4. CASE PortsRequested(c)
  <2>1. Local(c)
    BY <1>4, Dialled DEF PortsRequested, Reads, Local, TypeOK, DownType, UpType
  <2> QED BY <1>4, <2>1, HandlersNegotiated, LocalKeeps
<1>5. CASE PeerDown(c) \/ PeerDead(c)
  <2>1. Local(c) /\ up' = up /\ down' = down
    BY <1>0, <1>5 DEF PeerDown, PeerDead, Local, TypeOK, PeersType
  <2> QED BY <2>1, WireGreets, LocalKeeps
<1>6. CASE Cut(c)
  <2>1. Local(c) /\ up' = up /\ down' = down
    BY <1>0, <1>6 DEF Cut, Local, TypeOK, PeersType
  <2> QED BY <2>1, WireGreets, LocalKeeps
<1> QED BY <1>1, <1>2, <1>3, <1>4, <1>5, <1>6 DEF PeerReads

LEMMA ServerNegotiation ==
    ASSUME TypeOK, Fresh, Negotiated, NEW c \in Conns,
           Accept(c) \/ ServerReads(c) \/ Lost(c)
    PROVE  Fresh' /\ Negotiated'
<1> USE DEF peers, server, wires
<1>1. CASE Accept(c)
  <2>1. Local(c) /\ up' = up /\ down'[c] = Append(down[c], "hello")
    BY <1>1, Dialled DEF Accept, Local, TypeOK, DownType, ServerType
  <2> QED BY <2>1, WireGreets, LocalKeeps
<1>2. CASE Hello(c)
  <2>1. Local(c)
    BY <1>2, Dialled DEF Hello, Receives, Local, TypeOK, DownType, UpType,
       ServerType
  <2>2. up'[c] = Tail(up[c]) /\ up[c] # <<>>
    BY <1>2 DEF Hello, Receives, TypeOK, UpType
  <2>3. offer[c] # CtrlVersion => down'[c] = Append(down[c], "error")
    BY <1>2 DEF Hello, TypeOK, DownType
  <2> QED BY <2>1, <2>2, <2>3, WireGreets, LocalKeeps
<1>3. CASE FeaturesReply(c)
  <2>1. Local(c)
    BY <1>3, Dialled DEF FeaturesReply, Receives, Enlist, Local, TypeOK,
       DownType, UpType, ServerType
  <2> QED BY <1>3, <2>1, HandlersNegotiated, LocalKeeps
<1>4. CASE PortsReply(c)
  <2>1. Local(c)
    BY <1>4, Dialled DEF PortsReply, Receives, Enlist, Local, TypeOK, UpType,
       ServerType
  <2> QED BY <1>4, <2>1, HandlersNegotiated, LocalKeeps
<1>5. CASE Established(c)
  BY <1>5 DEF Established, Fresh, Negotiated
<1>6. CASE Lost(c)
  <2>1. Local(c) /\ up' = up /\ down' = down
    BY <1>6, Dialled DEF Lost, Local, TypeOK, ServerType
  <2> QED BY <2>1, WireGreets, LocalKeeps
<1> QED BY <1>1, <1>2, <1>3, <1>4, <1>5, <1>6 DEF ServerReads

\* The connection of a switch that is being numbered.
LEMMA NumberingConns ==
    ASSUME TypeOK, NumberingUp, NEW q \in numbering
    PROVE  q \in Peers /\ q \in Own /\ <<q, dials[q]>> \in Conns
<1>1. q \in Peers /\ q \in Own
  BY DEF TypeOK, NumbersType, Peers
<1>2. dials[q] \in 0 .. MaxDials
  BY <1>1 DEF TypeOK, PeersType
<1>3. dials[q] > 0
  BY DEF NumberingUp
<1> QED BY <1>1, <1>2, <1>3, HandshakeAssumption DEF Conns

LEMMA DialNegotiation ==
    ASSUME TypeOK, Fresh, Negotiated, NumberingUp, NEW p \in Peers, Dial(p)
    PROVE  Fresh' /\ Negotiated' /\ NumberingUp'
<1> DEFINE c == <<p, dials[p] + 1>>
<1>1. dials[p] \in Nat /\ c \in Conns
  BY HandshakeAssumption DEF Dial, TypeOK, PeersType, Conns
<1>2. dials' = [dials EXCEPT ![p] = @ + 1] /\ dials'[p] = dials[p] + 1
  BY DEF Dial, TypeOK, PeersType
<1>3. /\ down' = down /\ ctl' = ctl
      /\ up'[c] = Append(up[c], "hello") /\ swt'[c] = "handshake"
      /\ \A d \in Conns \ {c} :
            up'[d] = up[d] /\ swt'[d] = swt[d] /\ offer'[d] = offer[d]
  BY <1>1, <1>2 DEF Dial, TypeOK, PeersType, UpType, server
<1>4. up[c] = <<>> /\ down[c] = <<>>
  BY <1>1 DEF Fresh
<1>5. Fresh'
  <2>1. ASSUME NEW d \in Conns, d[2] > dials'[d[1]]
        PROVE  d # c /\ d[2] > dials[d[1]]
    <3>1. d[1] \in Peers /\ d[2] \in Nat /\ dials[d[1]] \in Nat
      BY DEF Conns, TypeOK, PeersType
    <3>2. CASE d[1] = p
      BY <1>1, <1>2, <2>1, <3>1, <3>2
    <3>3. CASE d[1] # p
      BY <1>1, <1>2, <2>1, <3>1, <3>3 DEF TypeOK, PeersType
    <3> QED BY <3>2, <3>3
  <2> QED BY <1>3, <2>1 DEF Fresh
<1>6. Negotiated'
  <2>1. Greeting(Append(<<>>, "hello")) /\ Greeting(<<>>)
    BY DEF Greeting, Without, Onward
  <2> QED BY <1>3, <1>4, <2>1 DEF Negotiated
<1>7. NumberingUp'
  <2>1. numbering' = numbering /\ rows' = rows /\ switchSender' = switchSender
    BY DEF Dial, numbers, setup
  <2>2. p \notin numbering
    BY DEF Dial, NumberingUp
  <2>3. ASSUME NEW q \in numbering
        PROVE  /\ q \in Peers /\ <<q, dials[q]>> \in Conns /\ q # p
               /\ dial'[q] = dial[q] /\ dials'[q] = dials[q]
    BY <2>2, NumberingConns DEF Dial, TypeOK, PeersType
  <2>4. \A q \in numbering : /\ offer'[<<q, dials[q]>>] = offer[<<q, dials[q]>>]
                             /\ swt'[<<q, dials[q]>>] = swt[<<q, dials[q]>>]
    BY <1>3, <2>3
  <2> QED BY <2>1, <2>3, <2>4 DEF NumberingUp
<1> QED BY <1>5, <1>6, <1>7

LEMMA NextNegotiated ==
    ASSUME TypeOK, Fresh, Negotiated, NumberingUp, [Next]_vars
    PROVE  Fresh' /\ Negotiated'
<1>1. CASE MainStep
  BY <1>1 DEF MainStep, CreateFactory, StartTestcase, Arm, StartSending,
     Fresh, Negotiated, peers, server, wires
<1>2. CASE SendFault \/ UNCHANGED vars
  BY <1>2 DEF SendFault, vars, Fresh, Negotiated, peers, server, wires
<1> QED
  BY <1>1, <1>2, PeerNegotiation, ServerNegotiation, DialNegotiation DEF Next

LEMMA NextNumbering ==
    ASSUME TypeOK, Fresh, Negotiated, NumberingUp, RowsFollowList, [Next]_vars
    PROVE  NumberingUp'
<1>1. CASE MainStep
  <2>1. CASE StartTestcase
    <3>1. numbering = {}
      BY <2>1 DEF StartTestcase, NumberingUp, RowsFollowList
    <3> QED BY <2>1, <3>1 DEF StartTestcase, NumberingUp, numbers
  <2>2. UNCHANGED <<switchSender, peers, numbers>> => NumberingUp'
    BY DEF NumberingUp, peers, numbers
  <2> QED BY <1>1, <2>1, <2>2
       DEF MainStep, CreateFactory, Arm, StartSending, setup
<1>2. ASSUME NEW c \in Conns, FeaturesRequested(c)
      PROVE  NumberingUp'
  <2>1. CASE UNCHANGED <<rows, numbering>>
    <3>1. \A q \in numbering : swt'[<<q, dials[q]>>] = "running"
      BY <1>2 DEF FeaturesRequested, NumberingUp, TypeOK, PeersType
    <3> QED BY <1>2, <2>1, <3>1 DEF FeaturesRequested, NumberingUp, setup
  <2>2. CASE ~UNCHANGED <<rows, numbering>>
    <3>1. /\ numbering' = numbering \union {c[1]} /\ rows' = rows + 1
          /\ switchSender' /\ dial' = dial /\ dials' = dials /\ offer' = offer
          /\ swt'[c] = "running" /\ \A d \in Conns \ {c} : swt'[d] = swt[d]
      BY <1>2, <2>2 DEF FeaturesRequested, setup, TypeOK, PeersType
    <3>2. dial[c[1]] = "up" /\ c = <<c[1], dials[c[1]]>> /\ dials[c[1]] > 0
      BY <1>2 DEF FeaturesRequested, Reads, Conns
    <3>3. offer[c] = CtrlVersion
      BY <1>2, HandlersNegotiated
    <3>4. rows' > 0
      BY <3>1 DEF TypeOK, NumbersType
    <3>5. \A q \in numbering \union {c[1]} : swt'[<<q, dials[q]>>] = "running"
      <4>1. \A q \in numbering : swt[<<q, dials[q]>>] = "running"
        BY DEF NumberingUp
      <4>3. swt'[<<c[1], dials[c[1]]>>] = "running"
        BY <3>1, <3>2
      <4>4. \A q \in numbering : <<q, dials[q]>> \in Conns
        BY NumberingConns
      <4> QED
        BY <3>1, <4>1, <4>3, <4>4
    <3> QED BY <3>1, <3>2, <3>3, <3>4, <3>5 DEF NumberingUp
  <2> QED BY <2>1, <2>2
<1>3. ASSUME NEW c \in Conns, Numbered(c)
      PROVE  NumberingUp'
  BY <1>3 DEF Numbered, NumberingUp, setup, peers
<1>4. ASSUME NEW c \in Conns, PeerDown(c) \/ PeerDead(c)
      PROVE  NumberingUp'
  <2>1. c[1] \notin numbering
    BY <1>4 DEF PeerDown, PeerDead
  <2>2. \A q \in numbering : dial'[q] = dial[q]
    BY <1>4, <2>1 DEF PeerDown, PeerDead, TypeOK, PeersType, NumbersType, Peers
  <2>3. \A q \in numbering : swt'[<<q, dials[q]>>] = swt[<<q, dials[q]>>]
    BY <1>4, <2>1, NumberingConns DEF PeerDown, PeerDead, TypeOK, PeersType
  <2> QED BY <1>4, <2>2, <2>3 DEF PeerDown, PeerDead, NumberingUp, numbers, setup
<1>5. ASSUME NEW c \in Conns, Established(c)
      PROVE  NumberingUp'
  <2>1. numbering' = numbering /\ (rows' = rows \/ rows' = rows + 1)
    BY <1>5 DEF Established, Number, numbers
  <2>2. numbering # {} => rows' > 0
    BY <2>1 DEF NumberingUp, TypeOK, NumbersType
  <2> QED BY <1>5, <2>1, <2>2 DEF Established, NumberingUp, setup, peers
<1>6. UNCHANGED <<setup, peers, numbers>> => NumberingUp'
  BY DEF NumberingUp, setup, peers, numbers
<1> QED
  BY <1>1, <1>2, <1>3, <1>4, <1>5, <1>6, DialNegotiation
     DEF Next, PeerReads, ServerReads, PeerHello, PortsRequested, Cut, Accept,
         Hello, FeaturesReply, PortsReply, Lost, SendFault, vars

-----------------------------------------------------------------------------
(* Who is listed, and with which number.                                   *)

LEMMA ToSetAppend ==
    ASSUME NEW S, NEW s \in Seq(S), NEW x \in S
    PROVE  \A y \in ToSet(Append(s, x)) : y \in ToSet(s) \/ y = x
<1> DEFINE t == Append(s, x)
<1>1. /\ t[Len(s) + 1] = x /\ Len(s) \in Nat
      /\ \A i \in 1 .. Len(s) : t[i] = s[i]
      /\ DOMAIN t = 1 .. Len(s) + 1 /\ DOMAIN s = 1 .. Len(s)
  BY AppendFacts
<1>2. \A i \in DOMAIN t : i \in 1 .. Len(s) \/ i = Len(s) + 1
  BY <1>1
<1> QED BY <1>1, <1>2 DEF ToSet

LEMMA ListGrows ==
    ASSUME NEW S, NEW s \in Seq(S), NEW x \in S, IsInjective(s), x \notin ToSet(s)
    PROVE  /\ IsInjective(Append(s, x))
           /\ \A y \in ToSet(Append(s, x)) : y \in ToSet(s) \/ y = x
<1> DEFINE t == Append(s, x)
<1>1. /\ t[Len(s) + 1] = x /\ Len(s) \in Nat
      /\ \A i \in 1 .. Len(s) : t[i] = s[i]
      /\ DOMAIN t = 1 .. Len(s) + 1 /\ DOMAIN s = 1 .. Len(s)
  BY AppendFacts
<1>2. \A i \in 1 .. Len(s) : t[i] # x
  BY <1>1 DEF ToSet
<1>3. \A i \in DOMAIN t : i \in 1 .. Len(s) \/ i = Len(s) + 1
  BY <1>1
<1>4. IsInjective(t)
  BY <1>1, <1>2, <1>3 DEF IsInjective
<1> QED BY <1>4, ToSetAppend

LEMMA EnlistKeeps ==
    ASSUME TypeOK, ListedCompatible, RowsFollowList, NumberIsPlace,
           NEW c \in Conns, Enlist(c), ctl[c] = "handshake", entering = {},
           offer[c] = CtrlVersion, UNCHANGED <<setup, offer, numbers>>
    PROVE  ListedCompatible' /\ EnteringLast' /\ RowsFollowList' /\ NumberIsPlace'
<1>1. conns \in Seq(Conns) /\ Len(conns) \in Nat
  BY DEF TypeOK, ListType
<1>2. conns' = Append(conns, c) /\ entering' = {c}
  BY DEF Enlist
<1>3. /\ Len(conns') = Len(conns) + 1 /\ conns'[Len(conns) + 1] = c
      /\ \A i \in 1 .. Len(conns) : conns'[i] = conns[i]
  BY <1>1, <1>2, AppendFacts
<1>4. c \notin Listed
  BY DEF ListedCompatible
<1>5. ListedCompatible'
  <2>1. IsInjective(conns') /\ \A y \in ToSet(conns') : y \in Listed \/ y = c
    BY <1>1, <1>2, <1>4, ListGrows DEF ListedCompatible, Listed
  <2>2. \A y \in Listed \union {c} : ctl'[y] \in {"running", "down"}
    <3>1. ctl' = [ctl EXCEPT ![c] = "running"] /\ c \in DOMAIN ctl
      BY DEF Enlist, TypeOK, ServerType
    <3>2. \A y \in Listed : ctl[y] \in {"running", "down"} /\ y # c
      BY <1>4 DEF ListedCompatible
    <3>3. Listed \subseteq Conns
      BY <1>1 DEF Listed, ToSet
    <3> QED BY <3>1, <3>2, <3>3 DEF TypeOK, ServerType
  <2>3. \A y \in Listed \union {c} : offer'[y] = CtrlVersion
    BY DEF ListedCompatible
  <2> QED BY <2>1, <2>2, <2>3 DEF ListedCompatible, Listed
<1>6. EnteringLast'
  BY <1>1, <1>2, <1>3 DEF EnteringLast
<1>7. RowsFollowList'
  BY <1>1, <1>2, <1>3 DEF RowsFollowList, setup, numbers
<1>8. NumberIsPlace'
  <2>1. \A i \in 1 .. Len(conns') : i \in 1 .. Len(conns) \/ i = Len(conns) + 1
    BY <1>1, <1>3
  <2> QED BY <1>2, <1>3, <2>1 DEF NumberIsPlace, setup, numbers
<1> QED BY <1>5, <1>6, <1>7, <1>8

LEMMA EstablishedKeeps ==
    ASSUME TypeOK, ListedCompatible, EnteringLast, RowsFollowList, NumberIsPlace,
           NEW c \in Conns, Established(c)
    PROVE  ListedCompatible' /\ EnteringLast' /\ RowsFollowList' /\ NumberIsPlace'
<1>1. /\ conns' = conns /\ entering' = {} /\ entering = {c}
      /\ testcase' = testcase /\ switchSender' = switchSender /\ main' = main
      /\ offer' = offer /\ ctl' = ctl
  BY DEF Established, setup, peers, server
<1>2. conns \in Seq(Conns) /\ Len(conns) \in Nat /\ rows \in Nat /\ tables \in Nat
  BY DEF TypeOK, ListType, NumbersType
<1>3. Len(conns) > 0 /\ conns[Len(conns)] = c
  BY <1>1 DEF EnteringLast
<1>4. ListedCompatible' /\ EnteringLast'
  BY <1>1 DEF ListedCompatible, Listed, EnteringLast
<1>5. CASE testcase # "FlowModSandwich"
  BY <1>1, <1>4, <1>5 DEF RowsFollowList, NumberIsPlace
<1>6. CASE testcase = "FlowModSandwich"
  <2>1. ~switchSender /\ rows = Len(conns) - 1 /\ tables = rows
    BY <1>1, <1>6 DEF RowsFollowList
  <2>2. /\ rows' = rows + 1 /\ tables' = tables + 1
        /\ index' = [index EXCEPT ![c] = {rows}]
    BY <2>1 DEF Established, Number
  <2>3. RowsFollowList'
    BY <1>1, <1>2, <1>6, <2>1, <2>2 DEF RowsFollowList
  <2>4. ASSUME NEW i \in 1 .. Len(conns)
        PROVE  index'[conns[i]] = {i - 1} /\ i <= tables'
    <3>1. CASE i = Len(conns)
      BY <1>2, <1>3, <2>1, <2>2, <3>1 DEF TypeOK, NumbersType
    <3>2. CASE i # Len(conns)
      <4>1. conns[i] # c
        BY <1>2, <1>3, <3>2 DEF ListedCompatible, IsInjective
      <4>2. index[conns[i]] = {i - 1} /\ i <= tables
        BY <1>1, <1>6, <4>1 DEF NumberIsPlace
      <4>3. index'[conns[i]] = index[conns[i]]
        BY <1>2, <2>2, <4>1 DEF TypeOK, NumbersType
      <4> QED BY <1>2, <2>2, <4>2, <4>3
    <3> QED BY <3>1, <3>2
  <2> QED BY <1>1, <1>4, <2>3, <2>4 DEF NumberIsPlace
<1> QED BY <1>5, <1>6

\* A step that leaves the list, the numbers and the versions alone.
LEMMA ListUntouched ==
    ASSUME TypeOK, ListedCompatible, EnteringLast, RowsFollowList, NumberIsPlace,
           UNCHANGED <<conns, entering, testcase, switchSender, main, rows, tables>>,
           \A c \in Listed :
              /\ offer'[c] = offer[c] /\ index'[c] = index[c]
              /\ ctl[c] \in {"running", "down"} => ctl'[c] \in {"running", "down"}
    PROVE  ListedCompatible' /\ EnteringLast' /\ RowsFollowList' /\ NumberIsPlace'
<1>1. \A i \in 1 .. Len(conns) : conns[i] \in Listed
  BY DEF Listed, ToSet, TypeOK, ListType
<1>2. NumberIsPlace'
  BY <1>1 DEF NumberIsPlace
<1>3. ListedCompatible'
  BY DEF ListedCompatible, Listed
<1> QED BY <1>2, <1>3 DEF EnteringLast, RowsFollowList

LEMMA NextListed ==
    ASSUME Inv, [Next]_vars
    PROVE  ListedCompatible' /\ EnteringLast' /\ RowsFollowList' /\ NumberIsPlace'
<1> DEFINE Goal == ListedCompatible' /\ EnteringLast' /\ RowsFollowList' /\ NumberIsPlace'
<1> USE DEF Inv
<1>0. Listed \subseteq Conns
  BY DEF Listed, ToSet, TypeOK, ListType
<1>1. CASE MainStep
  <2>1. ListedCompatible' /\ EnteringLast' /\ NumberIsPlace'
    BY <1>1 DEF MainStep, CreateFactory, StartTestcase, Arm, StartSending,
       ListedCompatible, Listed, EnteringLast, NumberIsPlace, setup, peers,
       server, numbers
  <2>2. RowsFollowList'
    <3>1. UNCHANGED <<testcase, conns, entering, rows, tables>>
      BY <1>1 DEF MainStep, CreateFactory, StartTestcase, Arm, StartSending,
         setup, numbers
    <3>2. CASE StartTestcase
      <4>1. main' = "started" /\ (switchSender' => testcase = "PacketInSandwich")
        BY <3>2, Zenon DEF StartTestcase
      <4> QED BY <3>1, <4>1 DEF RowsFollowList
    <3>3. CASE CreateFactory \/ Arm \/ StartSending
      <4>1. switchSender' = switchSender /\ (main' = main \/ main' = "armed" \/ ~switchSender)
        BY <3>3 DEF CreateFactory, Arm, StartSending, setup, RowsFollowList
      <4> QED BY <3>1, <4>1 DEF RowsFollowList
    <3> QED BY <1>1, <3>2, <3>3 DEF MainStep
  <2> QED BY <2>1, <2>2
<1>2. ASSUME NEW p \in Peers, Dial(p)
      PROVE  Goal
  <2> DEFINE d == <<p, dials[p] + 1>>
  <2>1. dials[p] \in Nat /\ d \in Conns
    BY <1>2, HandshakeAssumption DEF Dial, TypeOK, PeersType, Conns
  <2>2. d \notin Listed
    BY <2>1 DEF Fresh, ListedCompatible
  <2>3. \A c \in Listed : offer'[c] = offer[c]
    BY <1>0, <1>2, <2>1, <2>2 DEF Dial, TypeOK, PeersType
  <2> QED BY <1>2, <2>3, ListUntouched DEF Dial, setup, numbers, server
<1>3. ASSUME NEW c \in Conns, PeerReads(c)
      PROVE  Goal
  <2>1. CASE PeerHello(c) \/ PortsRequested(c)
    BY <2>1, ListUntouched DEF PeerHello, PortsRequested, setup, numbers, server,
       peers
  <2>2. CASE FeaturesRequested(c)
    <3>1. UNCHANGED <<conns, entering, setup, server, offer, index, tables>>
      BY <2>2 DEF FeaturesRequested
    <3>2. CASE rows' = rows
      BY <3>1, <3>2, ListUntouched DEF setup, server
    <3>3. CASE rows' # rows
      <4>1. testcase # "FlowModSandwich"
        BY <2>2, <3>3 DEF FeaturesRequested, RowsFollowList
      <4> QED BY <3>1, <4>1 DEF setup, server, ListedCompatible, Listed,
           EnteringLast, RowsFollowList, NumberIsPlace
    <3> QED BY <3>2, <3>3
  <2>3. CASE Numbered(c)
    <3>1. testcase # "FlowModSandwich"
      BY <2>3 DEF Numbered, NumberingUp, RowsFollowList
    <3> QED BY <2>3, <3>1 DEF Numbered, setup, server, peers, ListedCompatible,
         Listed, EnteringLast, RowsFollowList, NumberIsPlace
  <2> QED BY <1>3, <2>1, <2>2, <2>3 DEF PeerReads
<1>4. ASSUME NEW c \in Conns, PeerDown(c) \/ PeerDead(c) \/ Cut(c)
      PROVE  Goal
  BY <1>4, ListUntouched DEF PeerDown, PeerDead, Cut, setup, peers, server, numbers
<1>5. ASSUME NEW c \in Conns, Accept(c) \/ Hello(c) \/ Lost(c)
      PROVE  Goal
  <2>1. UNCHANGED <<conns, entering, setup, offer, index, rows, tables>>
    BY <1>5 DEF Accept, Hello, Lost, peers, numbers
  <2>2. ASSUME NEW d \in Listed
        PROVE  ctl[d] \in {"running", "down"} => ctl'[d] \in {"running", "down"}
    <3>1. offer[d] = CtrlVersion /\ d \in Conns /\ ctl[d] # "none"
      BY <1>0 DEF ListedCompatible
    <3>2. CASE Accept(c)
      BY <3>1, <3>2 DEF Accept, TypeOK, ServerType
    <3>3. CASE Hello(c)
      BY <3>1, <3>3 DEF Hello, TypeOK, ServerType
    <3>4. CASE Lost(c)
      BY <3>1, <3>4 DEF Lost, TypeOK, ServerType
    <3> QED BY <1>5, <3>2, <3>3, <3>4
  <2> QED BY <2>1, <2>2, ListUntouched DEF setup
<1>6. ASSUME NEW c \in Conns, FeaturesReply(c) \/ PortsReply(c)
      PROVE  Goal
  <2>1. offer[c] = CtrlVersion
    BY <1>6, HandlersNegotiated
  <2>2. ctl[c] = "handshake" /\ entering = {}
    BY <1>6 DEF FeaturesReply, PortsReply, Receives, LoopFree
  <2>3. UNCHANGED <<setup, offer, numbers>>
    BY <1>6 DEF FeaturesReply, PortsReply, peers
  <2>4. CASE Enlist(c)
    BY <2>1, <2>2, <2>3, <2>4, EnlistKeeps
  <2>5. CASE UNCHANGED <<ctl, conns, entering>>
    BY <2>3, <2>5, ListUntouched DEF setup, numbers
  <2> QED BY <1>6, <2>4, <2>5 DEF FeaturesReply, PortsReply
<1>7. ASSUME NEW c \in Conns, Established(c)
      PROVE  Goal
  BY <1>7, EstablishedKeeps
<1>8. CASE SendFault \/ UNCHANGED vars
  BY <1>8, ListUntouched DEF SendFault, vars, setup, peers, server, numbers
<1> QED
  BY <1>1, <1>2, <1>3, <1>4, <1>5, <1>6, <1>7, <1>8 DEF Next, ServerReads

-----------------------------------------------------------------------------
(* The switch is first.                                                    *)

LEMMA NextOff ==
    ASSUME TypeOK, OffBeforeStart, [Next]_vars
    PROVE  OffBeforeStart'
<1>1. CASE MainStep
  BY <1>1 DEF MainStep, CreateFactory, StartTestcase, Arm, StartSending,
     OffBeforeStart, peers, setup
<1>2. ASSUME NEW p \in Peers, Dial(p)
      PROVE  OffBeforeStart'
  BY <1>2 DEF Dial, OffBeforeStart, setup, TypeOK, PeersType, Peers
<1>3. ASSUME NEW c \in Conns, PeerDown(c) \/ PeerDead(c)
      PROVE  OffBeforeStart'
  <2>1. main' = main /\ dials' = dials
    BY <1>3 DEF PeerDown, PeerDead, setup
  <2>2. dial[c[1]] = "up" /\ \A p \in Own \ {c[1]} : dial'[p] = dial[p]
    BY <1>3 DEF PeerDown, PeerDead, TypeOK, PeersType, Peers
  <2> QED BY <2>1, <2>2 DEF OffBeforeStart
<1>4. UNCHANGED <<main, dial, dials>> => OffBeforeStart'
  BY DEF OffBeforeStart
<1> QED
  BY <1>1, <1>2, <1>3, <1>4
     DEF Next, PeerReads, ServerReads, PeerHello, FeaturesRequested, Numbered,
         PortsRequested, Cut, Accept, Hello, FeaturesReply, PortsReply,
         Established, Lost, SendFault, vars, setup, peers

\* What the handlers may put on, or take from, the wire of a connection that
\* is not established at the peer.
LEMMA WireEarly ==
    ASSUME TypeOK, SwitchFirst, NEW c \in Conns, ~Ready(c)
    PROVE  /\ Without(up[c], Late) /\ Without(down[c], Late) /\ c \notin Listed
           /\ Without(Append(up[c], "hello"), Late)
           /\ Without(Append(down[c], "hello"), Late)
           /\ Without(Append(down[c], "error"), Late)
           /\ Without(Append(down[c], "features_request"), Late)
           /\ up[c] # <<>> => Without(Tail(up[c]), Late) /\ Head(up[c]) \notin Late
           /\ down[c] # <<>> => Without(Tail(down[c]), Late) /\ Head(down[c]) \notin Late
<1>1. up[c] \in Seq(ToController) /\ down[c] \in Seq(ToPeer)
  BY DEF TypeOK, UpType, DownType
<1>2. Without(up[c], Late) /\ Without(down[c], Late) /\ c \notin Listed
  BY DEF SwitchFirst
<1>3. "hello" \notin Late /\ "error" \notin Late /\ "features_request" \notin Late
  BY DEF Late
<1> QED BY <1>1, <1>2, <1>3, WithoutFacts, Messages

LEMMA HandlersReady ==
    ASSUME TypeOK, SwitchFirst, NEW c \in Conns
    PROVE  /\ PortsRequested(c) => Ready(c)
           /\ FeaturesReply(c) => Ready(c)
           /\ PortsReply(c) => Ready(c)
<1>1. "ports_request" \in Late /\ "features_reply" \in Late /\ "ports_reply" \in Late
  BY DEF Late
<1>2. ~Ready(c) => ~PortsRequested(c)
  BY <1>1, WireEarly DEF PortsRequested, Reads
<1>3. ~Ready(c) => ~FeaturesReply(c) /\ ~PortsReply(c)
  BY <1>1, WireEarly DEF FeaturesReply, PortsReply, Receives
<1> QED BY <1>2, <1>3

\* A step that keeps every connection ready which was, and changes the wires
\* and the list for c alone.
LEMMA EarlyKeeps ==
    ASSUME TypeOK, SwitchFirst, NEW c \in Conns,
           \A d \in Conns : Ready(d) => Ready(d)',
           \A d \in Conns \ {c} : /\ up'[d] = up[d] /\ down'[d] = down[d]
                                  /\ d \notin Listed => d \notin Listed',
           Ready(c)' \/ /\ Without(up'[c], Late) /\ Without(down'[c], Late)
                        /\ c \notin Listed'
    PROVE  SwitchFirst'
<1>1. \A d \in Conns : ~Ready(d)' => ~Ready(d)
  OBVIOUS
<1>2. ASSUME NEW d \in Conns, ~Ready(d)'
      PROVE  Without(up'[d], Late) /\ Without(down'[d], Late) /\ d \notin Listed'
  <2>1. CASE d = c
    BY <1>2, <2>1
  <2>2. CASE d # c
    BY <1>1, <1>2, <2>2 DEF SwitchFirst
  <2> QED BY <2>1, <2>2
<1> QED BY <1>2 DEF SwitchFirst

\* A peer that is established stays so while only rows are added.
LEMMA ReadyStays ==
    ASSUME TypeOK, switchSender' = switchSender, rows' \in Nat, rows' >= rows,
           NEW d \in Conns, index'[d] = index[d],
           swt[d] \in {"running", "down"} => swt'[d] \in {"running", "down"}
    PROVE  Ready(d) => Ready(d)'
<1>1. \A i \in index[d] : i \in Nat
  BY DEF TypeOK, NumbersType
<1>2. rows \in Nat
  BY DEF TypeOK, NumbersType
<1> QED BY <1>1, <1>2 DEF Ready

LEMMA PeerFirst ==
    ASSUME TypeOK, SwitchFirst, NumberingUp, NEW c \in Conns,
           PeerReads(c) \/ PeerDown(c) \/ PeerDead(c) \/ Cut(c)
    PROVE  SwitchFirst'
<1> DEFINE Stays == \A d \in Conns : Ready(d) => Ready(d)'
<1> USE DEF setup, peers, server, wires, numbers
<1>0. rows \in Nat
  BY DEF TypeOK, NumbersType
<1>1. CASE PeerHello(c)
  <2>1. Stays /\ Ready(c)' = Ready(c)
    BY <1>1 DEF PeerHello, Ready
  <2>2. /\ up' = up /\ down[c] # <<>> /\ down'[c] = Tail(down[c]) /\ conns' = conns
        /\ \A d \in Conns \ {c} : down'[d] = down[d]
    BY <1>1 DEF PeerHello, Reads, TypeOK, DownType
  <2> QED BY <2>1, <2>2, WireEarly, EarlyKeeps DEF Listed
<1>2. CASE FeaturesRequested(c)
  <2>1. /\ switchSender' = switchSender /\ index' = index /\ conns' = conns
        /\ rows' \in Nat /\ rows' >= rows
        /\ swt'[c] = "running" /\ \A d \in Conns \ {c} : swt'[d] = swt[d]
        /\ \A d \in Conns \ {c} : up'[d] = up[d] /\ down'[d] = down[d]
        /\ down[c] # <<>> /\ down'[c] = Tail(down[c])
    BY <1>0, <1>2 DEF FeaturesRequested, Reads, TypeOK, PeersType, UpType, DownType
  <2>2. Stays
    <3>1. ASSUME NEW d \in Conns
          PROVE  swt[d] \in {"running", "down"} => swt'[d] \in {"running", "down"}
      BY <2>1
    <3> QED BY <2>1, <3>1, ReadyStays
  <2>3. CASE c[1] \in Own /\ switchSender
    <3>1. up' = up
      BY <1>2, <2>3 DEF FeaturesRequested
    <3> QED BY <2>1, <2>2, <3>1, WireEarly, EarlyKeeps DEF Listed
  <2>4. CASE ~(c[1] \in Own /\ switchSender)
    <3>1. Ready(c)'
      BY <2>1, <2>4 DEF Ready
    <3> QED BY <2>1, <2>2, <3>1, EarlyKeeps DEF Listed
  <2> QED BY <2>3, <2>4
<1>3. CASE Numbered(c)
  <2>1. c = <<c[1], dials[c[1]]>>
    BY <1>3 DEF Numbered, Conns
  <2>2. swt[c] = "running" /\ rows > 0
    BY <1>3, <2>1 DEF Numbered, NumberingUp
  <2>3. /\ switchSender' = switchSender /\ swt' = swt /\ rows' = rows
        /\ down' = down /\ conns' = conns /\ index'[c] = {rows - 1}
        /\ \A d \in Conns \ {c} : index'[d] = index[d] /\ up'[d] = up[d]
    BY <1>3 DEF Numbered, TypeOK, NumbersType, UpType
  <2>4. Ready(c)'
    BY <1>0, <2>2, <2>3 DEF Ready
  <2>5. Stays
    BY <2>3, <2>4 DEF Ready
  <2> QED BY <2>3, <2>4, <2>5, EarlyKeeps DEF Listed
<1>4. CASE PortsRequested(c)
  <2>1. Stays
    BY <1>4 DEF PortsRequested, Ready
  <2>2. Ready(c)
    BY <1>4, HandlersReady
  <2>3. conns' = conns /\ \A d \in Conns \ {c} : up'[d] = up[d] /\ down'[d] = down[d]
    BY <1>4 DEF PortsRequested, TypeOK, UpType, DownType
  <2> QED BY <2>1, <2>2, <2>3, EarlyKeeps DEF Listed
<1>5. CASE PeerDown(c) \/ PeerDead(c)
  <2>1. /\ switchSender' = switchSender /\ index' = index /\ rows' = rows
        /\ up' = up /\ down' = down /\ conns' = conns
    BY <1>5 DEF PeerDown, PeerDead
  <2>2. \A d \in Conns :
           swt[d] \in {"running", "down"} => swt'[d] \in {"running", "down"}
    BY <1>5 DEF PeerDown, PeerDead, TypeOK, PeersType
  <2>3. Stays
    BY <2>1, <2>2 DEF Ready
  <2> QED BY <2>1, <2>3, WireEarly, EarlyKeeps DEF Listed
<1>6. CASE Cut(c)
  <2>1. Stays /\ up' = up /\ down' = down /\ conns' = conns
    BY <1>6 DEF Cut, Ready
  <2> QED BY <2>1, WireEarly, EarlyKeeps DEF Listed
<1> QED BY <1>1, <1>2, <1>3, <1>4, <1>5, <1>6 DEF PeerReads

LEMMA ServerFirst ==
    ASSUME TypeOK, SwitchFirst, EnteringLast, NEW c \in Conns,
           Accept(c) \/ ServerReads(c) \/ Lost(c)
    PROVE  SwitchFirst'
<1> DEFINE Stays == \A d \in Conns : Ready(d) => Ready(d)'
<1> USE DEF setup, peers, server, wires, numbers
<1>0. rows \in Nat /\ conns \in Seq(Conns)
  BY DEF TypeOK, NumbersType, ListType
<1>1. CASE Accept(c)
  <2>1. Stays /\ up' = up /\ conns' = conns
    BY <1>1 DEF Accept, Ready
  <2>2. /\ down'[c] = Append(down[c], "hello")
        /\ \A d \in Conns \ {c} : down'[d] = down[d]
    BY <1>1 DEF Accept, TypeOK, DownType
  <2> QED BY <2>1, <2>2, WireEarly, EarlyKeeps DEF Listed
<1>2. CASE Hello(c)
  <2>1. Stays /\ conns' = conns
    BY <1>2 DEF Hello, Ready
  <2>2. /\ up[c] # <<>> /\ up'[c] = Tail(up[c])
        /\ \A d \in Conns \ {c} : up'[d] = up[d]
    BY <1>2 DEF Hello, Receives, TypeOK, UpType
  <2>3. /\ \/ down'[c] = Append(down[c], "features_request")
           \/ down'[c] = Append(down[c], "error")
        /\ \A d \in Conns \ {c} : down'[d] = down[d]
    BY <1>2 DEF Hello, TypeOK, DownType
  <2> QED BY <2>1, <2>2, <2>3, WireEarly, EarlyKeeps DEF Listed
<1>3. CASE FeaturesReply(c) \/ PortsReply(c)
  <2>1. Stays
    BY <1>3 DEF FeaturesReply, PortsReply, Ready
  <2>2. Ready(c)
    BY <1>3, HandlersReady
  <2>3. \A d \in Conns \ {c} : up'[d] = up[d] /\ down'[d] = down[d]
    BY <1>3 DEF FeaturesReply, PortsReply, Receives, TypeOK, UpType, DownType
  <2>4. conns' = conns \/ conns' = Append(conns, c)
    BY <1>3 DEF FeaturesReply, PortsReply, Enlist
  <2>5. \A d \in Conns \ {c} : d \notin Listed => d \notin Listed'
    <3>1. CASE conns' = conns
      BY <3>1 DEF Listed
    <3>2. CASE conns' = Append(conns, c)
      BY <1>0, <3>2, ToSetAppend DEF Listed
    <3> QED BY <2>4, <3>1, <3>2
  <2> QED BY <2>1, <2>2, <2>3, <2>5, EarlyKeeps
<1>4. CASE Established(c)
  <2>1. c \in Listed
    <3>1. Len(conns) > 0 /\ c = conns[Len(conns)]
      BY <1>4 DEF Established, EnteringLast
    <3> QED BY <1>0, <3>1 DEF Listed, ToSet
  <2>2. Ready(c)
    BY <2>1 DEF SwitchFirst
  <2>3. up' = up /\ down' = down /\ conns' = conns
        /\ switchSender' = switchSender /\ swt' = swt
    BY <1>4 DEF Established
  <2>4. CASE UNCHANGED numbers
    <3>1. Stays
      BY <2>3, <2>4 DEF Ready
    <3> QED BY <2>2, <2>3, <3>1, EarlyKeeps DEF Listed
  <2>5. CASE Number(c)
    <3>1. /\ rows' = rows + 1 /\ index'[c] = {rows}
          /\ \A d \in Conns \ {c} : index'[d] = index[d]
      BY <2>5 DEF Number, TypeOK, NumbersType
    <3>2. Ready(c)'
      BY <1>0, <2>2, <2>3, <3>1 DEF Ready
    <3>3. \A d \in Conns \ {c} : Ready(d) => Ready(d)'
      BY <1>0, <2>3, <3>1, ReadyStays
    <3> QED BY <2>2, <2>3, <3>2, <3>3, EarlyKeeps DEF Listed
  <2> QED BY <1>4, <2>4, <2>5 DEF Established
<1>5. CASE Lost(c)
  <2>1. Stays /\ up' = up /\ down' = down /\ conns' = conns
    BY <1>5 DEF Lost, Ready
  <2> QED BY <2>1, WireEarly, EarlyKeeps DEF Listed
<1> QED BY <1>1, <1>2, <1>3, <1>4, <1>5 DEF ServerReads

LEMMA NextFirst ==
    ASSUME Inv, [Next]_vars
    PROVE  SwitchFirst'
<1> USE DEF Inv
<1>1. CASE MainStep
  <2>1. /\ UNCHANGED <<up, down, conns, swt, index, rows>>
        /\ switchSender' = switchSender \/ main = "factory"
    BY <1>1 DEF MainStep, CreateFactory, StartTestcase, Arm, StartSending,
       setup, peers, wires, numbers
  <2>2. ASSUME NEW d \in Conns, Ready(d)
        PROVE  Ready(d)'
    <3>1. CASE switchSender' = switchSender
      BY <2>1, <2>2, <3>1 DEF Ready
    <3>2. CASE main = "factory"
      <4>1. d[1] \notin Own
        <5>1. d[1] \in Own => dials[d[1]] = 0
          BY <3>2 DEF OffBeforeStart
        <5>2. d[2] > 0
          BY DEF Conns
        <5> QED BY <2>2, <5>1, <5>2 DEF Fresh, Ready
      <4> QED BY <2>1, <2>2, <4>1 DEF Ready
    <3> QED BY <2>1, <3>1, <3>2
  <2> QED BY <2>1, <2>2 DEF SwitchFirst, Listed
<1>2. ASSUME NEW p \in Peers, Dial(p)
      PROVE  SwitchFirst'
  <2> DEFINE c == <<p, dials[p] + 1>>
  <2>1. dials[p] \in Nat /\ c \in Conns
    BY <1>2, HandshakeAssumption DEF Dial, TypeOK, PeersType, Conns
  <2>2. dials'[p] = dials[p] + 1
    BY <1>2 DEF Dial, TypeOK, PeersType
  <2>3. /\ down' = down /\ conns' = conns /\ index' = index /\ rows' = rows
        /\ switchSender' = switchSender
        /\ up'[c] = Append(up[c], "hello")
        /\ \A d \in Conns \ {c} : up'[d] = up[d] /\ swt'[d] = swt[d]
    BY <1>2, <2>1, <2>2 DEF Dial, TypeOK, PeersType, UpType, setup, numbers
  <2>4. ~Ready(c)
    BY <2>1 DEF Fresh, Ready
  <2>5. \A d \in Conns : Ready(d) => Ready(d)'
    BY <2>3, <2>4 DEF Ready
  <2> QED BY <2>1, <2>3, <2>4, <2>5, WireEarly, EarlyKeeps DEF Listed
<1>3. CASE SendFault \/ UNCHANGED vars
  BY <1>3 DEF SendFault, vars, SwitchFirst, Ready, Listed, setup, peers, wires,
     numbers
<1> QED BY <1>1, <1>2, <1>3, PeerFirst, ServerFirst DEF Next

-----------------------------------------------------------------------------
(* The theorems.                                                           *)

LEMMA InitInv == Init => Inv
<1> SUFFICES ASSUME Init PROVE Inv
  OBVIOUS
<1>1. TypeOK
  BY InitType
<1>2. Fresh /\ Negotiated /\ NumberingUp
  BY DEF Init, Fresh, Negotiated, Greeting, Without, NumberingUp
<1>3. OffBeforeStart /\ SwitchFirst
  BY DEF Init, OffBeforeStart, SwitchFirst, Ready, Without, Listed, ToSet, Peers
<1>4. ListedCompatible /\ EnteringLast /\ RowsFollowList /\ NumberIsPlace
  BY DEF Init, ListedCompatible, Listed, ToSet, IsInjective, EnteringLast,
     RowsFollowList, NumberIsPlace
<1> QED BY <1>1, <1>2, <1>3, <1>4 DEF Inv

LEMMA NextInv == Inv /\ [Next]_vars => Inv'
<1> SUFFICES ASSUME Inv, [Next]_vars PROVE Inv'
  OBVIOUS
<1>1. TypeOK'
  BY NextType DEF Inv
<1>2. Fresh' /\ Negotiated'
  BY NextNegotiated DEF Inv
<1>3. NumberingUp'
  BY NextNumbering DEF Inv
<1>4. ListedCompatible' /\ EnteringLast' /\ RowsFollowList' /\ NumberIsPlace'
  BY NextListed
<1>5. OffBeforeStart'
  BY NextOff DEF Inv
<1>6. SwitchFirst'
  BY NextFirst
<1> QED BY <1>1, <1>2, <1>3, <1>4, <1>5, <1>6 DEF Inv

\* The invariant holds in every reachable state of OFServer.cc, Controller.cpp
\* and the switches together.
THEOREM InvHolds == Spec => []Inv
  BY InitInv, NextInv, PTL DEF Spec

\* Every variable of the handshake stays in its type: a number is never
\* negative, a message never comes to the wrong end.
THEOREM TypeCorrect == Spec => []TypeOK
<1>1. Inv => TypeOK
  BY DEF Inv
<1> QED BY <1>1, InvHolds, PTL

\* Controller::conns holds no connection twice and only connections of the
\* configured version that finished the handshake.
THEOREM ListIsCompatible == Spec => []ListedCompatible
<1>1. Inv => ListedCompatible
  BY DEF Inv
<1> QED BY <1>1, InvHolds, PTL

\* OFConnection::list_index is the place of the connection in Controller::conns
\* and a row of the tables, when the controller sends.
THEOREM NumbersArePlaces == Spec => []NumberIsPlace
<1>1. Inv => NumberIsPlace
  BY DEF Inv
<1> QED BY <1>1, InvHolds, PTL

\* A listed connection was established at the switch before, and numbered if
\* the switch sends: the dispatcher that waits for the list finds its row.
THEOREM ListedIsReady == Spec => []ListedAfterSwitch
<1>1. Inv => ListedAfterSwitch
  <2>1. ASSUME Inv
        PROVE  Listed \subseteq Conns
    BY <2>1 DEF Inv, TypeOK, ListType, Listed, ToSet
  <2> QED BY <2>1 DEF Inv, SwitchFirst, Ready, ListedAfterSwitch
<1> QED BY <1>1, InvHolds, PTL

-----------------------------------------------------------------------------
(* A tenant that nothing disturbs.                                         *)

\* Every row that a switch pushed has its tables, or the switch is between
\* the two halves of its numbering.
RowsPushed == rows = tables + Cardinality(numbering)

\* The testcase says who sends.
SenderSet ==
    main \in {"started", "armed"} =>
       (switchSender <=> testcase = "PacketInSandwich")

\* The switches are on their first connection.
FirstTry ==
    /\ \A p \in Own : dials[p] = 0 \/ (dials[p] = 1 /\ dial[p] = "up")
    /\ \A c \in Conns : ctl[c] # "down" /\ swt[c] # "down"

\* HELLO comes first and once, and the features are asked for once, before
\* the connection is established at the peer: u and d are the messages under
\* way and s is the state of the peer.
Asks(u, d, s) ==
    /\ \A i \in 2 .. Len(u) : u[i] # "hello"
    /\ s # "handshake" =>
          Without(u, {"hello"}) /\ Without(d, {"features_request"})
    /\ Without(u, {"hello"}) \/ Without(d, {"features_request"})
    /\ \A i, j \in 1 .. Len(d) :
          d[i] = "features_request" /\ d[j] = "features_request" => i = j
AskedOnce == \A c \in Conns : Asks(up[c], down[c], swt[c])

\* A sending switch has no number before its numbering ends.
Unnumbered ==
    switchSender \/ main \in {"listening", "factory"} =>
       \A c \in Conns :
          c[1] \in Own /\ (swt[c] \in {"none", "handshake"} \/ c[1] \in numbering)
             => index[c] = {}

\* The length of the list says that every switch is on it.
AllListed ==
    connected => entering = {} /\ \A p \in Own : <<p, 1>> \in Listed

SendsConnected == sending => connected /\ main = "armed"

Quiet ==
    /\ ~crashed /\ ~failed
    /\ FirstTry /\ AskedOnce /\ Unnumbered /\ AllListed /\ SendsConnected

WholeInv == RowsPushed /\ SenderSet /\ (Undisturbed => Quiet)

\* Rows and tables grow together.
LEMMA RowsStep ==
    ASSUME TypeOK, RowsPushed, [Next]_vars
    PROVE  RowsPushed'
<1>1. /\ IsFiniteSet(numbering) /\ Cardinality(numbering) \in Nat
      /\ rows \in Nat /\ tables \in Nat
  BY HandshakeAssumption, FS_Subset, FS_CardinalityType
     DEF TypeOK, NumbersType
<1>2. UNCHANGED <<rows, tables, numbering>> => RowsPushed'
  BY DEF RowsPushed
<1>3. ASSUME NEW c \in Conns, FeaturesRequested(c)
      PROVE  RowsPushed'
  <2>1. CASE UNCHANGED <<rows, numbering>>
    BY <1>2, <1>3, <2>1 DEF FeaturesRequested
  <2>2. CASE ~UNCHANGED <<rows, numbering>>
    <3>1. /\ rows' = rows + 1 /\ numbering' = numbering \union {c[1]}
          /\ tables' = tables /\ c[1] \notin numbering
      BY <1>3, <2>2 DEF FeaturesRequested, Reads
    <3>2. Cardinality(numbering') = Cardinality(numbering) + 1
      BY <1>1, <3>1, FS_AddElement
    <3> QED BY <1>1, <3>1, <3>2 DEF RowsPushed
  <2> QED BY <2>1, <2>2
<1>4. ASSUME NEW c \in Conns, Numbered(c)
      PROVE  RowsPushed'
  <2>1. /\ tables' = tables + 1 /\ rows' = rows
        /\ c[1] \in numbering /\ numbering' = numbering \ {c[1]}
    BY <1>4 DEF Numbered
  <2>2. Cardinality(numbering') = Cardinality(numbering) - 1
    BY <1>1, <2>1, FS_RemoveElement
  <2> QED BY <1>1, <2>1, <2>2 DEF RowsPushed
<1>5. ASSUME NEW c \in Conns, Established(c)
      PROVE  RowsPushed'
  <2>1. CASE UNCHANGED numbers
    BY <1>2, <2>1 DEF numbers
  <2>2. CASE ~UNCHANGED numbers
    <3>1. rows' = rows + 1 /\ tables' = tables + 1 /\ numbering' = numbering
      BY <1>5, <2>2 DEF Established, Number
    <3> QED BY <1>1, <3>1 DEF RowsPushed
  <2> QED BY <2>1, <2>2
<1>6. ASSUME NEW c \in Conns,
             \/ PeerHello(c) \/ PortsRequested(c) \/ PeerDown(c) \/ PeerDead(c)
             \/ Cut(c) \/ Accept(c) \/ Hello(c) \/ FeaturesReply(c)
             \/ PortsReply(c) \/ Lost(c)
      PROVE  UNCHANGED numbers
  BY <1>6 DEF PeerHello, PortsRequested, PeerDown, PeerDead, Cut, Accept, Hello,
     FeaturesReply, PortsReply, Lost
<1>7. ASSUME MainStep \/ SendFault \/ UNCHANGED vars \/ \E p \in Peers : Dial(p)
      PROVE  UNCHANGED numbers
  BY <1>7 DEF MainStep, CreateFactory, StartTestcase, Arm, StartSending,
     SendFault, Dial, vars
<1> QED
  BY <1>2, <1>3, <1>4, <1>5, <1>6, <1>7 DEF Next, PeerReads, ServerReads, numbers

LEMMA SenderStep ==
    ASSUME TypeOK, SenderSet, [Next]_vars
    PROVE  SenderSet'
<1>1. CASE MainStep
  BY <1>1 DEF MainStep, CreateFactory, StartTestcase, Arm, StartSending, setup,
     SenderSet, TypeOK, SetupType
<1>2. ASSUME ~MainStep PROVE UNCHANGED setup
  <2>1. ASSUME NEW c \in Conns,
               PeerReads(c) \/ PeerDown(c) \/ PeerDead(c) \/ Cut(c)
        PROVE  UNCHANGED setup
    BY <2>1 DEF PeerReads, PeerHello, FeaturesRequested, Numbered, PortsRequested,
       PeerDown, PeerDead, Cut
  <2>2. ASSUME NEW c \in Conns, Accept(c) \/ ServerReads(c) \/ Lost(c)
        PROVE  UNCHANGED setup
    BY <2>2 DEF Accept, ServerReads, Hello, FeaturesReply, PortsReply,
       Established, Lost
  <2>3. ASSUME SendFault \/ UNCHANGED vars \/ \E p \in Peers : Dial(p)
        PROVE  UNCHANGED setup
    BY <2>3 DEF SendFault, Dial, vars
  <2> QED BY <1>2, <2>1, <2>2, <2>3 DEF Next
<1> QED BY <1>1, <1>2 DEF SenderSet, setup

\* What was disturbed stays disturbed.
LEMMA UndisturbedBefore ==
    ASSUME TypeOK, [Next]_vars, Undisturbed'
    PROVE  Undisturbed
<1>0. cut \in [Conns -> BOOLEAN] /\ dials \in [Peers -> 0 .. MaxDials]
  BY DEF TypeOK, ListType, PeersType
<1>1. UNCHANGED <<cut, dials>> => Undisturbed
  BY DEF Undisturbed
<1>2. ASSUME NEW d \in Conns,
             dials' = dials,
             cut' = cut \/ cut' = [cut EXCEPT ![d] = TRUE]
      PROVE  Undisturbed
  BY <1>0, <1>2 DEF Undisturbed
<1>3. ASSUME NEW p \in Peers, Dial(p)
      PROVE  Undisturbed
  <2>1. cut' = cut /\ dials' = [dials EXCEPT ![p] = @ + 1]
    BY <1>3 DEF Dial
  <2>2. \A q \in Peers : dials'[q] = 0 => dials[q] = 0
    BY <1>0, <2>1
  <2> QED BY <2>1, <2>2 DEF Undisturbed, Peers
<1>4. ASSUME NEW d \in Conns,
             \/ PeerReads(d) \/ PeerDown(d) \/ PeerDead(d) \/ Cut(d)
             \/ Accept(d) \/ ServerReads(d) \/ Lost(d)
      PROVE  Undisturbed
  BY <1>2, <1>4 DEF PeerReads, ServerReads, PeerHello, FeaturesRequested, Numbered,
     PortsRequested, PeerDown, PeerDead, Cut, Accept, Hello, FeaturesReply,
     PortsReply, Established, Lost, peers, wires
<1>5. ASSUME MainStep \/ SendFault \/ UNCHANGED vars
      PROVE  Undisturbed
  BY <1>1, <1>5 DEF MainStep, CreateFactory, StartTestcase, Arm, StartSending,
     SendFault, vars, peers, wires
<1> QED BY <1>3, <1>4, <1>5 DEF Next

\* The only connections are the first ones of the switches.
LEMMA FirstConns ==
    ASSUME TypeOK, Fresh, Undisturbed, FirstTry, NEW c \in Conns,
           swt[c] # "none" \/ ctl[c] # "none" \/ up[c] # <<>> \/ down[c] # <<>>
    PROVE  c[1] \in Own /\ c = <<c[1], 1>> /\ dials[c[1]] = 1
<1>1. c[1] \in Peers /\ c[2] \in 1 .. MaxDials /\ c = <<c[1], c[2]>>
  BY DEF Conns
<1>2. c[2] <= dials[c[1]]
  BY Dialled
<1>3. dials[c[1]] \in Nat /\ c[2] \in Nat /\ c[2] > 0
  BY <1>1, HandshakeAssumption DEF TypeOK, PeersType
<1>4. c[1] \in Own
  BY <1>1, <1>2, <1>3 DEF Undisturbed, Peers
<1>5. dials[c[1]] = 1 /\ c[2] = 1
  BY <1>2, <1>3, <1>4 DEF FirstTry
<1> QED BY <1>1, <1>4, <1>5

\* The steps of an undisturbed tenant.
QuietHello(c) ==
    /\ Receives(c, "hello") /\ offer[c] = CtrlVersion
    /\ down' = [down EXCEPT ![c] = Append(@, "features_request")]
    /\ UNCHANGED <<setup, peers, server, cut, conns, entering, numbers, outcome>>
QuietStep(c) ==
    \/ PeerReads(c) \/ Accept(c) \/ QuietHello(c)
    \/ FeaturesReply(c) \/ PortsReply(c) \/ Established(c)
QuietNext ==
    \/ MainStep \/ SendFault \/ UNCHANGED vars
    \/ \E p \in Own : Dial(p) /\ dials[p] = 0
    \/ \E c \in Conns :
          /\ c[1] \in Own /\ c = <<c[1], 1>> /\ dials[c[1]] = 1
          /\ QuietStep(c)

LEMMA QuietOnly ==
    ASSUME Inv, Undisturbed, Undisturbed', FirstTry, [Next]_vars
    PROVE  QuietNext
<1>0. /\ TypeOK /\ Fresh
      /\ cut \in [Conns -> BOOLEAN] /\ dials \in [Peers -> 0 .. MaxDials]
      /\ \A d \in Conns : ~cut[d] /\ ~cut'[d]
  BY DEF Inv, TypeOK, ListType, PeersType, Undisturbed
<1>1. ASSUME NEW p \in Peers, Dial(p)
      PROVE  p \in Own /\ dials[p] = 0
  <2>1. dials' = [dials EXCEPT ![p] = @ + 1] /\ dial[p] = "dialling"
    BY <1>1 DEF Dial
  <2>2. dials'[p] # 0
    BY <1>0, <2>1
  <2>3. p \in Own
    BY <2>2 DEF Undisturbed, Peers
  <2> QED BY <2>1, <2>3 DEF FirstTry
<1>2. ASSUME NEW c \in Conns
      PROVE  ~PeerDown(c) /\ ~PeerDead(c) /\ ~Cut(c) /\ ~Lost(c)
  BY <1>0 DEF PeerDown, PeerDead, Cut, Lost
<1>3. ASSUME NEW c \in Conns, Hello(c)
      PROVE  QuietHello(c)
  <2>1. offer[c] = CtrlVersion
    BY <1>0, <1>3 DEF Hello
  <2> QED BY <1>3, <2>1 DEF Hello, QuietHello, server
<1>4. ASSUME NEW c \in Conns, QuietStep(c)
      PROVE  c[1] \in Own /\ c = <<c[1], 1>> /\ dials[c[1]] = 1
  <2>1. CASE \/ PeerHello(c) \/ FeaturesRequested(c) \/ PortsRequested(c)
             \/ QuietHello(c) \/ FeaturesReply(c) \/ PortsReply(c)
    <3>1. down[c] # <<>> \/ up[c] # <<>>
      BY <2>1 DEF PeerHello, FeaturesRequested, PortsRequested, QuietHello,
         FeaturesReply, PortsReply, Reads, Receives
    <3> QED BY <1>0, <3>1, FirstConns
  <2>2. CASE Accept(c)
    BY <1>0, <2>2, FirstConns DEF Accept
  <2>3. CASE Numbered(c)
    <3>1. c[1] \in numbering /\ c = <<c[1], dials[c[1]]>>
      BY <2>3 DEF Numbered, Conns
    <3>2. swt[c] = "running"
      BY <3>1 DEF Inv, NumberingUp
    <3> QED BY <1>0, <3>2, FirstConns
  <2>4. CASE Established(c)
    <3>1. c = conns[Len(conns)] /\ Len(conns) > 0
      BY <2>4 DEF Established, Inv, EnteringLast
    <3>2. c \in Listed
      BY <1>0, <3>1 DEF Listed, ToSet, TypeOK, ListType
    <3>3. ctl[c] # "none"
      BY <3>2 DEF Inv, ListedCompatible
    <3> QED BY <1>0, <3>3, FirstConns
  <2> QED BY <1>4, <2>1, <2>2, <2>3, <2>4 DEF QuietStep, PeerReads
<1>5. ASSUME NEW c \in Conns, PeerReads(c) \/ Accept(c) \/ ServerReads(c)
      PROVE  QuietStep(c)
  BY <1>3, <1>5 DEF ServerReads, QuietStep
<1> QED BY <1>1, <1>2, <1>4, <1>5 DEF Next, QuietNext

LEMMA FirstTryStep ==
    ASSUME TypeOK, OffBeforeStart, FirstTry, QuietNext
    PROVE  FirstTry'
<1>0. /\ dial \in [Peers -> {"off", "dialling", "up", "dead"}]
      /\ dials \in [Peers -> 0 .. MaxDials]
      /\ swt \in [Conns -> {"none", "handshake", "running", "down"}]
      /\ ctl \in [Conns -> {"none", "handshake", "running", "down", "failed"}]
      /\ Own \subseteq Peers
  BY DEF TypeOK, PeersType, ServerType, Peers
<1> DEFINE Calls == \A p \in Own : dials[p] = 0 \/ (dials[p] = 1 /\ dial[p] = "up")
           Up == \A c \in Conns : ctl[c] # "down" /\ swt[c] # "down"
<1>1. ASSUME NEW c \in Conns, NEW s \in {"handshake", "running"},
             swt' = swt \/ swt' = [swt EXCEPT ![c] = s],
             ctl' = ctl \/ ctl' = [ctl EXCEPT ![c] = s]
      PROVE  Up'
  BY <1>0, <1>1 DEF FirstTry
<1>2. UNCHANGED <<dial, dials>> => Calls'
  BY DEF FirstTry
<1>3. ASSUME NEW c \in Conns, QuietStep(c)
      PROVE  Up' /\ UNCHANGED <<dial, dials>>
  <2>1. UNCHANGED <<dial, dials>>
    BY <1>3 DEF QuietStep, PeerReads, PeerHello, FeaturesRequested, Numbered,
       PortsRequested, Accept, QuietHello, FeaturesReply, PortsReply,
       Established, peers
  <2>2. \E s \in {"handshake", "running"} :
           /\ swt' = swt \/ swt' = [swt EXCEPT ![c] = s]
           /\ ctl' = ctl \/ ctl' = [ctl EXCEPT ![c] = s]
    BY <1>3 DEF QuietStep, PeerReads, PeerHello, FeaturesRequested, Numbered,
       PortsRequested, Accept, QuietHello, FeaturesReply, PortsReply,
       Established, Enlist, peers, server
  <2> QED BY <1>1, <2>1, <2>2
<1>4. ASSUME NEW p \in Own, Dial(p), dials[p] = 0
      PROVE  Calls' /\ Up'
  <2>1. /\ dials' = [dials EXCEPT ![p] = @ + 1] /\ dial' = [dial EXCEPT ![p] = "up"]
        /\ swt' = [swt EXCEPT ![<<p, dials'[p]>>] = "handshake"] /\ ctl' = ctl
    BY <1>4 DEF Dial, server
  <2>2. dials'[p] = 1 /\ dial'[p] = "up"
    BY <1>0, <1>4, <2>1
  <2>3. \A q \in Own \ {p} : dials'[q] = dials[q] /\ dial'[q] = dial[q]
    BY <1>0, <2>1
  <2>4. Calls'
    BY <2>2, <2>3 DEF FirstTry
  <2>5. Up'
    BY <1>0, <2>1 DEF FirstTry
  <2> QED BY <2>4, <2>5
<1>5. CASE MainStep
  <2>1. UNCHANGED <<dials, swt, ctl>>
    BY <1>5 DEF MainStep, CreateFactory, StartTestcase, Arm, StartSending,
       peers, server
  <2>2. \A p \in Own : dials[p] = 1 => dial'[p] = "up"
    <3>1. CASE StartTestcase
      <4>1. main = "factory"
        BY <3>1 DEF StartTestcase
      <4> QED BY <4>1 DEF OffBeforeStart
    <3>2. CASE ~StartTestcase
      BY <1>5, <3>2 DEF MainStep, CreateFactory, Arm, StartSending, peers, FirstTry
    <3> QED BY <3>1, <3>2
  <2> QED BY <2>1, <2>2 DEF FirstTry
<1>6. CASE SendFault \/ UNCHANGED vars
  BY <1>6 DEF SendFault, vars, peers, server, FirstTry
<1> QED BY <1>2, <1>3, <1>4, <1>5, <1>6 DEF QuietNext, FirstTry

\* What the steps on one connection do to the messages under way.
LEMMA AsksFacts ==
    ASSUME NEW u \in Seq(ToController), NEW d \in Seq(ToPeer), NEW s,
           Asks(u, d, s)
    PROVE  /\ \A x \in ToController : x # "hello" => Asks(Append(u, x), d, s)
           /\ \A x \in ToPeer : x # "features_request" => Asks(u, Append(d, x), s)
           /\ u # <<>> => Asks(Tail(u), d, s) /\ Without(Tail(u), {"hello"})
           /\ d # <<>> => Asks(u, Tail(d), s)
           /\ u # <<>> /\ Head(u) = "hello"
                 => Asks(Tail(u), Append(d, "features_request"), s)
           /\ d # <<>> /\ Head(d) = "features_request"
                 => s = "handshake" /\ Asks(u, Tail(d), "running")
<1>0. Len(u) \in Nat /\ Len(d) \in Nat
  OBVIOUS
<1>1. ASSUME NEW x \in ToController, x # "hello"
      PROVE  Asks(Append(u, x), d, s)
  <2> DEFINE v == Append(u, x)
  <2>1. /\ Len(v) = Len(u) + 1 /\ v[Len(u) + 1] = x
        /\ \A i \in 1 .. Len(u) : v[i] = u[i]
    BY AppendFacts
  <2>2. Without(u, {"hello"}) => Without(v, {"hello"})
    BY <1>1, WithoutFacts
  <2> HIDE DEF v
  <2>3. \A i \in 2 .. Len(v) : v[i] # "hello"
    <3>1. \A i \in 2 .. Len(v) : i \in 2 .. Len(u) \/ i = Len(u) + 1
      BY <1>0, <2>1
    <3>2. \A i \in 2 .. Len(u) : i \in 1 .. Len(u)
      BY <1>0
    <3> QED BY <1>1, <2>1, <3>1, <3>2 DEF Asks
  <2>4. Asks(v, d, s)
    BY <2>2, <2>3 DEF Asks
  <2> QED BY <2>4 DEF v
<1>2. ASSUME NEW x \in ToPeer, x # "features_request"
      PROVE  Asks(u, Append(d, x), s)
  <2> DEFINE e == Append(d, x)
  <2>1. /\ Len(e) = Len(d) + 1 /\ e[Len(d) + 1] = x
        /\ \A i \in 1 .. Len(d) : e[i] = d[i]
    BY AppendFacts
  <2>2. Without(d, {"features_request"}) => Without(e, {"features_request"})
    BY <1>2, WithoutFacts
  <2> HIDE DEF e
  <2>3. \A i \in 1 .. Len(e) : e[i] = "features_request"
                                  => i \in 1 .. Len(d) /\ d[i] = e[i]
    BY <1>0, <1>2, <2>1
  <2>4. Asks(u, e, s)
    BY <2>2, <2>3 DEF Asks
  <2> QED BY <2>4 DEF e
<1>3. ASSUME u # <<>>
      PROVE  /\ Asks(Tail(u), d, s) /\ Without(Tail(u), {"hello"})
             /\ Tail(u) \in Seq(ToController)
  <2> DEFINE v == Tail(u)
  <2>1. /\ v \in Seq(ToController) /\ Len(v) = Len(u) - 1
        /\ \A i \in 1 .. Len(v) : v[i] = u[i + 1]
    BY <1>3, TailFacts
  <2> HIDE DEF v
  <2>2. \A i \in 1 .. Len(v) : i + 1 \in 2 .. Len(u)
    BY <1>0, <2>1
  <2>3. \A i \in 1 .. Len(v) : v[i] # "hello"
    BY <2>1, <2>2 DEF Asks
  <2>4. \A i \in 2 .. Len(v) : i \in 1 .. Len(v)
    BY <1>0, <2>1
  <2>5. Without(v, {"hello"})
    BY <2>3 DEF Without
  <2>6. Asks(v, d, s)
    BY <2>3, <2>4, <2>5 DEF Asks
  <2> QED BY <2>1, <2>5, <2>6 DEF v
<1>4. ASSUME d # <<>>
      PROVE  /\ Asks(u, Tail(d), s)
             /\ Head(d) = "features_request"
                   => Without(Tail(d), {"features_request"})
  <2> DEFINE e == Tail(d)
  <2>1. /\ e \in Seq(ToPeer) /\ Len(e) = Len(d) - 1 /\ Head(d) = d[1]
        /\ \A i \in 1 .. Len(e) : e[i] = d[i + 1]
    BY <1>4, TailFacts
  <2>2. Without(d, {"features_request"}) => Without(e, {"features_request"})
    BY <1>4, WithoutFacts
  <2>3. Len(d) > 0
    BY <1>4, TailFacts
  <2> HIDE DEF e
  <2>4. \A i \in 1 .. Len(e) : i + 1 \in 1 .. Len(d) /\ i + 1 # 1
    BY <1>0, <2>1
  <2>5. ASSUME NEW i \in 1 .. Len(e), NEW j \in 1 .. Len(e),
               e[i] = "features_request", e[j] = "features_request"
        PROVE  i = j
    <3>1. i + 1 = j + 1
      BY <2>1, <2>4, <2>5 DEF Asks
    <3> QED BY <3>1
  <2>6. Asks(u, e, s)
    BY <2>2, <2>5 DEF Asks
  <2>7. ASSUME Head(d) = "features_request" PROVE Without(e, {"features_request"})
    <3>1. ASSUME NEW i \in 1 .. Len(e) PROVE e[i] # "features_request"
      <4>1. 1 \in 1 .. Len(d) /\ i + 1 \in 1 .. Len(d) /\ 1 # i + 1
        BY <1>0, <2>3, <2>4
      <4> QED BY <2>1, <2>7, <4>1 DEF Asks
    <3> QED BY <3>1 DEF Without
  <2> QED BY <2>6, <2>7 DEF e
<1>5. ASSUME u # <<>>, Head(u) = "hello"
      PROVE  Asks(Tail(u), Append(d, "features_request"), s)
  <2> DEFINE v == Tail(u)
             e == Append(d, "features_request")
  <2>1. Asks(v, d, s) /\ Without(v, {"hello"})
    BY <1>3, <1>5
  <2>2. ~Without(u, {"hello"})
    BY <1>5, WithoutFacts
  <2>3. s = "handshake" /\ Without(d, {"features_request"})
    BY <2>2 DEF Asks
  <2>4. /\ Len(e) = Len(d) + 1
        /\ \A i \in 1 .. Len(d) : e[i] = d[i]
    BY AppendFacts, Messages
  <2> HIDE DEF v, e
  <2>5. \A i \in 1 .. Len(e) : e[i] = "features_request" => i = Len(d) + 1
    <3>1. \A i \in 1 .. Len(e) : i \in 1 .. Len(d) \/ i = Len(d) + 1
      BY <1>0, <2>4
    <3> QED BY <2>3, <2>4, <3>1 DEF Without
  <2>6. Asks(v, e, s)
    BY <2>1, <2>3, <2>5 DEF Asks
  <2> QED BY <2>6 DEF v, e
<1>6. ASSUME d # <<>>, Head(d) = "features_request"
      PROVE  s = "handshake" /\ Asks(u, Tail(d), "running")
  <2>1. ~Without(d, {"features_request"})
    BY <1>6, WithoutFacts
  <2>2. s = "handshake" /\ Without(u, {"hello"})
    BY <2>1 DEF Asks
  <2>3. Asks(u, Tail(d), s) /\ Without(Tail(d), {"features_request"})
    BY <1>4, <1>6
  <2> QED BY <2>2, <2>3 DEF Asks
<1> QED BY <1>1, <1>2, <1>3, <1>4, <1>5, <1>6

\* A step that concerns one connection, on which the messages stay in order.
LEMMA AsksKept ==
    ASSUME AskedOnce, NEW c \in Conns,
           \A e \in Conns \ {c} :
              up'[e] = up[e] /\ down'[e] = down[e] /\ swt'[e] = swt[e],
           Asks(up'[c], down'[c], swt'[c])
    PROVE  AskedOnce'
BY DEF AskedOnce

LEMMA AskedStep ==
    ASSUME TypeOK, Fresh, AskedOnce, QuietNext
    PROVE  AskedOnce'
<1>0. /\ up \in [Conns -> Seq(ToController)] /\ down \in [Conns -> Seq(ToPeer)]
      /\ swt \in [Conns -> {"none", "handshake", "running", "down"}]
      /\ dials \in [Peers -> 0 .. MaxDials]
  BY DEF TypeOK, UpType, DownType, PeersType
<1>1. ASSUME NEW c \in Conns, QuietStep(c)
      PROVE  AskedOnce'
  <2>0. up[c] \in Seq(ToController) /\ down[c] \in Seq(ToPeer)
    BY <1>0
  <2>1. Asks(up[c], down[c], swt[c])
    BY DEF AskedOnce
  <2> DEFINE Others == \A e \in Conns \ {c} :
               up'[e] = up[e] /\ down'[e] = down[e] /\ swt'[e] = swt[e]
  <2>2. CASE PeerHello(c)
    <3>1. /\ up' = up /\ swt' = swt /\ down' = [down EXCEPT ![c] = Tail(@)]
          /\ down[c] # <<>>
      BY <2>2 DEF PeerHello, Reads, peers
    <3>2. Others /\ down'[c] = Tail(down[c])
      BY <1>0, <3>1
    <3> QED BY <2>0, <2>1, <3>1, <3>2, AsksFacts, AsksKept
  <2>3. CASE FeaturesRequested(c)
    <3>1. /\ swt' = [swt EXCEPT ![c] = "running"]
          /\ down' = [down EXCEPT ![c] = Tail(@)]
          /\ down[c] # <<>> /\ Head(down[c]) = "features_request"
          /\ up' = up \/ up' = [up EXCEPT ![c] = Append(@, "features_reply")]
      BY <2>3 DEF FeaturesRequested, Reads
    <3>2. /\ Others /\ down'[c] = Tail(down[c]) /\ swt'[c] = "running"
          /\ up'[c] = up[c] \/ up'[c] = Append(up[c], "features_reply")
      BY <1>0, <3>1
    <3>3. Asks(up[c], down'[c], swt'[c])
      BY <2>0, <2>1, <3>1, <3>2, AsksFacts
    <3>4. down'[c] \in Seq(ToPeer) /\ "features_reply" \in ToController
      BY <2>0, <3>1, <3>2, TailFacts, Messages
    <3>5. Asks(up'[c], down'[c], swt'[c])
      <4> DEFINE d == down'[c]
                 s == swt'[c]
      <4>1. d \in Seq(ToPeer) /\ Asks(up[c], d, s)
        BY <3>3, <3>4
      <4> HIDE DEF d, s
      <4>2. Asks(Append(up[c], "features_reply"), d, s)
        BY <2>0, <3>4, <4>1, AsksFacts
      <4> QED BY <3>2, <4>1, <4>2 DEF d, s
    <3> QED BY <3>2, <3>5, AsksKept
  <2>4. CASE Numbered(c)
    <3>1. /\ up' = [up EXCEPT ![c] = Append(@, "features_reply")]
          /\ UNCHANGED <<down, swt>>
      BY <2>4 DEF Numbered, peers
    <3>2. Others /\ up'[c] = Append(up[c], "features_reply")
      BY <1>0, <3>1
    <3> QED BY <2>0, <2>1, <3>1, <3>2, AsksFacts, AsksKept, Messages
  <2>5. CASE PortsRequested(c)
    <3>1. /\ up' = [up EXCEPT ![c] = Append(@, "ports_reply")] /\ swt' = swt
          /\ down' = [down EXCEPT ![c] = Tail(@)] /\ down[c] # <<>>
      BY <2>5 DEF PortsRequested, Reads, peers
    <3>2. Others /\ up'[c] = Append(up[c], "ports_reply") /\ down'[c] = Tail(down[c])
      BY <1>0, <3>1
    <3>3. Asks(up[c], down'[c], swt[c]) /\ down'[c] \in Seq(ToPeer)
      BY <2>0, <2>1, <3>1, <3>2, AsksFacts, TailFacts
    <3>4. Asks(Append(up[c], "ports_reply"), down'[c], swt[c])
      <4> DEFINE d == down'[c]
      <4>1. d \in Seq(ToPeer) /\ Asks(up[c], d, swt[c])
        BY <3>3
      <4> HIDE DEF d
      <4>2. Asks(Append(up[c], "ports_reply"), d, swt[c])
        BY <2>0, <4>1, AsksFacts, Messages
      <4> QED BY <4>2 DEF d
    <3> QED BY <3>1, <3>2, <3>4, AsksKept
  <2>6. CASE Accept(c)
    <3>1. down' = [down EXCEPT ![c] = Append(@, "hello")] /\ UNCHANGED <<up, swt>>
      BY <2>6 DEF Accept, peers
    <3>2. Others /\ down'[c] = Append(down[c], "hello")
      BY <1>0, <3>1
    <3> QED BY <2>0, <2>1, <3>1, <3>2, AsksFacts, AsksKept, Messages
  <2>7. CASE QuietHello(c)
    <3>1. /\ down' = [down EXCEPT ![c] = Append(@, "features_request")]
          /\ up' = [up EXCEPT ![c] = Tail(@)] /\ swt' = swt
          /\ up[c] # <<>> /\ Head(up[c]) = "hello"
      BY <2>7 DEF QuietHello, Receives, peers
    <3>2. /\ Others /\ up'[c] = Tail(up[c])
          /\ down'[c] = Append(down[c], "features_request")
      BY <1>0, <3>1
    <3> QED BY <2>0, <2>1, <3>1, <3>2, AsksFacts, AsksKept
  <2>8. CASE FeaturesReply(c) \/ PortsReply(c)
    <3>1. /\ up' = [up EXCEPT ![c] = Tail(@)] /\ swt' = swt /\ up[c] # <<>>
          /\ down' = down \/ down' = [down EXCEPT ![c] = Append(@, "ports_request")]
      BY <2>8 DEF FeaturesReply, PortsReply, Receives, peers
    <3>2. /\ Others /\ up'[c] = Tail(up[c])
          /\ down'[c] = down[c] \/ down'[c] = Append(down[c], "ports_request")
      BY <1>0, <3>1
    <3>3. Asks(up'[c], down[c], swt[c]) /\ up'[c] \in Seq(ToController)
      BY <2>0, <2>1, <3>1, <3>2, AsksFacts, TailFacts
    <3>4. Asks(up'[c], down'[c], swt[c])
      <4> DEFINE u == up'[c]
      <4>1. u \in Seq(ToController) /\ Asks(u, down[c], swt[c])
        BY <3>3
      <4> HIDE DEF u
      <4>2. Asks(u, Append(down[c], "ports_request"), swt[c])
        BY <2>0, <4>1, AsksFacts, Messages
      <4> QED BY <3>2, <4>1, <4>2 DEF u
    <3> QED BY <3>1, <3>2, <3>4, AsksKept
  <2>9. CASE Established(c)
    BY <2>9 DEF Established, peers, wires, AskedOnce
  <2> QED
    BY <1>1, <2>2, <2>3, <2>4, <2>5, <2>6, <2>7, <2>8, <2>9
       DEF QuietStep, PeerReads
<1>2. ASSUME NEW p \in Own, Dial(p), dials[p] = 0
      PROVE  AskedOnce'
  <2> DEFINE c == <<p, 1>>
  <2>1. /\ p \in Peers /\ c \in Conns /\ c[1] = p /\ c[2] = 1
    BY HandshakeAssumption DEF Peers, Conns
  <2>2. dials' = [dials EXCEPT ![p] = @ + 1] /\ dials'[p] = 1
    BY <1>0, <1>2, <2>1 DEF Dial
  <2>3. /\ up' = [up EXCEPT ![c] = Append(@, "hello")] /\ down' = down
        /\ swt' = [swt EXCEPT ![c] = "handshake"]
    BY <1>2, <2>2 DEF Dial
  <2>4. up[c] = <<>> /\ down[c] = <<>>
    BY <1>2, <2>1 DEF Fresh
  <2> HIDE DEF c
  <2>5. /\ \A e \in Conns \ {c} :
              up'[e] = up[e] /\ down'[e] = down[e] /\ swt'[e] = swt[e]
        /\ up'[c] = Append(<<>>, "hello") /\ down'[c] = <<>>
        /\ swt'[c] = "handshake"
    BY <1>0, <2>1, <2>3, <2>4
  <2>6. Asks(Append(<<>>, "hello"), <<>>, "handshake")
    BY DEF Asks, Without
  <2> QED BY <2>1, <2>5, <2>6, AsksKept
<1>3. CASE MainStep \/ SendFault \/ UNCHANGED vars
  <2>1. UNCHANGED <<up, down, swt>>
    BY <1>3 DEF MainStep, CreateFactory, StartTestcase, Arm, StartSending,
       SendFault, vars, peers, wires
  <2> QED BY <2>1 DEF AskedOnce
<1> QED BY <1>1, <1>2, <1>3 DEF QuietNext

\* The testcase compares the length of the list with the number of switches:
\* as many connections as switches, all of them first connections, are those
\* of all switches.
LEMMA EverySwitchListed ==
    ASSUME Inv, Undisturbed, FirstTry, Len(conns) = NumSwitches
    PROVE  \A p \in Own : <<p, 1>> \in Listed
<1> DEFINE n == Len(conns)
           f == [i \in 1 .. n |-> conns[i][1]]
<1>1. conns \in Seq(Conns) /\ n \in Nat /\ DOMAIN conns = 1 .. n
  BY DEF Inv, TypeOK, ListType
<1>2. ASSUME NEW i \in 1 .. n
      PROVE  conns[i] \in Listed /\ conns[i][1] \in Own /\ conns[i] = <<conns[i][1], 1>>
  <2>1. conns[i] \in Conns /\ conns[i] \in Listed
    BY <1>1 DEF Listed, ToSet
  <2>2. ctl[conns[i]] # "none"
    BY <2>1 DEF Inv, ListedCompatible
  <2> QED BY <2>1, <2>2, FirstConns DEF Inv
<1>3. IsInjective(conns)
  BY DEF Inv, ListedCompatible
<1>4. f \in Injection(1 .. n, Own)
  <2>1. f \in [1 .. n -> Own]
    BY <1>2
  <2>2. ASSUME NEW i \in 1 .. n, NEW j \in 1 .. n, f[i] = f[j]
        PROVE  i = j
    <3>1. conns[i] = conns[j]
      BY <1>2, <2>2
    <3> QED BY <1>1, <1>3, <3>1 DEF IsInjective
  <2>3. IsInjective(f)
    BY <2>2 DEF IsInjective
  <2> QED BY <2>1, <2>3 DEF Injection
<1>5. IsFiniteSet(1 .. n) /\ Cardinality(1 .. n) = n
  <2>0. n \in Nat /\ n \in Int /\ 1 \in Int
    BY <1>1
  <2> HIDE DEF n
  <2>1. /\ IsFiniteSet(1 .. n)
        /\ Cardinality(1 .. n) = IF 1 > n THEN 0 ELSE n - 1 + 1
    BY <2>0, FS_Interval
  <2> QED BY <2>0, <2>1
<1>6. Cardinality(1 .. n) = Cardinality(Own)
  BY <1>5 DEF NumSwitches
<1>7. f \in Surjection(1 .. n, Own)
  <2> HIDE DEF f, n
  <2> QED BY <1>4, <1>6, FS_Injection, HandshakeAssumption
<1>8. ASSUME NEW p \in Own PROVE <<p, 1>> \in Listed
  <2>1. PICK i \in 1 .. n : f[i] = p
    BY <1>7 DEF Surjection
  <2>2. conns[i] = <<p, 1>> /\ conns[i] \in Listed
    BY <1>2, <2>1
  <2> QED BY <2>2
<1> HIDE DEF f, n
<1> QED BY <1>8, Zenon

LEMMA ListedStep ==
    ASSUME Inv, Undisturbed, FirstTry, AllListed, QuietNext
    PROVE  AllListed'
<1>1. UNCHANGED <<connected, conns, entering>> => AllListed'
  BY DEF AllListed, Listed
<1>2. ASSUME NEW c \in Conns, c[1] \in Own, c = <<c[1], 1>>,
             FeaturesReply(c) \/ PortsReply(c)
      PROVE  AllListed'
  <2>1. connected' = connected
    BY <1>2 DEF FeaturesReply, PortsReply, outcome
  <2>2. ctl[c] \notin {"running", "down"}
    BY <1>2 DEF FeaturesReply, PortsReply, Receives
  <2>3. c \notin Listed
    BY <2>2 DEF Inv, ListedCompatible
  <2>4. ~connected
    BY <1>2, <2>3 DEF AllListed
  <2> QED BY <2>1, <2>4 DEF AllListed
<1>3. ASSUME NEW c \in Conns, Established(c)
      PROVE  AllListed'
  <2>1. /\ conns' = conns /\ entering' = {} /\ entering = {c}
        /\ connected' = (connected \/ Len(conns) = NumSwitches)
    BY <1>3 DEF Established
  <2>2. ~connected
    BY <2>1 DEF AllListed
  <2>3. ASSUME connected' PROVE \A p \in Own : <<p, 1>> \in Listed
    <3>1. Len(conns) = NumSwitches
      BY <2>1, <2>2, <2>3
    <3> QED BY <3>1, EverySwitchListed, Zenon
  <2> QED BY <2>1, <2>3 DEF AllListed, Listed
<1>4. ASSUME NEW c \in Conns, PeerReads(c) \/ Accept(c) \/ QuietHello(c)
      PROVE  UNCHANGED <<connected, conns, entering>>
  BY <1>4 DEF PeerReads, PeerHello, FeaturesRequested, Numbered, PortsRequested,
     Accept, QuietHello, outcome
<1>5. ASSUME MainStep \/ SendFault \/ UNCHANGED vars \/ \E p \in Own : Dial(p)
      PROVE  UNCHANGED <<connected, conns, entering>>
  BY <1>5 DEF MainStep, CreateFactory, StartTestcase, Arm, StartSending,
     SendFault, vars, Dial, outcome
<1> QED BY <1>1, <1>2, <1>3, <1>4, <1>5 DEF QuietNext, QuietStep

\* Whether Unnumbered asks for no number of connection d.
Waiting(d) ==
    /\ switchSender \/ main \in {"listening", "factory"}
    /\ d[1] \in Own /\ (swt[d] \in {"none", "handshake"} \/ d[1] \in numbering)

LEMMA UnnumberedStep ==
    ASSUME Inv, Undisturbed, FirstTry, AskedOnce, Unnumbered, QuietNext
    PROVE  Unnumbered'
<1>0. /\ TypeOK /\ Fresh /\ dials \in [Peers -> 0 .. MaxDials]
      /\ swt \in [Conns -> {"none", "handshake", "running", "down"}]
      /\ index \in [Conns -> SUBSET Nat]
  BY DEF Inv, TypeOK, PeersType, NumbersType
<1>1. SUFFICES ASSUME NEW d \in Conns, Waiting(d)'
               PROVE  index'[d] = {}
  BY DEF Unnumbered, Waiting
<1>2. Waiting(d) => index[d] = {}
  BY DEF Unnumbered, Waiting
<1>3. UNCHANGED <<setup, swt, numbers>> => index'[d] = {}
  BY <1>1, <1>2 DEF Waiting, setup, numbers
<1>4. ASSUME NEW c \in Conns, c[1] \in Own, c = <<c[1], 1>>, dials[c[1]] = 1,
             FeaturesRequested(c)
      PROVE  index'[d] = {}
  <2>1. /\ swt' = [swt EXCEPT ![c] = "running"]
        /\ numbering' \subseteq numbering \union {c[1]}
        /\ UNCHANGED <<setup, index>>
        /\ down[c] # <<>> /\ Head(down[c]) = "features_request"
    BY <1>4 DEF FeaturesRequested, Reads
  <2>2. swt[c] = "handshake"
    <3>1. up[c] \in Seq(ToController) /\ down[c] \in Seq(ToPeer)
      BY <1>0 DEF TypeOK, UpType, DownType
    <3>2. Asks(up[c], down[c], swt[c])
      BY DEF AskedOnce
    <3> QED BY <2>1, <3>1, <3>2, AsksFacts
  <2>3. d[1] = c[1] => d = c \/ swt[d] = "none"
    BY <1>0, <1>4, FirstConns
  <2>4. swt'[d] \in {"none", "handshake"} => swt[d] \in {"none", "handshake"}
    BY <1>0, <2>1, <2>2
  <2>5. Waiting(d)
    BY <1>1, <2>1, <2>2, <2>3, <2>4 DEF Waiting, setup
  <2> QED BY <1>2, <2>1, <2>5
<1>5. ASSUME NEW c \in Conns, c[1] \in Own, c = <<c[1], 1>>, dials[c[1]] = 1,
             Numbered(c)
      PROVE  index'[d] = {}
  <2>1. /\ c[1] \in numbering /\ numbering' = numbering \ {c[1]}
        /\ index' = [index EXCEPT ![c] = {rows - 1}]
        /\ UNCHANGED <<setup, swt>>
    BY <1>5 DEF Numbered, peers
  <2>2. swt[c] = "running"
    BY <1>5, <2>1 DEF Inv, NumberingUp
  <2>3. d # c
    BY <1>1, <2>1, <2>2 DEF Waiting
  <2>4. Waiting(d)
    BY <1>1, <2>1 DEF Waiting, setup
  <2> QED BY <1>0, <1>2, <2>1, <2>3, <2>4
<1>6. ASSUME NEW c \in Conns, c[1] \in Own, dials[c[1]] = 1, Established(c)
      PROVE  index'[d] = {}
  <2>1. UNCHANGED <<setup, swt>> /\ (switchSender => UNCHANGED numbers)
    BY <1>6 DEF Established, peers
  <2>2. main \notin {"listening", "factory"}
    BY <1>6 DEF Inv, OffBeforeStart
  <2>3. switchSender
    BY <1>1, <2>1, <2>2 DEF Waiting, setup
  <2> QED BY <1>3, <2>1, <2>3
<1>7. ASSUME NEW p \in Own, Dial(p), dials[p] = 0
      PROVE  index'[d] = {}
  <2> DEFINE c == <<p, 1>>
  <2>1. p \in Peers /\ c \in Conns /\ c[1] = p /\ c[2] = 1
    BY HandshakeAssumption DEF Peers, Conns
  <2>2. dials' = [dials EXCEPT ![p] = @ + 1] /\ dials'[p] = 1
    BY <1>0, <1>7, <2>1 DEF Dial
  <2>3. swt' = [swt EXCEPT ![c] = "handshake"] /\ UNCHANGED <<setup, numbers>>
    BY <1>7, <2>2 DEF Dial
  <2>4. swt[c] = "none"
    BY <1>0, <1>7, <2>1 DEF Fresh
  <2> HIDE DEF c
  <2>5. Waiting(d)
    BY <1>0, <1>1, <2>1, <2>3, <2>4 DEF Waiting, setup, numbers
  <2> QED BY <1>2, <2>3, <2>5 DEF numbers
<1>8. CASE MainStep
  <2>1. UNCHANGED <<swt, numbers>>
    BY <1>8 DEF MainStep, CreateFactory, StartTestcase, Arm, StartSending, peers
  <2>2. Waiting(d)
    BY <1>1, <1>8, <2>1 DEF MainStep, CreateFactory, StartTestcase, Arm,
       StartSending, Waiting, setup, numbers
  <2> QED BY <1>2, <2>1, <2>2 DEF numbers
<1>9. ASSUME NEW c \in Conns,
             \/ PeerHello(c) \/ PortsRequested(c) \/ Accept(c) \/ QuietHello(c)
             \/ FeaturesReply(c) \/ PortsReply(c)
      PROVE  UNCHANGED <<setup, swt, numbers>>
  BY <1>9 DEF PeerHello, PortsRequested, Accept, QuietHello, FeaturesReply,
     PortsReply, peers
<1>10. ASSUME SendFault \/ UNCHANGED vars
       PROVE  UNCHANGED <<setup, swt, numbers>>
  BY <1>10 DEF SendFault, vars, peers
<1> QED
  BY <1>3, <1>4, <1>5, <1>6, <1>7, <1>8, <1>9, <1>10
     DEF QuietNext, QuietStep, PeerReads

\* The dispatcher finds the row of every connection it walks.
LEMMA RowsFound ==
    ASSUME Inv, RowsPushed, SenderSet, Undisturbed, FirstTry, Unnumbered,
           AllListed, SendsConnected, sending
    PROVE  \A c \in Walked : Usable(c)
<1>0. /\ TypeOK /\ Fresh /\ main = "armed" /\ entering = {}
      /\ \A p \in Own : <<p, 1>> \in Listed
      /\ conns \in Seq(Conns) /\ Listed \subseteq Conns
      /\ index \in [Conns -> SUBSET Nat] /\ rows \in Nat /\ tables \in Nat
      /\ numbering \subseteq Own
  BY DEF SendsConnected, AllListed, Inv, TypeOK, ListType, NumbersType, Listed, ToSet
<1>1. CASE switchSender
  <2>1. ASSUME NEW p \in Own
        PROVE  /\ <<p, 1>> \in Conns /\ dials[p] = 1
               /\ \E i \in index[<<p, 1>>] : i < rows
    <3> DEFINE c == <<p, 1>>
    <3>1. c \in Conns /\ c \in Listed /\ c[1] = p
      BY <1>0
    <3> HIDE DEF c
    <3>2. Ready(c)
      BY <3>1 DEF Inv, SwitchFirst
    <3>3. swt[c] # "none" /\ \E i \in index[c] : i < rows
      BY <1>1, <3>1, <3>2 DEF Ready
    <3>4. dials[p] = 1
      BY <1>0, <3>1, <3>3, FirstConns
    <3> QED BY <3>1, <3>3, <3>4 DEF c
  <2>2. numbering = {}
    <3>1. ASSUME NEW p \in numbering PROVE FALSE
      <4>1. p \in Own /\ <<p, 1>> \in Conns /\ <<p, 1>>[1] = p
        BY <1>0, <2>1
      <4>2. index[<<p, 1>>] = {}
        BY <1>1, <4>1 DEF Unnumbered
      <4> QED BY <2>1, <4>1, <4>2
    <3> QED BY <3>1
  <2>3. rows = tables
    BY <1>0, <2>2, FS_EmptySet DEF RowsPushed
  <2> QED BY <1>1, <2>1, <2>3 DEF Walked, Usable
<1>2. CASE ~switchSender
  <2>1. testcase = "FlowModSandwich"
    BY <1>0, <1>2 DEF SenderSet, TypeOK, SetupType
  <2>2. ASSUME NEW c \in Listed PROVE Usable(c)
    <3>1. PICK i \in 1 .. Len(conns) : c = conns[i]
      BY <1>0 DEF Listed, ToSet
    <3>2. index[c] = {i - 1} /\ i <= tables /\ i \in Nat
      BY <1>0, <2>1, <3>1 DEF Inv, NumberIsPlace
    <3>3. i - 1 < tables
      BY <1>0, <3>2
    <3> QED BY <1>0, <3>2, <3>3 DEF Usable
  <2> QED BY <1>2, <2>2 DEF Walked
<1> QED BY <1>1, <1>2

LEMMA OutcomeStep ==
    ASSUME Inv, RowsPushed, SenderSet, Undisturbed, Quiet, QuietNext
    PROVE  ~crashed' /\ ~failed' /\ SendsConnected'
<1> USE DEF Quiet
<1>1. CASE MainStep
  BY <1>1 DEF MainStep, CreateFactory, StartTestcase, Arm, StartSending,
     SendsConnected, outcome, setup
<1>2. CASE SendFault
  BY <1>2, RowsFound DEF SendFault
<1>3. ASSUME NEW c \in Conns, c[1] \in Own, dials[c[1]] = 1, Established(c)
      PROVE  ~crashed' /\ ~failed' /\ SendsConnected'
  <2>1. main # "listening"
    BY <1>3 DEF Inv, OffBeforeStart
  <2> QED BY <1>3, <2>1 DEF Established, SendsConnected, setup
<1>4. ASSUME NEW c \in Conns,
             PeerReads(c) \/ Accept(c) \/ QuietHello(c) \/ FeaturesReply(c)
             \/ PortsReply(c)
      PROVE  UNCHANGED <<setup, outcome>>
  BY <1>4 DEF PeerReads, PeerHello, FeaturesRequested, Numbered, PortsRequested,
     Accept, QuietHello, FeaturesReply, PortsReply
<1>5. ASSUME UNCHANGED vars \/ \E p \in Own : Dial(p)
      PROVE  UNCHANGED <<setup, outcome>>
  BY <1>5 DEF vars, Dial
<1>6. UNCHANGED <<setup, outcome>> => ~crashed' /\ ~failed' /\ SendsConnected'
  BY DEF SendsConnected, setup, outcome
<1> QED BY <1>1, <1>2, <1>3, <1>4, <1>5, <1>6 DEF QuietNext, QuietStep

LEMMA WholeStep == Inv /\ WholeInv /\ [Next]_vars => WholeInv'
<1> SUFFICES ASSUME Inv, WholeInv, [Next]_vars PROVE WholeInv'
  OBVIOUS
<1>1. RowsPushed' /\ SenderSet'
  BY RowsStep, SenderStep DEF Inv, WholeInv
<1>2. ASSUME Undisturbed' PROVE Quiet'
  <2>1. Undisturbed /\ Quiet
    BY <1>2, UndisturbedBefore DEF Inv, WholeInv
  <2>2. QuietNext
    BY <1>2, <2>1, QuietOnly DEF Quiet
  <2>3. FirstTry' /\ AskedOnce'
    BY <2>1, <2>2, FirstTryStep, AskedStep DEF Inv, Quiet
  <2>4. Unnumbered' /\ AllListed'
    BY <2>1, <2>2, UnnumberedStep, ListedStep DEF Quiet
  <2>5. ~crashed' /\ ~failed' /\ SendsConnected'
    BY <2>1, <2>2, OutcomeStep DEF WholeInv
  <2> QED BY <2>3, <2>4, <2>5 DEF Quiet
<1> QED BY <1>1, <1>2 DEF WholeInv

LEMMA InitWhole == Init => WholeInv
<1> SUFFICES ASSUME Init PROVE WholeInv
  OBVIOUS
<1>1. RowsPushed /\ SenderSet
  BY FS_EmptySet DEF Init, RowsPushed, SenderSet
<1>2. AskedOnce
  BY DEF Init, AskedOnce, Asks, Without
<1>3. FirstTry /\ Unnumbered /\ AllListed /\ SendsConnected
  BY DEF Init, FirstTry, Unnumbered, AllListed, SendsConnected, Peers
<1>4. ~crashed /\ ~failed
  BY DEF Init
<1> QED BY <1>1, <1>2, <1>3, <1>4 DEF WholeInv, Quiet

\* As long as every switch made one connection, which was kept, and no other
\* peer connected, the comparison of lengths in ctrl_conn_established means
\* what it is for: a connected tenant has every switch on the line, nothing is
\* used before it exists, and the dispatcher finds the tables of each switch,
\* whichever way the switches' numberings overlap.
THEOREM ConnectedIsWhole == Spec => []ConnectedWhole
<1>1. Inv /\ WholeInv => ConnectedWhole
  <2> SUFFICES ASSUME Inv, WholeInv, Undisturbed
               PROVE  /\ ~crashed /\ ~failed
                      /\ connected => \A p \in Own : ctl[<<p, 1>>] = "running"
                      /\ sending => \A c \in Walked : Usable(c)
    BY DEF ConnectedWhole
  <2>1. Quiet
    BY DEF WholeInv
  <2>2. ASSUME connected, NEW p \in Own PROVE ctl[<<p, 1>>] = "running"
    <3>1. <<p, 1>> \in Listed
      BY <2>1, <2>2 DEF Quiet, AllListed
    <3>2. ctl[<<p, 1>>] \in {"running", "down"}
      BY <3>1 DEF Inv, ListedCompatible
    <3>3. <<p, 1>> \in Conns
      BY <2>2, HandshakeAssumption DEF Conns, Peers
    <3> QED BY <2>1, <3>2, <3>3 DEF Quiet, FirstTry
  <2>3. sending => \A c \in Walked : Usable(c)
    BY <2>1, RowsFound DEF Quiet, WholeInv
  <2> QED BY <2>1, <2>2, <2>3 DEF Quiet
<1>2. Spec => []WholeInv
  BY InitWhole, InvHolds, WholeStep, PTL DEF Spec
<1> QED BY <1>1, <1>2, InvHolds, PTL


=============================================================================
