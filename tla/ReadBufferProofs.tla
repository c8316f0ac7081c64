--------------------------- MODULE ReadBufferProofs ---------------------------
(***************************************************************************)
(* What ReadBuffer guarantees for every length of a header and of messages *)
(* and every cutting of the stream: types, a read length that is never 0   *)
(* while a message is incomplete, one owner for every block, and that the  *)
(* messages handed over are those of MessageStream.                        *)
(***************************************************************************)
EXTENDS ReadBuffer, SequenceTheorems, TLAPS

\* Bytes of messages that were sent.
Sent == (1 .. Len(lengths)) \X Nat

\* Whatever is on its way or in a buffer was sent.
BytesSent ==
    /\ lengths \in Seq(Lengths)
    /\ wire \in Seq(Sent) /\ input \in Seq(Sent)
    /\ header \in Seq(Sent) /\ data \in Seq(Sent)

\* Before the header is complete there is no message; afterwards the
\* message is longer than what was read of it.
Unfinished ==
    /\ init \in BOOLEAN
    /\ ~init => len = 0 /\ data = <<>> /\ Len(header) < HeaderLen
    /\ init => len \in Lengths /\ Len(data) < len

\* The buffer holds a block exactly between the end of the header and the
\* end of the message, and none once it is deleted.
BlockHeld ==
    /\ blocks \in Nat /\ block \in 0 .. blocks
    /\ link \in {"up", "down", "closed"} /\ reading \in BOOLEAN
    /\ link # "closed" => (init <=> block # 0)
    /\ link = "closed" => ~reading /\ block = 0

Inv == BytesSent /\ Unfinished /\ BlockHeld /\ OneOwner

-----------------------------------------------------------------------------
(* Sequences of bytes.                                                     *)

\* A sequence cut in two.
LEMMA Cut ==
    ASSUME NEW S, NEW s \in Seq(S), NEW k \in 0 .. Len(s)
    PROVE  /\ SubSeq(s, 1, k) \in Seq(S) /\ Len(SubSeq(s, 1, k)) = k
           /\ SubSeq(s, k + 1, Len(s)) \in Seq(S)
<1>1. Len(s) \in Nat /\ k \in Nat /\ k <= Len(s)
  BY LenProperties
<1>2. /\ SubSeq(s, 1, k) \in Seq(S)
      /\ Len(SubSeq(s, 1, k)) = IF 1 <= k THEN k - 1 + 1 ELSE 0
  BY <1>1, SubSeqProperties
<1>3. SubSeq(s, k + 1, Len(s)) \in Seq(S)
  BY <1>1, SubSeqProperties
<1> QED
  BY <1>1, <1>2, <1>3

\* More messages, same bytes.
LEMMA SeqWider ==
    ASSUME NEW S, NEW T, S \subseteq T, NEW s \in Seq(S)
    PROVE  s \in Seq(T)
<1>1. Len(s) \in Nat /\ s \in [1 .. Len(s) -> S]
  BY LenProperties
<1>2. s \in [1 .. Len(s) -> T]
  BY <1>1
<1> QED
  BY <1>1, <1>2

\* What one read gives, and what it leaves.
LEMMA ReadTakes ==
    ASSUME Inv
    PROVE  /\ ReadLen \in Nat \ {0}
           /\ Chunk \in Seq(Sent) /\ Len(Chunk) \in Nat /\ Len(Chunk) <= ReadLen
           /\ SubSeq(input, Len(Chunk) + 1, Len(input)) \in Seq(Sent)
<1>1. /\ HeaderLen \in Nat \ {0} /\ Lengths \subseteq Nat
      /\ input \in Seq(Sent) /\ Len(input) \in Nat
      /\ header \in Seq(Sent) /\ Len(header) \in Nat
      /\ data \in Seq(Sent) /\ Len(data) \in Nat
  BY ReadBufferAssumption, LenProperties DEF Inv, BytesSent
<1>2. ReadLen \in Nat \ {0}
  <2>1. CASE init
    <3>1. len \in Nat /\ Len(data) < len
      BY <1>1, <2>1 DEF Inv, Unfinished
    <3>2. ReadLen = len - Len(data)
      BY <2>1 DEF ReadLen
    <3> QED
      BY <1>1, <3>1, <3>2
  <2>2. CASE ~init
    <3>1. Len(header) < HeaderLen
      BY <2>2 DEF Inv, Unfinished
    <3>2. ReadLen = HeaderLen - Len(header)
      BY <2>2 DEF ReadLen
    <3> QED
      BY <1>1, <3>1, <3>2
  <2> QED
    BY <2>1, <2>2
<1> DEFINE k == IF ReadLen < Len(input) THEN ReadLen ELSE Len(input)
<1>3. k \in 0 .. Len(input) /\ k <= ReadLen
  BY <1>1, <1>2
<1>4. Chunk = SubSeq(input, 1, k)
  BY DEF Chunk
<1> HIDE DEF k
<1>5. Chunk \in Seq(Sent) /\ Len(Chunk) = k
  BY <1>1, <1>3, <1>4, Cut
<1>6. SubSeq(input, Len(Chunk) + 1, Len(input)) \in Seq(Sent)
  BY <1>1, <1>3, <1>5, Cut
<1> QED
  BY <1>2, <1>3, <1>5, <1>6

\* An empty header is incomplete.
LEMMA EmptyHeader == Len(<<>>) < HeaderLen
<1>1. HeaderLen \in Nat \ {0} /\ Len(<<>>) = 0
  BY ReadBufferAssumption
<1> QED
  BY <1>1

-----------------------------------------------------------------------------
(* The initial states and the steps.                                       *)

LEMMA Initially == Init => Inv
<1> SUFFICES ASSUME Init PROVE Inv
  OBVIOUS
<1>1. BytesSent
  BY DEF Init, BytesSent
<1>2. Unfinished
  BY EmptyHeader DEF Init, Unfinished
<1>3. BlockHeld
  <2>1. blocks \in Nat /\ block \in 0 .. blocks
    BY DEF Init
  <2>2. block = 0 /\ init = FALSE /\ link = "up" /\ reading = FALSE
    BY DEF Init
  <2> QED
    BY <2>1, <2>2, Zenon DEF BlockHeld
<1>4. OneOwner
  <2>1. 1 .. 0 = {}
    OBVIOUS
  <2> QED
    BY <2>1 DEF Init, OneOwner
<1> QED
  BY <1>1, <1>2, <1>3, <1>4 DEF Inv

LEMMA PeerSafe ==
    ASSUME Inv, NEW n \in Lengths, SendMessage(n)
    PROVE  Inv'
<1> USE DEF SendMessage
<1>1. lengths \in Seq(Lengths) /\ Len(lengths) \in Nat /\ n \in Nat
  BY ReadBufferAssumption, LenProperties DEF Inv, BytesSent
<1>2. lengths' \in Seq(Lengths) /\ Len(lengths') = Len(lengths) + 1
  BY <1>1, AppendProperties
<1>3. Sent \subseteq Sent'
  BY <1>1, <1>2 DEF Sent
<1>4. Body(Len(lengths) + 1, n) \in Seq(Sent')
  <2>1. Body(Len(lengths) + 1, n) \in [1 .. n -> Sent']
    BY <1>1, <1>2 DEF Body, Sent
  <2> QED
    BY <1>1, <2>1
<1>5. wire' \in Seq(Sent')
  <2>1. wire \in Seq(Sent')
    BY <1>3, SeqWider DEF Inv, BytesSent
  <2> QED
    BY <1>4, <2>1, ConcatProperties
<1>6. BytesSent'
  <2>1. input \in Seq(Sent') /\ header \in Seq(Sent') /\ data \in Seq(Sent')
    BY <1>3, SeqWider DEF Inv, BytesSent
  <2> QED
    BY <1>2, <1>5, <2>1 DEF BytesSent, buffer
<1>7. Unfinished' /\ BlockHeld' /\ OneOwner'
  BY DEF Inv, Unfinished, BlockHeld, OneOwner, buffer, heap
<1> QED
  BY <1>6, <1>7 DEF Inv

LEMMA ArriveSafe ==
    ASSUME Inv, NEW k \in 1 .. Len(wire), Arrive(k)
    PROVE  Inv'
<1> USE DEF Arrive
<1>1. wire \in Seq(Sent) /\ Len(wire) \in Nat /\ input \in Seq(Sent)
  BY LenProperties DEF Inv, BytesSent
<1>2. /\ k \in 0 .. Len(wire) /\ Sent' = Sent
  BY <1>1 DEF Sent
<1>3. /\ SubSeq(wire, 1, k) \in Seq(Sent)
      /\ SubSeq(wire, k + 1, Len(wire)) \in Seq(Sent)
  BY <1>1, <1>2, Cut
<1>4. input' \in Seq(Sent)
  BY <1>1, <1>3, ConcatProperties
<1>5. BytesSent'
  BY <1>2, <1>3, <1>4 DEF Inv, BytesSent, buffer
<1>6. Unfinished' /\ BlockHeld' /\ OneOwner'
  BY DEF Inv, Unfinished, BlockHeld, OneOwner, buffer, heap
<1> QED
  BY <1>5, <1>6 DEF Inv

\* The message is complete and its block is handed over.
LEMMA DispatchSafe ==
    ASSUME Inv, NEW message, NEW b, Dispatch(message, b),
           lengths' = lengths, wire' = wire, input' \in Seq(Sent),
           link' = link, link # "closed", reading' = reading,
           \/ b = block /\ block # 0 /\ blocks' = blocks
           \/ b = blocks + 1 /\ block = 0 /\ blocks' = b
    PROVE  Inv'
<1> USE DEF Dispatch, Clear
<1>1. BytesSent'
  BY DEF Inv, BytesSent, Sent
<1>2. Unfinished'
  BY EmptyHeader DEF Unfinished
<1>3. BlockHeld'
  BY DEF Inv, BlockHeld
<1>4. OneOwner'
  BY DEF Inv, BlockHeld, OneOwner
<1> QED
  BY <1>1, <1>2, <1>3, <1>4 DEF Inv

LEMMA ReadHeaderSafe ==
    ASSUME Inv, ReadHeader
    PROVE  Inv'
<1> USE DEF ReadHeader
<1>1. header \o Chunk \in Seq(Sent) /\ Sent' = Sent
  BY ReadTakes, ConcatProperties DEF Inv, BytesSent, Sent, network
<1>2. BytesSent'
  BY <1>1, ReadTakes DEF Inv, BytesSent, Take, network
<1>3. Unfinished'
  BY DEF Inv, Unfinished
<1>4. BlockHeld' /\ OneOwner'
  BY DEF Inv, BlockHeld, OneOwner, Keep
<1> QED
  BY <1>2, <1>3, <1>4 DEF Inv

LEMMA FinishHeaderSafe ==
    ASSUME Inv, FinishHeader
    PROVE  Inv'
<1> DEFINE h == header \o Chunk
<1>1. /\ reading /\ ~init /\ Len(h) = HeaderLen
      /\ input' = SubSeq(input, Len(Chunk) + 1, Len(input))
      /\ blocks' = blocks + 1
      /\ UNCHANGED <<network, link, reading>>
  BY DEF FinishHeader, Reads, Take
<1>2. PICK n \in LengthField(h) :
         IF n = HeaderLen THEN Dispatch(h, blocks')
         ELSE /\ header' = h /\ init' = TRUE /\ len' = n
              /\ data' = h /\ block' = blocks'
              /\ Keep
  BY DEF FinishHeader
<1>3. h \in Seq(Sent) /\ Sent' = Sent /\ input' \in Seq(Sent)
  BY <1>1, ReadTakes, ConcatProperties DEF Inv, BytesSent, Sent, network
<1>4. n \in Lengths
  <2>1. h[LengthByte] \in Sent
    BY <1>1, <1>3, ReadBufferAssumption, ElementOfSeq
  <2>2. h[LengthByte][1] \in 1 .. Len(lengths)
    BY <2>1 DEF Sent
  <2>3. lengths[h[LengthByte][1]] \in Lengths
    BY <2>2, ElementOfSeq DEF Inv, BytesSent
  <2> HIDE DEF h
  <2> QED
    BY <2>3 DEF LengthField
<1>5. block = 0 /\ blocks \in Nat /\ link # "closed"
  BY <1>1 DEF Inv, BlockHeld
<1> HIDE DEF h
<1>6. CASE n = HeaderLen
  BY <1>1, <1>2, <1>3, <1>5, <1>6, DispatchSafe DEF network
<1>7. CASE n # HeaderLen
  <2>1. n > HeaderLen
    BY <1>4, <1>7, ReadBufferAssumption
  <2>2. BytesSent'
    BY <1>1, <1>2, <1>3, <1>7 DEF Inv, BytesSent, network
  <2>3. Unfinished'
    BY <1>1, <1>2, <1>4, <1>7, <2>1 DEF Unfinished
  <2>4. BlockHeld'
    BY <1>1, <1>2, <1>5, <1>7 DEF Inv, BlockHeld
  <2>5. OneOwner'
    BY <1>1, <1>2, <1>5, <1>7 DEF Inv, OneOwner, Keep
  <2> QED
    BY <2>2, <2>3, <2>4, <2>5 DEF Inv
<1> QED
  BY <1>6, <1>7

LEMMA ReadBodySafe ==
    ASSUME Inv, ReadBody
    PROVE  Inv'
<1> DEFINE d == data \o Chunk
<1>1. /\ reading /\ init
      /\ input' = SubSeq(input, Len(Chunk) + 1, Len(input))
      /\ UNCHANGED <<network, link, reading, blocks>>
      /\ IF Len(d) = len THEN Dispatch(d, block)
         ELSE data' = d /\ UNCHANGED <<header, init, len, block>> /\ Keep
  BY DEF ReadBody, Reads, Take
<1>2. d \in Seq(Sent) /\ Sent' = Sent /\ input' \in Seq(Sent)
  BY <1>1, ReadTakes, ConcatProperties DEF Inv, BytesSent, Sent, network
<1>3. Len(d) = Len(data) + Len(Chunk)
  BY ReadTakes, ConcatProperties DEF Inv, BytesSent
<1>4. /\ Len(data) \in Nat /\ Len(Chunk) \in Nat /\ len \in Nat
      /\ Len(Chunk) <= len - Len(data)
  BY <1>1, ReadTakes, LenProperties, ReadBufferAssumption
     DEF Inv, BytesSent, Unfinished, ReadLen
<1>5. block # 0 /\ link # "closed"
  BY <1>1 DEF Inv, BlockHeld
<1> HIDE DEF d
<1>6. CASE Len(d) = len
  BY <1>1, <1>2, <1>5, <1>6, DispatchSafe DEF network
<1>7. CASE Len(d) # len
  <2>1. Len(d) < len
    BY <1>3, <1>4, <1>7
  <2>2. BytesSent'
    BY <1>1, <1>2, <1>7 DEF Inv, BytesSent, network
  <2>3. Unfinished'
    BY <1>1, <1>7, <2>1 DEF Inv, Unfinished
  <2>4. BlockHeld' /\ OneOwner'
    BY <1>1, <1>7 DEF Inv, BlockHeld, OneOwner, Keep
  <2> QED
    BY <2>2, <2>3, <2>4 DEF Inv
<1> QED
  BY <1>6, <1>7

\* The other steps of the loop.
LEMMA LoopSafe ==
    ASSUME Inv, EndRead \/ Down \/ DoClose
    PROVE  Inv'
<1>1. CASE EndRead \/ Down
  <2>1. BytesSent'
    BY <1>1 DEF Inv, BytesSent, Sent, EndRead, Down, network, buffer
  <2>2. /\ UNCHANGED <<header, init, len, data, block, blocks, handed, freed>>
        /\ reading' \in {reading, FALSE}
        /\ link' = link \/ (link = "up" /\ link' = "down")
    BY <1>1 DEF EndRead, Down, buffer, heap
  <2>3. Unfinished' /\ OneOwner'
    BY <2>2 DEF Inv, Unfinished, OneOwner
  <2>4. BlockHeld'
    <3>1. blocks' \in Nat /\ block' \in 0 .. blocks'
      BY <2>2 DEF Inv, BlockHeld
    <3>2. /\ link' \in {"up", "down", "closed"} /\ reading' \in BOOLEAN
          /\ link' = "closed" <=> link = "closed"
      BY <2>2, Zenon DEF Inv, BlockHeld
    <3> QED
      BY <2>2, <3>1, <3>2, Zenon DEF Inv, BlockHeld
  <2> QED
    BY <2>1, <2>3, <2>4 DEF Inv
<1>2. CASE DoClose
  <2> USE <1>2 DEF DoClose, DeleteBuffer
  <2>1. BytesSent'
    BY DEF Inv, BytesSent, Sent, network
  <2>2. Unfinished'
    BY DEF Inv, Unfinished
  <2>3. BlockHeld'
    BY DEF Inv, BlockHeld
  <2>4. OneOwner'
    BY DEF Inv, BlockHeld, OneOwner
  <2> QED
    BY <2>1, <2>2, <2>3, <2>4 DEF Inv
<1> QED
  BY <1>1, <1>2

LEMMA Stepwise == Inv /\ [Next]_vars => Inv'
<1> SUFFICES ASSUME Inv, [Next]_vars PROVE Inv'
  OBVIOUS
<1>1. CASE UNCHANGED vars
  <2>1. BytesSent'
    BY <1>1 DEF vars, Inv, BytesSent, Sent, network, buffer
  <2>2. Unfinished' /\ BlockHeld' /\ OneOwner'
    BY <1>1 DEF vars, Inv, Unfinished, BlockHeld, OneOwner, buffer, heap
  <2> QED
    BY <2>1, <2>2 DEF Inv
<1> QED
  BY <1>1, PeerSafe, ArriveSafe, ReadHeaderSafe, FinishHeaderSafe,
     ReadBodySafe, LoopSafe DEF Next

LEMMA Invariance == Spec => []Inv
<1> QED
  BY Initially, Stepwise, PTL DEF Spec

-----------------------------------------------------------------------------
(* Theorems.                                                               *)

\* Every variable stays in its type, and get_read_len asks for at least one
\* byte as long as a message is incomplete, whatever the lengths.
THEOREM TypeCorrect == Spec => []TypeOK
<1>1. Inv => TypeOK
  <2> SUFFICES ASSUME Inv PROVE TypeOK
    OBVIOUS
  <2>1. Sent \subseteq Nat \X Nat
    BY LenProperties DEF Inv, BytesSent, Sent
  <2>2. /\ wire \in Seq(Nat \X Nat) /\ input \in Seq(Nat \X Nat)
        /\ header \in Seq(Nat \X Nat) /\ data \in Seq(Nat \X Nat)
    BY <2>1, SeqWider DEF Inv, BytesSent
  <2>3. ReadLen > 0
    BY ReadTakes
  <2>4. handed \subseteq 1 .. blocks /\ freed \subseteq 1 .. blocks
    BY DEF Inv, OneOwner
  <2> QED
    BY <2>2, <2>3, <2>4 DEF Inv, BytesSent, Unfinished, BlockHeld, TypeOK
<1> QED
  BY <1>1, Invariance, PTL

\* Every block a message is read into has one owner, the handler or the
\* buffer: none is freed twice, freed under the handler, or forgotten.
THEOREM BlocksOwned == Spec => []OneOwner
<1>1. Inv => OneOwner
  BY DEF Inv
<1> QED
  BY <1>1, Invariance, PTL

-----------------------------------------------------------------------------
(* The stream.                                                             *)

\* A piece of the stream of messages of lengths ls, up to the last byte of
\* the last one: from every byte on there is the rest of its message, and
\* then the next message.  Closed under taking bytes off the front.
InOrder(s, ls) ==
    \A i \in 1 .. Len(s) :
       \E m \in 1 .. Len(ls) : \E p \in 1 .. ls[m] :
          /\ i + ls[m] - p <= Len(s)
          /\ \A k \in p .. ls[m] : s[i + k - p] = <<m, k>>
          /\ IF i + ls[m] - p = Len(s) THEN m = Len(ls)
             ELSE s[i + ls[m] - p + 1] = <<m + 1, 1>>

\* What was sent and not read, the message being read, and what was read
\* of it.
Rest == input \o wire
Current == Len(delivered) + 1
Part == IF init THEN data ELSE header

\* What was read is the front of the current message and what follows is
\* the rest of the stream.
StreamCut ==
    /\ \A i \in 1 .. Len(Part) : Part[i] = <<Current, i>>
    /\ init => Current \in 1 .. Len(lengths) /\ len = lengths[Current]
    /\ InOrder(Rest, lengths)
    /\ IF Rest = <<>> THEN Part = <<>> /\ Current = Len(lengths) + 1
       ELSE Rest[1] = <<Current, Len(Part) + 1>>

\* What was handed over are the first messages of the stream.
HandedOver ==
    /\ delivered \in Seq(Seq(Nat \X Nat)) /\ Len(delivered) <= Len(lengths)
    /\ \A m \in 1 .. Len(delivered) : delivered[m] = Body(m, lengths[m])

StreamInv == HandedOver /\ (link # "closed" => StreamCut)

\* What SubSeq, \o and Append hold at an index.
LEMMA RestOf ==
    ASSUME NEW S, NEW s \in Seq(S), NEW j \in 0 .. Len(s)
    PROVE  /\ SubSeq(s, j + 1, Len(s)) \in Seq(S)
           /\ Len(SubSeq(s, j + 1, Len(s))) = Len(s) - j
           /\ \A i \in 1 .. Len(s) - j : SubSeq(s, j + 1, Len(s))[i] = s[i + j]
<1>1. Len(s) \in Nat /\ j \in Nat /\ j <= Len(s)
  BY LenProperties
<1> DEFINE t == SubSeq(s, j + 1, Len(s))
<1>2. /\ t \in Seq(S)
      /\ Len(t) = IF j + 1 <= Len(s) THEN Len(s) - (j + 1) + 1 ELSE 0
      /\ \A i \in 1 .. Len(s) - (j + 1) + 1 : t[i] = s[j + 1 + i - 1]
  BY <1>1, SubSeqProperties
<1> HIDE DEF t
<1>3. Len(t) = Len(s) - j
  <2>1. Len(t) = IF j + 1 <= Len(s) THEN Len(s) - (j + 1) + 1 ELSE 0
    BY <1>2
  <2> DEFINE n == Len(s)
  <2> HIDE DEF n
  <2>2. (IF j + 1 <= n THEN n - (j + 1) + 1 ELSE 0) = n - j
    BY <1>1 DEF n
  <2> QED
    BY <2>1, <2>2 DEF n
<1>4. ASSUME NEW i \in 1 .. Len(s) - j PROVE t[i] = s[i + j]
  <2>1. i \in 1 .. Len(s) - (j + 1) + 1 /\ j + 1 + i - 1 = i + j
    BY <1>1
  <2> QED
    BY <1>2, <2>1
<1> QED
  BY <1>2, <1>3, <1>4 DEF t

LEMMA FrontOf ==
    ASSUME NEW S, NEW s \in Seq(S), NEW j \in 0 .. Len(s)
    PROVE  /\ SubSeq(s, 1, j) \in Seq(S) /\ Len(SubSeq(s, 1, j)) = j
           /\ \A i \in 1 .. j : SubSeq(s, 1, j)[i] = s[i]
<1>1. Len(s) \in Nat /\ j \in Nat /\ j <= Len(s)
  BY LenProperties
<1> DEFINE t == SubSeq(s, 1, j)
<1>2. \A i \in 1 .. j - 1 + 1 : t[i] = s[1 + i - 1]
  BY <1>1, SubSeqProperties
<1>3. t \in Seq(S) /\ Len(t) = j
  BY Cut
<1> HIDE DEF t
<1>4. ASSUME NEW i \in 1 .. j PROVE t[i] = s[i]
  <2>1. i \in 1 .. j - 1 + 1 /\ 1 + i - 1 = i
    BY <1>1
  <2> QED
    BY <1>2, <2>1
<1> QED
  BY <1>3, <1>4 DEF t

LEMMA Joined ==
    ASSUME NEW S, NEW s \in Seq(S), NEW t \in Seq(S)
    PROVE  /\ s \o t \in Seq(S) /\ Len(s) \in Nat /\ Len(t) \in Nat
           /\ Len(s \o t) = Len(s) + Len(t)
           /\ \A i \in 1 .. Len(s) : (s \o t)[i] = s[i]
           /\ \A i \in 1 .. Len(t) : (s \o t)[Len(s) + i] = t[i]
<1>1. Len(s) \in Nat /\ Len(t) \in Nat
  BY LenProperties
<1>2. /\ s \o t \in Seq(S) /\ Len(s \o t) = Len(s) + Len(t)
      /\ \A i \in 1 .. Len(s) + Len(t) :
            (s \o t)[i] = IF i <= Len(s) THEN s[i] ELSE t[i - Len(s)]
  BY ConcatProperties
<1> DEFINE u == s \o t
<1> HIDE DEF u
<1>3. ASSUME NEW i \in 1 .. Len(s) PROVE u[i] = s[i]
  BY <1>1, <1>2 DEF u
<1>4. ASSUME NEW i \in 1 .. Len(t) PROVE u[Len(s) + i] = t[i]
  <2>1. /\ Len(s) + i \in 1 .. Len(s) + Len(t) /\ ~(Len(s) + i <= Len(s))
        /\ Len(s) + i - Len(s) = i
    BY <1>1
  <2> QED
    BY <1>2, <2>1 DEF u
<1> QED
  BY <1>1, <1>2, <1>3, <1>4 DEF u

\* Where the rest of a message lies when j bytes are taken off the front,
\* and that it lies before the end.
LEMMA Shifted ==
    ASSUME NEW q \in Nat, NEW j \in 0 .. q, NEW i \in 1 .. q - j,
           NEW l \in Nat, NEW p \in 1 .. l, i + j + l - p <= q
    PROVE  /\ i + l - p <= q - j
           /\ \A k \in p .. l : /\ i + k - p \in 1 .. q - j
                                /\ (i + k - p) + j = i + j + k - p
           /\ i + l - p = q - j <=> i + j + l - p = q
           /\ i + l - p # q - j =>
                 /\ i + l - p + 1 \in 1 .. q - j
                 /\ (i + l - p + 1) + j = i + j + l - p + 1
OBVIOUS

\* Bytes taken off the front leave the rest in order.
LEMMA OrderLeft ==
    ASSUME NEW S, NEW s \in Seq(S), NEW ls \in Seq(Nat), InOrder(s, ls),
           NEW j \in 0 .. Len(s)
    PROVE  InOrder(SubSeq(s, j + 1, Len(s)), ls)
<1> DEFINE t == SubSeq(s, j + 1, Len(s))
<1>1. Len(s) \in Nat /\ j \in Nat /\ Len(ls) \in Nat
  BY LenProperties
<1>2. Len(t) = Len(s) - j /\ \A i \in 1 .. Len(s) - j : t[i] = s[i + j]
  BY RestOf
<1> HIDE DEF t
<1> SUFFICES ASSUME NEW i \in 1 .. Len(t)
             PROVE  \E m \in 1 .. Len(ls) : \E p \in 1 .. ls[m] :
                       /\ i + ls[m] - p <= Len(t)
                       /\ \A k \in p .. ls[m] : t[i + k - p] = <<m, k>>
                       /\ IF i + ls[m] - p = Len(t) THEN m = Len(ls)
                          ELSE t[i + ls[m] - p + 1] = <<m + 1, 1>>
  BY DEF InOrder, t
<1>3. i \in Nat /\ i + j \in 1 .. Len(s)
  BY <1>1, <1>2
<1>4. PICK m \in 1 .. Len(ls) : \E p \in 1 .. ls[m] :
         /\ i + j + ls[m] - p <= Len(s)
         /\ \A k \in p .. ls[m] : s[i + j + k - p] = <<m, k>>
         /\ IF i + j + ls[m] - p = Len(s) THEN m = Len(ls)
            ELSE s[i + j + ls[m] - p + 1] = <<m + 1, 1>>
  BY <1>3 DEF InOrder
<1>a. PICK p \in 1 .. ls[m] :
         /\ i + j + ls[m] - p <= Len(s)
         /\ \A k \in p .. ls[m] : s[i + j + k - p] = <<m, k>>
         /\ IF i + j + ls[m] - p = Len(s) THEN m = Len(ls)
            ELSE s[i + j + ls[m] - p + 1] = <<m + 1, 1>>
  BY <1>4
<1>5. ls[m] \in Nat
  BY <1>1, ElementOfSeq
<1>6. /\ i + ls[m] - p <= Len(t)
      /\ \A k \in p .. ls[m] : /\ i + k - p \in 1 .. Len(s) - j
                               /\ (i + k - p) + j = i + j + k - p
      /\ i + ls[m] - p = Len(t) <=> i + j + ls[m] - p = Len(s)
      /\ i + ls[m] - p # Len(t) =>
            /\ i + ls[m] - p + 1 \in 1 .. Len(s) - j
            /\ (i + ls[m] - p + 1) + j = i + j + ls[m] - p + 1
  <2>1. i \in 1 .. Len(s) - j
    BY <1>2
  <2>2. i + j + ls[m] - p <= Len(s)
    BY <1>a
  <2>3. PICK l \in Nat : l = ls[m]
    BY <1>5
  <2>4. PICK q \in Nat : q = Len(s)
    BY <1>1
  <2>5. /\ i + l - p <= q - j
        /\ \A k \in p .. l : /\ i + k - p \in 1 .. q - j
                             /\ (i + k - p) + j = i + j + k - p
        /\ i + l - p = q - j <=> i + j + l - p = q
        /\ i + l - p # q - j =>
              /\ i + l - p + 1 \in 1 .. q - j
              /\ (i + l - p + 1) + j = i + j + l - p + 1
    <3>1. j \in 0 .. q /\ i \in 1 .. q - j /\ p \in 1 .. l /\ i + j + l - p <= q
      BY <2>1, <2>2, <2>3, <2>4
    <3> QED
      BY <3>1, Shifted
  <2> QED
    BY <1>2, <2>3, <2>4, <2>5
<1>7. ASSUME NEW k \in p .. ls[m] PROVE t[i + k - p] = <<m, k>>
  BY <1>2, <1>6, <1>a
<1>8. CASE i + ls[m] - p = Len(t)
  BY <1>a, <1>6, <1>7, <1>8
<1>9. CASE i + ls[m] - p # Len(t)
  <2>1. /\ i + j + ls[m] - p # Len(s)
        /\ i + ls[m] - p + 1 \in 1 .. Len(s) - j
        /\ (i + ls[m] - p + 1) + j = i + j + ls[m] - p + 1
    BY <1>6, <1>9
  <2>2. t[i + ls[m] - p + 1] = <<m + 1, 1>>
    BY <1>2, <1>a, <2>1
  <2> QED
    BY <1>a, <1>6, <1>7, <1>9, <2>2
<1> QED
  BY <1>8, <1>9

\* The rest of a message in the old part of a longer stream.
LEMMA Before ==
    ASSUME NEW q \in Nat, NEW n \in Nat \ {0}, NEW i \in 1 .. q,
           NEW l \in Nat, NEW p \in 1 .. l, i + l - p <= q
    PROVE  /\ i + l - p <= q + n /\ i + l - p # q + n
           /\ \A k \in p .. l : i + k - p \in 1 .. q
           /\ i + l - p # q => i + l - p + 1 \in 1 .. q
OBVIOUS

\* A message sent continues the stream.
LEMMA OrderSent ==
    ASSUME NEW S, NEW s \in Seq(S), NEW ls \in Seq(Nat), InOrder(s, ls),
           NEW n \in Nat \ {0}, Body(Len(ls) + 1, n) \in Seq(S)
    PROVE  InOrder(s \o Body(Len(ls) + 1, n), Append(ls, n))
<1> DEFINE b == Body(Len(ls) + 1, n)
           t == s \o b
           ms == Append(ls, n)
           q == Len(s)
<1>1. /\ q \in Nat /\ Len(ls) \in Nat
      /\ Len(b) = n /\ \A k \in 1 .. n : b[k] = <<Len(ls) + 1, k>>
  BY LenProperties DEF Body
<1>b. b \in Seq(S)
  OBVIOUS
<1>2. /\ Len(ms) = Len(ls) + 1 /\ ms[Len(ls) + 1] = n
      /\ \A m \in 1 .. Len(ls) : ms[m] = ls[m]
  BY <1>1, AppendProperties
<1>3. /\ Len(t) = q + n
      /\ \A i \in 1 .. q : t[i] = s[i]
      /\ \A k \in 1 .. n : t[q + k] = b[k]
  <2> HIDE DEF b
  <2>1. /\ Len(t) = q + Len(b)
        /\ \A i \in 1 .. q : t[i] = s[i]
        /\ \A k \in 1 .. Len(b) : t[q + k] = b[k]
    BY <1>b, Joined
  <2> QED
    BY <1>1, <2>1
<1>4. \A k \in 1 .. n : t[q + k] = <<Len(ls) + 1, k>>
  BY <1>1, <1>3
<1> HIDE DEF b, t, ms
<1> SUFFICES ASSUME NEW i \in 1 .. Len(t)
             PROVE  \E m \in 1 .. Len(ms) : \E p \in 1 .. ms[m] :
                       /\ i + ms[m] - p <= Len(t)
                       /\ \A k \in p .. ms[m] : t[i + k - p] = <<m, k>>
                       /\ IF i + ms[m] - p = Len(t) THEN m = Len(ms)
                          ELSE t[i + ms[m] - p + 1] = <<m + 1, 1>>
  BY DEF InOrder, b, t, ms
<1>5. CASE i \in 1 .. q
  <2>1. PICK m \in 1 .. Len(ls) : \E p \in 1 .. ls[m] :
           /\ i + ls[m] - p <= q
           /\ \A k \in p .. ls[m] : s[i + k - p] = <<m, k>>
           /\ IF i + ls[m] - p = q THEN m = Len(ls)
              ELSE s[i + ls[m] - p + 1] = <<m + 1, 1>>
    BY <1>5 DEF InOrder
  <2>2. PICK p \in 1 .. ls[m] :
           /\ i + ls[m] - p <= q
           /\ \A k \in p .. ls[m] : s[i + k - p] = <<m, k>>
           /\ IF i + ls[m] - p = q THEN m = Len(ls)
              ELSE s[i + ls[m] - p + 1] = <<m + 1, 1>>
    BY <2>1
  <2> HIDE DEF q
  <2>3. ls[m] \in Nat /\ ms[m] = ls[m] /\ m \in 1 .. Len(ms)
    BY <1>1, <1>2, ElementOfSeq
  <2>4. /\ i + ls[m] - p <= q
        /\ i + ls[m] - p <= q + n /\ i + ls[m] - p # q + n
        /\ \A k \in p .. ls[m] : i + k - p \in 1 .. q
        /\ i + ls[m] - p # q => i + ls[m] - p + 1 \in 1 .. q
    <3>1. PICK l \in Nat : l = ls[m]
      BY <2>3
    <3>2. i \in 1 .. q /\ p \in 1 .. l /\ i + l - p <= q
      BY <1>5, <2>2, <3>1
    <3>3. /\ i + l - p <= q
          /\ i + l - p <= q + n /\ i + l - p # q + n
          /\ \A k \in p .. l : i + k - p \in 1 .. q
          /\ i + l - p # q => i + l - p + 1 \in 1 .. q
      <4>1. q \in Nat /\ n \in Nat \ {0}
        BY <1>1
      <4> QED
        BY <3>2, <4>1, Before
    <3> QED
      BY <3>1, <3>3
  <2>5. ASSUME NEW k \in p .. ls[m] PROVE t[i + k - p] = <<m, k>>
    BY <1>3, <2>2, <2>4
  <2>6. t[i + ls[m] - p + 1] = <<m + 1, 1>>
    <3>1. CASE i + ls[m] - p = q
      <4>1. m = Len(ls)
        BY <2>2, <3>1
      <4>2. t[q + 1] = <<Len(ls) + 1, 1>>
        BY <1>4
      <4> QED
        BY <3>1, <4>1, <4>2
    <3>2. CASE i + ls[m] - p # q
      BY <1>3, <2>2, <2>4, <3>2
    <3> QED
      BY <3>1, <3>2
  <2> QED
    BY <1>3, <2>2, <2>3, <2>4, <2>5, <2>6
<1>6. CASE i \notin 1 .. q
  <2> DEFINE m == Len(ls) + 1
             p == i - q
  <2> HIDE DEF q
  <2>1. p \in 1 .. n /\ i = q + p
    BY <1>1, <1>3, <1>6
  <2>2. m \in 1 .. Len(ms) /\ ms[m] = n /\ m = Len(ms)
    BY <1>1, <1>2
  <2> HIDE DEF m, p
  <2>3. i + n - p = Len(t)
    BY <1>1, <1>3, <2>1
  <2>4. ASSUME NEW k \in p .. n PROVE t[i + k - p] = <<m, k>>
    <3>1. k \in 1 .. n /\ i + k - p = q + k
      BY <1>1, <2>1
    <3> QED
      BY <1>4, <3>1 DEF m
  <2>5. i + n - p <= Len(t)
    BY <1>1, <1>3, <2>3
  <2> QED
    BY <2>1, <2>2, <2>3, <2>4, <2>5
<1> QED
  BY <1>5, <1>6

\* The first bytes of s are those of message m from the p-th on, and then
\* comes the next message.
FrontIs(s, ls, m, p) ==
    /\ m \in 1 .. Len(ls) /\ ls[m] \in Nat /\ p \in 1 .. ls[m]
    /\ ls[m] - p < Len(s)
    /\ \A k \in p .. ls[m] : s[k - p + 1] = <<m, k>>
    /\ IF ls[m] - p + 1 = Len(s) THEN m = Len(ls)
       ELSE s[ls[m] - p + 2] = <<m + 1, 1>>

\* The first byte says what the first bytes are.
LEMMA OrderFront ==
    ASSUME NEW S, NEW s \in Seq(S), NEW ls \in Seq(Nat), InOrder(s, ls),
           NEW m, NEW p, s # <<>>, s[1] = <<m, p>>
    PROVE  FrontIs(s, ls, m, p)
<1>1. Len(s) \in Nat /\ Len(ls) \in Nat /\ Len(s) # 0
  BY LenProperties, EmptySeq
<1>2. 1 \in 1 .. Len(s)
  BY <1>1
<1>3. PICK a \in 1 .. Len(ls) : \E b \in 1 .. ls[a] :
         /\ 1 + ls[a] - b <= Len(s)
         /\ \A k \in b .. ls[a] : s[1 + k - b] = <<a, k>>
         /\ IF 1 + ls[a] - b = Len(s) THEN a = Len(ls)
            ELSE s[1 + ls[a] - b + 1] = <<a + 1, 1>>
  BY <1>2 DEF InOrder
<1>4. PICK b \in 1 .. ls[a] :
         /\ 1 + ls[a] - b <= Len(s)
         /\ \A k \in b .. ls[a] : s[1 + k - b] = <<a, k>>
         /\ IF 1 + ls[a] - b = Len(s) THEN a = Len(ls)
            ELSE s[1 + ls[a] - b + 1] = <<a + 1, 1>>
  BY <1>3
<1>5. ls[a] \in Nat /\ a \in Nat /\ b \in Nat /\ b \in b .. ls[a]
  BY <1>1, <1>4, ElementOfSeq
<1>6. m = a /\ p = b
  <2>1. 1 + b - b = 1
    BY <1>5
  <2>2. s[1] = <<a, b>>
    BY <1>4, <1>5, <2>1
  <2> QED
    BY <2>2
<1>7. ls[m] - p < Len(s)
  BY <1>1, <1>4, <1>5, <1>6
<1>8. ASSUME NEW k \in p .. ls[m] PROVE s[k - p + 1] = <<m, k>>
  <2>1. 1 + k - b = k - p + 1
    BY <1>5, <1>6
  <2> QED
    BY <1>4, <1>6, <2>1
<1>9. IF ls[m] - p + 1 = Len(s) THEN m = Len(ls)
      ELSE s[ls[m] - p + 2] = <<m + 1, 1>>
  <2>1. ASSUME NEW l \in Nat
        PROVE  1 + l - b = l - b + 1 /\ 1 + l - b + 1 = l - b + 2
    BY <1>5
  <2>2. 1 + ls[a] - b = ls[m] - p + 1 /\ 1 + ls[a] - b + 1 = ls[m] - p + 2
    BY <1>5, <1>6, <2>1
  <2> QED
    BY <1>4, <1>6, <2>2
<1> QED
  BY <1>4, <1>5, <1>6, <1>7, <1>8, <1>9 DEF FrontIs

\* Bytes taken off the first of two pieces.
LEMMA TakenOff ==
    ASSUME NEW S, NEW s \in Seq(S), NEW t \in Seq(S), NEW j \in Nat,
           j <= Len(s)
    PROVE  SubSeq(s, j + 1, Len(s)) \o t = SubSeq(s \o t, j + 1, Len(s \o t))
<1> DEFINE u == SubSeq(s, j + 1, Len(s))
           w == s \o t
           v == SubSeq(w, j + 1, Len(w))
<1>1. /\ w \in Seq(S) /\ Len(s) \in Nat /\ Len(t) \in Nat
      /\ Len(w) = Len(s) + Len(t)
      /\ \A i \in 1 .. Len(s) : w[i] = s[i]
      /\ \A i \in 1 .. Len(t) : w[Len(s) + i] = t[i]
  BY Joined
<1> HIDE DEF w
<1>2. j \in 0 .. Len(s) /\ j \in 0 .. Len(w)
  BY <1>1
<1>3. /\ u \in Seq(S) /\ Len(u) = Len(s) - j
      /\ \A i \in 1 .. Len(s) - j : u[i] = s[i + j]
  BY <1>2, RestOf
<1>4. /\ v \in Seq(S) /\ Len(v) = Len(w) - j
      /\ \A i \in 1 .. Len(w) - j : v[i] = w[i + j]
  BY <1>1, <1>2, RestOf
<1> HIDE DEF u, v
<1>5. /\ u \o t \in Seq(S) /\ Len(u \o t) = Len(u) + Len(t)
      /\ \A i \in 1 .. Len(u) : (u \o t)[i] = u[i]
      /\ \A i \in 1 .. Len(t) : (u \o t)[Len(u) + i] = t[i]
  <2>1. u \in Seq(S)
    BY <1>3
  <2> QED
    BY <2>1, Joined
<1> DEFINE x == u \o t
<1> HIDE DEF x
<1>6. Len(x) = Len(v)
  BY <1>1, <1>3, <1>4, <1>5 DEF x
<1>7. ASSUME NEW i \in 1 .. Len(x) PROVE x[i] = v[i]
  <2>1. CASE i \in 1 .. Len(u)
    <3>1. i + j \in 1 .. Len(s) /\ i \in 1 .. Len(s) - j
          /\ i \in 1 .. Len(w) - j
      BY <1>1, <1>2, <1>3, <2>1
    <3> QED
      BY <1>1, <1>3, <1>4, <1>5, <2>1, <3>1 DEF x
  <2>2. CASE i \notin 1 .. Len(u)
    <3> DEFINE k == i - Len(u)
    <3>1. /\ k \in 1 .. Len(t) /\ Len(u) + k = i /\ i + j = Len(s) + k
          /\ i \in 1 .. Len(w) - j
      BY <1>1, <1>2, <1>3, <1>5, <2>2 DEF x
    <3> HIDE DEF k
    <3> QED
      BY <1>1, <1>4, <1>5, <3>1 DEF x
  <2> QED
    BY <2>1, <2>2
<1>8. x \in Seq(S)
  BY <1>5 DEF x
<1> QED
  BY <1>4, <1>6, <1>7, <1>8, SeqEqual DEF x, u, v, w

\* Reading bytes of the header or of the body: the bytes read are the next
\* ones of the current message and the stream goes on behind them.
LEMMA ReadsOn ==
    ASSUME Inv, StreamInv, Reads, Take, wire' = wire
    PROVE  LET p == Part \o Chunk
               q == Len(Part) + Len(Chunk)
           IN  /\ Current \in 1 .. Len(lengths) /\ lengths[Current] \in Nat
               /\ p \in Seq(Nat \X Nat) /\ Len(p) = q
               /\ \A i \in 1 .. q : p[i] = <<Current, i>>
               /\ q <= lengths[Current]
               /\ InOrder(Rest', lengths)
               /\ q < lengths[Current] =>
                     Rest' # <<>> /\ Rest'[1] = <<Current, q + 1>>
               /\ q = lengths[Current] =>
                     IF Rest' = <<>> THEN Current = Len(lengths)
                     ELSE Rest'[1] = <<Current + 1, 1>>
<1> DEFINE p == Part \o Chunk
           j == Len(Chunk)
           a == Len(Part)
           r == Rest
           m == Current
           l == lengths[m]
<1>1. /\ lengths \in Seq(Nat) /\ Len(lengths) \in Nat
      /\ input \in Seq(Sent) /\ wire \in Seq(Sent) /\ Part \in Seq(Sent)
      /\ Sent \subseteq Nat \X Nat
  <2>1. lengths \in Seq(Lengths) /\ Lengths \subseteq Nat
    BY ReadBufferAssumption DEF Inv, BytesSent
  <2>2. lengths \in Seq(Nat) /\ Len(lengths) \in Nat
    BY <2>1, SeqWider, LenProperties
  <2> QED
    BY <2>2 DEF Inv, BytesSent, Sent, Part
<1>2. /\ StreamCut
      /\ m \in Nat
  <2>1. link # "closed"
    BY DEF Inv, BlockHeld, Reads
  <2>2. Len(delivered) \in Nat
    BY LenProperties DEF StreamInv, HandedOver
  <2> QED
    BY <2>1, <2>2 DEF StreamInv, Current
<1>3. /\ j \in Nat /\ j > 0 /\ j <= ReadLen /\ Chunk \in Seq(Sent)
      /\ j <= Len(input)
      /\ \A i \in 1 .. j : Chunk[i] = input[i]
      /\ input' = SubSeq(input, j + 1, Len(input))
  <2>1. j \in Nat /\ j <= ReadLen /\ Chunk \in Seq(Sent) /\ ReadLen \in Nat
    BY ReadTakes
  <2>2. j # 0
    BY <2>1, EmptySeq DEF Reads
  <2>3. Len(input) \in Nat
    BY <1>1, LenProperties
  <2> DEFINE k == IF ReadLen < Len(input) THEN ReadLen ELSE Len(input)
  <2>4. k \in 0 .. Len(input)
    BY <2>1, <2>3
  <2>5. Chunk = SubSeq(input, 1, k)
    BY DEF Chunk
  <2> HIDE DEF k
  <2>6. j = k /\ \A i \in 1 .. k : Chunk[i] = input[i]
    BY <1>1, <2>4, <2>5, FrontOf
  <2> QED
    BY <2>1, <2>2, <2>3, <2>4, <2>6 DEF Take
<1>4. /\ r \in Seq(Sent) /\ Len(r) \in Nat /\ j <= Len(r)
      /\ \A i \in 1 .. j : r[i] = Chunk[i]
      /\ Rest' = SubSeq(r, j + 1, Len(r))
  <2>1. /\ r \in Seq(Sent) /\ Len(r) = Len(input) + Len(wire)
        /\ Len(input) \in Nat /\ Len(wire) \in Nat
        /\ \A i \in 1 .. Len(input) : r[i] = input[i]
    BY <1>1, Joined DEF Rest
  <2>2. Rest' = SubSeq(r, j + 1, Len(r))
    BY <1>1, <1>3, TakenOff DEF Rest
  <2> HIDE DEF r, j
  <2> QED
    BY <1>3, <2>1, <2>2
<1>5. r # <<>> /\ InOrder(r, lengths)
  <2> HIDE DEF r, j
  <2>1. Len(r) # 0
    BY <1>3, <1>4
  <2> QED
    BY <2>1 DEF StreamInv, StreamCut, r, Inv, BlockHeld, Reads
<1>6. r[1] = <<m, a + 1>> /\ a \in Nat
  BY <1>1, <1>2, <1>5, LenProperties DEF StreamCut
<1>7. /\ m \in 1 .. Len(lengths) /\ l \in Nat /\ a + 1 \in 1 .. l
      /\ l - (a + 1) < Len(r)
      /\ \A k \in a + 1 .. l : r[k - (a + 1) + 1] = <<m, k>>
      /\ IF l - (a + 1) + 1 = Len(r) THEN m = Len(lengths)
         ELSE r[l - (a + 1) + 2] = <<m + 1, 1>>
  <2> HIDE DEF r, m, a
  <2>1. lengths \in Seq(Nat) /\ r \in Seq(Sent)
    BY <1>1, <1>4
  <2> DEFINE b == a + 1
  <2>2. r[1] = <<m, b>>
    BY <1>6
  <2> HIDE DEF b
  <2>3. FrontIs(r, lengths, m, b)
    BY <1>5, <2>1, <2>2, OrderFront
  <2> QED
    BY <2>3 DEF FrontIs, b
<1>8. a + j <= l
  <2>1. CASE init
    <3>1. ReadLen = l - a
      BY <1>2, <2>1 DEF StreamCut, ReadLen, Part
    <3> QED
      BY <1>3, <1>6, <1>7, <3>1
  <2>2. CASE ~init
    <3>1. ReadLen = HeaderLen - a
      BY <2>2 DEF ReadLen, Part
    <3>2. l \in Lengths
      BY <1>7, ElementOfSeq DEF Inv, BytesSent
    <3>3. HeaderLen \in Nat /\ l >= HeaderLen
      BY <3>2, ReadBufferAssumption
    <3> QED
      BY <1>3, <1>6, <1>7, <3>1, <3>3
  <2> QED
    BY <2>1, <2>2
<1>9. /\ p \in Seq(Sent) /\ Len(p) = a + j
      /\ \A i \in 1 .. a : p[i] = Part[i]
      /\ \A i \in 1 .. j : p[a + i] = Chunk[i]
  BY <1>1, <1>3, Joined
<1>10. p \in Seq(Nat \X Nat)
  BY <1>1, <1>9, SeqWider
<1> HIDE DEF p, j, a, r, m, l
<1>11. ASSUME NEW i \in 1 .. a + j PROVE p[i] = <<m, i>>
  <2>1. CASE i \in 1 .. a
    BY <1>2, <1>9, <2>1 DEF StreamCut, a, m
  <2>2. CASE i \notin 1 .. a
    <3> DEFINE k == i - a
    <3>1. k \in 1 .. j /\ a + k = i /\ i \in a + 1 .. l
          /\ i - (a + 1) + 1 = k
      <4>1. j \in Nat /\ a \in Nat /\ l \in Nat
        BY <1>3, <1>6, <1>7
      <4> QED
        BY <1>8, <2>2, <4>1
    <3> HIDE DEF k
    <3> QED
      BY <1>4, <1>7, <1>9, <3>1
  <2> QED
    BY <2>1, <2>2
<1>12. /\ InOrder(Rest', lengths)
       /\ Len(Rest') = Len(r) - j
       /\ \A i \in 1 .. Len(r) - j : Rest'[i] = r[i + j]
       /\ Rest' \in Seq(Sent)
  <2>1. j \in 0 .. Len(r)
    BY <1>3, <1>4
  <2> QED
    BY <1>1, <1>4, <1>5, <2>1, OrderLeft, RestOf
<1>13. ASSUME a + j < l
       PROVE  Rest' # <<>> /\ Rest'[1] = <<m, a + j + 1>>
  <2>1. 1 \in 1 .. Len(r) - j
    BY <1>3, <1>4, <1>6, <1>7, <1>13
  <2>2. a + j + 1 \in a + 1 .. l /\ (a + j + 1) - (a + 1) + 1 = 1 + j
    <3>1. j \in Nat /\ a \in Nat /\ l \in Nat
      BY <1>3, <1>6, <1>7
    <3> QED
      BY <1>13, <3>1
  <2>3. Rest'[1] = <<m, a + j + 1>>
    <3>1. Rest'[1] = r[1 + j]
      BY <1>12, <2>1
    <3>2. r[(a + j + 1) - (a + 1) + 1] = <<m, a + j + 1>>
      <4> DEFINE k == a + j + 1
      <4>1. k \in a + 1 .. l
        BY <2>2
      <4> HIDE DEF k
      <4>2. r[k - (a + 1) + 1] = <<m, k>>
        BY <1>7, <4>1
      <4> QED
        BY <4>2 DEF k
    <3> QED
      BY <2>2, <3>1, <3>2
  <2>4. Len(Rest') # 0
    BY <1>12, <2>1
  <2> QED
    BY <2>3, <2>4
<1>14. ASSUME a + j = l
       PROVE  IF Rest' = <<>> THEN m = Len(lengths) ELSE Rest'[1] = <<m + 1, 1>>
  <2>1. l - (a + 1) + 1 = j /\ l - (a + 1) + 2 = 1 + j
    BY <1>3, <1>6, <1>7, <1>14
  <2>2. CASE Rest' = <<>>
    <3>1. Len(Rest') = 0
      BY <2>2
    <3>2. j = Len(r)
      BY <1>3, <1>4, <1>12, <3>1
    <3> QED
      BY <1>7, <2>1, <2>2, <3>2
  <2>3. CASE Rest' # <<>>
    <3>1. Len(Rest') # 0
      BY <1>12, <2>3, EmptySeq
    <3>2. 1 \in 1 .. Len(r) - j /\ j # Len(r)
      BY <1>3, <1>4, <1>12, <3>1
    <3> QED
      BY <1>7, <1>12, <2>1, <2>3, <3>2
  <2> QED
    BY <2>2, <2>3
<1> QED
  BY <1>7, <1>8, <1>9, <1>10, <1>11, <1>12, <1>13, <1>14 DEF p, j, a, m, l

\* The two pieces of a cut make up the whole.
LEMMA CutJoined ==
    ASSUME NEW S, NEW s \in Seq(S), NEW k \in 0 .. Len(s)
    PROVE  /\ SubSeq(s, 1, k) \in Seq(S) /\ SubSeq(s, k + 1, Len(s)) \in Seq(S)
           /\ SubSeq(s, 1, k) \o SubSeq(s, k + 1, Len(s)) = s
<1> DEFINE a == SubSeq(s, 1, k)
           b == SubSeq(s, k + 1, Len(s))
           c == a \o b
<1>1. /\ a \in Seq(S) /\ Len(a) = k /\ \A i \in 1 .. k : a[i] = s[i]
      /\ b \in Seq(S) /\ Len(b) = Len(s) - k
      /\ \A i \in 1 .. Len(s) - k : b[i] = s[i + k]
      /\ Len(s) \in Nat
  BY FrontOf, RestOf, LenProperties
<1> HIDE DEF a, b
<1>2. /\ c \in Seq(S) /\ Len(c) = Len(a) + Len(b)
      /\ \A i \in 1 .. Len(a) : c[i] = a[i]
      /\ \A i \in 1 .. Len(b) : c[Len(a) + i] = b[i]
  <2>1. a \in Seq(S) /\ b \in Seq(S)
    BY <1>1
  <2> QED
    BY <2>1, Joined
<1> HIDE DEF c
<1>3. Len(c) = Len(s)
  BY <1>1, <1>2
<1>4. ASSUME NEW i \in 1 .. Len(c) PROVE c[i] = s[i]
  <2>1. CASE i \in 1 .. k
    BY <1>1, <1>2, <2>1
  <2>2. CASE i \notin 1 .. k
    <3> DEFINE j == i - k
    <3>1. j \in 1 .. Len(s) - k /\ i = j + k /\ i = k + j
      BY <1>1, <1>3, <2>2
    <3> HIDE DEF j
    <3> QED
      BY <1>1, <1>2, <3>1
  <2> QED
    BY <2>1, <2>2
<1>5. c = s
  BY <1>2, <1>3, <1>4, SeqEqual
<1> QED
  BY <1>1, <1>5 DEF a, b, c

-----------------------------------------------------------------------------
(* The steps keep the stream, and are steps of MessageStream.              *)

\* The pieces that StreamCut speaks about.
LEMMA StreamTypes ==
    ASSUME Inv, StreamInv
    PROVE  /\ lengths \in Seq(Nat) /\ Len(lengths) \in Nat
           /\ Rest \in Seq(Sent) /\ Len(delivered) \in Nat /\ Current \in Nat
           /\ HeaderLen \in Nat \ {0}
<1>1. lengths \in Seq(Lengths) /\ Lengths \subseteq Nat
  BY ReadBufferAssumption DEF Inv, BytesSent
<1>2. lengths \in Seq(Nat) /\ Len(lengths) \in Nat
  BY <1>1, SeqWider, LenProperties
<1>3. Rest \in Seq(Sent)
  BY ConcatProperties DEF Inv, BytesSent, Rest
<1>4. Len(delivered) \in Nat
  BY LenProperties DEF StreamInv, HandedOver
<1> QED
  BY <1>2, <1>3, <1>4, ReadBufferAssumption DEF Current

\* Where the stream and what was read of it stay, the cut stays.
LEMMA StreamKept ==
    ASSUME StreamInv, UNCHANGED <<lengths, delivered>>,
           link' # "closed" =>
              /\ link # "closed" /\ Rest' = Rest
              /\ UNCHANGED <<header, init, len, data>>
    PROVE  StreamInv'
BY DEF StreamInv, HandedOver, StreamCut, Current, Part

\* The peer sends one more message.
LEMMA SendStream ==
    ASSUME Inv, StreamInv, NEW n \in Lengths, SendMessage(n)
    PROVE  StreamInv'
<1> DEFINE b == Body(Len(lengths) + 1, n)
<1>1. /\ lengths' = Append(lengths, n) /\ wire' = wire \o b
      /\ UNCHANGED <<input, link, header, init, len, data, delivered>>
  BY DEF SendMessage, buffer
<1>2. n \in Nat \ {0} /\ n >= HeaderLen
  BY ReadBufferAssumption
<1>3. /\ lengths \in Seq(Nat) /\ Len(lengths) \in Nat
      /\ Rest \in Seq(Sent) /\ Len(delivered) \in Nat /\ Current \in Nat
      /\ HeaderLen \in Nat
  BY StreamTypes
<1>4. /\ Len(lengths') = Len(lengths) + 1
      /\ \A m \in 1 .. Len(lengths) : lengths'[m] = lengths[m]
  BY <1>1, <1>2, <1>3, AppendProperties
<1>5. HandedOver'
  <2>1. Len(delivered) <= Len(lengths)
    BY DEF StreamInv, HandedOver
  <2>2. Len(delivered') <= Len(lengths')
    BY <1>1, <1>3, <1>4, <2>1
  <2>3. \A m \in 1 .. Len(delivered) : m \in 1 .. Len(lengths)
    BY <1>3, <2>1
  <2> QED
    BY <1>1, <1>4, <2>2, <2>3 DEF StreamInv, HandedOver
<1>6. ASSUME link' # "closed" PROVE StreamCut'
  <2>1. StreamCut
    BY <1>1, <1>6 DEF StreamInv
  <2>2. Part' = Part /\ Current' = Current
    BY <1>1 DEF Part, Current
  <2>3. Sent \subseteq Nat \X Nat
    BY <1>3 DEF Sent
  <2>4. /\ b \in Seq(Nat \X Nat) /\ Len(b) = n
        /\ b[1] = <<Len(lengths) + 1, 1>>
    <3>1. \A k \in 1 .. n : <<Len(lengths) + 1, k>> \in Nat \X Nat
      BY <1>2, <1>3
    <3> QED
      BY <1>2, <3>1 DEF Body
  <2>5. /\ Rest \in Seq(Nat \X Nat) /\ input \in Seq(Nat \X Nat)
        /\ wire \in Seq(Nat \X Nat)
    BY <1>3, <2>3, SeqWider DEF Inv, BytesSent
  <2> HIDE DEF b
  <2>6. Rest' = Rest \o b
    <3> DEFINE T == Nat \X Nat
    <3>a. input \in Seq(T) /\ wire \in Seq(T) /\ b \in Seq(T)
      BY <2>4, <2>5
    <3> HIDE DEF T
    <3>b. ASSUME NEW s \in Seq(T), NEW t \in Seq(T), NEW u \in Seq(T)
          PROVE  (s \o t) \o u = s \o (t \o u)
      BY ConcatAssociative
    <3>1. (input \o wire) \o b = input \o (wire \o b)
      BY <3>a, <3>b
    <3> QED
      BY <1>1, <3>1 DEF Rest
  <2>7. InOrder(Rest', lengths')
    <3>1. Body(Len(lengths) + 1, n) \in Seq(Nat \X Nat)
      BY <2>4 DEF b
    <3>2. InOrder(Rest, lengths)
      BY <2>1 DEF StreamCut
    <3>3. InOrder(Rest \o Body(Len(lengths) + 1, n), Append(lengths, n))
      BY <1>2, <1>3, <2>5, <3>1, <3>2, OrderSent
    <3> QED
      BY <1>1, <2>6, <3>3 DEF b
  <2>8. /\ Len(Rest') = Len(Rest) + n /\ Len(Rest) \in Nat
        /\ \A i \in 1 .. Len(Rest) : Rest'[i] = Rest[i]
        /\ \A i \in 1 .. n : Rest'[Len(Rest) + i] = b[i]
        /\ Rest' \in Seq(Nat \X Nat)
    <3>1. Rest \in Seq(Nat \X Nat) /\ b \in Seq(Nat \X Nat) /\ Len(b) = n
      BY <2>4, <2>5
    <3> DEFINE T == Nat \X Nat
    <3>a. Rest \in Seq(T) /\ b \in Seq(T)
      BY <3>1
    <3> HIDE DEF T
    <3>b. ASSUME NEW s \in Seq(T), NEW t \in Seq(T)
          PROVE  /\ s \o t \in Seq(T) /\ Len(s) \in Nat /\ Len(t) \in Nat
                 /\ Len(s \o t) = Len(s) + Len(t)
                 /\ \A i \in 1 .. Len(s) : (s \o t)[i] = s[i]
                 /\ \A i \in 1 .. Len(t) : (s \o t)[Len(s) + i] = t[i]
      BY Joined
    <3>2. /\ Len(Rest') = Len(Rest) + Len(b) /\ Len(Rest) \in Nat
          /\ \A i \in 1 .. Len(Rest) : Rest'[i] = Rest[i]
          /\ \A i \in 1 .. Len(b) : Rest'[Len(Rest) + i] = b[i]
          /\ Rest' \in Seq(T)
      BY <2>6, <3>a, <3>b
    <3> QED
      BY <3>1, <3>2 DEF T
  <2>9. Rest' # <<>>
    <3>1. Len(Rest') # 0
      BY <1>2, <2>8
    <3> QED
      BY <3>1
  <2>10. Rest'[1] = <<Current, Len(Part) + 1>>
    <3>1. CASE Rest = <<>>
      <4>1. Part = <<>> /\ Current = Len(lengths) + 1
        BY <2>1, <3>1 DEF StreamCut
      <4>2. Len(Rest) = 0 /\ 1 \in 1 .. n /\ Len(Rest) + 1 = 1
        BY <1>2, <3>1
      <4>3. Rest'[1] = b[1]
        BY <2>8, <4>2
      <4>4. Len(Part) + 1 = 1
        BY <4>1
      <4> QED
        BY <2>4, <4>1, <4>3, <4>4
    <3>2. CASE Rest # <<>>
      <4>1. Rest[1] = <<Current, Len(Part) + 1>>
        BY <2>1, <3>2 DEF StreamCut
      <4>2. Len(Rest) # 0
        BY <2>5, <3>2, EmptySeq
      <4>3. 1 \in 1 .. Len(Rest)
        BY <2>8, <4>2
      <4> QED
        BY <2>8, <4>1, <4>3
    <3> QED
      BY <3>1, <3>2
  <2>11. init => Current \in 1 .. Len(lengths') /\ len = lengths'[Current]
    BY <1>3, <1>4, <2>1 DEF StreamCut
  <2>12. \A i \in 1 .. Len(Part) : Part[i] = <<Current, i>>
    BY <2>1 DEF StreamCut
  <2> QED
    BY <1>1, <2>2, <2>7, <2>9, <2>10, <2>11, <2>12 DEF StreamCut
<1> QED
  BY <1>5, <1>6 DEF StreamInv

\* The loop moves bytes from the wire to the buffer.
LEMMA ArriveStream ==
    ASSUME Inv, StreamInv, NEW k \in 1 .. Len(wire), Arrive(k)
    PROVE  StreamInv'
<1>1. /\ link = "up" /\ wire' = SubSeq(wire, k + 1, Len(wire))
      /\ input' = input \o SubSeq(wire, 1, k)
      /\ UNCHANGED <<lengths, link, delivered, header, init, len, data>>
  BY DEF Arrive, buffer
<1>2. wire \in Seq(Sent) /\ input \in Seq(Sent) /\ Len(wire) \in Nat
  BY LenProperties DEF Inv, BytesSent
<1>3. k \in 0 .. Len(wire)
  BY <1>2
<1>4. /\ SubSeq(wire, 1, k) \in Seq(Sent)
      /\ SubSeq(wire, k + 1, Len(wire)) \in Seq(Sent)
      /\ SubSeq(wire, 1, k) \o SubSeq(wire, k + 1, Len(wire)) = wire
  BY <1>2, <1>3, CutJoined
<1>5. Rest' = Rest
  <2> DEFINE a == SubSeq(wire, 1, k)
             b == SubSeq(wire, k + 1, Len(wire))
  <2>1. a \in Seq(Sent) /\ b \in Seq(Sent) /\ a \o b = wire
    BY <1>4
  <2>2. input' = input \o a /\ wire' = b
    BY <1>1
  <2> HIDE DEF a, b
  <2>a. ASSUME NEW s \in Seq(Sent), NEW t \in Seq(Sent), NEW u \in Seq(Sent)
        PROVE  (s \o t) \o u = s \o (t \o u)
    BY ConcatAssociative
  <2>3. (input \o a) \o b = input \o (a \o b)
    BY <1>2, <2>1, <2>a
  <2> QED
    BY <2>1, <2>2, <2>3 DEF Rest
<1> QED
  BY <1>1, <1>5, StreamKept

\* Bytes of an incomplete header or message were read.
LEMMA PartStream ==
    ASSUME Inv, StreamInv, Reads, Take,
           UNCHANGED <<lengths, wire, link, delivered>>,
           Part' = Part \o Chunk,
           Len(Part) + Len(Chunk) # lengths[Current],
           init' => len' = lengths[Current]
    PROVE  StreamInv'
<1> DEFINE p == Part \o Chunk
           q == Len(Part) + Len(Chunk)
<1>1. /\ Current \in 1 .. Len(lengths) /\ lengths[Current] \in Nat
      /\ Len(p) = q
      /\ \A i \in 1 .. q : p[i] = <<Current, i>>
      /\ q <= lengths[Current]
      /\ InOrder(Rest', lengths)
      /\ q < lengths[Current] => Rest' # <<>> /\ Rest'[1] = <<Current, q + 1>>
  BY ReadsOn
<1>2. q \in Nat
  <2>1. Part \in Seq(Sent) /\ Chunk \in Seq(Sent)
    BY ReadTakes DEF Inv, BytesSent, Part
  <2> QED
    BY <2>1, LenProperties
<1> HIDE DEF p, q
<1>3. q < lengths[Current]
  BY <1>1, <1>2 DEF q
<1>4. Current' = Current /\ Part' = p
  BY DEF Current, p
<1>5. StreamCut'
  BY <1>1, <1>3, <1>4 DEF StreamCut
<1> QED
  BY <1>5 DEF StreamInv, HandedOver

\* The last bytes of a message were read and the message is handed over.
LEMMA MessageStreamed ==
    ASSUME Inv, StreamInv, Reads, Take, UNCHANGED <<lengths, wire, link>>,
           NEW b, Dispatch(Part \o Chunk, b),
           Len(Part) + Len(Chunk) = lengths[Current]
    PROVE  StreamInv' /\ Stream!Deliver
<1> DEFINE p == Part \o Chunk
           q == Len(Part) + Len(Chunk)
           m == Current
<1>1. /\ m \in 1 .. Len(lengths) /\ lengths[m] \in Nat
      /\ p \in Seq(Nat \X Nat) /\ Len(p) = q
      /\ \A i \in 1 .. q : p[i] = <<m, i>>
      /\ InOrder(Rest', lengths)
      /\ IF Rest' = <<>> THEN m = Len(lengths) ELSE Rest'[1] = <<m + 1, 1>>
  BY ReadsOn
<1>2. /\ delivered' = Append(delivered, p) /\ header' = <<>> /\ init' = FALSE
  BY DEF Dispatch, Clear
<1>3. q = lengths[m]
  OBVIOUS
<1> HIDE DEF p, q
<1>4. p = Body(m, lengths[m])
  <2>1. p = [i \in 1 .. q |-> p[i]]
    BY <1>1
  <2> QED
    BY <1>1, <1>3, <2>1 DEF Body
<1>5. /\ Len(delivered) \in Nat /\ m = Len(delivered) + 1
      /\ delivered \in Seq(Seq(Nat \X Nat)) /\ Len(delivered) <= Len(lengths)
      /\ \A i \in 1 .. Len(delivered) : delivered[i] = Body(i, lengths[i])
      /\ Len(lengths) \in Nat
  BY StreamTypes DEF StreamInv, HandedOver, Current
<1> HIDE DEF m
<1>6. /\ delivered' \in Seq(Seq(Nat \X Nat)) /\ Len(delivered') = m
      /\ delivered'[m] = p
      /\ \A i \in 1 .. Len(delivered) : delivered'[i] = delivered[i]
  BY <1>1, <1>2, <1>5, AppendProperties
<1>7. HandedOver'
  <2>1. ASSUME NEW i \in 1 .. m PROVE delivered'[i] = Body(i, lengths[i])
    <3>1. CASE i = m
      BY <1>4, <1>6, <3>1
    <3>2. CASE i # m
      <4>1. i \in 1 .. Len(delivered)
        BY <1>5, <3>2
      <4> QED
        BY <1>5, <1>6, <4>1
    <3> QED
      BY <3>1, <3>2
  <2>2. Len(delivered') <= Len(lengths)
    BY <1>1, <1>5, <1>6
  <2> QED
    BY <1>6, <2>1, <2>2 DEF HandedOver
<1>8. Part' = <<>> /\ Current' = m + 1
  BY <1>2, <1>6 DEF Part, Current
<1>9. StreamCut'
  <2>1. Len(Part') = 0
    BY <1>8
  <2>2. \A i \in 1 .. Len(Part') : Part'[i] = <<Current', i>>
    BY <2>1
  <2>3. IF Rest' = <<>> THEN Part' = <<>> /\ Current' = Len(lengths) + 1
        ELSE Rest'[1] = <<Current', Len(Part') + 1>>
    BY <1>1, <1>8, <2>1
  <2> QED
    BY <1>1, <1>2, <2>2, <2>3 DEF StreamCut
<1>10. Stream!Deliver
  <2> DEFINE sent == [i \in 1 .. Len(lengths) |-> Body(i, lengths[i])]
  <2>1. Len(sent) = Len(lengths) /\ sent[m] = p
    BY <1>1, <1>4, <1>5
  <2>2. Len(delivered) < Len(sent)
    <3> HIDE DEF sent
    <3> QED
      BY <1>1, <1>5, <2>1
  <2>3. delivered' = Append(delivered, sent[Len(delivered) + 1])
    BY <1>2, <1>5, <2>1
  <2>4. link # "closed"
    BY DEF Inv, BlockHeld, Reads
  <2>5. sent' = sent
    OBVIOUS
  <2> HIDE DEF sent
  <2>6. link' # "closed" <=> link # "closed"
    OBVIOUS
  <2> QED
    BY <2>2, <2>3, <2>4, <2>5, <2>6 DEF Stream!Deliver, sent
<1> QED
  BY <1>7, <1>9, <1>10 DEF StreamInv
\* Part of the header was read.
LEMMA ReadHeaderStream ==
    ASSUME Inv, StreamInv, ReadHeader
    PROVE  StreamInv' /\ UNCHANGED Stream!vars
<1>1. /\ Reads /\ Take /\ ~init /\ Len(header \o Chunk) < HeaderLen
      /\ header' = header \o Chunk
      /\ UNCHANGED <<lengths, wire, link, init, delivered>>
  BY DEF ReadHeader, network, Keep
<1>2. Part = header /\ Part' = header \o Chunk
  BY <1>1 DEF Part
<1>3. /\ Current \in 1 .. Len(lengths)
      /\ Len(header \o Chunk) = Len(Part) + Len(Chunk)
  BY <1>1, <1>2, ReadsOn
<1>4. lengths[Current] \in Lengths
  BY <1>3, ElementOfSeq DEF Inv, BytesSent
<1>5. Len(Part) + Len(Chunk) # lengths[Current]
  <2> DEFINE q == Len(Part) + Len(Chunk)
             l == lengths[Current]
  <2>1. q < HeaderLen /\ l \in Nat /\ l >= HeaderLen /\ HeaderLen \in Nat
    BY <1>1, <1>3, <1>4, ReadBufferAssumption
  <2>2. q \in Nat
    <3>1. Part \in Seq(Sent) /\ Chunk \in Seq(Sent)
      BY ReadTakes DEF Inv, BytesSent, Part
    <3> QED
      BY <3>1, LenProperties
  <2> HIDE DEF q, l
  <2>3. q # l
    BY <2>1, <2>2
  <2> QED
    BY <2>3 DEF q, l
<1>6. StreamInv'
  BY <1>1, <1>2, <1>5, PartStream
<1> QED
  BY <1>1, <1>6 DEF Stream!vars

\* The header is complete.  Its length field is the one of the message that
\* is being read, so its length is the one the peer sent.
LEMMA FinishHeaderStream ==
    ASSUME Inv, StreamInv, FinishHeader
    PROVE  StreamInv' /\ [Stream!Deliver]_(Stream!vars)
<1> DEFINE h == header \o Chunk
<1>1. /\ Reads /\ Take /\ ~init /\ Len(h) = HeaderLen
      /\ UNCHANGED <<lengths, wire, link>>
  BY DEF FinishHeader, network
<1>2. PICK n \in LengthField(h) :
         IF n = HeaderLen THEN Dispatch(h, blocks')
         ELSE /\ init' = TRUE /\ len' = n /\ data' = h
              /\ UNCHANGED delivered
  BY DEF FinishHeader, Keep
<1>3. Part = header
  BY <1>1 DEF Part
<1>4. /\ Current \in 1 .. Len(lengths)
      /\ Len(h) = Len(Part) + Len(Chunk)
      /\ \A i \in 1 .. Len(h) : h[i] = <<Current, i>>
  BY <1>1, <1>3, ReadsOn
<1> HIDE DEF h
<1>5. n = lengths[Current]
  <2>1. h[LengthByte] = <<Current, LengthByte>>
    BY <1>1, <1>4, ReadBufferAssumption
  <2>2. h[LengthByte][2] = LengthByte /\ h[LengthByte][1] = Current
    BY <2>1
  <2> QED
    BY <1>2, <2>2 DEF LengthField
<1>6. CASE n = HeaderLen
  <2>1. Dispatch(Part \o Chunk, blocks')
    BY <1>2, <1>3, <1>6 DEF h
  <2>2. Len(Part) + Len(Chunk) = lengths[Current]
    BY <1>1, <1>4, <1>5, <1>6
  <2> QED
    BY <1>1, <2>1, <2>2, MessageStreamed
<1>7. CASE n # HeaderLen
  <2>1. /\ init' = TRUE /\ len' = lengths[Current] /\ data' = h
        /\ UNCHANGED delivered
    BY <1>2, <1>5, <1>7
  <2>2. Part' = Part \o Chunk
    BY <1>3, <2>1 DEF Part, h
  <2>3. Len(Part) + Len(Chunk) # lengths[Current]
    BY <1>1, <1>4, <1>5, <1>7
  <2>4. StreamInv'
    BY <1>1, <2>1, <2>2, <2>3, PartStream
  <2> QED
    BY <1>1, <2>1, <2>4 DEF Stream!vars
<1> QED
  BY <1>6, <1>7

\* Bytes of the body were read.
LEMMA ReadBodyStream ==
    ASSUME Inv, StreamInv, ReadBody
    PROVE  StreamInv' /\ [Stream!Deliver]_(Stream!vars)
<1> DEFINE d == data \o Chunk
<1>1. /\ Reads /\ Take /\ init
      /\ UNCHANGED <<lengths, wire, link>>
      /\ IF Len(d) = len THEN Dispatch(d, block)
         ELSE data' = d /\ UNCHANGED <<init, len, delivered>>
  BY DEF ReadBody, network, Keep
<1>2. Part = data
  BY <1>1 DEF Part
<1>3. Len(d) = Len(Part) + Len(Chunk)
  BY <1>1, <1>2, ReadsOn
<1>4. len = lengths[Current]
  <2>1. link # "closed"
    BY <1>1 DEF Inv, BlockHeld, Reads
  <2> QED
    BY <1>1, <2>1 DEF StreamInv, StreamCut
<1>5. CASE Len(d) = len
  <2>1. Dispatch(Part \o Chunk, block)
    BY <1>1, <1>2, <1>5
  <2>2. Len(Part) + Len(Chunk) = lengths[Current]
    BY <1>3, <1>4, <1>5
  <2> QED
    BY <1>1, <2>1, <2>2, MessageStreamed
<1>6. CASE Len(d) # len
  <2>1. data' = d /\ UNCHANGED <<init, len, delivered>>
    BY <1>1, <1>6
  <2>2. Part' = Part \o Chunk
    BY <1>1, <1>2, <2>1 DEF Part
  <2>3. Len(Part) + Len(Chunk) # lengths[Current]
    BY <1>3, <1>4, <1>6
  <2>4. len' = lengths[Current]
    BY <1>4, <2>1
  <2>5. StreamInv'
    BY <1>1, <2>1, <2>2, <2>3, <2>4, PartStream
  <2> QED
    BY <1>1, <2>1, <2>5 DEF Stream!vars
<1> QED
  BY <1>5, <1>6

\* Every step keeps the stream and is a step of MessageStream.
LEMMA StepStreams ==
    ASSUME Inv, StreamInv, [Next]_vars
    PROVE  StreamInv' /\ [Stream!Next]_(Stream!vars)
<1>1. ASSUME NEW n \in Lengths, SendMessage(n)
      PROVE  StreamInv' /\ \E m \in {Body(i, l) : i \in 1 .. MaxMessages,
                                                  l \in Lengths} :
                Stream!Send(m)
  <2>1. /\ lengths' = Append(lengths, n) /\ Len(lengths) < MaxMessages
        /\ UNCHANGED <<link, delivered>>
    BY <1>1 DEF SendMessage
  <2>2. /\ lengths \in Seq(Nat) /\ Len(lengths) \in Nat /\ n \in Nat
    BY StreamTypes, ReadBufferAssumption
  <2>3. /\ Len(lengths') = Len(lengths) + 1
        /\ lengths'[Len(lengths) + 1] = n
        /\ \A m \in 1 .. Len(lengths) : lengths'[m] = lengths[m]
    BY <2>1, <2>2, AppendProperties
  <2> DEFINE new == Body(Len(lengths) + 1, n)
  <2>4. [m \in 1 .. Len(lengths') |-> Body(m, lengths'[m])]
           = Append([m \in 1 .. Len(lengths) |-> Body(m, lengths[m])], new)
    <3> DEFINE k == Len(lengths)
               s == [m \in 1 .. k |-> Body(m, lengths[m])]
               t == [m \in 1 .. k + 1 |-> Body(m, lengths'[m])]
    <3>0. k \in Nat
      BY <2>2
    <3> HIDE DEF k
    <3>1. Len(s) = k /\ Append(s, new)
              = [i \in 1 .. k + 1 |-> IF i <= k THEN s[i] ELSE new]
      BY <3>0
    <3>2. ASSUME NEW m \in 1 .. k + 1
          PROVE  t[m] = IF m <= k THEN s[m] ELSE new
      <4>1. CASE m <= k
        BY <2>3, <3>0, <4>1 DEF k
      <4>2. CASE ~(m <= k)
        <5>1. m = k + 1
          BY <3>0, <4>2
        <5> QED
          BY <2>3, <4>2, <5>1 DEF k
      <4> QED
        BY <4>1, <4>2
    <3>3. t = [i \in 1 .. k + 1 |-> IF i <= k THEN s[i] ELSE new]
      BY <3>2
    <3>4. t = Append(s, new)
      BY <3>1, <3>3
    <3> QED
      BY <2>3, <3>4 DEF k
  <2>5. Stream!Send(new)
    BY <2>1, <2>4 DEF Stream!Send
  <2>6. Len(lengths) + 1 \in 1 .. MaxMessages
    BY <2>1, <2>2, ReadBufferAssumption
  <2>7. StreamInv'
    BY <1>1, SendStream
  <2> QED
    BY <2>5, <2>6, <2>7
<1>2. ASSUME NEW k \in 1 .. Len(wire), Arrive(k)
      PROVE  StreamInv' /\ UNCHANGED Stream!vars
  BY <1>2, ArriveStream DEF Arrive, Stream!vars
<1>3. ASSUME EndRead \/ Down
      PROVE  StreamInv' /\ UNCHANGED Stream!vars
  <2>1. /\ UNCHANGED <<lengths, wire, input, header, init, len, data, delivered>>
        /\ link' = link \/ (link = "up" /\ link' = "down")
    BY <1>3 DEF EndRead, Down, network, buffer
  <2>2. Rest' = Rest /\ (link' # "closed" <=> link # "closed")
    BY <2>1 DEF Rest
  <2> QED
    BY <2>1, <2>2, StreamKept DEF Stream!vars
<1>4. ASSUME DoClose
      PROVE  StreamInv' /\ Stream!Close
  <2>1. /\ UNCHANGED <<lengths, delivered>>
        /\ link # "closed" /\ link' = "closed"
    BY <1>4 DEF DoClose, network
  <2> QED
    BY <2>1, StreamKept DEF Stream!Close
<1>5. ASSUME UNCHANGED vars
      PROVE  StreamInv' /\ UNCHANGED Stream!vars
  <2>1. UNCHANGED <<lengths, wire, input, header, init, len, data, delivered,
                    link>>
    BY <1>5 DEF vars, network, buffer
  <2>2. Rest' = Rest
    BY <2>1 DEF Rest
  <2> QED
    BY <2>1, <2>2, StreamKept DEF Stream!vars
<1> QED
  BY <1>1, <1>2, <1>3, <1>4, <1>5, ReadHeaderStream, FinishHeaderStream,
     ReadBodyStream DEF Next, Stream!Next

LEMMA StreamStarts == Init => StreamInv /\ Stream!Init
<1> SUFFICES ASSUME Init PROVE StreamInv /\ Stream!Init
  OBVIOUS
<1>1. /\ lengths = <<>> /\ delivered = <<>> /\ Rest = <<>> /\ Part = <<>>
      /\ init = FALSE /\ link = "up"
  BY DEF Init, Rest, Part
<1>2. Len(lengths) = 0 /\ Len(delivered) = 0 /\ Len(Part) = 0 /\ Len(Rest) = 0
  BY <1>1
<1>3. HandedOver
  BY <1>1, <1>2 DEF HandedOver
<1>4. StreamCut
  BY <1>1, <1>2 DEF StreamCut, InOrder, Current
<1>5. Stream!Init
  BY <1>1, <1>2 DEF Stream!Init
<1> QED
  BY <1>3, <1>4, <1>5 DEF StreamInv

\* However the network cuts the stream of the peer, of any messages of any
\* lengths, the handler gets every message once, whole and in the order of
\* sending, and none after the connection is closed: each pass of the loop
\* of read_cb is a step of MessageStream or changes nothing in it.
THEOREM StreamDelivered == Spec => DeliversStream
<1>1. Inv /\ StreamInv /\ [Next]_vars => StreamInv' /\ [Stream!Next]_(Stream!vars)
  BY StepStreams
<1>2. Init => StreamInv /\ Stream!Init
  BY StreamStarts
<1> QED
  BY <1>1, <1>2, Invariance, PTL DEF Spec, DeliversStream, Stream!Spec

=============================================================================
