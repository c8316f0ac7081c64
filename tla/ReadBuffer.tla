------------------------------ MODULE ReadBuffer ------------------------------
(***************************************************************************)
(* How a connection cuts the byte stream of its peer into OpenFlow         *)
(* messages: BaseOFConnection::OFReadBuffer and the callbacks that use it  *)
(* (src/src/base/BaseOFConnection.cc), on the controller's and on the      *)
(* switch's side.                                                          *)
(*                                                                         *)
(* A byte is a pair of the number of its message and its place in it, so a *)
(* message handed to the handler shows where its bytes came from.  The     *)
(* length of a message is what the length field of its header says; it is  *)
(* a uint16_t, as is the read position, which never passes it.  A length   *)
(* shorter than the header is left out: storing the header in a block of   *)
(* that size is undefined.                                                 *)
(***************************************************************************)
EXTENDS Integers, Sequences, FiniteSets

CONSTANTS
    HeaderLen,    \* OF_HEADER_LENGTH
    LengthByte,   \* the byte of the header that holds the length
    Lengths,      \* lengths of the messages of the peer
    MaxMessages   \* bound: messages the peer sends

ASSUME ReadBufferAssumption ==
    /\ HeaderLen \in Nat \ {0}
    /\ LengthByte \in 1 .. HeaderLen
    /\ Lengths \subseteq {n \in Nat : n >= HeaderLen}
    /\ MaxMessages \in Nat

VARIABLES
    lengths,     \* lengths[m], length of message m of the peer
    wire,        \* bytes sent that have not arrived
    input,       \* bytes in the bufferevent
    link,        \* "up", "down" (reading disabled) or "closed"
    reading,     \* TRUE inside read_cb
    header,      \* bytes of the header read, header_pos of them
    init,        \* TRUE once the header is complete
    len,         \* length of the message, 0 before init
    data,        \* bytes of the message read, pos of them
    block,       \* the block data points to, 0 for NULL
    blocks,      \* blocks allocated, numbered in this order
    delivered,   \* history: what was handed to the handler
    handed,      \* history: blocks handed to the handler
    freed        \* history: blocks freed by the buffer

network == <<lengths, wire>>
buffer  == <<header, init, len, data, block>>
heap    == <<blocks, handed, freed>>
vars    == <<network, input, link, reading, buffer, heap, delivered>>

\* Message m of the peer.
Body(m, n) == [k \in 1 .. n |-> <<m, k>>]

Init ==
    /\ lengths = <<>> /\ wire = <<>> /\ input = <<>>
    /\ link = "up" /\ reading = FALSE
    /\ header = <<>> /\ init = FALSE /\ len = 0 /\ data = <<>> /\ block = 0
    /\ blocks = 0 /\ delivered = <<>> /\ handed = {} /\ freed = {}

-----------------------------------------------------------------------------
(* The peer and the network (external).                                    *)

SendMessage(n) ==
    /\ Len(lengths) < MaxMessages
    /\ lengths' = Append(lengths, n)
    /\ wire' = wire \o Body(Len(lengths) + 1, n)
    /\ UNCHANGED <<input, link, reading, buffer, heap, delivered>>

\* The loop moves the next k bytes to the bufferevent and calls read_cb.
Arrive(k) ==
    /\ link = "up" /\ ~reading
    /\ wire' = SubSeq(wire, k + 1, Len(wire))
    /\ input' = input \o SubSeq(wire, 1, k)
    /\ reading' = TRUE
    /\ UNCHANGED <<lengths, link, buffer, heap, delivered>>

-----------------------------------------------------------------------------
(* OFReadBuffer.                                                           *)

\* get_read_len: the rest of the message, or of its header.
ReadLen == IF init THEN len - Len(data) ELSE HeaderLen - Len(header)

\* The bytes bufferevent_read gives.
Chunk == SubSeq(input, 1, IF ReadLen < Len(input) THEN ReadLen ELSE Len(input))

\* Slip: the bytes of the length are not swapped, so it says anything.
LengthField_HostOrder(h) == Lengths

\* What the length field of a header says; what the field holds when the
\* bytes are not those of a header could be anything.
LengthField(h) ==
    IF h[LengthByte][2] = LengthByte THEN {lengths[h[LengthByte][1]]} ELSE Lengths

\* Slip: the pointer to the block handed over is kept.
Clear_KeepsPointer ==
    /\ header' = <<>> /\ init' = FALSE /\ len' = 0 /\ data' = <<>>
    /\ UNCHANGED block

\* Slip: the bytes of the header are kept.
Clear_KeepsHeader ==
    /\ init' = FALSE /\ len' = 0 /\ data' = <<>> /\ block' = 0
    /\ UNCHANGED header

\* clear(), the block itself is not deleted.
Clear == header' = <<>> /\ init' = FALSE /\ len' = 0 /\ data' = <<>> /\ block' = 0

\* The message is complete: clear the buffer, then call the handler, which
\* owns the block from now on.
Dispatch(message, b) ==
    /\ Clear
    /\ delivered' = Append(delivered, message)
    /\ handed' = handed \union {b}
    /\ UNCHANGED freed

Keep == UNCHANGED <<delivered, handed, freed>>

-----------------------------------------------------------------------------
(* One pass of the loop of read_cb, one action per outcome.                *)

Reads == reading /\ Chunk # <<>>

\* The bytes leave the bufferevent.
Take == input' = SubSeq(input, Len(Chunk) + 1, Len(input))

\* The header is still incomplete.
ReadHeader ==
    /\ Reads /\ ~init /\ Len(header \o Chunk) < HeaderLen
    /\ Take
    /\ header' = header \o Chunk
    /\ UNCHANGED <<network, link, reading, init, len, data, block, blocks>>
    /\ Keep

\* The header is complete: a block of its length is allocated, which is the
\* whole message when there is no body.
FinishHeader ==
    LET h == header \o Chunk IN
    /\ Reads /\ ~init /\ Len(h) = HeaderLen
    /\ Take
    /\ blocks' = blocks + 1
    /\ \E n \in LengthField(h) :
          IF n = HeaderLen THEN Dispatch(h, blocks')
          ELSE /\ header' = h /\ init' = TRUE /\ len' = n
               /\ data' = h /\ block' = blocks'
               /\ Keep
    /\ UNCHANGED <<network, link, reading>>

ReadBody ==
    LET d == data \o Chunk IN
    /\ Reads /\ init
    /\ Take
    /\ IF Len(d) = len THEN Dispatch(d, block)
       ELSE data' = d /\ UNCHANGED <<header, init, len, block>> /\ Keep
    /\ UNCHANGED <<network, link, reading, blocks>>

\* Slip: the callback returns after the first message.
EndRead_AfterMessage ==
    /\ reading /\ (Chunk = <<>> \/ (~init /\ header = <<>> /\ delivered # <<>>))
    /\ reading' = FALSE
    /\ UNCHANGED <<network, input, link, buffer, heap, delivered>>

\* Nothing more to read: the callback returns.
EndRead ==
    /\ reading /\ Chunk = <<>>
    /\ reading' = FALSE
    /\ UNCHANGED <<network, input, link, buffer, heap, delivered>>

-----------------------------------------------------------------------------
(* The other callbacks of the loop.                                        *)

\* event_cb: the peer hung up.  Reading is disabled.
Down ==
    /\ link = "up" /\ ~reading
    /\ link' = "down"
    /\ UNCHANGED <<network, input, reading, buffer, heap, delivered>>

\* Slip: the buffer is deleted without the block of a partial message.
DeleteBuffer_Leaks == block' = 0 /\ UNCHANGED freed

\* ~OFReadBuffer.
DeleteBuffer ==
    /\ freed' = freed \union (IF block = 0 THEN {} ELSE {block})
    /\ block' = 0

\* close_cb, do_close: the bufferevent and the buffer are deleted.
DoClose ==
    /\ link # "closed" /\ ~reading
    /\ link' = "closed"
    /\ input' = <<>>
    /\ DeleteBuffer
    /\ UNCHANGED <<network, reading, header, init, len, data, blocks, handed,
                   delivered>>

Next ==
    \/ \E n \in Lengths : SendMessage(n)
    \/ \E k \in 1 .. Len(wire) : Arrive(k)
    \/ ReadHeader \/ FinishHeader \/ ReadBody \/ EndRead
    \/ Down \/ DoClose

\* The loop finishes the callback it runs.  Nothing else has to happen: a
\* peer may stop in the middle of a message.
Spec ==
    /\ Init /\ [][Next]_vars
    /\ WF_vars(ReadHeader \/ FinishHeader \/ ReadBody \/ EndRead)

-----------------------------------------------------------------------------
(* Properties.                                                             *)

\* Every variable stays in its type; what is asked for is never negative
\* and never zero while a message is incomplete.
TypeOK ==
    /\ lengths \in Seq(Lengths)
    /\ wire \in Seq(Nat \X Nat) /\ input \in Seq(Nat \X Nat)
    /\ link \in {"up", "down", "closed"} /\ reading \in BOOLEAN
    /\ header \in Seq(Nat \X Nat) /\ data \in Seq(Nat \X Nat)
    /\ init \in BOOLEAN /\ len \in {0} \union Lengths
    /\ ReadLen > 0
    /\ block \in 0 .. blocks /\ blocks \in Nat
    /\ handed \subseteq 1 .. blocks /\ freed \subseteq 1 .. blocks

\* However the stream is cut into chunks, the handler gets the peer's
\* messages, each whole and once, in order, and none after the connection is
\* closed (BaseOFConnection.cc:313-340).
Stream == INSTANCE MessageStream WITH
    Message   <- {Body(m, n) : m \in 1 .. MaxMessages, n \in Lengths},
    sent      <- [m \in 1 .. Len(lengths) |-> Body(m, lengths[m])],
    delivered <- delivered,
    open      <- link # "closed"

DeliversStream == Stream!Spec

\* Every block has exactly one owner: the handler it was handed to, or the
\* buffer, which frees the block of a partial message when the connection is
\* closed and never one it has handed over.
OneOwner ==
    /\ handed \intersect freed = {}
    /\ handed \union freed \union (IF block = 0 THEN {} ELSE {block})
          = 1 .. blocks
    /\ block \notin handed \union freed

\* A message whose last byte has arrived is handed over, or the connection
\* is closed first: read_cb is called once per arrival, so it must not
\* return while a whole message is waiting.
Arrived(m) == m <= Len(lengths) /\ \A i \in 1 .. Len(wire) : wire[i][1] > m

ArrivedIsHandedOver ==
    \A m \in 1 .. MaxMessages :
       Arrived(m) ~> (Len(delivered) >= m \/ link = "closed")
=============================================================================
