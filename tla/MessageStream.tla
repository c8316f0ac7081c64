----------------------------- MODULE MessageStream -----------------------------
(***************************************************************************)
(* What one direction of an OpenFlow connection promises its reader,       *)
(* whatever the network does to the bytes: BaseOFHandler's                 *)
(* base_message_callback (src/src/base/BaseOFConnection.hh) is called for  *)
(* every message once, whole, and in the order of sending, until the       *)
(* connection is closed.  Messages that were not handed over by then are   *)
(* lost.                                                                   *)
(***************************************************************************)
EXTENDS Sequences, Naturals

CONSTANT Message   \* what a peer may send

VARIABLES
    sent,        \* the messages the peer has sent
    delivered,   \* the messages handed to the handler
    open         \* FALSE once the connection is closed

vars == <<sent, delivered, open>>

Init == sent = <<>> /\ delivered = <<>> /\ open = TRUE

Send(m) ==
    /\ sent' = Append(sent, m)
    /\ UNCHANGED <<delivered, open>>

Deliver ==
    /\ open
    /\ Len(delivered) < Len(sent)
    /\ delivered' = Append(delivered, sent[Len(delivered) + 1])
    /\ UNCHANGED <<sent, open>>

Close ==
    /\ open
    /\ open' = FALSE
    /\ UNCHANGED <<sent, delivered>>

Next == (\E m \in Message : Send(m)) \/ Deliver \/ Close

Spec == Init /\ [][Next]_vars
=============================================================================
