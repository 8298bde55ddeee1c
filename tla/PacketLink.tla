----------------------------- MODULE PacketLink -----------------------------
(***************************************************************************)
(* What the layers below the MQTT client promise it, and what Wan takes    *)
(* for granted: once the link is open the client reads the packets of the  *)
(* broker whole and in their order.  The framing may break; from then on   *)
(* anything may be read.                                                   *)
(***************************************************************************)
EXTENDS Naturals, Sequences

VARIABLES
    open,       \* the TLS session is established
    sent,       \* packets of the broker
    received,   \* packets the client has read
    whole       \* the framing is kept

linkVars == <<open, sent, received, whole>>

\* s with one more element, whatever it is.
Extends(s, t) == Len(t) = Len(s) + 1 /\ SubSeq(t, 1, Len(s)) = s

OpenLink ==
    /\ ~open /\ open' = TRUE
    /\ UNCHANGED <<sent, received, whole>>

BrokerSends ==
    /\ open
    /\ Extends(sent, sent')
    /\ UNCHANGED <<open, received, whole>>

Receive ==
    /\ open /\ whole
    /\ Len(received) < Len(sent)
    /\ received' = Append(received, sent[Len(received) + 1])
    /\ UNCHANGED <<open, sent, whole>>

BreakFraming ==
    /\ open /\ whole
    /\ whole' = FALSE
    /\ UNCHANGED <<open, sent, received>>

ReceiveGarbage ==
    /\ open /\ ~whole
    /\ Extends(received, received')
    /\ UNCHANGED <<open, sent, whole>>

PacketLinkInit == open = FALSE /\ sent = << >> /\ received = << >> /\ whole = TRUE

PacketLinkNext == OpenLink \/ BrokerSends \/ Receive \/ BreakFraming \/ ReceiveGarbage

PacketLinkSpec == PacketLinkInit /\ [][PacketLinkNext]_linkVars
=============================================================================
