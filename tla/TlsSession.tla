----------------------------- MODULE TlsSession -----------------------------
(***************************************************************************)
(* What lies below the MQTT client, in the order of handle_CC_FSM_INIT: the*)
(* connection is opened (TlsGlue), and then packets are read from it       *)
(* (MqttNet).  Together they are the link that Wan describes (PacketLink). *)
(***************************************************************************)
EXTENDS TlsGlue, MqttNet

sessionVars == <<tlsVars, netVars>>

Connected == pc = "ready"

\* A step of the network stack.
StackStep == (StackStarts \/ LinkStep) /\ UNCHANGED netVars

\* A step of glue_tls_init or glue_tls_handshake.
ConnectStep == GlueStep /\ UNCHANGED netVars

\* The broker speaks when the TLS session is there.
BrokerSends == Connected /\ link = "established" /\ PeerSends /\ UNCHANGED tlsVars

\* An error of the connection ends the start before the MQTT client is called
\* (CloudConnector.c, 421-436); afterwards the client reads.
ReadStep ==
    /\ Connected
    /\ \/ MQTT_network_readPacket \/ ReadHeader \/ ReadLengthByte \/ ReadPayload
       \/ ReadFails
    /\ UNCHANGED tlsVars

SessionInit == TlsInit /\ NetInit

SessionNext == StackStep \/ ConnectStep \/ BrokerSends \/ ReadStep

SessionSpec == SessionInit /\ [][SessionNext]_sessionVars

\* As in TlsGlue: the client runs, the stack and a connection start or give up.
SessionFairSpec ==
    /\ SessionSpec
    /\ WF_sessionVars(ConnectStep)
    /\ WF_sessionVars(StackStarts /\ UNCHANGED netVars)
    /\ WF_sessionVars(Outcome /\ UNCHANGED <<pc, ret, stack, socket, events, faulted, netVars>>)

-----------------------------------------------------------------------------
(* The client is given the packets of the broker, whole and in order, and   *)
(* only after the connection was established and the handshake done; what   *)
(* it reads after an abandoned packet is anything.                          *)
Link == INSTANCE PacketLink WITH open <- Connected, whole <- inStep

LinkPromise == Link!PacketLinkSpec
=============================================================================
