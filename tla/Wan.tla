-------------------------------- MODULE Wan --------------------------------
(***************************************************************************)
(* The WAN side of the CloudConnector: the TLS stream to the MQTT broker   *)
(* and the broker at its far end.                                          *)
(*                                                                         *)
(* The stream is a pair of FIFO channels of whole MQTT packets.  What a    *)
(* write of the client may do to it (SendPacket, WriteFails) follows       *)
(* glue_tls_mqtt_write; the broker is external and does what MQTT 3.1.1    *)
(* asks of a server, as far as the client relies on it.                    *)
(***************************************************************************)
EXTENDS Integers, Sequences

CONSTANTS
    MaxPacketId,    \* MAX_PACKET_ID, 65535 in the code
    MaxInFlight,    \* packets the stream takes, each way, before a write waits
    Faults          \* what the environment may do wrong in an instance

\* "config", "tls": the initialisation steps may fail.  "write", "read": a
\* stream operation of the glue layer may report an error.  "malformed": a
\* packet may fail to deserialise.  "drop": the connection may die.
\* "refuse": the broker may refuse the session.
FaultNames == {"config", "tls", "write", "read", "malformed", "drop", "refuse"}

ASSUME PacketIdAssumption == MaxPacketId \in Nat \ {0}
ASSUME InFlightAssumption == MaxInFlight \in Nat \ {0}
ASSUME FaultsAssumption   == Faults \subseteq FaultNames

VARIABLES
    link,       \* the TLS session: "down" before glue_tls_init, "up", "closed"
    torn,       \* a write stopped in the middle of a packet
    toBroker,   \* packets written and not yet read by the broker
    toClient,   \* packets the broker wrote and the client has not read
    session,    \* the broker's view: "none", "open" or "refused"
    held,       \* QoS 2 messages the broker keeps until their PUBREL
    delivered   \* bodies the broker has accepted, in order (history)

wanVars == <<link, torn, toBroker, toClient, session, held, delivered>>

-----------------------------------------------------------------------------
\* Packets.  A topic and a payload are one value, the body: a number that
\* tells the messages of a run apart (0 stands for none).

PacketIds == 0..MaxPacketId

ClientPacket ==
    [kind : {"CONNECT", "PUBLISH", "PUBREL", "PINGREQ", "DISCONNECT", "garbage"},
     id   : PacketIds, qos : 0..3, body : Nat]

\* The return code of a CONNACK is left out: nothing in the client reads it.
BrokerPacket ==
    [kind : {"CONNACK", "PUBACK", "PUBREC", "PUBCOMP", "PINGRESP"}, id : PacketIds]

Control(kind)  == [kind |-> kind, id |-> 0, qos |-> 0, body |-> 0]
PublishOf(m)   == [kind |-> "PUBLISH", id |-> m.id, qos |-> m.qos, body |-> m.body]
PubrelOf(id)   == [kind |-> "PUBREL", id |-> id, qos |-> 0, body |-> 0]
Answer(kind, id) == [kind |-> kind, id |-> id]

\* What follows an incomplete packet in the stream makes no sense any more.
InStream(p) == IF torn THEN Control("garbage") ELSE p

-----------------------------------------------------------------------------
\* The client's writes.

RoomToWrite == link # "up" \/ Len(toBroker) < MaxInFlight

\* The packet is in the stream.  What is written to a connection the far end
\* has closed is accepted locally and gets nowhere.
Arrives(p) ==
    toBroker' = IF link = "up" THEN Append(toBroker, InStream(p)) ELSE toBroker

\* glue_tls_mqtt_write returned MQTT_SUCCESS: the loop wrote every byte.
SendPacket(p) ==
    /\ RoomToWrite
    /\ Arrives(p)
    /\ UNCHANGED <<link, torn, toClient, session, held, delivered>>

WriteMayFail == "write" \in Faults \/ link # "up" \/ ~RoomToWrite

\* The write returned an error or timed out: nothing was written, the packet
\* is torn, or it was buffered below OS_Tls_write and arrives all the same.
WriteFails(p) ==
    /\ WriteMayFail
    /\ \/ UNCHANGED <<torn, toBroker>>
       \/ link = "up" /\ torn' = TRUE /\ UNCHANGED toBroker
       \/ RoomToWrite /\ Arrives(p) /\ UNCHANGED torn
    /\ UNCHANGED <<link, toClient, session, held, delivered>>

-----------------------------------------------------------------------------
\* The connection itself.

\* glue_tls_init and glue_tls_handshake succeeded.
OpenLink ==
    /\ link = "down"
    /\ link' = "up"
    /\ UNCHANGED <<torn, toBroker, toClient, session, held, delivered>>

\* The connection dies; of what the broker had sent only a prefix arrives.
LinkDrops ==
    /\ "drop" \in Faults
    /\ link = "up"
    /\ link' = "closed"
    /\ toBroker' = << >>
    /\ \E n \in 0..Len(toClient) : toClient' = SubSeq(toClient, 1, n)
    /\ UNCHANGED <<torn, session, held, delivered>>

-----------------------------------------------------------------------------
\* The broker.

BrokerReads(kind) ==
    /\ link = "up"
    /\ toBroker # << >>
    /\ Head(toBroker).kind = kind

Consumes == toBroker' = Tail(toBroker) /\ UNCHANGED <<link, torn>>

\* The broker waits with an answer as long as the stream is full.
Answers(kind, id) ==
    /\ Len(toClient) < MaxInFlight
    /\ toClient' = Append(toClient, Answer(kind, id))

\* The broker closes the connection on a protocol error or a DISCONNECT; what
\* it had sent before can still be read.
BrokerCloses ==
    /\ link' = "closed"
    /\ toBroker' = << >>
    /\ UNCHANGED torn

BrokerAccepts ==
    /\ BrokerReads("CONNECT") /\ session = "none"
    /\ Consumes
    /\ session' = "open"
    /\ Answers("CONNACK", 0)
    /\ UNCHANGED <<held, delivered>>

BrokerRefuses ==
    /\ "refuse" \in Faults
    /\ BrokerReads("CONNECT") /\ session = "none"
    /\ BrokerCloses
    /\ session' = "refused"
    /\ Answers("CONNACK", 0)
    /\ UNCHANGED <<held, delivered>>

BrokerPublish0 ==
    /\ BrokerReads("PUBLISH") /\ session = "open"
    /\ Head(toBroker).qos = 0
    /\ Consumes
    /\ delivered' = Append(delivered, Head(toBroker).body)
    /\ UNCHANGED <<toClient, session, held>>

BrokerPublish1 ==
    /\ BrokerReads("PUBLISH") /\ session = "open"
    /\ Head(toBroker).qos = 1
    /\ Consumes
    /\ delivered' = Append(delivered, Head(toBroker).body)
    /\ Answers("PUBACK", Head(toBroker).id)
    /\ UNCHANGED <<session, held>>

BrokerPublish2 ==
    /\ BrokerReads("PUBLISH") /\ session = "open"
    /\ Head(toBroker).qos = 2
    /\ Consumes
    /\ held' = held \union {[id |-> Head(toBroker).id, body |-> Head(toBroker).body]}
    /\ Answers("PUBREC", Head(toBroker).id)
    /\ UNCHANGED <<session, delivered>>

\* The message held under the identifier of the PUBREL is released; a PUBREL
\* for an unknown identifier is answered all the same.
BrokerPubrel ==
    /\ BrokerReads("PUBREL") /\ session = "open"
    /\ Consumes
    /\ LET id       == Head(toBroker).id
           released == {h \in held : h.id = id}
       IN /\ held' = held \ released
          /\ delivered' = IF released = {} THEN delivered
                          ELSE Append(delivered, (CHOOSE h \in released : TRUE).body)
          /\ Answers("PUBCOMP", id)
    /\ UNCHANGED session

BrokerPing ==
    /\ BrokerReads("PINGREQ") /\ session = "open"
    /\ Consumes
    /\ Answers("PINGRESP", 0)
    /\ UNCHANGED <<session, held, delivered>>

\* A DISCONNECT, anything but a CONNECT outside a session, a second CONNECT
\* and the reserved QoS 3 all end the connection.
BrokerEnds ==
    /\ \/ BrokerReads("DISCONNECT")
       \/ BrokerReads("garbage")
       \/ BrokerReads("CONNECT") /\ session # "none"
       \/ \E kind \in {"PUBLISH", "PUBREL", "PINGREQ"} :
             BrokerReads(kind) /\ session # "open"
       \/ BrokerReads("PUBLISH") /\ Head(toBroker).qos = 3
    /\ BrokerCloses
    /\ UNCHANGED <<toClient, session, held, delivered>>

\* The bytes after a torn packet may also be taken as the rest of it.
BrokerSkipsGarbage ==
    /\ BrokerReads("garbage")
    /\ Consumes
    /\ UNCHANGED <<toClient, session, held, delivered>>

Broker ==
    \/ BrokerAccepts \/ BrokerRefuses
    \/ BrokerPublish0 \/ BrokerPublish1 \/ BrokerPublish2
    \/ BrokerPubrel \/ BrokerPing
    \/ BrokerEnds \/ BrokerSkipsGarbage

-----------------------------------------------------------------------------

WanInit ==
    /\ link = "down" /\ torn = FALSE
    /\ toBroker = << >> /\ toClient = << >>
    /\ session = "none" /\ held = {} /\ delivered = << >>

WanTypeOK ==
    /\ link \in {"down", "up", "closed"}
    /\ torn \in BOOLEAN
    /\ toBroker \in Seq(ClientPacket)
    /\ toClient \in Seq(BrokerPacket)
    /\ session \in {"none", "open", "refused"}
    /\ held \subseteq [id : PacketIds, body : Nat]
    /\ delivered \in Seq(Nat)
=============================================================================
