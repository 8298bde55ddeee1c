-------------------------- MODULE MqttClientProofs --------------------------
(***************************************************************************)
(* Type correctness of the MQTT client, for every value of the constants.  *)
(***************************************************************************)
EXTENDS MqttClient, SequenceTheorems, TLAPS

Message == [id : PacketIds, qos : 0..3, body : Nat]

-----------------------------------------------------------------------------
\* Packets and channels.

LEMMA ControlType ==
    \A k \in {"CONNECT", "PINGREQ", "DISCONNECT", "garbage"} : Control(k) \in ClientPacket
  BY PacketIdAssumption DEF Control, ClientPacket, PacketIds

LEMMA PublishOfType == \A m \in Message : PublishOf(m) \in ClientPacket
  BY DEF Message, PublishOf, ClientPacket

LEMMA PubrelOfType == \A id \in PacketIds : PubrelOf(id) \in ClientPacket
  BY DEF PubrelOf, ClientPacket, PacketIds

LEMMA AnswerType ==
    \A k \in {"CONNACK", "PUBACK", "PUBREC", "PUBCOMP", "PINGRESP"}, id \in PacketIds :
        Answer(k, id) \in BrokerPacket
  BY DEF Answer, BrokerPacket

LEMMA ZeroId == 0 \in PacketIds
  BY PacketIdAssumption DEF PacketIds

\* Writing a packet, whether it succeeds or not, keeps the types of the stream.
LEMMA SendType ==
    ASSUME WanTypeOK, NEW p \in ClientPacket, SendPacket(p) \/ WriteFails(p)
    PROVE  WanTypeOK'
<1>1. InStream(p) \in ClientPacket
  BY ControlType DEF InStream
<1>2. Arrives(p) => toBroker' \in Seq(ClientPacket)
  BY <1>1 DEF Arrives, WanTypeOK
<1>3. CASE SendPacket(p)
  BY <1>2, <1>3 DEF SendPacket, WanTypeOK
<1>4. CASE WriteFails(p)
  <2>1. torn' \in BOOLEAN /\ toBroker' \in Seq(ClientPacket)
    BY <1>2, <1>4 DEF WriteFails, WanTypeOK
  <2>2. UNCHANGED <<link, toClient, session, held, delivered>>
    BY <1>4 DEF WriteFails
  <2>3. QED BY <2>1, <2>2 DEF WanTypeOK
<1>5. QED BY <1>3, <1>4

\* What the broker does to the stream.
LEMMA ConsumesType ==
    ASSUME WanTypeOK, NEW kind, BrokerReads(kind)
    PROVE  /\ Head(toBroker) \in ClientPacket
           /\ Consumes => toBroker' \in Seq(ClientPacket) /\ link' = link /\ torn' = torn
           /\ BrokerCloses => toBroker' \in Seq(ClientPacket) /\ link' = "closed" /\ torn' = torn
<1>1. toBroker \in Seq(ClientPacket) /\ toBroker # << >>
  BY DEF WanTypeOK, BrokerReads
<1>2. Head(toBroker) \in ClientPacket /\ Tail(toBroker) \in Seq(ClientPacket)
  BY <1>1
<1>3. << >> \in Seq(ClientPacket)
  BY EmptySeq
<1>4. QED BY <1>2, <1>3, Zenon DEF Consumes, BrokerCloses

LEMMA AnswersType ==
    ASSUME WanTypeOK, NEW id \in PacketIds,
           NEW kind \in {"CONNACK", "PUBACK", "PUBREC", "PUBCOMP", "PINGRESP"},
           Answers(kind, id)
    PROVE  toClient' \in Seq(BrokerPacket)
  BY AnswerType DEF WanTypeOK, Answers

LEMMA BrokerType == ASSUME WanTypeOK, Broker PROVE WanTypeOK'
<1>1. CASE BrokerAccepts
  <2>1. toBroker' \in Seq(ClientPacket) /\ link' = link /\ torn' = torn
    BY <1>1, ConsumesType DEF BrokerAccepts
  <2>2. toClient' \in Seq(BrokerPacket)
    BY <1>1, AnswersType, ZeroId DEF BrokerAccepts
  <2>3. QED BY <1>1, <2>1, <2>2 DEF BrokerAccepts, WanTypeOK
<1>2. CASE BrokerRefuses
  <2>1. toBroker' \in Seq(ClientPacket) /\ link' = "closed" /\ torn' = torn
    BY <1>2, ConsumesType DEF BrokerRefuses
  <2>2. toClient' \in Seq(BrokerPacket)
    BY <1>2, AnswersType, ZeroId DEF BrokerRefuses
  <2>3. QED BY <1>2, <2>1, <2>2 DEF BrokerRefuses, WanTypeOK
<1>3. CASE BrokerPublish0
  <2>1. toBroker' \in Seq(ClientPacket) /\ link' = link /\ torn' = torn
    BY <1>3, ConsumesType DEF BrokerPublish0
  <2>2. Head(toBroker).body \in Nat
    BY <1>3, ConsumesType DEF BrokerPublish0, ClientPacket
  <2>3. QED BY <1>3, <2>1, <2>2 DEF BrokerPublish0, WanTypeOK
<1>4. CASE BrokerPublish1
  <2>1. Head(toBroker).id \in PacketIds /\ Head(toBroker).body \in Nat
    BY <1>4, ConsumesType DEF BrokerPublish1, ClientPacket
  <2>2. toClient' \in Seq(BrokerPacket)
    BY <1>4, <2>1, AnswersType DEF BrokerPublish1
  <2>3. delivered' \in Seq(Nat)
    BY <1>4, <2>1 DEF BrokerPublish1, WanTypeOK
  <2>4. QED BY <1>4, <2>2, <2>3, ConsumesType DEF BrokerPublish1, WanTypeOK
<1>5. CASE BrokerPublish2
  <2>1. Head(toBroker).id \in PacketIds /\ Head(toBroker).body \in Nat
    BY <1>5, ConsumesType DEF BrokerPublish2, ClientPacket
  <2>2. toClient' \in Seq(BrokerPacket)
    BY <1>5, <2>1, AnswersType DEF BrokerPublish2
  <2>3. held' \subseteq [id : PacketIds, body : Nat]
    BY <1>5, <2>1 DEF BrokerPublish2, WanTypeOK
  <2>4. QED BY <1>5, <2>2, <2>3, ConsumesType DEF BrokerPublish2, WanTypeOK
<1>6. CASE BrokerPubrel
  <2> DEFINE id == Head(toBroker).id
             released == {h \in held : h.id = id}
  <2>1. id \in PacketIds
    BY <1>6, ConsumesType DEF BrokerPubrel, ClientPacket
  <2>2. toClient' \in Seq(BrokerPacket)
    BY <1>6, <2>1, AnswersType DEF BrokerPubrel
  <2>3. held' \subseteq [id : PacketIds, body : Nat]
    BY <1>6 DEF BrokerPubrel, WanTypeOK
  <2>4. delivered' \in Seq(Nat)
    <3>1. CASE released = {}
      BY <1>6, <3>1 DEF BrokerPubrel, WanTypeOK
    <3>2. CASE released # {}
      <4>1. (CHOOSE h \in released : TRUE) \in released
        BY <3>2
      <4>2. (CHOOSE h \in released : TRUE).body \in Nat
        BY <4>1 DEF WanTypeOK
      <4>3. delivered' = Append(delivered, (CHOOSE h \in released : TRUE).body)
        BY <1>6, <3>2 DEF BrokerPubrel
      <4>4. QED BY <4>2, <4>3 DEF WanTypeOK
    <3>3. QED BY <3>1, <3>2
  <2>5. QED BY <1>6, <2>2, <2>3, <2>4, ConsumesType DEF BrokerPubrel, WanTypeOK
<1>7. CASE BrokerPing
  BY <1>7, ConsumesType, AnswersType, ZeroId DEF BrokerPing, WanTypeOK
<1>8. CASE BrokerEnds
  BY <1>8 DEF BrokerEnds, BrokerCloses, WanTypeOK
<1>9. CASE BrokerSkipsGarbage
  BY <1>9, ConsumesType DEF BrokerSkipsGarbage, WanTypeOK
<1>10. QED
  BY <1>1, <1>2, <1>3, <1>4, <1>5, <1>6, <1>7, <1>8, <1>9 DEF Broker

LEMMA LinkType ==
    ASSUME WanTypeOK, OpenLink \/ LinkDrops PROVE WanTypeOK'
<1>1. CASE OpenLink BY <1>1 DEF OpenLink, WanTypeOK
<1>2. CASE LinkDrops
  <2>1. \A n \in 0..Len(toClient) : SubSeq(toClient, 1, n) \in Seq(BrokerPacket)
    BY DEF WanTypeOK
  <2>2. toClient' \in Seq(BrokerPacket)
    BY <1>2, <2>1 DEF LinkDrops
  <2>3. QED BY <1>2, <2>2 DEF LinkDrops, WanTypeOK
<1>3. QED BY <1>1, <1>2

-----------------------------------------------------------------------------
\* The client.

Labels == {"new", "idle", "sendConnect", "sendPublish", "sendPubrel", "sendDisconnect",
           "read", "keepAlive", "match", "returned"}

\* ClientTypeOK without the stream.
CallTypeOK ==
    /\ isConnected \in BOOLEAN /\ isPingOutstanding \in BOOLEAN
    /\ timerExpired \in BOOLEAN
    /\ nextPacketId \in PacketIds
    /\ pc \in Labels
    /\ want \in {"none", "CONNACK", "PUBACK", "PUBREC", "PUBCOMP"}
    /\ rx \in BrokerPacket \union {NoPacket, UnknownPacket}
    /\ msg \in Message
    /\ ret \in {"success", "failure"}
    /\ confirmed \subseteq Nat

ReadTypeOK == rest \in 0..3 /\ inStep \in BOOLEAN /\ strayed \in BOOLEAN

LEMMA TypeParts == ClientTypeOK <=> WanTypeOK /\ CallTypeOK /\ ReadTypeOK
  BY DEF ClientTypeOK, CallTypeOK, ReadTypeOK, Labels, Message

LEMMA TypePartsPrime == ClientTypeOK' <=> WanTypeOK' /\ CallTypeOK' /\ ReadTypeOK'
  BY DEF ClientTypeOK, CallTypeOK, ReadTypeOK, Labels, Message

LEMMA WanStutterType == WanTypeOK /\ UNCHANGED wanVars => WanTypeOK'
  BY DEF WanTypeOK, wanVars

LEMMA CallStutterType ==
    CallTypeOK /\ UNCHANGED <<selfVars, callVars, confirmed>> => CallTypeOK'
  BY DEF CallTypeOK, selfVars, callVars

LEMMA ReadStutterType == ReadTypeOK /\ UNCHANGED readVars => ReadTypeOK'
  BY DEF ReadTypeOK, readVars

LEMMA ClientStutterType == ClientTypeOK /\ UNCHANGED clientVars => ClientTypeOK'
  BY TypeParts, TypePartsPrime, WanStutterType, CallStutterType, ReadStutterType DEF clientVars

LEMMA NextIdType == nextPacketId \in PacketIds => getNextPacketId \in PacketIds
  BY PacketIdAssumption DEF PacketIds, getNextPacketId

\* The identifier of the packet read last, whatever it was.
LEMMA RxId == CallTypeOK => rx.id \in PacketIds
  BY ZeroId DEF CallTypeOK, BrokerPacket, NoPacket, UnknownPacket, Answer

LEMMA SizeType == \A p : Size(p) \in 0..4
  BY DEF Size

LEMMA ReturnType ==
    ASSUME NEW r \in {"success", "failure"}, Return(r)
    PROVE  /\ pc' \in Labels /\ ret' \in {"success", "failure"} /\ want' = "none"
  BY DEF Return, Labels

LEMMA FailCallType ==
    ASSUME CallTypeOK, FailCall
    PROVE  /\ isConnected' \in BOOLEAN /\ isPingOutstanding' \in BOOLEAN
           /\ pc' \in Labels /\ ret' \in {"success", "failure"} /\ want' = "none"
<1>1. pc' \in Labels /\ ret' \in {"success", "failure"} /\ want' = "none"
  BY ReturnType DEF FailCall
<1>2. isConnected' \in BOOLEAN /\ isPingOutstanding' \in BOOLEAN
  BY Zenon DEF FailCall, closeSession, CallTypeOK
<1>3. QED BY <1>1, <1>2

\* The public functions keep the types.
LEMMA CallsType ==
    ASSUME ClientTypeOK, NEW m \in Message,
           \/ MQTT_client_init \/ MQTT_client_connect
           \/ MQTT_client_publish(m) \/ MQTT_client_disconnect
    PROVE  ClientTypeOK'
<1> USE TypeParts, TypePartsPrime, WanStutterType, ReadStutterType
<1>1. CASE MQTT_client_init
  <2>1. 1 \in PacketIds
    BY PacketIdAssumption DEF PacketIds
  <2>2. QED BY <1>1, <2>1 DEF MQTT_client_init, CallTypeOK, Labels
<1>2. CASE ConnectRejected
  BY <1>2, ReturnType DEF ConnectRejected, CallTypeOK, selfVars
<1>3. CASE ConnectStarts
  BY <1>3 DEF ConnectStarts, CallTypeOK, Labels
<1>4. CASE PublishRejected(m)
  BY <1>4, ReturnType DEF PublishRejected, closeSession, CallTypeOK
<1>5. CASE PublishStarts(m)
  <2>1. [m EXCEPT !.id = getNextPacketId] \in Message
    BY NextIdType DEF Message, CallTypeOK
  <2>2. msg' \in Message /\ nextPacketId' \in PacketIds
    BY <1>5, <2>1, NextIdType DEF PublishStarts, CallTypeOK
  <2>3. QED BY <1>5, <2>2 DEF PublishStarts, CallTypeOK, Labels
<1>6. CASE MQTT_client_disconnect
  BY <1>6 DEF MQTT_client_disconnect, CallTypeOK, Labels, selfVars
<1>7. QED
  BY <1>1, <1>2, <1>3, <1>4, <1>5, <1>6 DEF MQTT_client_connect, MQTT_client_publish

\* The steps of a running call keep the types.
LEMMA ClientStepType == ASSUME ClientTypeOK, ClientStep PROVE ClientTypeOK'
<1> USE TypeParts, TypePartsPrime, WanStutterType, ReadStutterType
<1>1. CASE SendConnect
  <2>1. WanTypeOK'
    BY <1>1, SendType, ControlType DEF SendConnect
  <2>2. CallTypeOK'
    BY <1>1, FailCallType DEF SendConnect, WaitFor, CallTypeOK, Labels
  <2>3. QED BY <1>1, <2>1, <2>2 DEF SendConnect
<1>2. CASE SendPublish
  <2>1. WanTypeOK'
    BY <1>2, SendType, PublishOfType DEF SendPublish, CallTypeOK
  <2>2. CallTypeOK'
    BY <1>2, FailCallType, ReturnType DEF SendPublish, WaitFor, CallTypeOK, Labels
  <2>3. QED BY <1>2, <2>1, <2>2 DEF SendPublish
<1>3. CASE SendPubrel
  <2>1. WanTypeOK'
    BY <1>3, SendType, PubrelOfType, RxId DEF SendPubrel
  <2>2. CallTypeOK'
    BY <1>3, FailCallType DEF SendPubrel, WaitFor, CallTypeOK, Labels
  <2>3. QED BY <1>3, <2>1, <2>2 DEF SendPubrel
<1>4. CASE SendDisconnect
  <2>1. WanTypeOK'
    BY <1>4, SendType, ControlType DEF SendDisconnect
  <2>2. CallTypeOK'
    BY <1>4, ReturnType DEF SendDisconnect, closeSession, CallTypeOK
  <2>3. QED BY <1>4, <2>1, <2>2 DEF SendDisconnect
<1>5. CASE ReadPacket
  <2>1. Head(toClient) \in BrokerPacket /\ toClient' \in Seq(BrokerPacket)
    BY <1>5 DEF ReadPacket, WanTypeOK
  <2>2. WanTypeOK'
    BY <1>5, <2>1 DEF ReadPacket, WanTypeOK
  <2>3. CallTypeOK'
    BY <1>5, <2>1 DEF ReadPacket, PingAnswered, CallTypeOK, Labels
  <2>4. QED BY <1>5, <2>2, <2>3 DEF ReadPacket
<1>6. CASE ReadEnds \/ ReadFails
  BY <1>6 DEF ReadEnds, ReadFails, NothingRead, CallTypeOK, Labels, selfVars
<1>16. CASE ReadFailsHalfway
  <2>1. CallTypeOK'
    BY <1>16 DEF ReadFailsHalfway, CallTypeOK, Labels, selfVars
  <2>2. rest' \in 0..3
    BY <1>16, SizeType DEF ReadFailsHalfway
  <2>3. inStep' \in BOOLEAN /\ strayed' \in BOOLEAN
    BY <1>16, Zenon DEF ReadFailsHalfway, ReadTypeOK
  <2>4. ReadTypeOK'
    BY <2>2, <2>3, Zenon DEF ReadTypeOK
  <2>5. QED BY <1>16, <2>1, <2>4 DEF ReadFailsHalfway
<1>17. CASE ReadRest
  <2>1. PICK n \in 0..Len(toClient) :
            /\ toClient' = SubSeq(toClient, n + 1, Len(toClient))
            /\ \/ n = 0 /\ rest' \in 1..rest - 1
               \/ n > 0 /\ rest' = 0
               \/ n > 0 /\ n < Len(toClient) /\ rest' \in 1..Size(toClient[n + 1]) - 1
            /\ rx' \in Misread(n)
    BY <1>17 DEF ReadRest
  <2>2. toClient' \in Seq(BrokerPacket)
    BY <2>1 DEF WanTypeOK
  <2>3. WanTypeOK'
    BY <1>17, <2>2 DEF ReadRest, WanTypeOK
  <2>4. rx' \in BrokerPacket \union {NoPacket, UnknownPacket}
    BY <2>1 DEF Misread
  <2>5. isPingOutstanding' \in BOOLEAN
    BY <1>17 DEF ReadRest, PingAnswered
  <2>6. CallTypeOK'
    BY <1>17, <2>4, <2>5 DEF ReadRest, CallTypeOK, Labels
  <2>7. rest' \in 0..3
    BY <2>1, SizeType DEF ReadTypeOK
  <2>8. inStep' \in BOOLEAN /\ strayed' \in BOOLEAN
    BY <1>17, Zenon DEF ReadRest, ReadTypeOK
  <2>9. ReadTypeOK'
    BY <2>7, <2>8, Zenon DEF ReadTypeOK
  <2>10. QED BY <2>3, <2>6, <2>9
<1>7. CASE KeepAliveQuiet
  BY <1>7 DEF KeepAliveQuiet, CallTypeOK, Labels, selfVars
<1>8. CASE KeepAliveDead
  BY <1>8, FailCallType DEF KeepAliveDead, CallTypeOK
<1>9. CASE SendPingReq
  <2>1. WanTypeOK'
    BY <1>9, SendType, ControlType DEF SendPingReq
  <2>2. CallTypeOK'
    BY <1>9, FailCallType DEF SendPingReq, CallTypeOK, Labels
  <2>3. QED BY <1>9, <2>1, <2>2 DEF SendPingReq
<1>10. CASE IgnorePacket
  BY <1>10 DEF IgnorePacket, CallTypeOK, Labels, selfVars
<1>11. CASE MalformedPacket
  BY <1>11, FailCallType DEF MalformedPacket, CallTypeOK
<1>12. CASE GotConnack
  BY <1>12, ReturnType DEF GotConnack, CallTypeOK
<1>13. CASE GotPubrec
  BY <1>13 DEF GotPubrec, CallTypeOK, Labels, selfVars
<1>14. CASE GotAck
  <2>1. msg.body \in Nat
    BY DEF CallTypeOK, Message
  <2>2. QED BY <1>14, <2>1, ReturnType DEF GotAck, CallTypeOK, selfVars
<1>15. QED
  BY <1>1, <1>2, <1>3, <1>4, <1>5, <1>6, <1>7, <1>8, <1>9, <1>10, <1>11, <1>12, <1>13, <1>14,
     <1>16, <1>17
     DEF ClientStep, Proceed

\* So do the network, the broker and the clock.
LEMMA WanStepType == ASSUME ClientTypeOK, WanStep PROVE ClientTypeOK'
<1> USE TypeParts, TypePartsPrime
<1>1. CASE (LinkDrops \/ Broker) /\ UNCHANGED <<selfVars, callVars, readVars, confirmed>>
  BY <1>1, LinkType, BrokerType, CallStutterType, ReadStutterType
<1>2. CASE KeepAliveElapses
  BY <1>2, WanStutterType, ReadStutterType DEF KeepAliveElapses, CallTypeOK, callVars
<1>3. QED BY <1>1, <1>2 DEF WanStep

LEMMA ClientInitType == ClientInit => ClientTypeOK
<1>1. ClientInit => WanTypeOK
  BY EmptySeq DEF ClientInit, WanInit, WanTypeOK
<1>2. ClientInit => CallTypeOK
  <2>1. NoMessage \in Message
    BY ZeroId DEF NoMessage, Message
  <2>2. QED BY <2>1, ZeroId DEF ClientInit, CallTypeOK, Labels
<1>3. ClientInit => ReadTypeOK
  <2>1. ClientInit => rest \in 0..3
    BY DEF ClientInit
  <2>2. ClientInit => inStep \in BOOLEAN /\ strayed \in BOOLEAN
    BY Zenon DEF ClientInit
  <2>3. QED BY <2>1, <2>2, Zenon DEF ReadTypeOK
<1>4. QED BY <1>1, <1>2, <1>3, TypeParts

-----------------------------------------------------------------------------
(* The client, the stream and the broker keep their types, whatever calls a *)
(* caller makes (MQTT_client.c as a library).                               *)
THEOREM LibraryTypeCorrect == LibrarySpec => []ClientTypeOK
<1>1. ClientInit => ClientTypeOK
  BY ClientInitType
<1>2. ClientTypeOK /\ [LibraryNext]_clientVars => ClientTypeOK'
  <2> SUFFICES ASSUME ClientTypeOK, [LibraryNext]_clientVars PROVE ClientTypeOK'
    OBVIOUS
  <2> DEFINE anyMessage == [id |-> 0, qos |-> 0, body |-> 0]
  <2>0. anyMessage \in Message
    BY ZeroId DEF Message
  <2>1. CASE MQTT_client_init \/ MQTT_client_connect \/ MQTT_client_disconnect
    BY <2>0, <2>1, CallsType
  <2>2. CASE LibraryPublish
    <3>1. PICK q \in QosLevels :
              MQTT_client_publish([id |-> 0, qos |-> q, body |-> msg.body + 1])
      BY <2>2 DEF LibraryPublish
    <3>2. [id |-> 0, qos |-> q, body |-> msg.body + 1] \in Message
      BY QosAssumption, ZeroId, TypeParts DEF Message, CallTypeOK
    <3>3. QED BY <3>1, <3>2, CallsType
  <2>3. CASE LibraryOpenLink
    BY <2>3, LinkType, CallStutterType, ReadStutterType, TypeParts, TypePartsPrime DEF LibraryOpenLink
  <2>4. CASE LibraryReturn
    BY <2>4, WanStutterType, ReadStutterType, TypeParts, TypePartsPrime
       DEF LibraryReturn, CallTypeOK, Labels, selfVars
  <2>5. CASE ClientStep
    BY <2>5, ClientStepType
  <2>6. CASE WanStep
    BY <2>6, WanStepType
  <2>7. CASE UNCHANGED clientVars
    BY <2>7, ClientStutterType
  <2>8. QED
    BY <2>1, <2>2, <2>3, <2>4, <2>5, <2>6, <2>7 DEF LibraryNext, LibraryCall
<1>3. QED BY <1>1, <1>2, PTL DEF LibrarySpec
=============================================================================
