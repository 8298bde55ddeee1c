------------------------ MODULE CloudConnectorProofs ------------------------
(***************************************************************************)
(* Proofs about the CloudConnector: types, the semaphore, the exclusive    *)
(* use of the client, and what a handled message means.                    *)
(***************************************************************************)
EXTENDS CloudConnector, MqttExchangeProofs

Runs == {"ctor", "config", "options", "tls", "handshake", "connect", "connecting",
         "post", "done", "failed"}

Rpcs == {"ready", "sem_wait", "copy", "dispatch", "publishing", "disconnect",
         "disconnecting", "sem_post", "reply", "fault"}

Slot == [kind : PortKinds, body : Nat]

ThreadTypeOK ==
    /\ run \in Runs /\ rpc \in Rpcs /\ sem \in 0..1
    /\ sensor_port \in Slot /\ readBuff \in Slot

LEMMA ConnectorTypeParts ==
    /\ ConnectorTypeOK <=> ClientTypeOK /\ ThreadTypeOK
    /\ ConnectorTypeOK' <=> ClientTypeOK' /\ ThreadTypeOK'
  BY DEF ConnectorTypeOK, ThreadTypeOK, Runs, Rpcs, Slot

-----------------------------------------------------------------------------
\* Where the threads and the client may be.  A step of the connector is a
\* step of one thread (ThreadMove) together with what it does to the client.

\* Taking the result of a call: only pc changes.
LEMMA TakeResultType ==
    ASSUME ClientTypeOK, pc' = "idle",
           UNCHANGED <<wanVars, selfVars, want, rx, msg, ret, readVars, confirmed>>
    PROVE  ClientTypeOK'
  BY TypeParts, TypePartsPrime, WanStutterType, ReadStutterType DEF CallTypeOK, Labels, selfVars

LEMMA IncomingType == ThreadTypeOK => Incoming \in Message
<1>1. 1 \in PacketIds
  BY PacketIdAssumption DEF PacketIds
<1>2. QED BY <1>1 DEF ThreadTypeOK, Slot, Incoming, Message

LEMMA RunType == ASSUME ConnectorTypeOK, Run PROVE ConnectorTypeOK'
<1> USE ConnectorTypeParts
<1>0. [id |-> 0, qos |-> 0, body |-> 0] \in Message
  BY ZeroId DEF Message
<1>1. CASE Ctor
  BY <1>0, <1>1, CallsType, ClientStutterType DEF Ctor, ThreadTypeOK, Runs
<1>2. CASE GetConfig \/ SetMqttOptions \/ InitTls
  BY <1>2, ClientStutterType DEF GetConfig, SetMqttOptions, InitTls, ThreadTypeOK, Runs
<1>3. CASE DoTlsHandshake
  BY <1>3, LinkType, WanStutterType, CallStutterType, ReadStutterType, TypeParts, TypePartsPrime
     DEF DoTlsHandshake, ThreadTypeOK, Runs
<1>4. CASE DoMqttConnect
  BY <1>0, <1>4, CallsType DEF DoMqttConnect, ThreadTypeOK, Runs
<1>5. CASE MqttConnected
  BY <1>5, TakeResultType DEF MqttConnected, ThreadTypeOK, Runs
<1>6. CASE PostInitialized
  BY <1>6, ClientStutterType DEF PostInitialized, ThreadTypeOK, Runs
<1>7. QED BY <1>1, <1>2, <1>3, <1>4, <1>5, <1>6 DEF Run

LEMMA RpcType ==
    ASSUME ConnectorTypeOK, RpcBody \/ RpcCall \/ RpcReply PROVE ConnectorTypeOK'
<1> USE ConnectorTypeParts
<1>0. [id |-> 0, qos |-> 0, body |-> 0] \in Message
  BY ZeroId DEF Message
<1>1. CASE SemWait
  BY <1>1, ClientStutterType DEF SemWait, ThreadTypeOK, Rpcs
<1>2. CASE CopyPort
  BY <1>2, ClientStutterType DEF CopyPort, ThreadTypeOK, Rpcs
<1>3. CASE HandlePublish
  BY <1>3, CallsType, IncomingType DEF HandlePublish, ThreadTypeOK, Rpcs
<1>4. CASE HandleRejected
  <2>1. msg' \in Message
    BY <1>4, IncomingType, TypeParts DEF HandleRejected, CallTypeOK
  <2>2. ClientTypeOK'
    BY <1>4, <2>1, TypeParts, TypePartsPrime, WanStutterType, ReadStutterType
       DEF HandleRejected, CallTypeOK, selfVars
  <2>3. QED BY <1>4, <2>2 DEF HandleRejected, ThreadTypeOK, Rpcs
<1>5. CASE HandleConnect
  BY <1>5, ClientStutterType DEF HandleConnect, MQTTServer_sendConnAck, ThreadTypeOK, Rpcs
<1>6. CASE HandleOther
  BY <1>6, ClientStutterType DEF HandleOther, ThreadTypeOK, Rpcs
<1>7. CASE Published
  BY <1>7, TakeResultType DEF Published, ThreadTypeOK, Rpcs
<1>8. CASE PublishFailed
  BY <1>8, TakeResultType DEF PublishFailed, ThreadTypeOK, Rpcs
<1>9. CASE DoDisconnect
  BY <1>0, <1>9, CallsType DEF DoDisconnect, ThreadTypeOK, Rpcs
<1>10. CASE Disconnected
  BY <1>10, TakeResultType DEF Disconnected, ThreadTypeOK, Rpcs
<1>11. CASE SemPost
  BY <1>11, ClientStutterType DEF SemPost, ThreadTypeOK, Rpcs
<1>12. CASE RpcCall
  BY <1>12, ClientStutterType DEF RpcCall, ThreadTypeOK, Rpcs
<1>13. CASE RpcReply
  BY <1>13, ClientStutterType DEF RpcReply, ThreadTypeOK, Rpcs
<1>14. QED
  BY <1>1, <1>2, <1>3, <1>4, <1>5, <1>6, <1>7, <1>8, <1>9, <1>10, <1>11, <1>12, <1>13
     DEF RpcBody

LEMMA ConnectorNextType ==
    ASSUME ConnectorTypeOK, [ConnectorNext]_connectorVars PROVE ConnectorTypeOK'
<1> USE ConnectorTypeParts
<1>1. CASE Run BY <1>1, RunType
<1>2. CASE RpcBody \/ SenderCalls \/ RpcReply
  BY <1>2, RpcType DEF SenderCalls
<1>3. CASE SenderWrites
  BY <1>3, ClientStutterType DEF SenderWrites, ThreadTypeOK, Slot
<1>4. CASE Network
  BY <1>4, ClientStepType, WanStepType DEF Network, threadVars, ThreadTypeOK
<1>5. CASE UNCHANGED connectorVars
  BY <1>5, ClientStutterType DEF connectorVars, threadVars, ThreadTypeOK
<1>6. QED BY <1>1, <1>2, <1>3, <1>4, <1>5 DEF ConnectorNext

LEMMA ConnectorInitType == ConnectorInit => ConnectorTypeOK
  BY ClientInitType, ConnectorTypeParts
     DEF ConnectorInit, ThreadTypeOK, Runs, Rpcs, Slot, EmptyPort, PortKinds

(* Types of the whole CloudConnector: run, cloudConnector_rpc_write and the *)
(* client they share (CloudConnector.c).                                    *)
THEOREM ConnectorTypeCorrect == ConnectorSpec => []ConnectorTypeOK
<1>1. ConnectorTypeOK /\ [ConnectorNext]_connectorVars => ConnectorTypeOK'
  BY ConnectorNextType
<1>2. QED BY <1>1, ConnectorInitType, PTL DEF ConnectorSpec

-----------------------------------------------------------------------------
\* The semaphore.

LEMMA SemTokenStep ==
    ASSUME ConnectorTypeOK, SemToken, [ConnectorNext]_connectorVars PROVE SemToken'
<1> USE DEF SemToken, Posted, HoldsSem
<1>1. CASE Run
  BY <1>1 DEF Run, Ctor, GetConfig, SetMqttOptions, InitTls, DoTlsHandshake, DoMqttConnect,
              MqttConnected, PostInitialized
<1>2. CASE RpcBody
  <2>1. CASE SemWait
    BY <1>2, <2>1 DEF SemWait
  <2>2. CASE SemPost
    BY <1>2, <2>2 DEF SemPost
  <2>3. CASE CopyPort \/ HandlePublish \/ HandleRejected \/ HandleConnect \/ HandleOther
    BY <1>2, <2>3 DEF CopyPort, HandlePublish, HandleRejected, HandleConnect,
                      HandleOther, MQTTServer_readType, MQTTServer_sendConnAck
  <2>4. CASE Published \/ PublishFailed \/ DoDisconnect \/ Disconnected
    BY <1>2, <2>4 DEF Published, PublishFailed, DoDisconnect, Disconnected
  <2>5. QED BY <1>2, <2>1, <2>2, <2>3, <2>4 DEF RpcBody
<1>3. CASE SenderCalls \/ RpcReply \/ SenderWrites
  BY <1>3 DEF SenderCalls, RpcCall, RpcReply, SenderWrites
<1>4. CASE Network \/ UNCHANGED connectorVars
  BY <1>4 DEF Network, connectorVars, threadVars
<1>5. QED BY <1>1, <1>2, <1>3, <1>4 DEF ConnectorNext

(* sem is a single token: before the initialisation has posted it nobody    *)
(* is inside the critical section, and afterwards it is either free or held *)
(* by the interface thread.                                                 *)
THEOREM SemTokenInvariant == ConnectorSpec => []SemToken
<1>1. ConnectorInit => SemToken
  BY DEF ConnectorInit, SemToken, Posted, HoldsSem
<1>2. ConnectorTypeOK /\ SemToken /\ [ConnectorNext]_connectorVars => SemToken'
  BY SemTokenStep
<1>3. QED BY <1>1, <1>2, ConnectorTypeCorrect, PTL DEF ConnectorSpec

-----------------------------------------------------------------------------
\* The exclusive use of the client.

InCall == pc \notin {"new", "idle"}

\* Where the threads are, seen from the client.  Together with SemToken this
\* is inductive and implies ClientExclusive.
ThreadsMatchCall ==
    /\ run = "connecting" => InCall
    /\ rpc \in {"publishing", "disconnecting"} => InCall
    /\ InCall => run = "connecting" \/ rpc \in {"publishing", "disconnecting"}
    /\ run \notin {"ctor", "failed"} => pc # "new"

LEMMA ClientStepInCall ==
    ClientStep => pc \notin {"new", "idle"} /\ pc' \notin {"new", "idle"}
  BY DEF ClientStep, Proceed, SendConnect, SendPublish, SendPubrel, SendDisconnect, ReadPacket,
         ReadEnds, ReadFails, NothingRead, ReadFailsHalfway, ReadRest, KeepAliveQuiet,
         KeepAliveDead, SendPingReq, IgnorePacket, MalformedPacket, GotConnack,
         GotPubrec, GotAck, FailCall, Return, WaitFor

LEMMA WanStepCall == WanStep => UNCHANGED <<callVars, confirmed, isConnected>>
  BY DEF WanStep, KeepAliveElapses, selfVars

LEMMA ThreadsMatchCallStep ==
    ASSUME ConnectorTypeOK, SemToken, ThreadsMatchCall, [ConnectorNext]_connectorVars
    PROVE  ThreadsMatchCall'
<1> USE DEF ThreadsMatchCall, InCall
<1>1. CASE Ctor \/ GetConfig \/ SetMqttOptions \/ InitTls \/ DoTlsHandshake \/ PostInitialized
  BY <1>1 DEF Ctor, GetConfig, SetMqttOptions, InitTls, DoTlsHandshake, PostInitialized,
              MQTT_client_init, clientVars, callVars
<1>2. CASE DoMqttConnect
  BY <1>2 DEF DoMqttConnect, MQTT_client_connect, ConnectRejected, ConnectStarts, Return
<1>3. CASE MqttConnected
  BY <1>3 DEF MqttConnected, SemToken, Posted, HoldsSem
<1>4. CASE HandlePublish
  BY <1>4 DEF HandlePublish, MQTT_client_publish, PublishRejected, PublishStarts, Return
<1>5. CASE DoDisconnect
  BY <1>5 DEF DoDisconnect, MQTT_client_disconnect
<1>6. CASE Published \/ PublishFailed \/ Disconnected
  BY <1>6 DEF Published, PublishFailed, Disconnected, SemToken, Posted, HoldsSem
<1>7. CASE SemWait \/ CopyPort \/ HandleRejected \/ HandleConnect \/ HandleOther \/ SemPost
  BY <1>7 DEF SemWait, CopyPort, HandleRejected, HandleConnect, HandleOther, SemPost,
              MQTTServer_readType, MQTTServer_sendConnAck, clientVars, callVars
<1>8. CASE SenderWrites \/ SenderCalls \/ RpcReply
  BY <1>8 DEF SenderWrites, SenderCalls, RpcCall, RpcReply, clientVars, callVars
<1>9. CASE Network
  BY <1>9, ClientStepInCall, WanStepCall DEF Network, threadVars, callVars
<1>10. CASE UNCHANGED connectorVars
  BY <1>10 DEF connectorVars, threadVars, clientVars, callVars
<1>11. QED
  BY <1>1, <1>2, <1>3, <1>4, <1>5, <1>6, <1>7, <1>8, <1>9, <1>10 DEF ConnectorNext, Run, RpcBody

(* The two threads never use the MQTT client at the same time: it has no    *)
(* lock, only the order in which run and the RPC reach it (584, 449).       *)
THEOREM ClientExclusiveInvariant == ConnectorSpec => []ClientExclusive
<1>1. ConnectorInit => ThreadsMatchCall
  BY DEF ConnectorInit, ClientInit, ThreadsMatchCall, InCall
<1>2. ConnectorTypeOK /\ SemToken /\ ThreadsMatchCall /\ [ConnectorNext]_connectorVars
          => ThreadsMatchCall'
  BY ThreadsMatchCallStep
<1>3. SemToken /\ ThreadsMatchCall => ClientExclusive
  BY DEF SemToken, Posted, HoldsSem, ThreadsMatchCall, InCall, ClientExclusive
<1>4. QED
  BY <1>1, <1>2, <1>3, ConnectorTypeCorrect, SemTokenInvariant, PTL DEF ConnectorSpec

-----------------------------------------------------------------------------
\* What a handled message means.  The argument follows one message through
\* the interface thread: its body is new when it is copied from the port,
\* stays unconfirmed while the publish runs, and when the publish returns it
\* is confirmed exactly if the session has survived.

\* Bodies in the port grow, and what is confirmed is never ahead of readBuff.
FreshBodies ==
    /\ sensor_port = readBuff \/ sensor_port.body > readBuff.body
    /\ rpc \in {"sem_wait", "copy"} => sensor_port.body > readBuff.body
    /\ \A n \in confirmed : n <= readBuff.body

Unconfirmed == readBuff.body \notin confirmed

\* The control thread inside MQTT_client_connect.
ConnectPhase ==
    run = "connecting" =>
        /\ pc \in {"sendConnect", "read", "keepAlive", "match", "returned"}
        /\ pc # "returned" => want = "CONNACK"

\* The interface thread inside MQTT_client_publish: before the result ...
PublishRunning ==
    rpc = "publishing" /\ pc # "returned" =>
        /\ isConnected /\ Unconfirmed
        /\ msg.body = readBuff.body /\ msg.qos = 1
        /\ pc \in {"sendPublish", "read", "keepAlive", "match"}
        /\ want = IF pc = "sendPublish" THEN "none" ELSE "PUBACK"

\* ... and with it.
PublishOutcome ==
    rpc = "publishing" /\ pc = "returned" =>
        /\ ret = "success" => isConnected /\ ~Unconfirmed
        /\ ret = "failure" => ~isConnected /\ Unconfirmed

\* Before the publish, and after a failed one.
AroundPublish ==
    /\ rpc = "dispatch" => Unconfirmed
    /\ rpc \in {"disconnect", "disconnecting"} => ~isConnected /\ Unconfirmed
    /\ rpc = "disconnecting" => pc \in {"sendDisconnect", "returned"}
    /\ pc \in {"new", "idle", "returned"} => want = "none"

MessageInv ==
    /\ FreshBodies /\ ConnectPhase
    /\ PublishRunning /\ PublishOutcome /\ AroundPublish
    /\ HandledMeansConfirmed

LEMMA MessageInvStep ==
    ASSUME ConnectorTypeOK, SemToken, ThreadsMatchCall, MessageInv,
           [ConnectorNext]_connectorVars
    PROVE  MessageInv'
<1> USE DEF MessageInv, FreshBodies, Unconfirmed, ConnectPhase, PublishRunning, PublishOutcome,
            AroundPublish, HandledMeansConfirmed
<1>0. /\ SemToken /\ ThreadsMatchCall /\ ThreadTypeOK
      /\ isConnected \in BOOLEAN /\ confirmed \subseteq Nat
  BY ConnectorTypeParts, TypeParts DEF CallTypeOK
<1>1. CASE Run
  <2> USE DEF SemToken, Posted, HoldsSem, ThreadsMatchCall, InCall
  <2>1. CASE Ctor \/ GetConfig \/ SetMqttOptions \/ InitTls \/ DoTlsHandshake \/ PostInitialized
    BY <1>0, <2>1, ZenonT(40) DEF Ctor, GetConfig, SetMqttOptions, InitTls, DoTlsHandshake,
                      PostInitialized, MQTT_client_init, clientVars,
                      callVars, selfVars
  <2>2. CASE DoMqttConnect
    BY <1>0, <2>2 DEF DoMqttConnect, MQTT_client_connect, ConnectRejected, ConnectStarts, Return,
                      selfVars
  <2>3. CASE MqttConnected
    BY <1>0, <2>3 DEF MqttConnected, selfVars
  <2>4. QED BY <1>1, <2>1, <2>2, <2>3 DEF Run
<1>2. CASE SemWait \/ HandleConnect \/ SenderCalls \/ RpcReply
  BY <1>0, <1>2 DEF SemWait, HandleConnect, SenderCalls, RpcCall, RpcReply, ThreadTypeOK, Slot,
              MQTTServer_readType, MQTTServer_sendConnAck, clientVars, callVars, selfVars
<1>3. CASE CopyPort
  BY <1>0, <1>3 DEF CopyPort, ThreadTypeOK, Slot, clientVars, callVars, selfVars
<1>4. CASE HandlePublish
  BY <1>0, <1>4 DEF HandlePublish, MQTTServer_readType, MQTT_client_publish, PublishRejected,
                    PublishStarts, Incoming,
              closeSession, Return, SemToken, HoldsSem, Posted
<1>5. CASE HandleRejected \/ HandleOther
  BY <1>0, <1>5 DEF HandleRejected, HandleOther, MQTTServer_readType, clientVars, callVars, selfVars
<1>6. CASE Published \/ PublishFailed \/ Disconnected
  <2>0. run # "connecting" /\ want = "none"
    BY <1>0, <1>6 DEF Published, PublishFailed, Disconnected, SemToken, Posted
  <2>1. CASE Published
    BY <1>0, <2>0, <2>1 DEF Published, selfVars
  <2>2. CASE PublishFailed
    BY <1>0, <2>0, <2>2 DEF PublishFailed, selfVars
  <2>3. CASE Disconnected
    BY <1>0, <2>0, <2>3 DEF Disconnected, selfVars
  <2>4. QED BY <1>6, <2>1, <2>2, <2>3
<1>7. CASE DoDisconnect
  BY <1>0, <1>7 DEF DoDisconnect, MQTT_client_disconnect, selfVars, SemToken, HoldsSem, Posted
<1>8. CASE SemPost
  BY <1>0, <1>8 DEF SemPost, clientVars, callVars, selfVars
<1>9. CASE SenderWrites
  BY <1>0, <1>9 DEF SenderWrites, ThreadTypeOK, Slot, clientVars, callVars, selfVars
<1>10. CASE Network
  <2>1. CASE ClientStep
    <3>0. UNCHANGED <<run, rpc, sem, sensor_port, readBuff>>
      BY <1>10 DEF Network, threadVars
    <3> USE DEF SemToken, Posted, HoldsSem, ThreadsMatchCall, InCall
    <3>1. CASE SendConnect
      <4>1. run = "connecting"
        BY <1>0, <3>1 DEF SendConnect
      <4>2. rpc \in {"ready", "sem_wait"}
        BY <1>0, <4>1
      <4>3. QED
        BY <1>0, <3>0, <3>1, <4>1, <4>2 DEF SendConnect, WaitFor, FailCall, closeSession, Return
    <3>8. CASE SendPublish
      <4>1. rpc = "publishing" /\ run # "connecting"
        BY <1>0, <3>8 DEF SendPublish
      <4>2. /\ pc = "sendPublish" /\ isConnected /\ Unconfirmed /\ want = "none"
            /\ msg.body = readBuff.body /\ msg.qos = 1
        BY <3>8, <4>1 DEF SendPublish
      <4>3. UNCHANGED <<msg, confirmed>>
        BY <3>8 DEF SendPublish
      <4>4. CASE WaitFor("PUBACK") /\ UNCHANGED <<isConnected, isPingOutstanding, ret>>
        BY <1>0, <3>0, <4>1, <4>2, <4>3, <4>4 DEF WaitFor
      <4>5. CASE FailCall
        BY <1>0, <3>0, <4>1, <4>2, <4>3, <4>5 DEF FailCall, closeSession, Return
      <4>6. \/ WaitFor("PUBACK") /\ UNCHANGED <<isConnected, isPingOutstanding, ret>>
            \/ FailCall
        <5>1. msg.qos # 0 /\ msg.qos # 2 /\ msg.qos # 3
          BY <4>2
        <5>2. QED BY <3>8, <4>2, <5>1, Zenon DEF SendPublish
      <4>7. QED BY <4>4, <4>5, <4>6
    <3>2. CASE SendPubrel \/ SendDisconnect
      BY <1>0, <3>0, <3>2 DEF SendPubrel, SendDisconnect, WaitFor, FailCall, closeSession, Return
    <3>3. CASE \/ ReadPacket \/ ReadEnds \/ ReadFails \/ ReadFailsHalfway \/ ReadRest
               \/ KeepAliveQuiet \/ IgnorePacket \/ GotPubrec
      BY <1>0, <3>0, <3>3
         DEF ReadPacket, ReadEnds, ReadFails, NothingRead, ReadFailsHalfway, ReadRest,
             KeepAliveQuiet, IgnorePacket, GotPubrec, selfVars
    <3>4. CASE KeepAliveDead \/ SendPingReq \/ MalformedPacket
      BY <1>0, <3>0, <3>4 DEF KeepAliveDead, SendPingReq, MalformedPacket, FailCall, closeSession, Return
    <3>5. CASE GotConnack
      BY <1>0, <3>0, <3>5 DEF GotConnack, Return
    <3>6. CASE GotAck
      BY <1>0, <3>0, <3>6 DEF GotAck, Return, selfVars, ThreadTypeOK, Slot
    <3>7. QED BY <2>1, <3>1, <3>2, <3>3, <3>4, <3>5, <3>6, <3>8 DEF ClientStep, Proceed
  <2>2. CASE WanStep
    BY <1>10, <2>2, WanStepCall DEF Network, threadVars, callVars
  <2>3. QED BY <1>10, <2>1, <2>2 DEF Network
<1>11. CASE UNCHANGED connectorVars
  BY <1>11 DEF connectorVars, threadVars, clientVars, callVars, selfVars
<1>12. QED
  BY <1>1, <1>2, <1>3, <1>4, <1>5, <1>6, <1>7, <1>8, <1>9, <1>10, <1>11 DEF ConnectorNext, RpcBody

(* When a PUBLISH of the sender has been handled, the session is still      *)
(* there exactly if the broker acknowledged that message: the connector     *)
(* never goes on with a session and an unacknowledged message behind it     *)
(* (handle_MQTT_PUBLISH, 332-369).                                          *)
THEOREM HandledMeansConfirmedInvariant == ConnectorSpec => []HandledMeansConfirmed
<1>1. ConnectorInit => SemToken /\ ThreadsMatchCall /\ MessageInv
  BY DEF ConnectorInit, ClientInit, SemToken, Posted, HoldsSem, ThreadsMatchCall, InCall,
         MessageInv, FreshBodies, ConnectPhase, PublishRunning, PublishOutcome, AroundPublish,
         HandledMeansConfirmed, EmptyPort
<1>2. ConnectorTypeOK /\ SemToken /\ ThreadsMatchCall /\ MessageInv
        /\ [ConnectorNext]_connectorVars => (SemToken /\ ThreadsMatchCall /\ MessageInv)'
  BY SemTokenStep, ThreadsMatchCallStep, MessageInvStep
<1>3. MessageInv => HandledMeansConfirmed
  BY DEF MessageInv
<1>4. QED BY <1>1, <1>2, <1>3, ConnectorTypeCorrect, PTL DEF ConnectorSpec

-----------------------------------------------------------------------------
\* Silence after a lost session.

\* The packets that the step adds to the stream are of these kinds.
AddsOnly(kinds) ==
    \A i \in Len(toBroker) + 1..Len(toBroker') : toBroker'[i].kind \in kinds

Silent == ~isConnected' /\ AddsOnly({"DISCONNECT", "garbage"})

LEMMA AddsNothing ==
    ASSUME WanTypeOK,
           \/ toBroker' = toBroker \/ toBroker' = << >>
           \/ toBroker # << >> /\ toBroker' = Tail(toBroker)
    PROVE  \A kinds : AddsOnly(kinds)
<1>1. Len(toBroker) \in Nat /\ Len(toBroker') \in Nat /\ Len(toBroker') <= Len(toBroker)
  BY DEF WanTypeOK
<1>2. QED BY <1>1 DEF AddsOnly

LEMMA SendDisconnectSilent == ASSUME WanTypeOK, SendDisconnect PROVE Silent
<1> DEFINE d == Control("DISCONNECT")
<1>1. ~isConnected' BY DEF SendDisconnect, closeSession
<1>2. \/ toBroker' = toBroker
      \/ \E q \in {d, Control("garbage")} : toBroker' = Append(toBroker, q)
  BY DEF SendDisconnect, SendPacket, WriteFails, Arrives, InStream
<1>3. CASE toBroker' = toBroker BY <1>1, <1>3, AddsNothing DEF Silent
<1>4. ASSUME NEW q \in {d, Control("garbage")}, toBroker' = Append(toBroker, q) PROVE Silent
  <2>1. q.kind \in {"DISCONNECT", "garbage"} BY <1>4 DEF Control
  <2>2. /\ Len(toBroker) \in Nat /\ Len(toBroker') = Len(toBroker) + 1
        /\ toBroker'[Len(toBroker) + 1] = q
    BY <1>4 DEF WanTypeOK
  <2>3. \A i \in Len(toBroker) + 1..Len(toBroker') : i = Len(toBroker) + 1 BY <2>2
  <2>4. QED BY <1>1, <2>1, <2>2, <2>3 DEF Silent, AddsOnly
<1>5. QED BY <1>2, <1>3, <1>4

LEMMA SilentStep ==
    ASSUME ConnectorTypeOK, SemToken, ThreadsMatchCall, MessageInv, [ConnectorNext]_connectorVars,
           Posted, ~isConnected
    PROVE  Silent
<1>0. WanTypeOK BY ConnectorTypeParts, TypeParts
<1>1. pc \in {"idle", "returned", "sendDisconnect"}
  BY DEF Posted, MessageInv, PublishRunning, AroundPublish, ThreadsMatchCall, InCall
<1>2. CASE UNCHANGED <<wanVars, isConnected>> BY <1>0, <1>2, AddsNothing DEF Silent, wanVars
<1>3. CASE ClientStep
  <2>1. SendDisconnect
    BY <1>1, <1>3
       DEF ClientStep, Proceed, SendConnect, SendPublish, SendPubrel, ReadPacket, ReadEnds,
           ReadFails, NothingRead, ReadFailsHalfway, ReadRest, KeepAliveQuiet, KeepAliveDead,
           SendPingReq, IgnorePacket, MalformedPacket, GotConnack, GotPubrec, GotAck
  <2>2. QED BY <1>0, <2>1, SendDisconnectSilent
<1>4. CASE WanStep
  <2>1. isConnected' = isConnected BY <1>4, WanStepCall
  <2>2. \/ toBroker' = toBroker \/ toBroker' = << >>
        \/ toBroker # << >> /\ toBroker' = Tail(toBroker)
    BY <1>4
       DEF WanStep, LinkDrops, KeepAliveElapses, wanVars, Broker, BrokerAccepts, BrokerRefuses,
           BrokerPublish0, BrokerPublish1, BrokerPublish2, BrokerPubrel, BrokerPing, BrokerEnds,
           BrokerSkipsGarbage, BrokerReads, Consumes, BrokerCloses
  <2>3. QED BY <1>0, <2>1, <2>2, AddsNothing DEF Silent
<1>5. CASE Run
  BY <1>5
     DEF Posted, Run, Ctor, GetConfig, SetMqttOptions, InitTls, DoTlsHandshake, DoMqttConnect,
         MqttConnected, PostInitialized
<1>6. CASE HandlePublish
  <2>1. PublishRejected(Incoming)
    BY <1>6 DEF HandlePublish, MQTT_client_publish, PublishStarts
  <2>2. UNCHANGED wanVars /\ ~isConnected' BY <2>1 DEF PublishRejected, closeSession
  <2>3. QED BY <1>0, <2>2, AddsNothing DEF Silent, wanVars
<1>7. CASE \/ SemWait \/ CopyPort \/ HandleRejected \/ HandleConnect \/ HandleOther
           \/ Published \/ PublishFailed \/ DoDisconnect \/ Disconnected \/ SemPost
  BY <1>2, <1>7
     DEF SemWait, CopyPort, HandleRejected, HandleConnect, HandleOther, MQTTServer_sendConnAck,
         Published, PublishFailed, DoDisconnect, MQTT_client_disconnect, Disconnected, SemPost,
         clientVars, selfVars
<1>8. CASE SenderWrites \/ SenderCalls \/ RpcReply \/ UNCHANGED connectorVars
  BY <1>2, <1>8
     DEF SenderWrites, SenderCalls, RpcCall, RpcReply, connectorVars, clientVars, selfVars
<1>9. QED BY <1>3, <1>4, <1>5, <1>6, <1>7, <1>8 DEF ConnectorNext, RpcBody, Network

(* A lost session is never replaced, and no message of the sender goes out  *)
(* any more: PublishRejected answers (560), only DISCONNECT is written.     *)
THEOREM SilentWithoutSessionProperty == ConnectorSpec => SilentWithoutSession
<1>1. ConnectorInit => SemToken /\ ThreadsMatchCall /\ MessageInv
  BY DEF ConnectorInit, ClientInit, SemToken, Posted, HoldsSem, ThreadsMatchCall, InCall,
         MessageInv, FreshBodies, ConnectPhase, PublishRunning, PublishOutcome, AroundPublish,
         HandledMeansConfirmed, EmptyPort
<1>2. ConnectorTypeOK /\ SemToken /\ ThreadsMatchCall /\ MessageInv
        /\ [ConnectorNext]_connectorVars => (SemToken /\ ThreadsMatchCall /\ MessageInv)'
  BY SemTokenStep, ThreadsMatchCallStep, MessageInvStep
<1>3. ConnectorTypeOK /\ SemToken /\ ThreadsMatchCall /\ MessageInv
        /\ [ConnectorNext]_connectorVars
        => (Posted /\ ~isConnected =>
              /\ ~isConnected'
              /\ \A i \in Len(toBroker) + 1..Len(toBroker') :
                    toBroker'[i].kind \in {"DISCONNECT", "garbage"})
  BY SilentStep DEF Silent, AddsOnly
<1>4. QED
  BY <1>1, <1>2, <1>3, ConnectorTypeCorrect, PTL DEF ConnectorSpec, SilentWithoutSession

-----------------------------------------------------------------------------
\* The CloudConnector as a caller of the client.

\* What is handed to the client is never ahead of the private copy of the port.
BodyInv ==
    /\ msg.body <= readBuff.body
    /\ rpc = "dispatch" => msg.body < readBuff.body

\* Whoever may call the client has a connection.
LinkInv == run \in {"connect", "connecting", "post", "done"} => link # "down"

ConnectorInv ==
    ConnectorTypeOK /\ SemToken /\ ThreadsMatchCall /\ MessageInv /\ BodyInv /\ LinkInv

LEMMA ConnectorInitInv == ConnectorInit => ConnectorInv
<1>1. ConnectorInit => SemToken /\ ThreadsMatchCall /\ MessageInv
  BY DEF ConnectorInit, ClientInit, SemToken, Posted, HoldsSem, ThreadsMatchCall, InCall,
         MessageInv, FreshBodies, ConnectPhase, PublishRunning, PublishOutcome, AroundPublish,
         HandledMeansConfirmed, EmptyPort
<1>2. ConnectorInit => BodyInv /\ LinkInv
  BY DEF ConnectorInit, ClientInit, NoMessage, EmptyPort, BodyInv, LinkInv
<1>3. QED BY <1>1, <1>2, ConnectorInitType DEF ConnectorInv

LEMMA BodyTypes ==
    ASSUME ConnectorTypeOK
    PROVE  msg.body \in Nat /\ readBuff.body \in Nat /\ sensor_port.body \in Nat
  BY ConnectorTypeParts, TypeParts DEF CallTypeOK, Message, ThreadTypeOK, Slot

\* The steps of the client and the network move no body.
LEMMA ClientStepMessage == ClientStep \/ WanStep => msg' = msg
<1>1. ClientStep => msg' = msg
  BY DEF ClientStep, Proceed, SendConnect, SendPublish, SendPubrel, SendDisconnect, ReadPacket,
         ReadEnds, ReadFails, NothingRead, ReadFailsHalfway, ReadRest, KeepAliveQuiet,
         KeepAliveDead, SendPingReq, IgnorePacket, MalformedPacket, GotConnack,
         GotPubrec, GotAck
<1>2. QED BY <1>1, WanStepCall DEF callVars

LEMMA BodyInvStep ==
    ASSUME ConnectorInv, [ConnectorNext]_connectorVars PROVE BodyInv'
<1> USE DEF BodyInv
<1>0. BodyInv /\ msg.body \in Nat /\ readBuff.body \in Nat /\ sensor_port.body \in Nat
  BY BodyTypes DEF ConnectorInv
<1>1. CASE Run
  BY <1>0, <1>1
     DEF Run, Ctor, GetConfig, SetMqttOptions, InitTls, DoTlsHandshake, DoMqttConnect,
         MqttConnected, PostInitialized, MQTT_client_init, MQTT_client_connect, ConnectRejected,
         ConnectStarts, clientVars, callVars
<1>2. CASE CopyPort
  <2>1. sensor_port.body > readBuff.body
    BY <1>2 DEF CopyPort, ConnectorInv, MessageInv, FreshBodies
  <2>2. QED BY <1>0, <1>2, <2>1 DEF CopyPort, clientVars, callVars
<1>3. CASE HandlePublish \/ HandleRejected
  <2>1. rpc' # "dispatch" /\ readBuff' = readBuff /\ msg' \in {msg, Incoming, [Incoming EXCEPT !.id = getNextPacketId]}
    BY <1>3
       DEF HandlePublish, HandleRejected, MQTT_client_publish, PublishRejected, PublishStarts,
           Incoming
  <2>2. msg'.body \in {msg.body, readBuff.body} BY <2>1 DEF Incoming
  <2>3. QED BY <1>0, <2>1, <2>2
<1>4. CASE \/ SemWait \/ HandleConnect \/ HandleOther \/ Published \/ PublishFailed
           \/ DoDisconnect \/ Disconnected \/ SemPost
  BY <1>0, <1>4
     DEF SemWait, HandleConnect, MQTTServer_sendConnAck, HandleOther, Published, PublishFailed,
         DoDisconnect, MQTT_client_disconnect, Disconnected, SemPost, clientVars, callVars
<1>5. CASE SenderWrites \/ SenderCalls \/ RpcReply
  BY <1>0, <1>5 DEF SenderWrites, SenderCalls, RpcCall, RpcReply, clientVars, callVars
<1>6. CASE Network BY <1>0, <1>6, ClientStepMessage DEF Network, threadVars
<1>7. CASE UNCHANGED connectorVars
  BY <1>0, <1>7 DEF connectorVars, threadVars, clientVars, callVars
<1>8. QED BY <1>1, <1>2, <1>3, <1>4, <1>5, <1>6, <1>7 DEF ConnectorNext, RpcBody

\* A connection that exists can be closed, but not made undone.
LEMMA LinkStays ==
    ASSUME [ConnectorNext]_connectorVars, link # "down" PROVE link' # "down"
<1>1. CASE UNCHANGED wanVars BY <1>1 DEF wanVars
<1>2. CASE Run
  BY <1>1, <1>2
     DEF Run, Ctor, GetConfig, SetMqttOptions, InitTls, DoTlsHandshake, OpenLink, DoMqttConnect,
         MqttConnected, PostInitialized, MQTT_client_init, MQTT_client_connect, ConnectRejected,
         ConnectStarts, clientVars
<1>3. CASE RpcBody
  BY <1>1, <1>3
     DEF RpcBody, SemWait, CopyPort, HandlePublish, MQTT_client_publish, PublishRejected,
         PublishStarts, HandleRejected, HandleConnect, HandleOther, Published, PublishFailed,
         DoDisconnect, MQTT_client_disconnect, Disconnected, SemPost, clientVars
<1>4. CASE SenderWrites \/ SenderCalls \/ RpcReply \/ UNCHANGED connectorVars
  BY <1>1, <1>4 DEF SenderWrites, SenderCalls, RpcCall, RpcReply, connectorVars, clientVars
<1>5. CASE WanStep
  BY <1>5
     DEF WanStep, LinkDrops, KeepAliveElapses, wanVars, Broker, BrokerAccepts, BrokerRefuses,
         BrokerPublish0, BrokerPublish1, BrokerPublish2, BrokerPubrel, BrokerPing, BrokerEnds,
         BrokerSkipsGarbage, Consumes, BrokerCloses
<1>6. CASE ClientStep
  <2>1. CASE SendConnect \/ SendPublish \/ SendPubrel \/ SendDisconnect \/ SendPingReq
    BY <2>1, WriteFacts DEF SendConnect, SendPublish, SendPubrel, SendDisconnect, SendPingReq
  <2>2. CASE \/ ReadPacket \/ ReadEnds \/ ReadFails \/ ReadFailsHalfway \/ ReadRest
             \/ KeepAliveQuiet \/ KeepAliveDead
             \/ IgnorePacket \/ MalformedPacket \/ GotConnack \/ GotPubrec \/ GotAck
    BY <2>2
       DEF ReadPacket, ReadEnds, ReadFails, NothingRead, ReadFailsHalfway, ReadRest,
           KeepAliveQuiet, KeepAliveDead, IgnorePacket, MalformedPacket, GotConnack, GotPubrec,
           GotAck, wanVars
  <2>3. QED BY <1>6, <2>1, <2>2 DEF ClientStep, Proceed
<1>7. QED BY <1>2, <1>3, <1>4, <1>5, <1>6 DEF ConnectorNext, Network

LEMMA LinkInvStep ==
    ASSUME ConnectorInv, [ConnectorNext]_connectorVars PROVE LinkInv'
<1>1. CASE link # "down" BY <1>1, LinkStays DEF LinkInv
<1>2. CASE link = "down"
  <2>0. run \notin {"connect", "connecting", "post", "done"} BY <1>2 DEF ConnectorInv, LinkInv
  <2>1. CASE Run
    BY <2>0, <2>1
       DEF LinkInv, Run, Ctor, GetConfig, SetMqttOptions, InitTls, DoTlsHandshake, OpenLink,
           DoMqttConnect, MqttConnected, PostInitialized
  <2>2. CASE run' = run BY <2>0, <2>2 DEF LinkInv
  <2>3. ~Run => run' = run
    BY DEF ConnectorNext, RpcBody, SemWait, CopyPort, HandlePublish, HandleRejected, HandleConnect,
           HandleOther, Published, PublishFailed, DoDisconnect, Disconnected, SemPost,
           SenderWrites, SenderCalls, RpcCall, RpcReply, Network, connectorVars, threadVars
  <2>4. QED BY <2>1, <2>2, <2>3
<1>3. QED BY <1>1, <1>2

LEMMA ConnectorInvStep ==
    ASSUME ConnectorInv, [ConnectorNext]_connectorVars PROVE ConnectorInv'
  BY ConnectorNextType, SemTokenStep, ThreadsMatchCallStep, MessageInvStep, BodyInvStep,
     LinkInvStep DEF ConnectorInv

LEMMA ConnectorInvariant == ConnectorSpec => []ConnectorInv
  BY ConnectorInitInv, ConnectorInvStep, PTL DEF ConnectorSpec

\* While the interface thread has a packet, no call runs and there is a connection.
LEMMA ThreadMayCall ==
    ASSUME ConnectorInv, rpc \in {"dispatch", "disconnect"} \/ run = "connect"
    PROVE  pc = "idle" /\ link # "down"
  BY DEF ConnectorInv, SemToken, Posted, HoldsSem, ThreadsMatchCall, InCall, LinkInv

LEMMA ConnectorStepIsUse ==
    ASSUME ConnectorInv, [ConnectorNext]_connectorVars PROVE [UseNext]_clientVars
<1>0. msg.body \in Nat /\ msg \in Message /\ readBuff.body \in Nat /\ Incoming \in Message
  BY BodyTypes, ConnectorTypeParts, IncomingType, TypeParts DEF ConnectorInv, CallTypeOK
<1>1. CASE UNCHANGED clientVars BY <1>1
<1>2. CASE Ctor BY <1>2 DEF Ctor, UseNext
<1>3. CASE GetConfig \/ SetMqttOptions \/ InitTls \/ PostInitialized
  BY <1>3 DEF GetConfig, SetMqttOptions, InitTls, PostInitialized
<1>4. CASE DoTlsHandshake
  BY <1>4 DEF DoTlsHandshake, LibraryOpenLink, UseNext, clientVars
<1>5. CASE DoMqttConnect BY <1>5, ThreadMayCall DEF DoMqttConnect, UseNext, UseCall
<1>6. CASE MqttConnected \/ Published \/ PublishFailed \/ Disconnected
  BY <1>6 DEF MqttConnected, Published, PublishFailed, Disconnected, LibraryReturn, UseNext
<1>7. CASE HandlePublish
  <2>1. msg.body < Incoming.body BY <1>7 DEF HandlePublish, ConnectorInv, BodyInv, Incoming
  <2>2. link # "down" /\ MQTT_client_publish(Incoming) BY <1>7, ThreadMayCall DEF HandlePublish
  <2>3. QED BY <1>0, <2>1, <2>2 DEF UseNext, UseCall, UsePublish
<1>8. CASE HandleRejected
  <2>1. pc = "idle" BY <1>8, ThreadMayCall DEF HandleRejected
  <2>2. msg.body <= Incoming.body BY <1>0 DEF ConnectorInv, BodyInv, Incoming
  <2>3. msg' \in Message /\ msg.body <= msg'.body BY <1>0, <1>8, <2>2 DEF HandleRejected
  <2>4. UsePrepare BY <1>8, <2>1, <2>3 DEF HandleRejected, UsePrepare
  <2>5. QED BY <2>4 DEF UseNext
<1>9. CASE DoDisconnect BY <1>9, ThreadMayCall DEF DoDisconnect, UseNext, UseCall
<1>10. CASE SemWait \/ CopyPort \/ HandleConnect \/ HandleOther \/ SemPost
  BY <1>10 DEF SemWait, CopyPort, HandleConnect, HandleOther, SemPost
<1>11. CASE SenderWrites \/ SenderCalls \/ RpcReply
  BY <1>11 DEF SenderWrites, SenderCalls, RpcCall, RpcReply
<1>12. CASE Network BY <1>12 DEF Network, UseNext
<1>13. CASE UNCHANGED connectorVars BY <1>13 DEF connectorVars
<1>14. QED
  BY <1>2, <1>3, <1>4, <1>5, <1>6, <1>7, <1>8, <1>9, <1>10, <1>11, <1>12, <1>13
     DEF ConnectorNext, Run, RpcBody

(* The two threads of the CloudConnector together are a proper caller of    *)
(* the MQTT client: one call at a time, none before glue_tls_handshake has  *)
(* succeeded, and every message new, also when packets of the port are      *)
(* refused in between (do_process_publish, 264-329).                        *)
THEOREM ConnectorUsesClient == ConnectorSpec => UseSpec
<1>1. ConnectorInit => ClientInit BY DEF ConnectorInit
<1>2. ConnectorInv /\ [ConnectorNext]_connectorVars => [UseNext]_clientVars
  BY ConnectorStepIsUse
<1>3. QED BY <1>1, <1>2, ConnectorInvariant, PTL DEF ConnectorSpec, UseSpec

-----------------------------------------------------------------------------
\* The reader never acts on a packet nobody sent.

\* Before the client is connected there is no exchange whose acknowledgement
\* could be taken for a CONNACK.
QuietStart ==
    ~Posted =>
        /\ \A i \in 1..Len(toBroker) : toBroker[i].kind \notin {"PUBLISH", "PUBREL"}
        /\ \A i \in 1..Len(toClient) : toClient[i].kind \notin AckKinds

LEMMA QuietStartStep ==
    ASSUME ConnectorInv, QuietStart, [ConnectorNext]_connectorVars PROVE QuietStart'
<1> SUFFICES ASSUME ~Posted'
             PROVE  /\ \A i \in 1..Len(toBroker') : toBroker'[i].kind \notin {"PUBLISH", "PUBREL"}
                    /\ \A i \in 1..Len(toClient') : toClient'[i].kind \notin AckKinds
  BY DEF QuietStart
<1>0. ClientTypeOK /\ toBroker \in Seq(ClientPacket)
  BY ConnectorTypeParts, TypeParts DEF ConnectorInv, WanTypeOK
<1>1. ~Posted
  BY DEF Posted, ConnectorNext, Run, Ctor, GetConfig, SetMqttOptions, InitTls, DoTlsHandshake,
         DoMqttConnect, MqttConnected, PostInitialized, RpcBody, SemWait, CopyPort, HandlePublish,
         HandleRejected, HandleConnect, HandleOther, Published, PublishFailed, DoDisconnect,
         Disconnected, SemPost, SenderWrites, SenderCalls, RpcCall, RpcReply, Network,
         connectorVars, threadVars
<1>2. /\ \A i \in 1..Len(toBroker) : toBroker[i].kind \notin {"PUBLISH", "PUBREL"}
      /\ \A i \in 1..Len(toClient) : toClient[i].kind \notin AckKinds
  BY <1>1 DEF QuietStart
<1>3. [UseNext]_clientVars BY ConnectorStepIsUse
<1>4. pc \notin {"sendPublish", "sendPubrel"}
  BY <1>1 DEF ConnectorInv, SemToken, ThreadsMatchCall, InCall, MessageInv, ConnectPhase
<1>5. \A i \in 1..Len(toClient') : toClient'[i].kind \notin AckKinds
  BY <1>0, <1>2, <1>3, AnswerStep
<1>6. CASE PartOf(toBroker', toBroker) BY <1>2, <1>5, <1>6 DEF PartOf
<1>7. ASSUME NEW q \in ClientPacket, toBroker' = Append(toBroker, q),
             q.kind \notin {"PUBLISH", "PUBREL"}
      PROVE  \A i \in 1..Len(toBroker') : toBroker'[i].kind \notin {"PUBLISH", "PUBREL"}
  <2>1. \A i \in 1..Len(toBroker') :
           \/ toBroker'[i] = q
           \/ i \in 1..Len(toBroker) /\ toBroker'[i] = toBroker[i]
    BY <1>0, <1>7
  <2>2. QED BY <1>2, <1>7, <2>1
<1>8. QED BY <1>0, <1>3, <1>4, <1>5, <1>6, <1>7, StreamStep

\* What the connector waits for while it reads.
LEMMA WaitsFor ==
    ASSUME ConnectorInv, pc = "read"
    PROVE  want = "PUBACK" \/ (want = "CONNACK" /\ ~Posted)
  BY DEF ConnectorInv, ThreadsMatchCall, InCall, MessageInv, ConnectPhase, PublishRunning,
         AroundPublish, Posted

LEMMA NeverStraysStep ==
    ASSUME ConnectorInv, QuietStart, NeverStrays, [ConnectorNext]_connectorVars
    PROVE  NeverStrays'
<1>1. [UseNext]_clientVars BY ConnectorStepIsUse
<1>2. CASE ReadRest
  <2>1. toClient \in Seq(BrokerPacket)
    BY ConnectorTypeParts, TypeParts DEF ConnectorInv, WanTypeOK
  <2>2. pc = "read" /\ toClient # << >> BY <1>2 DEF ReadRest
  <2>3. PICK n \in 0..Len(toClient) : rx' \in Misread(n) BY <1>2 DEF ReadRest
  <2>4. CASE want = "PUBACK" BY <1>2, <2>4 DEF ReadRest, NeverStrays
  <2>5. CASE want = "CONNACK" /\ ~Posted
    <3>1. Head(toClient).kind \notin AckKinds
      <4>1. 1 \in 1..Len(toClient) /\ Head(toClient) = toClient[1] BY <2>1, <2>2
      <4>2. QED BY <2>5, <4>1 DEF QuietStart
    <3>2. rx' \in {NoPacket, UnknownPacket} BY <2>3, <3>1 DEF Misread
    <3>3. rx'.kind # "CONNACK" BY <3>2 DEF NoPacket, UnknownPacket, Answer
    <3>4. QED BY <1>2, <2>5, <3>3 DEF ReadRest, NeverStrays
  <2>6. QED BY <2>2, <2>4, <2>5, WaitsFor
<1>3. CASE UNCHANGED readVars BY <1>3 DEF NeverStrays, readVars
<1>4. QED BY <1>1, <1>2, <1>3, ReadVarsStep DEF NeverStrays

(* The connector never acts on a packet that it only found in the middle of *)
(* another one: run waits for a CONNACK before anything is published        *)
(* (437-449), and do_process_publish asks for QoS 1 (240-243), so that no   *)
(* PUBREC is ever waited for.                                               *)
THEOREM NeverStraysInvariant == ConnectorSpec => []NeverStrays
<1>1. ConnectorInit => QuietStart /\ NeverStrays
  BY DEF ConnectorInit, ClientInit, WanInit, QuietStart, NeverStrays
<1>2. ConnectorInv /\ QuietStart /\ NeverStrays /\ [ConnectorNext]_connectorVars
        => (QuietStart /\ NeverStrays)'
  BY QuietStartStep, NeverStraysStep
<1>3. QED BY <1>1, <1>2, ConnectorInvariant, PTL DEF ConnectorSpec

(* So the exchanges of the CloudConnector with the broker cannot be mixed   *)
(* up, and the broker gets its messages in order and at most once: the      *)
(* acknowledgement handle_MQTT_PUBLISH (332-369) waits for is the one of    *)
(* the packet that was in the port.                                         *)
THEOREM ConnectorExchangeSafety ==
    ConnectorSpec => [](/\ NeverStrays /\ AckIsForThisPublish /\ OneExchange
                        /\ PublishWellFormed /\ ConfirmedDelivered /\ DeliveredInOrder
                        /\ PingAccounted)
  BY ConnectorUsesClient, ExchangeSafety, NeverStraysInvariant, PTL
=============================================================================
