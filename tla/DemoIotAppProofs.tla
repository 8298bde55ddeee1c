-------------------------- MODULE DemoIotAppProofs --------------------------
(***************************************************************************)
(* The composed system keeps the assumption the CloudConnector makes about *)
(* its sender, so what is proved of the CloudConnector holds in the demo.  *)
(***************************************************************************)
EXTENDS DemoIotApp, CloudConnectorProofs

\* The synchronous call ties the sensor to the interface thread, and the port
\* to what the thread has copied.
PortInv ==
    /\ (sensor = "blocked") = (rpc # "ready")
    /\ sensor_port = readBuff \/ sensor_port.body > readBuff.body
    /\ sensor = "call" => sensor_port.body > readBuff.body
    /\ rpc \notin {"ready", "sem_wait", "copy"} => readBuff = sensor_port
    /\ sensor \in {"call", "blocked"} => sensor_port.kind = "PUBLISH"

LEMMA DemoInitInv == DemoInit => ConnectorInit /\ ConnectorTypeOK /\ PortInv
<1>1. DemoInit => ConnectorInit /\ ConnectorTypeOK
  BY ConnectorInitType DEF DemoInit
<1>2. DemoInit => PortInv
  BY DEF DemoInit, ConnectorInit, PortInv, EmptyPort
<1>3. QED BY <1>1, <1>2

\* Every step of the demo is a step the CloudConnector allows, or leaves it alone.
LEMMA DemoStepIsConnectorStep ==
    ASSUME ConnectorTypeOK, PortInv, [DemoNext]_demoVars
    PROVE  [ConnectorNext]_connectorVars
<1> USE DEF connectorVars, threadVars
<1>1. CASE SensorStep
  <2>1. CASE SensorTemp!WritePort
    <3>1. rpc = "ready"
      BY <2>1 DEF SensorTemp!WritePort, PortInv
    <3>2. SenderWrites
      BY <1>1, <2>1, <3>1 DEF SensorStep, SensorTemp!WritePort, SenderWrites, PortKinds
    <3>3. QED BY <3>2 DEF ConnectorNext
  <2>2. CASE \/ SensorTemp!InitializeSensor \/ SensorTemp!GetMessage
             \/ SensorTemp!NotifyWait
    BY <1>1, <2>2 DEF SensorStep, SensorTemp!InitializeSensor, SensorTemp!GetMessage,
                      SensorTemp!NotifyWait
  <2>3. QED BY <1>1, <2>1, <2>2 DEF SensorStep
<1>2. CASE TimeServer
  BY <1>2 DEF TimeServer, SensorTemp!TimerTick
<1>3. CASE Call
  <2>1. sensor_port # readBuff
    BY <1>3, ConnectorTypeParts
       DEF Call, SensorTemp!CallRpc, PortInv, ThreadTypeOK, Slot
  <2>2. QED BY <1>3, <2>1 DEF Call, SenderCalls, ConnectorNext
<1>4. CASE Reply
  BY <1>4 DEF Reply, ConnectorNext
<1>5. CASE ConnectorStep
  BY <1>5 DEF ConnectorStep, ConnectorNext
<1>6. CASE NetworkStep
  BY <1>6 DEF NetworkStep, ConnectorNext
<1>7. CASE UNCHANGED demoVars
  BY <1>7 DEF demoVars
<1>8. QED BY <1>1, <1>2, <1>3, <1>4, <1>5, <1>6, <1>7 DEF DemoNext

LEMMA PortInvStep ==
    ASSUME ConnectorTypeOK, PortInv, [DemoNext]_demoVars PROVE PortInv'
<1> USE DEF PortInv
<1>0. ThreadTypeOK
  BY ConnectorTypeParts
<1>1. CASE SensorStep
  BY <1>0, <1>1 DEF SensorStep, SensorTemp!InitializeSensor, SensorTemp!GetMessage,
                    SensorTemp!WritePort, SensorTemp!NotifyWait, ThreadTypeOK, Slot
<1>2. CASE TimeServer
  BY <1>2 DEF TimeServer, SensorTemp!TimerTick
<1>3. CASE Call
  BY <1>3 DEF Call, SensorTemp!CallRpc, RpcCall
<1>4. CASE Reply
  BY <1>4 DEF Reply, RpcReply, SensorTemp!ReturnRpc
<1>5. CASE ConnectorStep
  <2>1. CASE Run
    BY <1>5, <2>1 DEF ConnectorStep, Run, Ctor, GetConfig, SetMqttOptions, InitTls,
                      DoTlsHandshake, DoMqttConnect, MqttConnected, PostInitialized
  <2>2. CASE RpcBody
    BY <1>5, <2>2 DEF ConnectorStep, RpcBody, SemWait, CopyPort, HandlePublish, HandleRejected,
                      HandleConnect, HandleOther, Published, PublishFailed, DoDisconnect,
                      Disconnected, SemPost, MQTTServer_readType, MQTTServer_sendConnAck
  <2>3. QED BY <1>5, <2>1, <2>2 DEF ConnectorStep
<1>6. CASE NetworkStep
  BY <1>6 DEF NetworkStep, Network, threadVars
<1>7. CASE UNCHANGED demoVars
  BY <1>7 DEF demoVars, connectorVars, threadVars
<1>8. QED BY <1>1, <1>2, <1>3, <1>4, <1>5, <1>6, <1>7 DEF DemoNext

\* The invariant of the composed system, and its step.
DemoInv == ConnectorTypeOK /\ PortInv

LEMMA DemoInvariant == DemoSpec => []DemoInv
<1>1. DemoInit => DemoInv
  BY DemoInitInv DEF DemoInv
<1>2. DemoInv /\ [DemoNext]_demoVars => DemoInv'
  BY DemoStepIsConnectorStep, ConnectorNextType, PortInvStep DEF DemoInv
<1>3. QED BY <1>1, <1>2, PTL DEF DemoSpec

(* The sensor (SensorTemp.c) keeps what the CloudConnector assumes of its   *)
(* sender: it writes the dataport only between two calls, and calls once    *)
(* for each message.  So the demo implements the CloudConnector with its    *)
(* open environment.                                                        *)
THEOREM DemoImplementsConnector == DemoSpec => ConnectorSpec
<1>1. DemoInit => ConnectorInit
  BY DemoInitInv
<1>2. DemoInv /\ [DemoNext]_demoVars => [ConnectorNext]_connectorVars
  BY DemoStepIsConnectorStep DEF DemoInv
<1>3. QED BY <1>1, <1>2, DemoInvariant, PTL DEF DemoSpec, ConnectorSpec

(* While a message is being handled the dataport holds it and the sensor is *)
(* blocked: the memcpy at CloudConnector.c:467 reads a stable buffer.       *)
THEOREM DataportStableInvariant == DemoSpec => []DataportStable
<1>1. DemoInv => DataportStable
  BY DEF DemoInv, PortInv, DataportStable
<1>2. QED BY <1>1, DemoInvariant, PTL

(* In the demo the semaphore is a single token, the two threads of the      *)
(* CloudConnector never share the MQTT client, the RPC returns to the       *)
(* sensor with a live session only for an acknowledged message, no packet   *)
(* is acted upon that the broker did not send (but for a PUBACK that has    *)
(* lost its header), and no acknowledgement is taken for another message's. *)
THEOREM DemoSafety ==
    DemoSpec => [](/\ SemToken /\ ClientExclusive /\ HandledMeansConfirmed /\ NeverStrays
                   /\ AckIsForThisPublish /\ OneExchange /\ PublishWellFormed
                   /\ ConfirmedDelivered /\ DeliveredInOrder /\ PingAccounted)
BY DemoImplementsConnector, SemTokenInvariant, ClientExclusiveInvariant,
   HandledMeansConfirmedInvariant, ConnectorExchangeSafety, PTL

(* Types of the whole demo: the CloudConnector, the sensor and its timer.   *)
THEOREM DemoTypeCorrect == DemoSpec => []DemoTypeOK
<1>1. DemoInit => DemoTypeOK
  BY DemoInitInv DEF DemoInit, DemoTypeOK, SensorTemp!SensorTypeOK
<1>2. ASSUME DemoTypeOK, DemoInv, [DemoNext]_demoVars PROVE DemoTypeOK'
  <2>1. ConnectorTypeOK'
    BY <1>2, DemoStepIsConnectorStep, ConnectorNextType DEF DemoInv
  <2>2. SensorTemp!SensorTypeOK'
    BY <1>2
       DEF DemoTypeOK, SensorTemp!SensorTypeOK, DemoNext, demoVars, SensorStep,
           SensorTemp!InitializeSensor, SensorTemp!GetMessage, SensorTemp!WritePort,
           SensorTemp!NotifyWait, TimeServer, SensorTemp!TimerTick, Call, SensorTemp!CallRpc,
           Reply, SensorTemp!ReturnRpc, ConnectorStep, NetworkStep
  <2>3. QED BY <2>1, <2>2 DEF DemoTypeOK
<1>3. QED BY <1>1, <1>2, DemoInvariant, PTL DEF DemoSpec

-----------------------------------------------------------------------------
\* The promise of the demo, step by step.

Offered == IF sensor = "call" THEN sensor_port.body - 1 ELSE sensor_port.body

Up == isConnected \/ run \notin {"post", "done"}

\* All that is known of a state of the demo.
RelayInv == DemoInv /\ ConnectorInv /\ ExchangeInv /\ OrderInv

LEMMA RelayInvariant == DemoSpec => []RelayInv
<1>1. DemoSpec => [](~strayed => ExchangeInv) /\ [](~strayed => OrderInv)
  BY DemoImplementsConnector, ConnectorUsesClient, ExchangeInvariant, OrderInvariant, PTL
<1>2. DemoSpec => []DemoInv /\ []ConnectorInv /\ []NeverStrays
  BY DemoInvariant, DemoImplementsConnector, ConnectorInvariant, NeverStraysInvariant, PTL
<1>3. DemoInv /\ ConnectorInv /\ NeverStrays /\ (~strayed => ExchangeInv)
        /\ (~strayed => OrderInv) => RelayInv
  BY DEF RelayInv, NeverStrays
<1>4. QED BY <1>1, <1>2, <1>3, PTL

LEMMA RelayTypes ==
    ASSUME RelayInv
    PROVE  /\ isConnected \in BOOLEAN /\ ThreadTypeOK /\ ClientTypeOK
           /\ msg.body \in Nat /\ readBuff.body \in Nat /\ sensor_port.body \in Nat
           /\ delivered \in Seq(Nat)
  BY BodyTypes, ConnectorTypeParts, TypeParts
     DEF RelayInv, ConnectorInv, CallTypeOK, WanTypeOK

\* The private copy is never ahead of what the sensor has offered.
LEMMA OfferedBounds ==
    ASSUME RelayInv PROVE Offered \in Nat /\ msg.body <= Offered
<1>1. readBuff.body <= Offered /\ Offered \in Nat
  BY RelayTypes DEF RelayInv, DemoInv, PortInv, Offered
<1>2. msg.body <= readBuff.body BY DEF RelayInv, ConnectorInv, BodyInv
<1>3. QED BY <1>1, <1>2, RelayTypes

\* A relay that is down stays down: no second session.
LEMMA DownStaysDown ==
    ASSUME RelayInv, [ConnectorNext]_connectorVars, Up' PROVE Up
<1>0. isConnected \in BOOLEAN BY RelayTypes
<1> SUFFICES ASSUME run \in {"post", "done"} PROVE isConnected BY DEF Up
<1>1. CASE UNCHANGED <<isConnected, run>> BY <1>1 DEF Up
<1>2. CASE Run
  BY <1>2
     DEF Up, Run, Ctor, GetConfig, SetMqttOptions, InitTls, DoTlsHandshake, DoMqttConnect,
         MqttConnected, PostInitialized, clientVars, selfVars
<1>3. CASE RpcBody
  BY <1>1, <1>3
     DEF Up, RpcBody, SemWait, CopyPort, HandlePublish, MQTT_client_publish, PublishRejected,
         PublishStarts, closeSession, HandleRejected, HandleConnect, HandleOther, Published,
         PublishFailed, DoDisconnect, MQTT_client_disconnect, Disconnected, SemPost, clientVars,
         selfVars
<1>4. CASE SenderWrites \/ SenderCalls \/ RpcReply \/ UNCHANGED connectorVars
  BY <1>1, <1>4
     DEF SenderWrites, SenderCalls, RpcCall, RpcReply, connectorVars, threadVars, clientVars,
         selfVars
<1>5. CASE Network /\ WanStep BY <1>1, <1>5, WanStepCall DEF Network, threadVars
<1>6. CASE Network /\ ClientStep
  <2>0. run' = run BY <1>6 DEF Network, threadVars
  <2>1. CASE GotConnack
    <3>1. pc = "match" /\ want = "CONNACK" BY <2>1 DEF GotConnack
    <3>2. rpc \in {"publishing", "disconnecting"}
      BY <3>1 DEF RelayInv, ConnectorInv, ThreadsMatchCall, InCall
    <3>3. QED
      BY <3>1, <3>2 DEF RelayInv, ConnectorInv, MessageInv, PublishRunning, AroundPublish
  <2>2. CASE isConnected' \in {FALSE, isConnected} BY <2>0, <2>2 DEF Up
  <2>3. ~GotConnack => isConnected' \in {FALSE, isConnected}
    BY <1>6
       DEF ClientStep, Proceed, SendConnect, SendPublish, SendPubrel, SendDisconnect, ReadPacket,
           ReadEnds, ReadFails, NothingRead, ReadFailsHalfway, ReadRest, KeepAliveQuiet,
           KeepAliveDead, SendPingReq, IgnorePacket, MalformedPacket, GotPubrec, GotAck, FailCall,
           closeSession, selfVars
  <2>4. QED BY <2>1, <2>2, <2>3
<1>7. QED BY <1>2, <1>3, <1>4, <1>5, <1>6 DEF ConnectorNext, Network

\* A step that neither offers nor ends a message, and that the broker and the
\* client do not complete, is a stutter or the end of the relay.
LEMMA RelayFrame ==
    ASSUME RelayInv, Up' => Up, Offered' = Offered, (sensor = "blocked")' = (sensor = "blocked"),
           UNCHANGED <<delivered, confirmed>>
    PROVE  [Promise!RelayNext]_Promise!relayVars
<1>1. CASE Up' = Up
  BY <1>1 DEF Promise!relayVars, Offered, Up
<1>2. CASE Up /\ ~Up'
  <2>1. Promise!GiveUp BY <1>2 DEF Promise!GiveUp, Offered, Up
  <2>2. QED BY <2>1 DEF Promise!RelayNext
<1>3. QED BY <1>1, <1>2 DEF Up

LEMMA RelayOffer == ASSUME RelayInv, Call PROVE Promise!Offer
<1>1. /\ sensor = "call" /\ sensor' = "blocked" /\ UNCHANGED sensor_port
      /\ UNCHANGED <<isConnected, run, delivered, confirmed>>
  BY DEF Call, SensorTemp!CallRpc, RpcCall, clientVars, selfVars, wanVars
<1>2. QED BY <1>1, RelayTypes DEF Promise!Offer

LEMMA RelayReply == ASSUME RelayInv, Reply PROVE Promise!Reply
<1>1. /\ sensor = "blocked" /\ sensor' = "sleep" /\ UNCHANGED sensor_port /\ rpc = "reply"
      /\ UNCHANGED <<isConnected, run, delivered, confirmed>>
  BY DEF Reply, SensorTemp!ReturnRpc, RpcReply, clientVars, selfVars, wanVars
<1>2. run = "done" /\ readBuff = sensor_port /\ sensor_port.kind = "PUBLISH"
  BY <1>1 DEF RelayInv, DemoInv, PortInv, ConnectorInv, SemToken, Posted
<1>3. isConnected = (sensor_port.body \in confirmed)
  BY <1>1, <1>2 DEF RelayInv, ConnectorInv, MessageInv, HandledMeansConfirmed
<1>4. QED BY <1>1, <1>2, <1>3 DEF Promise!Reply

LEMMA RelayAccept ==
    ASSUME RelayInv, NEW b \in Nat, delivered' = Append(delivered, b),
           Under(b, delivered), Fresh(b, msg, pc),
           UNCHANGED <<isConnected, run, confirmed, sensor, sensor_port>>
    PROVE  Promise!Accept
<1>1. b <= Offered BY OfferedBounds, RelayTypes DEF Fresh
<1>2. Promise!LastLogged + 1 <= b /\ Promise!LastLogged + 1 \in Int
  <2>1. CASE delivered = << >> BY <2>1 DEF Promise!LastLogged, Under
  <2>2. CASE delivered # << >>
    <3>1. Len(delivered) \in 1..Len(delivered) /\ delivered[Len(delivered)] \in Nat
      BY <2>2, RelayTypes
    <3>2. QED BY <2>2, <3>1 DEF Promise!LastLogged, Under
  <2>3. QED BY <2>1, <2>2
<1>3. b \in (Promise!LastLogged + 1)..Offered BY <1>1, <1>2, OfferedBounds
<1>4. QED BY <1>3 DEF Promise!Accept, Offered

LEMMA RelayConfirm ==
    ASSUME RelayInv, GotAck, UNCHANGED <<threadVars, sensor>> PROVE Promise!Confirm
<1>1. /\ pc = "match" /\ want \in {"PUBACK", "PUBCOMP"} /\ rx.kind = want
      /\ confirmed' = confirmed \union {msg.body} /\ UNCHANGED <<delivered, isConnected>>
  BY DEF GotAck, wanVars, selfVars
<1>2. rpc = "publishing"
  BY <1>1 DEF RelayInv, ConnectorInv, ThreadsMatchCall, InCall, MessageInv, ConnectPhase, AroundPublish
<1>3. isConnected /\ msg.body = readBuff.body
  BY <1>1, <1>2 DEF RelayInv, ConnectorInv, MessageInv, PublishRunning
<1>4. sensor = "blocked" /\ readBuff = sensor_port BY <1>2 DEF RelayInv, DemoInv, PortInv
<1>5. Accepted
  <2>1. AckRead /\ rx.kind # "PUBREC" BY <1>1 DEF AckRead, Reading, AckKinds
  <2>2. QED BY <1>3, <2>1 DEF RelayInv, ExchangeInv, HeldInv
<1>6. QED BY <1>1, <1>3, <1>4, <1>5 DEF Promise!Confirm, Accepted, threadVars

LEMMA RelayStep ==
    ASSUME RelayInv, [DemoNext]_demoVars PROVE [Promise!RelayNext]_Promise!relayVars
<1>0. Up' => Up
  BY DemoStepIsConnectorStep, DownStaysDown DEF RelayInv, DemoInv
<1>1. CASE Call BY <1>1, RelayOffer DEF Promise!RelayNext
<1>2. CASE Reply BY <1>2, RelayReply DEF Promise!RelayNext
<1>3. CASE SensorStep \/ TimeServer
  <2>1. UNCHANGED <<delivered, confirmed>> BY <1>3 DEF SensorStep, TimeServer, clientVars, wanVars
  <2>2. Offered' = Offered
    BY <1>3, RelayTypes
       DEF Offered, SensorStep, TimeServer, SensorTemp!InitializeSensor, SensorTemp!GetMessage,
           SensorTemp!WritePort, SensorTemp!NotifyWait, SensorTemp!TimerTick
  <2>3. (sensor = "blocked")' = (sensor = "blocked")
    BY <1>3
       DEF SensorStep, TimeServer, SensorTemp!InitializeSensor, SensorTemp!GetMessage,
           SensorTemp!WritePort, SensorTemp!NotifyWait, SensorTemp!TimerTick
  <2>4. QED BY <1>0, <2>1, <2>2, <2>3, RelayFrame
<1>4. ASSUME UNCHANGED <<sensor, sensor_port, delivered, confirmed>>
      PROVE  [Promise!RelayNext]_Promise!relayVars
  <2>1. Offered' = Offered /\ (sensor = "blocked")' = (sensor = "blocked") BY <1>4 DEF Offered
  <2>2. QED BY <1>0, <1>4, <2>1, RelayFrame
<1>5. CASE ConnectorStep
  <2>1. UNCHANGED <<sensor, sensor_port, delivered, confirmed>>
    <3>1. CASE Run /\ UNCHANGED sensor
      BY <3>1
         DEF Run, Ctor, GetConfig, SetMqttOptions, InitTls, DoTlsHandshake, OpenLink,
             DoMqttConnect, MqttConnected, PostInitialized, MQTT_client_init, MQTT_client_connect,
             ConnectRejected, ConnectStarts, clientVars, wanVars
    <3>2. CASE RpcBody /\ UNCHANGED sensor
      BY <3>2
         DEF RpcBody, SemWait, CopyPort, HandlePublish, MQTT_client_publish, PublishRejected,
             PublishStarts, HandleRejected, HandleConnect, HandleOther, Published, PublishFailed,
             DoDisconnect, MQTT_client_disconnect, Disconnected, SemPost, clientVars, wanVars
    <3>3. QED BY <1>5, <3>1, <3>2 DEF ConnectorStep
  <2>2. QED BY <1>4, <2>1
<1>6. CASE NetworkStep
  <2>0. UNCHANGED <<threadVars, sensor>> BY <1>6 DEF NetworkStep, Network
  <2>1. CASE Broker /\ UNCHANGED <<selfVars, callVars, readVars, confirmed>>
    <3>1. UNCHANGED <<isConnected, run, confirmed, sensor, sensor_port>>
      BY <2>0, <2>1 DEF selfVars, threadVars
    <3>2. CASE delivered' = delivered BY <1>4, <3>1, <3>2
    <3>3. ASSUME NEW b \in Nat, delivered' = Append(delivered, b),
                 Under(b, delivered), Fresh(b, msg, pc)
          PROVE  Promise!Accept
      BY <3>1, <3>3, RelayAccept
    <3>4. QED BY <2>1, <3>2, <3>3, RelayTypes, AcceptStep DEF RelayInv, Promise!RelayNext
  <2>2. CASE GotAck BY <2>0, <2>2, RelayConfirm DEF Promise!RelayNext
  <2>3. CASE UNCHANGED <<delivered, confirmed>> BY <1>4, <2>0, <2>3 DEF threadVars
  <2>4. CASE LinkDrops /\ UNCHANGED <<selfVars, callVars, readVars, confirmed>>
    BY <2>3, <2>4 DEF LinkDrops
  <2>5. CASE KeepAliveElapses BY <2>3, <2>5 DEF KeepAliveElapses, wanVars
  <2>6. CASE SendConnect \/ SendPublish \/ SendPubrel \/ SendDisconnect \/ SendPingReq
    <3>1. UNCHANGED delivered
      BY <2>6, WriteFacts DEF SendConnect, SendPublish, SendPubrel, SendDisconnect, SendPingReq
    <3>2. UNCHANGED confirmed
      BY <2>6 DEF SendConnect, SendPublish, SendPubrel, SendDisconnect, SendPingReq
    <3>3. QED BY <2>3, <3>1, <3>2
  <2>7. CASE \/ ReadPacket \/ ReadEnds \/ ReadFails \/ ReadFailsHalfway \/ ReadRest
             \/ KeepAliveQuiet \/ KeepAliveDead
             \/ IgnorePacket \/ MalformedPacket \/ GotConnack \/ GotPubrec
    <3>1. UNCHANGED <<delivered, confirmed>>
      BY <2>7
         DEF ReadPacket, ReadEnds, ReadFails, NothingRead, ReadFailsHalfway, ReadRest,
             KeepAliveQuiet, KeepAliveDead, IgnorePacket, MalformedPacket, GotConnack, GotPubrec,
             wanVars
    <3>2. QED BY <2>3, <3>1
  <2>8. QED
    BY <1>6, <2>1, <2>2, <2>4, <2>5, <2>6, <2>7
       DEF NetworkStep, Network, ClientStep, Proceed, WanStep
<1>7. CASE UNCHANGED demoVars
  BY <1>4, <1>7 DEF demoVars, connectorVars, threadVars, clientVars, wanVars
<1>8. QED BY <1>1, <1>2, <1>3, <1>5, <1>6, <1>7 DEF DemoNext

LEMMA RelayStarts == DemoInit => Promise!RelayInit
<1> SUFFICES ASSUME DemoInit PROVE Promise!RelayInit OBVIOUS
<1>1. /\ sensor = "init" /\ sensor_port.body = 0 /\ delivered = << >> /\ confirmed = {}
      /\ run = "ctor"
  BY DEF DemoInit, ConnectorInit, ClientInit, WanInit, EmptyPort
<1>2. QED BY <1>1 DEF Promise!RelayInit

(* The demo implements Relay, for any number of messages and any bound: the *)
(* sensor offers a message only when the last one is done with, the broker  *)
(* accepts each at most once and in order, and as long as the session lasts *)
(* the RPC returns only for a message the broker has acknowledged.          *)
THEOREM DemoImplementsRelay == DemoSpec => RelayPromise
<1>1. RelayInv /\ [DemoNext]_demoVars => [Promise!RelayNext]_Promise!relayVars
  BY RelayStep
<1>2. QED BY <1>1, RelayStarts, RelayInvariant, PTL DEF DemoSpec, RelayPromise, Promise!RelaySpec
=============================================================================
