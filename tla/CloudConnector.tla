--------------------------- MODULE CloudConnector ---------------------------
(***************************************************************************)
(* CloudConnector.c: the component that takes MQTT packets from its sensor *)
(* port and publishes them to the broker.                                  *)
(*                                                                         *)
(* Two threads share cc_fsm.  The control thread (run) initialises the     *)
(* client, opens the TLS connection and connects to the broker; then it    *)
(* posts sem.  The interface thread serves cloudConnector_rpc_write, one   *)
(* call at a time, between sem_wait and sem_post.  Whoever calls the RPC   *)
(* has put a packet into the shared memory sensor_port before.             *)
(***************************************************************************)
EXTENDS MqttClient

VARIABLES
    run,            \* position of the control thread
    rpc,            \* position of the interface thread
    sem,            \* the binary semaphore
    sensor_port,    \* the dataport: what the sender wrote last
    readBuff        \* paho.server_netCtx.readBuff, the private copy of it

threadVars    == <<run, rpc, sem, sensor_port, readBuff>>
connectorVars == <<clientVars, threadVars>>

\* What do_process_publish and the switch of handle_CC_FSM_NEW_MESSAGE tell
\* apart.  "REJECTED" is a PUBLISH with DUP set or too large for the buffer,
\* "IGNORED" any other packet type of MQTT, "INVALID" the reserved types.
PortKinds == {"PUBLISH", "REJECTED", "MALFORMED", "CONNECT", "IGNORED", "INVALID"}

EmptyPort == [kind |-> "INVALID", body |-> 0]

-----------------------------------------------------------------------------
\* The control thread.

\* CC_FSM_ctor: clears cc_fsm, opens the configuration, sets up the client.
\* memset and MQTT_client_init run before anything else touches the client.
Ctor ==
    /\ run = "ctor"
    /\ \/ MQTT_client_init /\ run' = "config"
       \/ "config" \in Faults /\ run' = "failed" /\ UNCHANGED clientVars
    /\ UNCHANGED <<rpc, sem, sensor_port, readBuff>>

\* Address, port and certificate of the server; a missing one ends run.
GetConfig ==
    /\ run = "config"
    /\ \/ run' = "options"
       \/ "config" \in Faults /\ run' = "failed"
    /\ UNCHANGED <<clientVars, rpc, sem, sensor_port, readBuff>>

\* set_mqtt_options: the three parameters of the cloud account.
SetMqttOptions ==
    /\ run = "options"
    /\ \/ run' = "tls"
       \/ "config" \in Faults /\ run' = "failed"
    /\ UNCHANGED <<clientVars, rpc, sem, sensor_port, readBuff>>

\* glue_tls_init: the socket is connected, nothing can be exchanged yet.
InitTls ==
    /\ run = "tls"
    /\ \/ run' = "handshake"
       \/ "tls" \in Faults /\ run' = "failed"
    /\ UNCHANGED <<clientVars, rpc, sem, sensor_port, readBuff>>

\* do_tls_handshake: any failure of it is reported as 1, which ends run too.
DoTlsHandshake ==
    /\ run = "handshake"
    /\ \/ OpenLink /\ run' = "connect"
       \/ "tls" \in Faults /\ run' = "failed" /\ UNCHANGED wanVars
    /\ UNCHANGED <<selfVars, callVars, readVars, confirmed, rpc, sem, sensor_port, readBuff>>

DoMqttConnect ==
    /\ run = "connect"
    /\ MQTT_client_connect
    /\ run' = "connecting"
    /\ UNCHANGED <<rpc, sem, sensor_port, readBuff>>

\* do_mqtt_connect has the result of the call; it does not look at data.rc.
MqttConnected ==
    /\ run = "connecting" /\ pc = "returned"
    /\ pc' = "idle"
    /\ run' = IF ret = "success" THEN "post" ELSE "failed"
    /\ UNCHANGED <<wanVars, selfVars, want, rx, msg, ret, readVars, confirmed,
                   rpc, sem, sensor_port, readBuff>>

\* Unblock cloudConnector_rpc_write.
PostInitialized ==
    /\ run = "post"
    /\ sem' = 1
    /\ run' = "done"
    /\ UNCHANGED <<clientVars, rpc, sensor_port, readBuff>>

Run ==
    \/ Ctor \/ GetConfig \/ SetMqttOptions \/ InitTls \/ DoTlsHandshake
    \/ DoMqttConnect \/ MqttConnected \/ PostInitialized

-----------------------------------------------------------------------------
\* The interface thread: cloudConnector_rpc_write.

\* A caller enters the RPC.
RpcCall ==
    /\ rpc = "ready"
    /\ rpc' = "sem_wait"
    /\ UNCHANGED <<clientVars, run, sem, sensor_port, readBuff>>

\* Mutant: sem_wait returns an error, which is only logged (584-588).
Mut_SemWaitFails ==
    /\ rpc = "sem_wait"
    /\ rpc' = "copy"
    /\ UNCHANGED <<clientVars, run, sem, sensor_port, readBuff>>

SemWait ==
    /\ rpc = "sem_wait" /\ sem = 1
    /\ sem' = 0
    /\ rpc' = "copy"
    /\ UNCHANGED <<clientVars, run, sensor_port, readBuff>>

\* memcpy of the whole dataport into the private buffer.
CopyPort ==
    /\ rpc = "copy"
    /\ readBuff' = sensor_port
    /\ rpc' = "dispatch"
    /\ UNCHANGED <<clientVars, run, sem, sensor_port>>

\* The type is read from the copy in the buffer of net_lan, not from the dataport.
MQTTServer_readType == readBuff.kind

\* Mutant: the PUBLISH goes out with QoS 0.
Mut_QosNotForced == [id |-> 1, qos |-> 0, body |-> readBuff.body]

\* Mutant: the PUBLISH goes out with the QoS level of a sender that asks for 2.
Mut_QosOfSender == [id |-> 1, qos |-> 2, body |-> readBuff.body]

\* A PUBLISH: QoS is forced to 1, the identifier is the sender's (1 for the
\* sensor) until MQTT_client_publish assigns one.
Incoming == [id |-> 1, qos |-> 1, body |-> readBuff.body]

HandlePublish ==
    /\ rpc = "dispatch" /\ MQTTServer_readType = "PUBLISH"
    /\ MQTT_client_publish(Incoming)
    /\ rpc' = "publishing"
    /\ UNCHANGED <<run, sem, sensor_port, readBuff>>

\* do_process_publish fails; the failure is not reported.
HandleRejected ==
    /\ rpc = "dispatch" /\ MQTTServer_readType \in {"REJECTED", "MALFORMED"}
    /\ msg' = IF readBuff.kind = "REJECTED" THEN Incoming ELSE msg
    /\ rpc' = "sem_post"
    /\ UNCHANGED <<wanVars, selfVars, pc, want, rx, ret, readVars, confirmed,
                   run, sem, sensor_port, readBuff>>

\* The answer goes through net_lan, whose mqttwrite is NULL: the thread faults and
\* never returns.
MQTTServer_sendConnAck == rpc' = "fault"

HandleConnect ==
    /\ rpc = "dispatch" /\ MQTTServer_readType = "CONNECT"
    /\ MQTTServer_sendConnAck
    /\ UNCHANGED <<clientVars, run, sem, sensor_port, readBuff>>

\* PINGREQ, SUBSCRIBE and the unsupported types; and invalid data, whose error
\* code the result of sem_post overwrites.
HandleOther ==
    /\ rpc = "dispatch" /\ MQTTServer_readType \in {"IGNORED", "INVALID"}
    /\ rpc' = "sem_post"
    /\ UNCHANGED <<clientVars, run, sem, sensor_port, readBuff>>

\* handle_MQTT_PUBLISH has the result of MQTT_client_publish.
Published ==
    /\ rpc = "publishing" /\ pc = "returned" /\ ret = "success"
    /\ pc' = "idle"
    /\ rpc' = "sem_post"
    /\ UNCHANGED <<wanVars, selfVars, want, rx, msg, ret, readVars, confirmed,
                   run, sem, sensor_port, readBuff>>

PublishFailed ==
    /\ rpc = "publishing" /\ pc = "returned" /\ ret = "failure"
    /\ pc' = "idle"
    /\ rpc' = "disconnect"
    /\ UNCHANGED <<wanVars, selfVars, want, rx, msg, ret, readVars, confirmed,
                   run, sem, sensor_port, readBuff>>

DoDisconnect ==
    /\ rpc = "disconnect"
    /\ MQTT_client_disconnect
    /\ rpc' = "disconnecting"
    /\ UNCHANGED <<run, sem, sensor_port, readBuff>>

Disconnected ==
    /\ rpc = "disconnecting" /\ pc = "returned"
    /\ pc' = "idle"
    /\ rpc' = "sem_post"
    /\ UNCHANGED <<wanVars, selfVars, want, rx, msg, ret, readVars, confirmed,
                   run, sem, sensor_port, readBuff>>

\* Mutant: the handler returns without sem_post, as after an early return.
Mut_SemNotPosted ==
    /\ rpc = "sem_post"
    /\ rpc' = "reply"
    /\ UNCHANGED <<clientVars, run, sem, sensor_port, readBuff>>

\* ret of the handler is lost: the call reports success whatever happened.
SemPost ==
    /\ rpc = "sem_post"
    /\ sem' = 1
    /\ rpc' = "reply"
    /\ UNCHANGED <<clientVars, run, sensor_port, readBuff>>

RpcReply ==
    /\ rpc = "reply"
    /\ rpc' = "ready"
    /\ UNCHANGED <<clientVars, run, sem, sensor_port, readBuff>>

\* The steps of the thread between the call and the reply.
RpcBody ==
    \/ SemWait \/ CopyPort
    \/ HandlePublish \/ HandleRejected \/ HandleConnect \/ HandleOther
    \/ Published \/ PublishFailed \/ DoDisconnect \/ Disconnected
    \/ SemPost

-----------------------------------------------------------------------------
\* The component with its network, and any sender that leaves the dataport
\* alone while one of its calls is running and calls once for each message.

SenderWrites ==
    /\ rpc = "ready"
    /\ sensor_port.body < MaxMessages
    /\ \E kind \in PortKinds :
          sensor_port' = [kind |-> kind, body |-> sensor_port.body + 1]
    /\ UNCHANGED <<clientVars, run, rpc, sem, readBuff>>

SenderCalls == sensor_port # readBuff /\ RpcCall

Network == (ClientStep \/ WanStep) /\ UNCHANGED threadVars

ConnectorNext ==
    \/ Run \/ RpcBody
    \/ SenderWrites \/ SenderCalls \/ RpcReply
    \/ Network

\* Mutant: the assembly sets cloudConnector.sem_value = 1.
Mut_SemStartsFree ==
    /\ ClientInit
    /\ run = "ctor" /\ rpc = "ready"
    /\ sem = 1
    /\ sensor_port = EmptyPort /\ readBuff = EmptyPort

ConnectorInit ==
    /\ ClientInit
    /\ run = "ctor" /\ rpc = "ready"
    /\ sem = 0                  \* cloudConnector.sem_value
    /\ sensor_port = EmptyPort /\ readBuff = EmptyPort

ConnectorSpec == ConnectorInit /\ [][ConnectorNext]_connectorVars

-----------------------------------------------------------------------------
(* Type correctness of the two threads and what they share.                 *)
ConnectorTypeOK ==
    /\ ClientTypeOK
    /\ run \in {"ctor", "config", "options", "tls", "handshake", "connect", "connecting",
                "post", "done", "failed"}
    /\ rpc \in {"ready", "sem_wait", "copy", "dispatch", "publishing", "disconnect",
                "disconnecting", "sem_post", "reply", "fault"}
    /\ sem \in 0..1
    /\ sensor_port \in [kind : PortKinds, body : Nat]
    /\ readBuff \in [kind : PortKinds, body : Nat]

-----------------------------------------------------------------------------
\* The interface thread is between sem_wait and sem_post.
HoldsSem == rpc \notin {"ready", "sem_wait", "reply"}

Posted == run = "done"

(* sem is one token: the control thread keeps it until the client is        *)
(* connected, then it is free or the interface thread holds it.  So the     *)
(* thread never finds sem taken by itself, and no message is processed      *)
(* before the initialisation is over (448-449).                             *)
SemToken ==
    /\ ~Posted => sem = 0 /\ rpc \in {"ready", "sem_wait"}
    /\ Posted => (sem = 1) = ~HoldsSem

(* The client is not reentrant and has no lock of its own.  A thread about  *)
(* to call it finds no call running, and a running call has exactly one     *)
(* thread waiting for its result.                                           *)
ClientExclusive ==
    /\ run = "connect" \/ rpc \in {"dispatch", "disconnect"} => pc = "idle"
    /\ pc \notin {"new", "idle"} =>
           (run = "connecting") # (rpc \in {"publishing", "disconnecting"})

(* When a PUBLISH from the port has been handled, the session is still      *)
(* there exactly if the broker has acknowledged this very message.  The     *)
(* caller of the RPC is told nothing: ret is overwritten at 515.            *)
HandledMeansConfirmed ==
    rpc \in {"sem_post", "reply"} /\ readBuff.kind = "PUBLISH" =>
        isConnected = (readBuff.body \in confirmed)

(* A session that is lost is never replaced, and from then on the connector *)
(* writes nothing but DISCONNECT packets: no later message is tried on a    *)
(* stream whose state nobody knows.  (After a torn packet they are garbage.)*)
SilentWithoutSession ==
    [][Posted /\ ~isConnected =>
         /\ ~isConnected'
         /\ \A i \in Len(toBroker) + 1..Len(toBroker') :
               toBroker'[i].kind \in {"DISCONNECT", "garbage"}]_connectorVars

(* A reader that is out of step never makes the connector act on a packet   *)
(* the broker did not send, except the PUBACK it waits for, of which it has *)
(* lost the header.  run connects once, before anything is published        *)
(* (437-449), so nothing can pass for a CONNACK; and with QoS forced to 1   *)
(* (240-243) no PUBREC is ever expected, whose identifier would be sent     *)
(* back unchecked.                                                          *)
NeverStrays == ~strayed

-----------------------------------------------------------------------------
(* run reports "CloudConnector initialized" (446) and unblocks the RPC: the *)
(* client considers itself connected only in a session the broker opened.   *)
ConnectedMeansSession == Posted /\ isConnected => session = "open"

(* MQTTServer_sendPacket (MQTTServer.c:27): "Returns SUCCESS if this worked, *)
(* everything else is an error."  It returns, whatever packet the port has. *)
ConnAckReturns == rpc # "fault"
=============================================================================
