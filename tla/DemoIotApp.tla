----------------------------- MODULE DemoIotApp -----------------------------
(***************************************************************************)
(* DemoIotApp.camkes: the sensor and the CloudConnector, joined by the     *)
(* shared memory cloudConnectorData_sensorTemp_data and the synchronous    *)
(* seL4RPCCall cloudConnector_sensorTemp.                                  *)
(***************************************************************************)
EXTENDS CloudConnector

VARIABLES sensor, tick

\* The dataport of the sensor is the dataport of the CloudConnector.
SensorTemp == INSTANCE Sensor WITH cloudConnector_port <- sensor_port

demoVars == <<connectorVars, sensor, tick>>

\* Steps of the sensor that stay inside the component.
SensorStep ==
    /\ SensorTemp!InitializeSensor \/ SensorTemp!GetMessage
       \/ SensorTemp!WritePort \/ SensorTemp!NotifyWait
    /\ UNCHANGED <<clientVars, run, rpc, sem, readBuff>>

TimeServer ==
    /\ SensorTemp!TimerTick
    /\ UNCHANGED <<clientVars, run, rpc, sem, readBuff>>

\* seL4RPCCall: the caller blocks until the interface thread replies.
Call  == SensorTemp!CallRpc /\ RpcCall
Reply == RpcReply /\ SensorTemp!ReturnRpc

ConnectorStep == (Run \/ RpcBody) /\ UNCHANGED <<sensor, tick>>

NetworkStep == Network /\ UNCHANGED <<sensor, tick>>

DemoInit == ConnectorInit /\ sensor = "init" /\ tick = FALSE

DemoNext ==
    \/ SensorStep \/ TimeServer
    \/ Call \/ Reply
    \/ ConnectorStep \/ NetworkStep

DemoSpec == DemoInit /\ [][DemoNext]_demoVars

\* seL4 schedules every runnable thread; the broker answers what it reads;
\* no read has to fail while the stream lives, and an error before the first
\* byte does not hit every read of a packet that is there.
DemoFairness ==
    /\ WF_demoVars(SensorStep) /\ WF_demoVars(TimeServer)
    /\ WF_demoVars(Call) /\ WF_demoVars(Reply)
    /\ WF_demoVars(Run /\ UNCHANGED <<sensor, tick>>)
    /\ WF_demoVars(RpcBody /\ UNCHANGED <<sensor, tick>>)
    /\ WF_demoVars(Proceed /\ UNCHANGED <<threadVars, sensor, tick>>)
    /\ SF_demoVars(ReadPacket /\ UNCHANGED <<threadVars, sensor, tick>>)
    /\ WF_demoVars(Broker /\ UNCHANGED <<selfVars, callVars, readVars, confirmed, threadVars, sensor, tick>>)

DemoFairSpec == DemoSpec /\ DemoFairness

-----------------------------------------------------------------------------
(* Type correctness of the composed system. *)
DemoTypeOK == ConnectorTypeOK /\ SensorTemp!SensorTypeOK

(* While the interface thread works on a message, the dataport still holds  *)
(* it and the sensor is blocked in the call that announced it: the copy at  *)
(* CloudConnector.c:467 needs no lock because the RPC is synchronous.       *)
DataportStable ==
    rpc # "ready" =>
        /\ sensor = "blocked"
        /\ rpc \notin {"sem_wait", "copy"} => readBuff = sensor_port

(* The messages the broker gets are messages of the sensor, in order, each  *)
(* at most once, and each acknowledged before the sensor goes on, as long   *)
(* as the session lasts: the system implements Relay.                       *)
Promise == INSTANCE Relay WITH
    offered   <- IF sensor = "call" THEN sensor_port.body - 1 ELSE sensor_port.body,
    busy      <- sensor = "blocked",
    log       <- delivered,
    up        <- isConnected \/ run \notin {"post", "done"}

RelayPromise == Promise!RelaySpec

\* The sensor makes its next call, or has sent all messages of the instance.
CallsAgain == sensor = "call" \/ (sensor = "write" /\ sensor_port.body = MaxMessages)

(* "Once all components have initialized, the Sensor will proceed to        *)
(* contact the CloudConnector about every 5 seconds" (README.md:12-14):     *)
(* once the CloudConnector is up, every call of the sensor returns and the  *)
(* sensor calls again, until the bound on the messages of the instance.     *)
SensorKeepsCalling == Posted /\ sensor = "blocked" ~> CallsAgain

(* The same as long as the connection lives and every read ends where a     *)
(* packet ends: neither failing writes, torn packets and reads that fail    *)
(* before the first byte, nor malformed or late answers, nor a lost session *)
(* stop the sensor for good.  With keep-alive off only a dead connection    *)
(* can, or a read that fails half way and takes the PUBACK with it.         *)
CallsWhileLinked == Posted /\ sensor = "blocked" ~> CallsAgain \/ link # "up" \/ ~inStep

=============================================================================
