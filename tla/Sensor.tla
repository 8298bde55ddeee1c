------------------------------- MODULE Sensor -------------------------------
(***************************************************************************)
(* SensorTemp.c: puts the same serialised PUBLISH into the dataport of the *)
(* CloudConnector and calls it, first at once and then on every tick of a  *)
(* 5 second timer.  The body numbers the messages, which are all alike in  *)
(* the code.                                                               *)
(***************************************************************************)
EXTENDS Integers

CONSTANTS
    MaxMessages,    \* bound: messages the sensor sends in an instance
    Faults

VARIABLES
    sensor,                 \* position of the thread
    tick,                   \* timeServer_notify is signalled (it is binary)
    cloudConnector_port     \* the dataport shared with the CloudConnector

sensorVars == <<sensor, tick, cloudConnector_port>>

\* initializeSensor: the configuration handle, then the periodic timer.
InitializeSensor ==
    /\ sensor = "init"
    /\ \/ sensor' = "config"
       \/ "config" \in Faults /\ sensor' = "failed"
    /\ UNCHANGED <<tick, cloudConnector_port>>

\* Payload and topic are read and serialised.
GetMessage ==
    /\ sensor = "config"
    /\ \/ sensor' = "write"
       \/ "config" \in Faults /\ sensor' = "failed"
    /\ UNCHANGED <<tick, cloudConnector_port>>

\* Mutant: the message is written without waiting for the running call.
Mut_WriteAnyTime ==
    /\ sensor \in {"write", "blocked"}
    /\ cloudConnector_port.body < MaxMessages
    /\ cloudConnector_port' = [kind |-> "PUBLISH", body |-> cloudConnector_port.body + 1]
    /\ sensor' = IF sensor = "write" THEN "call" ELSE sensor
    /\ UNCHANGED tick

\* CloudConnector_write: the memcpy into the dataport, then the RPC.
WritePort ==
    /\ sensor = "write"
    /\ cloudConnector_port.body < MaxMessages
    /\ cloudConnector_port' = [kind |-> "PUBLISH", body |-> cloudConnector_port.body + 1]
    /\ sensor' = "call"
    /\ UNCHANGED tick

\* Mutant: the sensor only signals the CloudConnector and goes on.
Mut_CallIsAsynchronous ==
    /\ sensor = "call"
    /\ sensor' = "sleep"
    /\ UNCHANGED <<tick, cloudConnector_port>>

CallRpc ==
    /\ sensor = "call"
    /\ sensor' = "blocked"
    /\ UNCHANGED <<tick, cloudConnector_port>>

\* The RPC returns; its result is not looked at (130).
ReturnRpc ==
    /\ sensor = "blocked"
    /\ sensor' = "sleep"
    /\ UNCHANGED <<tick, cloudConnector_port>>

\* timeServer_notify_wait
NotifyWait ==
    /\ sensor = "sleep" /\ tick
    /\ tick' = FALSE
    /\ sensor' = "write"
    /\ UNCHANGED cloudConnector_port

\* The periodic timer, set up in initializeSensor: ticks nobody has waited
\* for are merged into one.
TimerTick ==
    /\ sensor \notin {"init", "failed"}
    /\ ~tick
    /\ tick' = TRUE
    /\ UNCHANGED <<sensor, cloudConnector_port>>

SensorTypeOK ==
    /\ sensor \in {"init", "config", "write", "call", "blocked", "sleep", "failed"}
    /\ tick \in BOOLEAN
=============================================================================
