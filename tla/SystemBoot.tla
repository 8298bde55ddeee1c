----------------------------- MODULE SystemBoot -----------------------------
(***************************************************************************)
(* The start of the system: pre_init and post_init of LogServer,           *)
(* ConfigServer and NwStackConfigurator, and the beginning of run of       *)
(* SensorTemp and CloudConnector, up to the first message.                 *)
(*                                                                         *)
(* All components start at once.  CAmkES lets a component serve calls only *)
(* after its own pre_init and post_init, so whoever calls it blocks until  *)
(* then; a failed pre_init or post_init does not keep it from serving.     *)
(***************************************************************************)
EXTENDS ConfigAccess

CONSTANTS
    MayFail,        \* operations that may return an error in an instance
    AddressRoom,    \* size of the fields of OS_NetworkStack_AddressConfig_t
    TextLengths     \* bound: what strlen finds in a value, in an instance

Operations ==
    {"OS_FileSystem_init", "OS_FileSystem_mount", "OS_FileSystem_free",
     "OS_ConfigServiceBackend_initializeFileBackend", "OS_ConfigServiceLib_Init",
     "OS_ConfigService_createHandleRemote", "timeServer_rpc_periodic",
     "configIpAddr", "connect"}

ASSUME OperationsAssumption == MayFail \subseteq Operations
ASSUME AddressAssumption    == AddressRoom \in Nat
ASSUME LengthsAssumption    == TextLengths \subseteq Nat /\ 0 \in TextLengths
ASSUME ClientsAssumption ==
    Clients = {"sensorTemp", "cloudConnector", "nwStackConfigurator"}

VARIABLES
    logServer,      \* position of the LogServer
    logFs,          \* its file system: "none", "initialized" or "mounted"
    chain,          \* its consumer chain is set up
    configServer,   \* position of the ConfigServer
    stage,          \* position of each client
    held,           \* the values each client has read, in the order of its queries
    nwStack,        \* state of the network stack
    stackAddr,      \* the address configuration it was given
    sem,            \* the semaphore of the CloudConnector
    len             \* length of the message the sensor serialised, or an error

serverVars == <<logServer, logFs, chain, configServer>>
clientVars == <<stage, held, nwStack, stackAddr, sem, len>>
bootVars   == <<configVars, serverVars, clientVars>>

Fails(operation) == operation \in MayFail

-----------------------------------------------------------------------------
\* LogServer

FileSystemInit ==
    /\ logServer = "init"
    /\ \/ logServer' = "mount" /\ logFs' = "initialized"
       \/ Fails("OS_FileSystem_init") /\ logServer' = "serving" /\ UNCHANGED logFs
    /\ UNCHANGED <<chain, configServer, configVars, clientVars>>

FileSystemMount ==
    /\ logServer = "mount"
    /\ \/ logServer' = "chain" /\ logFs' = "mounted"
       \/ Fails("OS_FileSystem_mount") /\ logServer' = "free" /\ UNCHANGED logFs
    /\ UNCHANGED <<chain, configServer, configVars, clientVars>>

\* err of the failed mount is overwritten: initFileSystem succeeds if the file
\* system can be freed.
FileSystemFree ==
    /\ logServer = "free"
    /\ \/ logServer' = "chain" /\ logFs' = "none"
       \/ Fails("OS_FileSystem_free") /\ logServer' = "serving" /\ UNCHANGED logFs
    /\ UNCHANGED <<chain, configServer, configVars, clientVars>>

\* The rest of pre_init: filters, consumers, outputs and the log file.
SetUpChain ==
    /\ logServer = "chain"
    /\ chain' = TRUE
    /\ logServer' = "serving"
    /\ UNCHANGED <<logFs, configServer, configVars, clientVars>>

LogServer == FileSystemInit \/ FileSystemMount \/ FileSystemFree \/ SetUpChain

\* Debug_LOG_* of a component with a logging client is a call of the LogServer.
\* Mutant: the LogServer reads its configuration before it serves.
Mut_EmitNeedsConfig == logServer = "serving" /\ store # "closed"
Emit == logServer = "serving"

-----------------------------------------------------------------------------
\* ConfigServer

Files == <<"DOMAIN.BIN", "PARAM.BIN", "STRING.BIN", "BLOB.BIN">>

\* A failing step is logged, and post_init returns.
Broken == configServer' = "serving" /\ store' = "broken"

ConfigServerStarts ==
    /\ configServer = "start" /\ Emit
    /\ configServer' = "init"
    /\ UNCHANGED <<domains, store, accessVars, logServer, logFs, chain, clientVars>>

\* A step of init_system_config_backend between two positions.
BackendStep(from, operation, to) ==
    /\ configServer = from
    /\ \/ configServer' = to /\ UNCHANGED store
       \/ Fails(operation) /\ Emit /\ Broken
    /\ UNCHANGED <<domains, accessVars, logServer, logFs, chain, clientVars>>

InitSystemConfigBackend ==
    \/ BackendStep("init", "OS_FileSystem_init", "mount")
    \/ BackendStep("mount", "OS_FileSystem_mount", Files[1])
    \/ \E i \in 1..3 :
          BackendStep(Files[i], "OS_ConfigServiceBackend_initializeFileBackend", Files[i + 1])
    \/ BackendStep(Files[4], "OS_ConfigServiceBackend_initializeFileBackend", "lib")

LibInit ==
    /\ configServer = "lib" /\ Emit
    /\ \/ configServer' = "serving" /\ store' = "open"
       \/ Fails("OS_ConfigServiceLib_Init") /\ Broken
    /\ UNCHANGED <<domains, accessVars, logServer, logFs, chain, clientVars>>

ConfigServer == ConfigServerStarts \/ InitSystemConfigBackend \/ LibInit

-----------------------------------------------------------------------------
\* The readers.

\* NwStackConfigurator has no logging client.
Logs(c) == c = "nwStackConfigurator" \/ Emit

Ask(domain, name, room) == [domain |-> domain, name |-> name, room |-> room]

\* The queries of each component, in their order.
Queries(c) ==
    CASE c = "sensorTemp" ->
            <<Ask("Domain-Sensor", "MQTT_Payload", 128),
              Ask("Domain-Sensor", "MQTT_Topic", 128)>>
      [] c = "cloudConnector" ->
            <<Ask("Domain-CloudConnector", "CloudServiceIP", 32),
              Ask("Domain-CloudConnector", "ServerPort", 4),
              Ask("Domain-CloudConnector", "ServerCaCert", 4096),
              Ask("Domain-CloudConnector", "IoT-Hub", 128),
              Ask("Domain-CloudConnector", "SharedAccessSignature", 192),
              Ask("Domain-CloudConnector", "IoT-Device", 128)>>
      [] c = "nwStackConfigurator" ->
            <<Ask("Domain-NwStack", "ETH_ADDR", AddressRoom),
              Ask("Domain-NwStack", "ETH_GATEWAY_ADDR", AddressRoom),
              Ask("Domain-NwStack", "ETH_SUBNET_MASK", AddressRoom)>>

\* The names the components use are known.
ASSUME QueriesAssumption ==
    \A c \in Clients : \A i \in 1..Len(Queries(c)) : Queries(c)[i] \in Query

Moves(c, s) == stage' = [stage EXCEPT ![c] = s]

\* The handle to the ConfigServer; the sensor sets up its timer as well.
Starts(c) ==
    /\ stage[c] = "start" /\ Logs(c)
    /\ \/ Moves(c, "reading")
       \/ Fails("OS_ConfigService_createHandleRemote") /\ Moves(c, "failed")
       \/ c = "sensorTemp" /\ Fails("timeServer_rpc_periodic") /\ Moves(c, "failed")
    /\ UNCHANGED <<configVars, serverVars, held, nwStack, stackAddr, sem, len>>

AsksNext(c) ==
    /\ stage[c] = "reading"
    /\ GetConfigParameter(c, Queries(c)[Len(held[c]) + 1])
    /\ UNCHANGED <<domains, store, serverVars, clientVars>>

Reads(c) ==
    /\ stage[c] = "reading"
    /\ LookupStep(c)
    /\ UNCHANGED <<serverVars, clientVars>>

\* Mutant: the result of a lookup is not looked at.
Mut_ResultIgnored(c) ==
    /\ stage[c] = "reading" /\ Logs(c)
    /\ \E result \in BOOLEAN : Take(c, result)
    /\ held' = [held EXCEPT ![c] = Append(@, buffer[c])]
    /\ Moves(c, IF Len(held'[c]) = Len(Queries(c)) THEN "configured" ELSE "reading")
    /\ UNCHANGED <<domains, store, serverVars, nwStack, stackAddr, sem, len>>

Retrieved(c) ==
    /\ stage[c] = "reading" /\ Logs(c)
    /\ Take(c, TRUE)
    /\ held' = [held EXCEPT ![c] = Append(@, buffer[c])]
    /\ Moves(c, IF Len(held'[c]) = Len(Queries(c)) THEN "configured" ELSE "reading")
    /\ UNCHANGED <<domains, store, serverVars, nwStack, stackAddr, sem, len>>

NotRetrieved(c) ==
    /\ stage[c] = "reading" /\ Logs(c)
    /\ Take(c, FALSE)
    /\ Moves(c, "failed")
    /\ UNCHANGED <<domains, store, serverVars, held, nwStack, stackAddr, sem, len>>

Reader(c) == Starts(c) \/ AsksNext(c) \/ Reads(c) \/ Retrieved(c) \/ NotRetrieved(c)

-----------------------------------------------------------------------------
\* What the components do with what they have read.

\* networkStackConfig.configIpAddr; a failure is only logged.
ConfigIpAddr ==
    /\ stage["nwStackConfigurator"] = "configured"
    /\ \/ /\ Moves("nwStackConfigurator", "done")
          /\ nwStack' = "configured" /\ stackAddr' = held["nwStackConfigurator"]
       \/ /\ Fails("configIpAddr") /\ Moves("nwStackConfigurator", "failed")
          /\ UNCHANGED <<nwStack, stackAddr>>
    /\ UNCHANGED <<configVars, serverVars, held, sem, len>>

\* The stack starts with the addresses it was given.
StackStarts ==
    /\ nwStack = "configured"
    /\ nwStack' = "running"
    /\ UNCHANGED <<configVars, serverVars, stage, held, stackAddr, sem, len>>

\* Mutant: the connection is tried without waiting for the stack.
Mut_StackNotAwaited ==
    /\ stage["cloudConnector"] = "configured"
    /\ \/ Moves("cloudConnector", "done") /\ sem' = 1
       \/ Fails("connect") /\ Moves("cloudConnector", "failed") /\ UNCHANGED sem
    /\ UNCHANGED <<configVars, serverVars, held, nwStack, stackAddr, len>>

\* glue_tls_init yields until the stack runs; what follows up to sem_post is
\* the business of CloudConnector and TlsGlue.
Connects ==
    /\ stage["cloudConnector"] = "configured" /\ nwStack = "running"
    /\ \/ Moves("cloudConnector", "done") /\ sem' = 1
       \/ Fails("connect") /\ Moves("cloudConnector", "failed") /\ UNCHANGED sem
    /\ UNCHANGED <<configVars, serverVars, held, nwStack, stackAddr, len>>

\* Bytes of a PUBLISH with QoS 1: header, remaining length, topic with its
\* length, packet identifier, payload.
Digits(n) == IF n < 128 THEN 1 ELSE IF n < 128 * 128 THEN 2 ELSE 3
MessageLength(payload, topic) ==
    LET remaining == 2 + topic + 2 + payload IN 1 + Digits(remaining) + remaining

\* MQTTSerialize_publish: the length of the message, or an error code.
BufferTooShort == -1
Serialized(payload, topic) ==
    LET n == MessageLength(payload, topic) IN IF n > 320 THEN BufferTooShort ELSE n

\* strlen of a value, which is stored without a terminator: a 0 in the value ends
\* it early, else the 0 behind it in its buffer of 128 bytes.  A value that fills
\* the buffer has none behind it, and strlen goes on into whatever follows.
StrLen(value) == {n \in TextLengths : n <= value.size \/ value.size >= 128}

\* The length goes unchecked into the memcpy of CloudConnector_write, where an
\* error code is more bytes than there are.
Serialize ==
    /\ stage["sensorTemp"] = "configured"
    /\ \E payload \in StrLen(held["sensorTemp"][1]), topic \in StrLen(held["sensorTemp"][2]) :
          len' = Serialized(payload, topic)
    /\ Moves("sensorTemp", IF len' < 0 THEN "faulted" ELSE "calling")
    /\ UNCHANGED <<configVars, serverVars, held, nwStack, stackAddr, sem>>

\* The first call returns after the CloudConnector has posted its semaphore,
\* which the call takes and posts again.
FirstMessage ==
    /\ stage["sensorTemp"] = "calling" /\ sem = 1
    /\ Moves("sensorTemp", "done")
    /\ UNCHANGED <<configVars, serverVars, held, nwStack, stackAddr, sem, len>>

-----------------------------------------------------------------------------
BootInit ==
    /\ AccessInit
    /\ logServer = "init" /\ logFs = "none" /\ chain = FALSE
    /\ configServer = "start"
    /\ stage = [c \in Clients |-> "start"]
    /\ held = [c \in Clients |-> << >>]
    /\ nwStack = "waiting" /\ stackAddr = << >>
    /\ sem = 0 /\ len = 0

SensorTemp          == Reader("sensorTemp") \/ Serialize \/ FirstMessage
CloudConnector      == Reader("cloudConnector") \/ Connects
NwStackConfigurator == Reader("nwStackConfigurator") \/ ConfigIpAddr

BootNext ==
    \/ LogServer \/ ConfigServer
    \/ SensorTemp \/ CloudConnector \/ NwStackConfigurator
    \/ StackStarts

BootSpec == BootInit /\ [][BootNext]_bootVars

\* seL4 schedules every component that can run; the stack starts.
BootFairSpec ==
    /\ BootSpec
    /\ WF_bootVars(LogServer) /\ WF_bootVars(ConfigServer)
    /\ WF_bootVars(SensorTemp) /\ WF_bootVars(CloudConnector)
    /\ WF_bootVars(NwStackConfigurator) /\ WF_bootVars(StackStarts)

-----------------------------------------------------------------------------
Stages == {"start", "reading", "configured", "calling", "done", "failed", "faulted"}

(* Type correctness of the start. *)
BootTypeOK ==
    /\ AccessTypeOK
    /\ logServer \in {"init", "mount", "free", "chain", "serving"}
    /\ logFs \in {"none", "initialized", "mounted"} /\ chain \in BOOLEAN
    /\ configServer \in {"start", "init", "mount", "lib", "serving"} \union {Files[i] : i \in 1..4}
    /\ stage \in [Clients -> Stages]
    /\ held \in [Clients -> Seq(Value)]
    /\ \A c \in Clients : Len(held[c]) <= Len(Queries(c))
    /\ nwStack \in {"waiting", "configured", "running"}
    /\ stackAddr \in Seq(Value)
    /\ sem \in 0..1 /\ len \in Int

(* Every value a component has read is the one stored for the query it made *)
(* at this place, though three components search at the same time; so the   *)
(* buffers of read_ip_from_config_server, set_mqtt_options and              *)
(* handle_CC_FSM_INIT hold what they are named for.                         *)
OwnValues ==
    \A c \in Clients : \A i \in 1..Len(held[c]) :
        LET q == Queries(c)[i]
        IN  /\ store = "open"
            /\ Store!Contained(q) = [ret |-> "SUCCESS", value |-> held[c][i]]

(* The first message is handled only after the network stack was given its  *)
(* three addresses of Domain-NwStack, by a component that neither the       *)
(* sensor nor the CloudConnector ever calls.                                *)
MessageOnConfiguredStack ==
    stage["sensorTemp"] = "done" \/ stage["cloudConnector"] = "done" =>
        /\ stage["nwStackConfigurator"] = "done" /\ store = "open"
        /\ Len(stackAddr) = Len(Queries("nwStackConfigurator"))
        /\ \A i \in 1..Len(stackAddr) :
              Store!Contained(Queries("nwStackConfigurator")[i]).value = stackAddr[i]

\* No value of the sensor fills its buffer to the last byte.
Terminated == \A i \in 1..Len(held["sensorTemp"]) : held["sensorTemp"][i].size # 128

(* Whatever else is stored: unless a value of the sensor has exactly 128    *)
(* bytes, the serialised message fits its buffer of 320 bytes, and so the   *)
(* receive buffer of the CloudConnector (PAHO_RECV_BUFF_SIZE, 1024): the    *)
(* limits at 36, 37 and 117 of SensorTemp.c agree, and the length that goes *)
(* unchecked into the memcpy at 70 is no error code.  A value of 128 bytes  *)
(* is accepted too, but nothing ends it for the strlen at 126.              *)
MessageFits == Terminated => len \in 0..320

Ended(c) == stage[c] \in {"done", "failed"}

(* Nobody waits for ever without a reason: the configurator always ends;    *)
(* the CloudConnector ends unless the configurator failed, which it never   *)
(* hears of; the sensor ends unless its call waits for one that failed or   *)
(* it faults over an error code for a length.                               *)
(* A ConfigServer that could not open its files (ConfigServer.c:21-26) and  *)
(* calls between components that are still starting block nobody.           *)
BootSettles ==
    LET noStack   == stage["nwStackConfigurator"] = "failed"
        noSession == stage["cloudConnector"] = "failed"
    IN  <>(/\ Ended("nwStackConfigurator")
           /\ Ended("cloudConnector") \/ noStack
           /\ Ended("sensorTemp") \/ noSession \/ noStack \/ stage["sensorTemp"] = "faulted")

(* LogServer.c:140-145: "create filesystem ... if (initFileSystem() !=      *)
(* OS_SUCCESS) ... Fail to init filesystem!": the consumer chain with its   *)
(* log file is set up only on a file system that was mounted.               *)
LoggerHasFileSystem == chain => logFs = "mounted"
=============================================================================
