# Formal model of the TRENTOS IoT demo

TLA+ modules, TLC configurations and TLAPS proofs for `demo_iot_app_hw`: a
sensor component hands MQTT messages to a CloudConnector component, which
publishes them over TLS to an MQTT broker. Paths below are relative to the
repository; line numbers are those of the modelled commit.

## 1. Inventory

| Component | State | Operations | Talks to |
|---|---|---|---|
| **Sensor** (`components/Sensor/src/SensorTemp.c`) | position in `run`, the serialised message, the 5 s tick | `initializeSensor`, `CloudConnector_write`, the loop of `run` | CloudConnector: dataport and RPC; ConfigServer; TimeServer |
| **CloudConnector** (`components/CloudConnector/src/CloudConnector.c`) | `cc_fsm` (client, two network contexts, last message), the semaphore | control thread: `run` → `CC_FSM_ctor`, `handle_CC_FSM_INIT`; interface thread: `cloudConnector_rpc_write` → `handle_CC_FSM_NEW_MESSAGE` and its handlers | Sensor, MQTT client, ConfigServer |
| **MQTT client** (`MQTT_client.c`) | `isConnected`, `isPingOutstanding`, `nextPacketId`, keep-alive timer, buffers | `MQTT_client_init/connect/publish/disconnect` | MQTT_net, TLS glue |
| **MQTT framing** (`MQTT_net.c`) | none of its own (position in the byte stream) | `MQTT_network_sendPacket`, `MQTT_network_readPacket`, `MQTT_readHeader` | TLS glue |
| **TLS glue** (`glue_tls_mqtt.c`) | TLS context, socket handle | `glue_tls_init` (waits for the stack, connects the socket), `glue_tls_handshake`, `glue_tls_mqtt_read/write` | network stack, TimeServer |
| **MQTT server** (`MQTTServer.c`) | buffers, a network whose functions are never set | `MQTTServer_readType`, `MQTTServer_sendConnAck` (used); the rest is never called | MQTT_net |
| **Configuration access** (`include/util/helper_func.c`, `init_CloudConnector.c`) | per reader: the names asked for, an enumerator, the buffer | `helper_func_getConfigParameter`: `find_domain`, then the element, then the value, every step a call of the ConfigServer | ConfigServer |
| **ConfigServer** (`ConfigServer.c`, `init_config_backend.c`) | the mounted file system, the library over four files | `post_init`; then it answers calls, also when `post_init` failed | StorageServer, LogServer; serves CloudConnector, Sensor, NwStackConfigurator |
| **LogServer** (`LogServer.c`) | its file system, the consumer chain | `pre_init` with `initFileSystem`; then it takes log lines | StorageServer; serves the components that log |
| **NwStackConfigurator** (`NwStackConfigurator.c`) | the three addresses read | `post_init`: `read_ip_from_config_server`, `configIpAddr` | ConfigServer, network stack |
| **Logging client** (`components/common/common.c`) | a filter, one emitter per component | `pre_init`; every log line is a call | LogServer |
| **Assembly** (`DemoIotApp.camkes`) | `sem_value = 0` | connections | all |

External: network stack, TLS and crypto libraries, TimeServer, StorageServer,
ConfigService library, the paho packet library, the broker (mosquitto).

### What is hard

* Two threads of the CloudConnector use one MQTT client that is not reentrant.
  Only a binary semaphore, started at 0, keeps them apart.
* The dataport is shared memory without a lock. It is safe only because the RPC
  that announces a message is synchronous and the sensor has one thread.
* A publish is several steps over an unreliable stream: a write can fail after
  the data went out, an acknowledgement can be lost, malformed or late. The
  client does not compare the identifier of an acknowledgement with that of the
  message, so its correctness rests on never having two exchanges open.
* Header byte, length and payload of a packet are separate reads without a limit,
  and each may fail after the earlier bytes were consumed. The error is swallowed
  and the same stream is read on, in the middle of a packet.
* Whether a wait ever ends depends on the keep-alive ping. The CloudConnector
  disables keep-alive, and on a live stream the check comes after a read that may
  block for ever.
* Errors are overwritten or ignored on the way up: the result of the handler,
  the return code of the CONNACK, the result of the RPC.
* Packet identifiers wrap around; 0 is forbidden.
* All components start at once. Three of them walk through the configuration at
  the same time, one remote call per step, and the files behind it may be
  missing. The first message depends on a component, the NwStackConfigurator,
  that nobody calls and whose failure nobody hears of.
* Socket events arrive merged, late or not at all while the connection opens, and
  every call on the way may fail.

`PROJECT.json` lists each of these hazards at its line, with the properties
that cover it.

### What makes each component correct

* MQTT client: acknowledgements are attributed to the right message; a message
  reported as published has been accepted, none twice, none out of order;
  nothing is published outside a session; pings are accounted for; a call returns
  unless it blocks in a read.
* CloudConnector: one call of the client at a time; messages are processed only
  after the initialisation; after a message was handled the session tells
  whether it was confirmed; silence once the session is lost.
* Sensor with CloudConnector: the dataport is stable while it is used; the
  system is a relay that confirms one message before the next is offered; the
  sensor keeps calling while the connection lives and no part of a packet is lost.
* TLS glue: a socket that did not connect is closed, a successful one is not;
  the loops end; a clock error is reported.
* MQTT framing: what is read is what was sent, and the stream stays in step.
* Configuration: a lookup of several calls is answered as if it were one, with the
  value of the first domain of the name that was asked for.
* Start-up: every reader has its own values, no message is handled before the
  stack has its addresses, nobody waits for ever without a reason, and a server
  whose file system failed does not go on as if it had one.

## 2. Modules

| Module | Models |
|---|---|
| `Wan` | the TLS stream as two FIFO channels of packets, the client's writes (`glue_tls_mqtt_write`), the connection, the broker (external) |
| `MqttClient` | `MQTT_client.c`, one action per step between two accesses to the stream; also the library on its own (`LibrarySpec`, `LibraryFairSpec`) |
| `CloudConnector` | both threads of `CloudConnector.c`, with any well-behaved sender (`ConnectorSpec`) |
| `Sensor` | `SensorTemp.c` and the tick of the TimeServer |
| `Relay` | abstract specification: what the demo promises about a message |
| `DemoIotApp` | the assembly of sensor and CloudConnector (`DemoSpec`, `DemoFairSpec`) |
| `GlueIo` | `glue_tls_mqtt_read` and `glue_tls_mqtt_write`: bytes in parts, time, clock errors |
| `TlsGlue` | `glue_tls_init` with `waitForNetworkStackInit` and `connectSocket`, `glue_tls_handshake`; the network stack's events |
| `MqttNet` | `MQTT_network_readPacket` over a stream of bytes |
| `TlsSession` | `TlsGlue` and then `MqttNet`: everything below the MQTT client (`SessionFairSpec`) |
| `PacketLink` | abstract specification: the link that `Wan` takes for granted |
| `ConfigData` | the stored configuration, queries and values |
| `ConfigStore` | abstract specification: what the configuration promises its readers |
| `ConfigAccess` | `helper_func.c`: a lookup of each reader, one action per remote call |
| `SystemBoot` | the start of all components up to the first message (`BootSpec`, `BootFairSpec`) |
| `MCMqttClient`, `MCCloudConnector`, `MCDemoIotApp`, `MCGlueIo`, `MCTlsSession`, `MCSystemBoot` | sets for the TLC instances |
| `MqttClientProofs`, `MqttExchangeProofs`, `CloudConnectorProofs`, `DemoIotAppProofs`, `GlueIoProofs`, `TlsGlueProofs`, `TlsSessionProofs`, `SystemBootProofs` | theorems |

Three groups of modules look at the system at three grains.

* **Messages.** `MqttClient` EXTENDS `Wan`, `CloudConnector` EXTENDS
  `MqttClient`, `DemoIotApp` EXTENDS `CloudConnector` and instantiates `Sensor`
  (sharing the dataport) and `Relay` (through a refinement mapping).
* **Bytes and sockets.** `TlsSession` EXTENDS `TlsGlue` and `MqttNet` and composes
  them in the order of `handle_CC_FSM_INIT`; it implements `PacketLink`. `GlueIo`
  stands alone. They look inside the steps that the first group takes as one:
  `TlsGlue` is the action `InitTls` of `CloudConnector` (with `Wan!OpenLink`),
  `MqttNet` is `ReadPacket`, `ReadEnds`, `ReadFails`, `ReadFailsHalfway` and
  `ReadRest` of `MqttClient`, and `GlueIo` shows which outcomes a write has (all, a
  part, or none of the bytes), which `Wan!WriteFails` then allows for a packet.
* **Start-up.** `SystemBoot` EXTENDS `ConfigAccess`, which implements `ConfigStore`;
  both use `ConfigData`. It looks inside `GetConfig` and `SetMqttOptions` of
  `CloudConnector` and `InitializeSensor` and `GetMessage` of `Sensor`, and takes
  their connecting and publishing as one step in turn.

### How the state and the actions correspond to the code

* **A call of the client.** `pc` is the position in the running call. `idle`:
  none is running. `sendConnect`, `sendPublish`, `sendPubrel`, `sendDisconnect`:
  about to call `sendPacket`. `read`, `keepAlive`, `match`: in
  `waitForSpecificPacket`, before the read, before the check of the keep-alive
  timer, before the comparison of the packet type. `returned`: the result `ret`
  is ready and the caller has not looked at it. `want` is the packet type waited
  for, `rx` the read buffer, `msg` the caller's message. Identifier and session
  handling of one step are one action, because nothing else can touch the
  client in between (`ClientExclusive` is the proof of that).
* **A read of the client.** A packet is read whole (`ReadPacket`), or not at all:
  at the end of a closed stream (`ReadEnds`), or because the clock or the TLS layer
  reports an error at the header byte (`ReadFails`). Or the read fails behind it
  (`ReadFailsHalfway`): `rest` is the number of bytes left of the packet, which stay
  at the head of `toClient`, and `inStep` becomes false for good. The next read
  starts in this rest (`ReadRest`); it may use up any number of packets, end in
  another one, fail, or find a packet there. `Misread` says which: behind a missing
  header an acknowledgement has its length 2 and its identifier, whose bytes may
  be any header; a CONNACK and a PINGRESP have nothing a call waits for. `strayed`
  remembers that a misread CONNACK or PUBREC was acted upon. On a live stream
  without a packet nothing but such an error ends a read: it has no limit, and
  `OS_ERROR_WOULD_BLOCK` sends it round for ever (`MQTT_net.c:27`,
  `glue_tls_mqtt.c:375-390`).
* **The threads.** `run` and `rpc` are the positions of the control and the
  interface thread. A thread calls the client by the first action of the call
  (`DoMqttConnect`, `HandlePublish`, `DoDisconnect`), waits for
  `pc = "returned"` and takes the result (`MqttConnected`, `Published`,
  `PublishFailed`, `Disconnected`).
* **The dataport** `sensor_port` is what was last written by the sensor;
  `readBuff` is the private copy of `handle_CC_FSM_NEW_MESSAGE`. A packet is its
  kind (what the dispatch and `do_process_publish` tell apart) and a body. The
  code's sensor always sends the same bytes; the body numbers the messages so
  that losing, repeating or swapping one can be seen.
* **Histories.** `delivered` (bodies the broker accepted) and `confirmed` (bodies
  whose publish succeeded with an acknowledgement), `inStep` and `strayed` exist
  only for properties.
* **Faults** names what may go wrong in an instance: a failing configuration or
  TLS start (`config`, `tls`), a failing write or read (`write`, `read`), a
  packet that does not deserialise (`malformed`), a dying connection (`drop`), a
  broker that refuses the session (`refuse`). Proofs hold for every subset.

* **Reading and writing** (`GlueIo`). `pc` is `test` at the loop condition and
  `io` in the body; `remainingLen` is `len - moved`. The bytes are numbered.
  Times are natural numbers below `TimeModulus`; `Elapsed` and `UnsignedLimit`
  do what the code does with `uint64_t` and the conversion of the `int` limit.
* **Connecting** (`TlsGlue`). `pc` is the next call of `glue_tls_init`;
  `eventMask` and `notified` are kept by the stack: the mask collects events
  until `OS_Socket_getPendingEvents` takes it, the notification is taken by
  `OS_Socket_wait`. Reading the mask and looking at its flags is one action,
  since `event` is a local copy; `OS_Socket_close` is another one.
* **Framing** (`MqttNet`). `netPc` is the part of the packet that is read next and
  `netRet` the result; every `MQTT_network_read` is an action that succeeds or
  fails.
* **A lookup** (`ConfigAccess`). `at` is, for each reader, the remote call that
  comes next: `domain` and `increment` in the loop of `find_domain`, `element`,
  `value`; `returned` means that `ret` and `buffer` wait for the caller. `wanted`
  holds the arguments, `enumerator` the domain the reader has reached. `store`
  is what the calls find: `closed` until the ConfigServer serves, then `open` or
  `broken`.
* **The start** (`SystemBoot`). `logServer` and `configServer` are the positions of
  the two servers, `stage` that of each reader, `held` the values it has read, in
  the order of its calls of `helper_func_getConfigParameter` (`Queries`). `sem` is
  the semaphore of the CloudConnector, `len` the length of the sensor's message or
  the error code of the packet library, with which the sensor is `faulted` in its
  `memcpy`. `StrLen` is what `strlen` may find in a value: up to its size, since it
  may hold a 0, and any length if it fills its buffer of 128 bytes, since nothing
  ends it then.
  A step that logs needs a serving LogServer (`Emit`).

### Abstractions

* A failing write leaves nothing, a torn packet or the whole packet in the
  stream (`WriteFails`); what follows a torn packet is garbage to the broker,
  which closes the connection or takes it for the rest of the torn packet.
* `MqttClient` knows of the bytes of a packet only how many are left, and what may
  be taken for a packet among them. It takes every byte of an identifier for any
  header, and lets a misread packet use up any number of others, so it reads more
  than the code can; `MqttNet` has the bytes themselves. The read buffer of the
  CloudConnector holds every packet that `Wan`'s broker sends, so that only a
  misread length makes it overflow (`ReadRest` without a packet); `MqttNet` has the
  overflow in step as well.
* `GlueIo`: the first call comes more than a millisecond after the TimeServer
  started (an `entryTime` of 1 would make a failed clock look like no time), and
  no time or limit comes near the modulus. A read or write of the TLS layer that
  succeeds moves at most what it was asked to.
* `TlsGlue`: an error event carries a code other than `OS_SUCCESS`; the stack
  does not fail after it is `RUNNING`.
* `MqttNet`: the base of the length digits, their number and the buffer are
  small; the peer encodes lengths with the fewest digits, as MQTT asks.
* `ConfigData`: a value is known by the place it is stored at and its size. Names
  are not empty; what a query keeps of a name (`initializeName`) is a function
  `Kept` that does not cut twice. A backend that could not be opened answers
  every call with an error; one that works may do so too (`StorageFails`).
* `SystemBoot`: a component serves calls after its own `pre_init` and
  `post_init`, also when they failed, as CAmkES does. Values are stored without a
  terminator (`config.xml` has them as blobs), and the buffers of the sensor start
  zeroed. `strlen` of a value that fills its buffer finds any length; a fault of
  `strlen` itself, or of reading what follows, is left out. What the CloudConnector does
  between its configuration and `sem_post` is one step that succeeds or fails;
  the first group of modules has it in full.
* The timers the CloudConnector passes are NULL, so waits have no time limit.
  The keep-alive timer is one bit that the passing of time sets.
* The return code of a CONNACK is left out because no code reads it; that is
  what the run `refused` is about.
* `sem_wait` and `sem_post` do not fail. A CONNECT in the dataport ends in a
  call of a NULL function pointer: the thread stays in `fault`.
* One connection: the code opens it once and never again.
* A retransmitting or misbehaving broker is left out: it answers each packet
  once, as MQTT 3.1.1 asks within one TCP connection.

## 3. Runs

| Run | Module, cfg | Shows | Expect |
|---|---|---|---|
| `lib` | `MCMqttClient`, `lib.cfg` | `ClientTypeOK`, `AckIsForThisPublish`, `OneExchange`, `PublishWellFormed`, `ConfirmedDelivered`, `DeliveredInOrder`, `PingAccounted` for any sequence of calls, QoS 0-3, keep-alive on, all stream faults, reads that fail before or inside a packet; `CallReturnsOrBlocks`: a call that never returns has lost a part of a packet or hangs in one read on a live stream, and a dead connection ends every call | pass |
| `keepalive_silence` | `MCMqttClient`, `keepalive_silence.cfg` | `SilenceNoticed`: a silent live peer is never considered dead, though the timer has expired | violation |
| `keepalive_rearm` | `MCMqttClient`, `keepalive_rearm.cfg` | `SendRearmsKeepAlive`: the comment of `sendPacket` is wrong | violation |
| `connector` | `MCCloudConnector`, `connector.cfg` | `ConnectorTypeOK`, `SemToken`, `ClientExclusive`, `HandledMeansConfirmed`, `SilentWithoutSession` for any sender and every fault; `NeverStrays`: out of step, nothing but a PUBACK is misread and acted upon | pass |
| `connack` | `MCCloudConnector`, `connack.cfg` | `ConnAckReturns`: the answer to a CONNECT in the dataport never returns | violation |
| `demo` | `MCDemoIotApp`, `demo.cfg` | `DemoTypeOK`, `DataportStable`; the system implements `Relay` (`RelayPromise`) and `ConnectorSpec`; `CallsWhileLinked`: under every fault the sensor goes on calling as long as the connection lives and no read fails half way | pass |
| `rpc_hang` | `MCDemoIotApp`, `rpc_hang.cfg` | `SensorKeepsCalling` fails when the connection dies during a wait | violation |
| `refused` | `MCDemoIotApp`, `refused.cfg` | `ConnectedMeansSession` fails when the broker refuses | violation |
| `glue_io` | `MCGlueIo`, `glue_io.cfg` | `GlueTypeOK`, `TimeoutIsReal`, `WrittenInOrder`, `ReadInOrder` for transfers in any parts, over several calls, with a failing clock; `LimitedCallReturns`: a call with a limit ends | pass |
| `session` | `MCTlsSession`, `session.cfg` | the start: `TlsTypeOK`, `SocketMatchesResult`, `HandshakeOnConnection`, `GivesUpForAReason`, `StartEnds` for merged, late and useless events and every failing call; then the packets: `NetTypeOK`, `FramingKept`, `OnlyTooLargeRejected` for one, two and three length bytes and failing reads; both implement `PacketLink` (`LinkPromise`) | pass |
| `boot` | `MCSystemBoot`, `boot.cfg` | `BootTypeOK`, `OwnValues`, `MessageOnConfiguredStack`, `MessageFits` (unless a value has exactly 128 bytes), `BootSettles`; the interleaved lookups implement `ConfigStore` (`ConfigPromise`); every operation may fail | pass |
| `boot_mount` | `MCSystemBoot`, `boot_mount.cfg` | `LoggerHasFileSystem`: the LogServer uses a file system that could not be mounted | violation |

Deadlock checking is off in every run: a failed initialisation, a fault of the
interface thread, a wait on a dead connection or the bound on the messages
really stop the system.

**Bounds.** `MaxPacketId` is 2 or 3 instead of 65535, so that identifiers wrap
in every run (`nextPacketId` starts at 1 and the first publish uses 2).
`MaxMessages` (1 to 4) bounds the messages a caller hands over: two are enough
for a late acknowledgement to meet a later publish, four let the identifiers
of the sensor wrap while a session lasts. `MaxInFlight = 2` packets fit the
stream each way before a write, or an answer of the broker, must wait: a packet
and the one sent on top of it (a PINGREQ or a DISCONNECT), an acknowledgement and
a PINGRESP. A rest of a packet can therefore be followed by a whole one. `lib` has
the view `LiveState`, which leaves out a read buffer that was acted upon and a
result that was taken: no action and no property looks at either again. In
`glue_io` a transfer has up to 3 bytes, so that it can come in three parts, and 3
bytes in each direction make several calls; the limits are none, one that is over at once, and one of 2 ms within a clock of 4
ticks; the modulus 16 is larger than all of them, and differences still wrap.
In `session` the base is 2 with 3 digits: the payloads 0, 3, 4 and 5 need one, two
and three digits, 4 fills the buffer of 8 exactly, 5 does not fit; two packets
let an abandoned one be followed by another. The connection itself is finite
without bounds. `boot` has four stored configurations: the shipped one (with a
name that is cut), one in another order with a second domain of the same name
and none for the sensor, one with an oversized payload, a name longer than a
query keeps and no domain for the stack, and one whose values fill the buffers of
the sensor. `TextLengths` is 0, 127 and 200: an empty text, the longest that fits,
and one that `strlen` finds behind the buffer. Between them every lookup ends in each
of its results; all three readers search at once. The violation runs use the
smallest instance that shows the behaviour.

**Fairness.** A call of the client that can go on (`Proceed`), the threads and the
sensor are weakly fair: seL4 schedules every runnable thread, and the busy loops
yield. No read has to fail: `Proceed` has no `ReadFails`, `ReadFailsHalfway` or
`ReadRest`, so a call that waits on a live stream without a packet, or for the
bytes that a misread length asks for, may wait for ever. The broker is weakly
fair: it answers what it reads. Time passes (`KeepAliveElapses`, `TimerTick`). `DemoFairSpec` has strong fairness on
`ReadPacket`: a read that may fail for a moment at the header byte (the clock of
the TimeServer) does not fail every time while a packet is there. One that fails
behind it takes the packet with it, so the property does not speak of that case.
`GlueFairSpec`: the thread runs and time passes; nothing about the TLS layer.
`SessionFairSpec`: the client runs, the stack ends its start, and a connecting
socket gets an outcome (the stack has a timeout of its own); nothing about the
broker. `BootFairSpec`: every component that can go on does, and a stack that was
given its addresses starts. Nothing is assumed about writes, which may fail for
ever, and nothing about `LinkDrops`.

## 4. Findings

1. `rpc_hang`: `waitForNextPacket` swallows read errors (`MQTT_client.c:255`),
   keep-alive is off (`CloudConnector.c:166`), no timer is passed: a connection
   that dies during a wait blocks the sensor for ever, against `README.md:12-14`.
2. `refused`: `do_mqtt_connect` (`CloudConnector.c:184`) ignores the return code
   of the CONNACK; a refused session counts as "CloudConnector initialized".
3. `connack`: `net_lan->mqttwrite` is never set, so answering a CONNECT
   (`CloudConnector.c:297`) calls NULL; `MQTTServer.c:27` promises a result.
4. `keepalive_rearm`: the code that re-arms the keep-alive timer is unreachable
   (`MQTT_client.c:68`), against the comment at line 53.
5. `keepalive_silence`: the keep-alive check (`MQTT_client.c:278-286`) comes after a
   read without a limit, so with a silent peer on a live connection it is never
   reached, against the comment at 281-282. In the run the
   broker takes the packet it should answer for the rest of a torn one; a broker
   that just does not answer has the same effect.
6. `boot_mount`: `initFileSystem` overwrites the error of a failed mount with the
   result of the clean-up (`LogServer.c:110`), so `pre_init` goes on and creates
   its log file on a file system that was freed, against its own check at 140-145.

## 5. Proofs

Checked by TLAPS for all values of the constants (any `MaxPacketId`,
`MaxInFlight`, `Faults`, `QosLevels`, with and without keep-alive). The
assumptions used are the named ones of the modules: `MaxPacketId` and
`MaxInFlight` are positive, `Faults` is a subset of the known names,
`MaxMessages` is a natural number, `KeepAlive` a Boolean, `QosLevels` within
0..3; `TimeAssumption` and `LengthAssumption` of `GlueIo`; `ErrorAssumption` of
`TlsGlue`; `BaseAssumption`, `BufferAssumption` and `PacketAssumption` of `MqttNet`
(any base above 1, any number of length bytes, any buffer that holds the longest
header, lengths that can be encoded); `NamesAssumption`, `ContentsAssumption`, `ClientsAssumption`,
`AddressAssumption`, `LengthsAssumption` (any set of text lengths) and
`QueriesAssumption` of the start-up. TLC evaluates them in
the runs.

* `MqttClientProofs`: `LibraryTypeCorrect`. One lemma for every helper (what a
  send, an answer or a return does to the types), one for the broker, one for
  the steps of a call.
* `MqttExchangeProofs`: why the client may take any acknowledgement of the right
  type for its own. The results are stated for `UseSpec`, the client with any
  proper caller: it makes one call at a time, only over a link, hands over every
  message with a newer body than the last, and may fill the message anew between
  two calls. `ExchangeSafety` has all six properties under `UseSpec`;
  `LibraryIsUse` says that `LibrarySpec` is such a caller, so that the theorems
  about `LibrarySpec` are its corollaries. A client that is out of step may act on a
  CONNACK or PUBREC nobody sent, and then nothing can be said, so what is invariant
  is `~strayed => ExchangeInv`; `strayed` never becomes false again, and every step
  that leaves it false preserves `ExchangeInv` (`ReadRestExchange` for the reads in
  the middle of a packet, which only take packets away). None of the properties is
  inductive; all but the last two follow from `ExchangeInv`:
  * `ConnackInv`: the broker accepts one CONNECT, so there is one CONNACK at most.
    As long as it was not used (`NotYetConnected`) nothing has been published; once
    it was, no CONNACK comes any more, and a session that is closed stays closed.
    Everything below therefore only has to hold while `isConnected`.
  * `CallInv` relates the position in the call to what it waits for; `MatchInv`
    says that every packet of an exchange, in either stream or just read, is the
    one waited for, with the identifier of `msg`; `UniqueInv` that there is at most
    one; `HeldInv` what the broker holds and has accepted at each of its stages.
  * `AckIsForThisPublishInvariant`, `OneExchangeInvariant` and, with
    `PublishHasId`, `PublishWellFormedInvariant` follow;
    `ConfirmedDeliveredInvariant` too, since `HeldInv` has the message accepted
    before its acknowledgement is sent, and `delivered` only grows. A PUBACK or
    PUBCOMP that is misread out of step was made of one the broker did send.
  * `DeliveredInOrderInvariant` needs `OrderInv`: the accepted messages, the one
    held and those in the stream are in order, and nothing is published behind a
    QoS 2 message before it is released. It rests on `ExchangeInv` only where a
    message is sent, and holds on through failed calls and lost sessions.
  * `PingAccountedInvariant`, from `PingInv`: no call runs before there is a link. It
    is about streams that are in step: a PINGRESP that is lost half way leaves the
    flag set with no answer to come, in the model as in the code.
* `CloudConnectorProofs`
  * `ConnectorTypeCorrect`.
  * `SemTokenInvariant`: `SemToken` with the types is inductive.
  * `ClientExclusiveInvariant`: `ClientExclusive` is not inductive, since it
    says nothing about threads that are elsewhere. The strengthening
    `ThreadsMatchCall` relates every position of the two threads to the
    position of the call, and rests on `SemToken`.
  * `HandledMeansConfirmedInvariant`: needs `MessageInv`, which follows the
    message of the interface thread through the call: the body in `msg` is that
    of `readBuff`, its QoS is 1, so that the only successful return is the one
    that confirms it, and every failing return closes the session. Every body
    confirmed so far belongs to a message that was copied before; a new one is
    therefore not yet confirmed when its call starts.
  * `SilentWithoutSessionProperty`, an action property from the same invariants:
    they leave a client without a session at three positions, of which only
    `SendDisconnect` writes.
  * `ConnectorUsesClient`: `ConnectorSpec => UseSpec`. Both threads together are a
    proper caller: `ThreadsMatchCall` leaves one call at a time, `LinkInv` has the
    link opened before the first, and `BodyInv` has the message in `readBuff` never
    older than the last one handed over, and newer when its own call is about to begin.
  * `NeverStraysInvariant`: the connector never acts on a misread CONNACK or PUBREC.
    Until its one connect call is over it publishes nothing, so no acknowledgement
    comes that could be misread (`QuietStart`); later `MessageInv`
    leaves only a PUBACK to wait for (`WaitsFor`).
  * `ConnectorExchangeSafety`: hence the exchanges of the CloudConnector have the
    six properties of the client without the condition on `strayed`, whatever is put
    into the port and also when reads fail half way.
* `DemoIotAppProofs`
  * `DemoImplementsConnector`: `DemoSpec => ConnectorSpec`, step by step: a step
    of the sensor is a step of the any-sender environment or a stutter. It needs
    `PortInv`: the sensor writes only while the interface thread is `ready`, and
    it calls only with a message that was not copied yet.
  * `DataportStableInvariant`, from the same `PortInv`.
  * `DemoSafety`: what was proved of the CloudConnector, and through it of the
    client, holds in the system.
  * `DemoImplementsRelay`: `DemoSpec => RelayPromise`. The mapping takes a message as
    offered when the sensor calls the RPC with it, the sensor as busy while it is
    blocked in that call, and the relay as up from the start until the session is
    lost. `RelayInv` combines the invariants of the components, those of the client
    by `NeverStrays` without a condition, and by
    `OfferedBounds` no copy is ahead of what was offered;
    with `OrderInv` this makes whatever the broker accepts newer than the last and
    not newer than what was offered, with `HandledMeansConfirmed` it makes a return
    of the RPC a `Reply`, and with `ConfirmedDelivered` a success a `Confirm`.
    `DownStaysDown`: no step brings a lost session back.
  * `DemoTypeCorrect`.
* `GlueIoProofs`: `GlueTypeCorrect`, `TimeoutIsRealInvariant`,
  `WrittenInOrderInvariant`, `ReadInOrderInvariant`, all from `GlueInv`. The
  order of the bytes is not inductive: `WriteInv` adds that the stream ends with
  exactly the part of the buffer that was moved, and that everything before it
  belongs to earlier calls; `ReadInv` that the start of the buffer holds the
  last bytes taken. `TimeUp` is the lemma on the unsigned arithmetic.
* `TlsGlueProofs`: `TlsTypeCorrect`, `SocketMatchesResultInvariant`,
  `HandshakeOnConnectionInvariant`, `GivesUpForAReasonInvariant`, all from
  `TlsInv`. `PositionInv` adds that nothing telling was read while the loop
  goes on, `ErrorInv` that a pending error event carries an error.
* `TlsSessionProofs`
  * **Induction.** `Encode`, `Power` and the library's `FlattenSeq` are recursive, and
    the library's induction theorems have an operator as a parameter, which no
    prover here can instantiate. `SetInduction` has a set instead: it follows from
    the well-founded order of the numbers (`WFMin`). From it come
    `PrimitiveRecursion` (a function with a given start and a given step exists),
    the existence of the three functions (`PowerDef`, `EncodeExists`, `FlatExists`)
    and what they compute: `EncodeUpTo` (a number below `Base^k` has one to k
    bytes), `FlattenSeqAppend`.
  * `NetTypeCorrect`, from `LengthInv`: the digits read so far bound
    `tmpPacketLen`, so that the length put back into the buffer has at most
    `MaxLenBytes` bytes. Nothing is assumed about the bytes that are read.
  * `FramingKeptInvariant`: `FramingKept` says nothing about the middle of a packet;
    `ReaderInv` does. While in step the stream is the rest of the next packet and
    what was sent behind it (`RestAfter`). At a length byte the value read so far
    and `m`, the number whose digits are still in the stream, make up the length
    (`AtLength`); a digit moves from one to the other (`OneDigit`).
  * `OnlyTooLargeRejectedProperty`, from the same: `m` is below
    `Power[MaxLenBytes - cntBytes]`, so a fourth length byte never asks for a fifth.
  * `SessionUsesParts`: `SessionSpec` implies `TlsSpec` and `NetSpec`, so that all of
    this, and the results about `TlsGlue`, hold in the session (`SessionSafety`).
  * `SessionImplementsLink`: `SessionSpec => LinkPromise`. A packet that is returned
    in step is a `Receive`, one given up a `BreakFraming`, what is returned out of
    step a `ReceiveGarbage`; all other steps of the reader are stutters, and the
    end of the handshake is `OpenLink`.
* `SystemBootProofs`, from `BootInv`. `LookupInv` is the loop invariant of
  `find_domain` for every reader: no domain before its enumerator has the name
  (`SearchInv`), the one found is the first (`FoundInv`), a result is what
  `ConfigStore` contains (`ResultInv`), and only a reader that is reading is in a
  lookup (`CallerInv`). `StageInv`, `ClosedInv` and `OrderInv` order the stages of
  the components.
  * `BootImplementsStore`: `BootSpec => ConfigPromise`. All calls of a lookup but
    the last are stutters of `ConfigStore`; the last one is its `Reply`, with an
    answer that `LookupInv` shows to be allowed.
  * `OwnValuesInvariant`, `MessageOnConfiguredStackInvariant`,
    `MessageFitsInvariant`, `BootTypeCorrect`. `MessageFits` needs that both values
    have less than 128 bytes once they are read (`SensorValues`: a lookup accepts no
    more than 128, and `Terminated` excludes that), and then bounds the message
    whatever `strlen` finds in them (`SerializedFits`).

Every safety invariant and action property that a passing run checks, and each of the
four refinements (`Relay`, `ConnectorSpec`, `PacketLink`, `ConfigStore`), is a theorem.
Model-checked only: liveness (`CallReturnsOrBlocks`, `CallsWhileLinked`, `LimitedCallReturns`,
`StartEnds`, `BootSettles`), because fairness and ENABLED are out of the prover's reach.

## 6. Plan

Done: sections 2 to 5. What is left:

1. `MqttNet` over `GlueIo`: the bytes of a packet in parts, as a refinement.

## 7. Not modelled

* Platform drivers, build files, certificates and the broker's configuration
  (`plat/`, `CMakeLists.txt`, `configuration/`, `mosquitto_configuration/`): data
  without behaviour.
* The layout of log lines (`custom_log_format.c`), filters and levels: no property
  depends on what is logged. That logging blocks until the LogServer serves is
  modelled.
* The functions of `MQTTServer.c` that no component calls: all but `MQTTServerInit`,
  `MQTTServer_readType` and `MQTTServer_sendConnAck`.
* TLS, crypto, network stack, file system and the ConfigService library: external,
  by what the code relies on.
* One hazard rests on that border and has a note instead of a property: an error
  event that carries `OS_SUCCESS` (`glue_tls_mqtt.c:197`).
