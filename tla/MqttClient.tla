----------------------------- MODULE MqttClient -----------------------------
(***************************************************************************)
(* MQTT_client.c: the blocking MQTT client.  A call (connect, publish,     *)
(* disconnect) is a sequence of steps: it sends a packet, then loops over  *)
(* incoming packets until the one it waits for is there.                   *)
(*                                                                         *)
(* pc is the position inside the running call; "idle" means that no call   *)
(* is running and "returned" that its result ret is ready for the caller.  *)
(* Callers pass no timer, as CloudConnector.c does, so waitForSpecific-    *)
(* Packet never times out by itself.                                       *)
(***************************************************************************)
EXTENDS Wan

CONSTANTS
    KeepAlive,      \* keepAliveInterval_ms # 0
    MaxMessages     \* bound: bodies that callers hand over in an instance

ASSUME KeepAliveAssumption == KeepAlive \in BOOLEAN
ASSUME MessagesAssumption  == MaxMessages \in Nat

VARIABLES
    isConnected, isPingOutstanding, nextPacketId,   \* MQTT_client_t
    timerExpired,   \* TimerIsExpired(&timerLastSend)
    pc,             \* where the running call is
    want,           \* packet type the call waits for
    rx,             \* readbuf: the last packet read, or NoPacket
    msg,            \* the MQTT_message_t of the caller
    ret,            \* result of the call
    rest,           \* bytes of a packet begun, at the head of toClient, or 0
    inStep,         \* no read has failed half way so far (history)
    strayed,        \* a misread CONNACK or PUBREC was acted upon (history)
    confirmed       \* bodies whose QoS 1 or 2 publish succeeded (history)

selfVars   == <<isConnected, isPingOutstanding, nextPacketId, timerExpired>>
callVars   == <<pc, want, rx, msg, ret>>
readVars   == <<rest, inStep, strayed>>
clientVars == <<wanVars, selfVars, callVars, readVars, confirmed>>

NoPacket == Answer("none", 0)

\* A packet of a type that no call waits for.
UnknownPacket == Answer("unknown", 0)

AckKinds == {"PUBACK", "PUBREC", "PUBCOMP"}

\* Bytes of a packet of the broker in the stream.
Size(p) == IF p.kind = "PINGRESP" THEN 2 ELSE 4

NoMessage == [id |-> 0, qos |-> 0, body |-> 0]

-----------------------------------------------------------------------------
\* Helpers of MQTT_client.c.

\* Mutants of getNextPacketId: the counter never wraps, or wraps to 0.
Mut_IdNeverWraps == nextPacketId + 1
Mut_IdWrapsToZero == (nextPacketId + 1) % (MaxPacketId + 1)
getNextPacketId == IF nextPacketId >= MaxPacketId THEN 1 ELSE nextPacketId + 1

\* Mutant: closing a session forgets to leave the connected state.
Mut_CloseKeepsConnected == isPingOutstanding' = FALSE /\ UNCHANGED isConnected
closeSession == isPingOutstanding' = FALSE /\ isConnected' = FALSE

Return(result) == pc' = "returned" /\ ret' = result /\ want' = "none"

\* Mutant: a failing publish does not close the session.
Mut_FailKeepsSession ==
    Return("failure") /\ UNCHANGED <<isConnected, isPingOutstanding>>

\* A failing publish closes the session (584, 591); a failing connect does not.
FailCall ==
    /\ Return("failure")
    /\ IF want = "CONNACK" THEN UNCHANGED <<isConnected, isPingOutstanding>>
       ELSE closeSession

\* Enter waitForSpecificPacket for a packet type.
WaitFor(kind) == pc' = "read" /\ want' = kind

-----------------------------------------------------------------------------
\* The public functions, as a caller enters them.

MQTT_client_init ==
    /\ pc = "new"
    /\ pc' = "idle"
    /\ isConnected' = FALSE /\ isPingOutstanding' = FALSE
    /\ nextPacketId' = 1
    /\ timerExpired' = TRUE
    /\ UNCHANGED <<wanVars, want, rx, msg, ret, readVars, confirmed>>

ConnectRejected ==
    /\ pc = "idle" /\ isConnected
    /\ Return("failure")
    /\ UNCHANGED <<wanVars, selfVars, rx, msg, readVars, confirmed>>

ConnectStarts ==
    /\ pc = "idle" /\ ~isConnected
    /\ timerExpired' = FALSE
    /\ pc' = "sendConnect" /\ want' = "CONNACK"
    /\ UNCHANGED <<wanVars, isConnected, isPingOutstanding, nextPacketId, rx, msg, ret, readVars, confirmed>>

MQTT_client_connect == ConnectRejected \/ ConnectStarts

\* The caller's message m is not sent without a session.
PublishRejected(m) ==
    /\ pc = "idle" /\ ~isConnected
    /\ Return("failure")
    /\ closeSession
    /\ msg' = m
    /\ UNCHANGED <<wanVars, nextPacketId, timerExpired, rx, readVars, confirmed>>

\* Mutant: the message is sent whether or not there is a session.
Mut_PublishUnguarded(m) ==
    /\ pc = "idle"
    /\ pc' = "sendPublish"
    /\ msg' = [m EXCEPT !.id = getNextPacketId] /\ nextPacketId' = getNextPacketId
    /\ UNCHANGED <<wanVars, isConnected, isPingOutstanding, timerExpired, want, rx, ret, readVars, confirmed>>

PublishStarts(m) ==
    /\ pc = "idle" /\ isConnected
    /\ pc' = "sendPublish"
    /\ IF m.qos \in {1, 2}
         THEN msg' = [m EXCEPT !.id = getNextPacketId] /\ nextPacketId' = getNextPacketId
         ELSE msg' = m /\ UNCHANGED nextPacketId
    /\ UNCHANGED <<wanVars, isConnected, isPingOutstanding, timerExpired, want, rx, ret, readVars, confirmed>>

MQTT_client_publish(m) == PublishRejected(m) \/ PublishStarts(m)

\* Unlike publish, disconnect does not ask whether there is a session.
MQTT_client_disconnect ==
    /\ pc = "idle"
    /\ pc' = "sendDisconnect"
    /\ UNCHANGED <<wanVars, selfVars, want, rx, msg, ret, readVars, confirmed>>

-----------------------------------------------------------------------------
\* Sending.  sendPacket never touches timerLastSend: the statement that would
\* re-arm it comes after the return.

SendConnect ==
    /\ pc = "sendConnect"
    /\ \/ /\ SendPacket(Control("CONNECT"))
          /\ WaitFor("CONNACK")
          /\ UNCHANGED <<isConnected, isPingOutstanding, ret>>
       \/ WriteFails(Control("CONNECT")) /\ FailCall
    /\ UNCHANGED <<nextPacketId, timerExpired, rx, msg, readVars, confirmed>>

\* Mutant: a failing write is tried again, as a new packet (without DUP).
Mut_PublishRetries ==
    /\ pc = "sendPublish"
    /\ \/ SendPacket(PublishOf(msg)) /\ msg.qos = 1 /\ WaitFor("PUBACK")
       \/ WriteFails(PublishOf(msg)) /\ UNCHANGED <<pc, want>>
    /\ UNCHANGED <<isConnected, isPingOutstanding, nextPacketId, timerExpired, rx, msg, ret, readVars, confirmed>>

\* sendPublish, and the part of checkPublishQos before the first wait.
SendPublish ==
    /\ pc = "sendPublish"
    /\ \/ /\ SendPacket(PublishOf(msg))
          /\ \/ msg.qos = 0 /\ Return("success") /\ UNCHANGED <<isConnected, isPingOutstanding>>
             \/ msg.qos = 1 /\ WaitFor("PUBACK") /\ UNCHANGED <<isConnected, isPingOutstanding, ret>>
             \/ msg.qos = 2 /\ WaitFor("PUBREC") /\ UNCHANGED <<isConnected, isPingOutstanding, ret>>
             \/ msg.qos = 3 /\ FailCall
       \/ WriteFails(PublishOf(msg)) /\ FailCall
    /\ UNCHANGED <<nextPacketId, timerExpired, rx, msg, readVars, confirmed>>

\* sendAck(PUBREL) with the identifier found in the PUBREC.
SendPubrel ==
    /\ pc = "sendPubrel"
    /\ \/ /\ SendPacket(PubrelOf(rx.id))
          /\ WaitFor("PUBCOMP")
          /\ UNCHANGED <<isConnected, isPingOutstanding, ret>>
       \/ WriteFails(PubrelOf(rx.id)) /\ FailCall
    /\ UNCHANGED <<nextPacketId, timerExpired, rx, msg, readVars, confirmed>>

\* sendDisconnect only logs a failing write; the session is closed either way.
SendDisconnect ==
    /\ pc = "sendDisconnect"
    /\ SendPacket(Control("DISCONNECT")) \/ WriteFails(Control("DISCONNECT"))
    /\ closeSession
    /\ Return("success")
    /\ UNCHANGED <<nextPacketId, timerExpired, rx, msg, readVars, confirmed>>

-----------------------------------------------------------------------------
\* waitForNextPacket: read a packet, then look at the keep-alive timer.
\* MQTT_network_readPacket reads the header byte, the length and the payload
\* one after the other, without a limit: a read on a live stream blocks until
\* its bytes are there, and each of the reads may fail after the earlier ones.

\* Mutant: a PINGRESP does not clear the flag.
Mut_PingrespIgnored ==
    /\ pc = "read"
    /\ rest = 0 /\ toClient # << >>
    /\ rx' = Head(toClient)
    /\ toClient' = Tail(toClient)
    /\ pc' = "keepAlive"
    /\ UNCHANGED <<link, torn, toBroker, session, held, delivered, selfVars, want, msg, ret,
                   readVars, confirmed>>

\* The flag that a PINGRESP clears.
PingAnswered(p) == isPingOutstanding' = (isPingOutstanding /\ p.kind # "PINGRESP")

ReadPacket ==
    /\ pc = "read"
    /\ rest = 0 /\ toClient # << >>
    /\ rx' = Head(toClient)
    /\ toClient' = Tail(toClient)
    /\ PingAnswered(Head(toClient))
    /\ pc' = "keepAlive"
    /\ UNCHANGED <<link, torn, toBroker, session, held, delivered, isConnected,
                   nextPacketId, timerExpired, want, msg, ret, readVars, confirmed>>

\* A read that fails before it got a byte.
NothingRead ==
    /\ pc = "read"
    /\ rx' = NoPacket
    /\ pc' = "keepAlive"
    /\ UNCHANGED <<wanVars, selfVars, want, msg, ret, readVars, confirmed>>

\* The end of a closed stream.
ReadEnds == link # "up" /\ toClient = << >> /\ NothingRead

\* The clock or the TLS layer reports an error at the header byte.
ReadFails == "read" \in Faults /\ NothingRead

\* The same after some bytes of the packet: they are gone, the rest of the
\* packet is still in the stream.
ReadFailsHalfway ==
    /\ pc = "read"
    /\ "read" \in Faults
    /\ rest = 0 /\ toClient # << >>
    /\ rest' \in 1..Size(Head(toClient)) - 1
    /\ inStep' = FALSE
    /\ rx' = NoPacket
    /\ pc' = "keepAlive"
    /\ UNCHANGED <<wanVars, selfVars, want, msg, ret, strayed, confirmed>>

\* What may be taken for a packet behind a missing header.  The rest of an
\* acknowledgement is its length 2, of a type nobody waits for, and its
\* identifier, whose bytes can be any header; a packet that starts there uses
\* up the rest.  CONNACK and PINGRESP have no such byte.  Only the identifier
\* of a PUBREC is ever used.
Misread(n) ==
    {NoPacket, UnknownPacket} \union
    {p \in BrokerPacket :
        /\ n > 0 /\ Head(toClient).kind \in AckKinds
        /\ p.kind \in {want, "PINGRESP"}
        /\ p.kind # "PUBREC" => p.id = 0}

\* The next read starts in the middle of a packet: it may use up any number of
\* packets, end where one ends or in the middle again, fail or find a packet.
ReadRest ==
    /\ pc = "read"
    /\ rest > 0 /\ toClient # << >>
    /\ \E n \in 0..Len(toClient) :
          /\ toClient' = SubSeq(toClient, n + 1, Len(toClient))
          /\ \/ n = 0 /\ rest' \in 1..rest - 1
             \/ n > 0 /\ rest' = 0
             \/ n > 0 /\ n < Len(toClient) /\ rest' \in 1..Size(toClient[n + 1]) - 1
          /\ rx' \in Misread(n)
    /\ PingAnswered(rx')
    /\ strayed' = (strayed \/ (rx'.kind = want /\ want \in {"CONNACK", "PUBREC"}))
    /\ pc' = "keepAlive"
    /\ UNCHANGED <<link, torn, toBroker, session, held, delivered, isConnected,
                   nextPacketId, timerExpired, want, msg, ret, inStep, confirmed>>

KeepAliveDue == KeepAlive /\ timerExpired

KeepAliveQuiet ==
    /\ pc = "keepAlive" /\ ~KeepAliveDue
    /\ pc' = "match"
    /\ UNCHANGED <<wanVars, selfVars, want, rx, msg, ret, readVars, confirmed>>

\* The timer has expired and the last ping is unanswered: the connection is
\* considered dead, even if a packet has just been read.
KeepAliveDead ==
    /\ pc = "keepAlive" /\ KeepAliveDue /\ isPingOutstanding
    /\ FailCall
    /\ UNCHANGED <<wanVars, nextPacketId, timerExpired, rx, msg, readVars, confirmed>>

\* Mutant: a ping that was sent is not remembered as outstanding.
Mut_PingForgotten ==
    /\ pc = "keepAlive" /\ KeepAliveDue /\ ~isPingOutstanding
    /\ \/ SendPacket(Control("PINGREQ"))
       \/ WriteFails(Control("PINGREQ"))
    /\ pc' = "match"
    /\ UNCHANGED <<selfVars, want, ret, rx, msg, readVars, confirmed>>

\* A ping that cannot be sent ends the call only if nothing was read either.
SendPingReq ==
    /\ pc = "keepAlive" /\ KeepAliveDue /\ ~isPingOutstanding
    /\ \/ /\ SendPacket(Control("PINGREQ"))
          /\ isPingOutstanding' = TRUE
          /\ pc' = "match"
          /\ UNCHANGED <<isConnected, want, ret>>
       \/ /\ WriteFails(Control("PINGREQ")) /\ rx # NoPacket
          /\ pc' = "match"
          /\ UNCHANGED <<isConnected, isPingOutstanding, want, ret>>
       \/ WriteFails(Control("PINGREQ")) /\ rx = NoPacket /\ FailCall
    /\ UNCHANGED <<nextPacketId, timerExpired, rx, msg, readVars, confirmed>>

-----------------------------------------------------------------------------
\* waitForSpecificPacket: only the type of a packet decides.

\* Nothing was read, or another packet: wait for the next one.
IgnorePacket ==
    /\ pc = "match" /\ rx.kind # want
    /\ pc' = "read"
    /\ UNCHANGED <<wanVars, selfVars, want, rx, msg, ret, readVars, confirmed>>

\* MQTTDeserialize_connack or MQTTDeserialize_ack does not return 1.
MalformedPacket ==
    /\ "malformed" \in Faults
    /\ pc = "match" /\ rx.kind = want
    /\ FailCall
    /\ UNCHANGED <<wanVars, nextPacketId, timerExpired, rx, msg, readVars, confirmed>>

\* The return code in the CONNACK is stored, and looked at by no caller.
GotConnack ==
    /\ pc = "match" /\ want = "CONNACK" /\ rx.kind = want
    /\ isConnected' = TRUE /\ isPingOutstanding' = FALSE
    /\ Return("success")
    /\ UNCHANGED <<wanVars, nextPacketId, timerExpired, rx, msg, readVars, confirmed>>

\* Mutant: the PUBREC already completes a QoS 2 publish.
Mut_PubrecCompletes ==
    /\ pc = "match" /\ want = "PUBREC" /\ rx.kind = want
    /\ confirmed' = confirmed \union {msg.body}
    /\ Return("success")
    /\ UNCHANGED <<wanVars, selfVars, rx, msg, readVars>>

GotPubrec ==
    /\ pc = "match" /\ want = "PUBREC" /\ rx.kind = want
    /\ pc' = "sendPubrel"
    /\ UNCHANGED <<wanVars, selfVars, want, rx, msg, ret, readVars, confirmed>>

\* PUBACK or PUBCOMP.  Its packet identifier is not compared with msg.id.
GotAck ==
    /\ pc = "match" /\ want \in {"PUBACK", "PUBCOMP"} /\ rx.kind = want
    /\ confirmed' = confirmed \union {msg.body}
    /\ Return("success")
    /\ UNCHANGED <<wanVars, selfVars, rx, msg, readVars>>

-----------------------------------------------------------------------------

\* keepAliveInterval_ms passes.
KeepAliveElapses ==
    /\ KeepAlive /\ ~timerExpired
    /\ timerExpired' = TRUE
    /\ UNCHANGED <<wanVars, isConnected, isPingOutstanding, nextPacketId, callVars, readVars, confirmed>>

\* What a running call does unless it waits: nothing makes a read fail as long
\* as the stream lives, or bytes arrive that the rest of a packet asks for.
Proceed ==
    \/ SendConnect \/ SendPublish \/ SendPubrel \/ SendDisconnect
    \/ ReadPacket \/ ReadEnds
    \/ KeepAliveQuiet \/ KeepAliveDead \/ SendPingReq
    \/ IgnorePacket \/ MalformedPacket \/ GotConnack \/ GotPubrec \/ GotAck

\* One step of the running call.
ClientStep == Proceed \/ ReadFails \/ ReadFailsHalfway \/ ReadRest

\* Steps of the network, the broker and the clock.
WanStep ==
    \/ (LinkDrops \/ Broker) /\ UNCHANGED <<selfVars, callVars, readVars, confirmed>>
    \/ KeepAliveElapses

ClientInit ==
    /\ WanInit
    /\ isConnected = FALSE /\ isPingOutstanding = FALSE
    /\ nextPacketId = 0 /\ timerExpired = TRUE
    /\ pc = "new" /\ want = "none" /\ rx = NoPacket /\ msg = NoMessage
    /\ ret = "success" /\ confirmed = {}
    /\ rest = 0 /\ inStep = TRUE /\ strayed = FALSE

-----------------------------------------------------------------------------
\* The client on its own, driven by any sequence of legal calls.

CONSTANT QosLevels  \* QoS levels callers ask for
ASSUME QosAssumption == QosLevels \subseteq 0..3

LibraryOpenLink == OpenLink /\ UNCHANGED <<selfVars, callVars, readVars, confirmed>>

LibraryPublish ==
    /\ msg.body < MaxMessages
    /\ \E q \in QosLevels : MQTT_client_publish([id |-> 0, qos |-> q, body |-> msg.body + 1])

\* Calls use the network, which exists once glue_tls_init has succeeded.
LibraryCall ==
    /\ link # "down"
    /\ MQTT_client_connect \/ LibraryPublish \/ MQTT_client_disconnect

\* The caller has seen the result and may make another call.
LibraryReturn ==
    /\ pc = "returned"
    /\ pc' = "idle"
    /\ UNCHANGED <<wanVars, selfVars, want, rx, msg, ret, readVars, confirmed>>

LibraryNext ==
    \/ MQTT_client_init \/ LibraryOpenLink
    \/ LibraryCall \/ LibraryReturn
    \/ ClientStep \/ WanStep

LibrarySpec == ClientInit /\ [][LibraryNext]_clientVars

\* A call runs until it blocks, the broker answers what it reads, time passes.
LibraryFairSpec ==
    /\ LibrarySpec
    /\ WF_clientVars(Proceed)
    /\ WF_clientVars(Broker /\ UNCHANGED <<selfVars, callVars, readVars, confirmed>>)
    /\ WF_clientVars(KeepAliveElapses)

-----------------------------------------------------------------------------
(* Type correctness of the client, the stream and the broker. *)
ClientTypeOK ==
    /\ WanTypeOK
    /\ isConnected \in BOOLEAN /\ isPingOutstanding \in BOOLEAN
    /\ timerExpired \in BOOLEAN
    /\ nextPacketId \in PacketIds
    /\ pc \in {"new", "idle", "sendConnect", "sendPublish", "sendPubrel", "sendDisconnect",
               "read", "keepAlive", "match", "returned"}
    /\ want \in {"none", "CONNACK", "PUBACK", "PUBREC", "PUBCOMP"}
    /\ rx \in BrokerPacket \union {NoPacket, UnknownPacket}
    /\ msg \in [id : PacketIds, qos : 0..3, body : Nat]
    /\ ret \in {"success", "failure"}
    /\ rest \in 0..3 /\ inStep \in BOOLEAN /\ strayed \in BOOLEAN
    /\ confirmed \subseteq Nat

-----------------------------------------------------------------------------
\* The packets of a QoS 1 or QoS 2 exchange.

InExchange(p) == p.kind = "PUBREL" \/ (p.kind = "PUBLISH" /\ p.qos # 0)

\* The packet read last has not been acted upon yet.
Reading == pc \in {"keepAlive", "match", "sendPubrel"}

(* The properties of the exchanges hold as long as no call has acted on a   *)
(* PUBREC or CONNACK that the broker did not send.  A reader that is out of *)
(* step can find one in the identifier of an acknowledgement, and nothing   *)
(* in the client would notice.  A misread PUBACK or PUBCOMP does no harm.   *)

(* An acknowledgement that is on its way while the client has a session is  *)
(* the one the running publish waits for, for the message it sent; so is    *)
(* the one just read, whose identifier only the PUBREL uses.  This is what  *)
(* checkPublishQos (392-463) relies on: it never compares the identifier in *)
(* the acknowledgement with msg->id.                                        *)
AckIsForThisPublish ==
    isConnected /\ ~strayed =>
        /\ \A i \in 1..Len(toClient) :
              toClient[i].kind \in AckKinds =>
                  toClient[i].kind = want /\ toClient[i].id = msg.id
        /\ Reading /\ rx.kind \in AckKinds =>
              rx.kind = want /\ (want = "PUBREC" => rx.id = msg.id)

(* While the client has a session at most one packet of an exchange is on   *)
(* its way, over both directions: a publish call does not return success    *)
(* before its exchange is complete, and a failing one ends the session.     *)
OneExchange ==
    isConnected /\ ~strayed =>
        LET out == {i \in 1..Len(toBroker) : InExchange(toBroker[i])}
            in  == {i \in 1..Len(toClient) : toClient[i].kind \in AckKinds}
        IN  /\ \A i, j \in out : i = j
            /\ \A i, j \in in : i = j
            /\ out = {} \/ in = {}

(* A PUBLISH is on its way only after the broker has answered a CONNECT     *)
(* (the guard at 560), and one that asks for an acknowledgement carries a   *)
(* packet identifier other than 0, also after the identifiers wrapped       *)
(* around (getNextPacketId, 22-38).                                         *)
PublishWellFormed ==
    \A i \in 1..Len(toBroker) :
        toBroker[i].kind = "PUBLISH" =>
            /\ ~strayed => session # "none"
            /\ toBroker[i].qos \in {1, 2} => toBroker[i].id # 0

(* What a publish call reported as acknowledged the broker has accepted,    *)
(* even if the acknowledgement was read out of step.                        *)
ConfirmedDelivered ==
    ~strayed => \A n \in confirmed : \E i \in 1..Len(delivered) : delivered[i] = n

(* The broker accepts every message at most once, in the order of the       *)
(* calls, also when calls fail and the client is used again.                *)
DeliveredInOrder ==
    ~strayed => \A i, j \in 1..Len(delivered) : i < j => delivered[i] < delivered[j]

(* As long as no read has failed half way, a ping counts as outstanding     *)
(* only while its answer can still come: on a live stream the PINGREQ or a  *)
(* PINGRESP is on its way.  (A PINGRESP that is lost in the middle leaves   *)
(* isPingOutstanding set, and the next check at 283 gives a live connection *)
(* up.)                                                                     *)
PingAccounted ==
    isPingOutstanding /\ link = "up" /\ ~torn /\ inStep =>
        \/ \E i \in 1..Len(toBroker) : toBroker[i].kind = "PINGREQ"
        \/ \E i \in 1..Len(toClient) : toClient[i].kind = "PINGRESP"

\* The read of a call that waits on a live stream blocks: nothing arrives.
Blocked == pc = "read" /\ toClient = << >> /\ link = "up"

(* With keep-alive on, a call that never returns has lost a part of a       *)
(* packet, or hangs in one read on a live stream.  In particular a dead     *)
(* connection ends it, however often waitForNextPacket swallows the read    *)
(* error (255-258) and waitForSpecificPacket ignores a packet (339).        *)
CallReturnsOrBlocks ==
    []<>(pc \in {"new", "idle", "returned"} \/ ~inStep) \/ <>[]Blocked

(* waitForNextPacket: "seems we've reached the timeout already and expect a *)
(* response, but it did not arrive. So the connection is considered dead"   *)
(* (281-282).  When the timer has expired, a wait for a packet ends.        *)
SilenceNoticed == pc = "read" /\ timerExpired ~> pc # "read"

(* sendPacket: "send a packet and update the keep alive mechanism if        *)
(* successful" (53).  A publish that goes on to read was sent successfully, *)
(* so its timer would have to be running.                                   *)
SendRearmsKeepAlive ==
    [][pc = "sendPublish" /\ pc' = "read" => ~timerExpired']_clientVars
=============================================================================
