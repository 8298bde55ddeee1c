------------------------ MODULE MqttExchangeProofs ------------------------
(***************************************************************************)
(* Proofs about the exchanges of the MQTT client: why it may take any      *)
(* acknowledgement of the right type for the one of its own message.       *)
(***************************************************************************)
EXTENDS MqttClientProofs

-----------------------------------------------------------------------------
\* What the client asks of a caller, whoever it is: one call at a time, none
\* before there is a connection, and every message handed over is a new one.
\* Between two calls the caller may fill its message structure again.

UsePublish == \E m \in Message : msg.body < m.body /\ MQTT_client_publish(m)

UseCall ==
    /\ link # "down"
    /\ MQTT_client_connect \/ UsePublish \/ MQTT_client_disconnect

UsePrepare ==
    /\ pc = "idle"
    /\ msg' \in Message /\ msg.body <= msg'.body
    /\ UNCHANGED <<wanVars, selfVars, pc, want, rx, ret, readVars, confirmed>>

UseNext ==
    \/ MQTT_client_init \/ LibraryOpenLink
    \/ UseCall \/ UsePrepare \/ LibraryReturn
    \/ ClientStep \/ WanStep

UseSpec == ClientInit /\ [][UseNext]_clientVars

\* The caller of LibrarySpec is one of them.
LEMMA LibraryStepIsUse ==
    ASSUME ClientTypeOK, [LibraryNext]_clientVars PROVE [UseNext]_clientVars
<1>1. ASSUME LibraryPublish PROVE UsePublish
  <2>1. PICK q \in QosLevels :
          MQTT_client_publish([id |-> 0, qos |-> q, body |-> msg.body + 1])
    BY <1>1 DEF LibraryPublish
  <2>2. msg.body \in Nat BY TypeParts DEF CallTypeOK, Message
  <2>3. [id |-> 0, qos |-> q, body |-> msg.body + 1] \in Message
    BY <2>2, QosAssumption, ZeroId DEF Message
  <2>4. msg.body < [id |-> 0, qos |-> q, body |-> msg.body + 1].body BY <2>2
  <2>5. QED BY <2>1, <2>3, <2>4 DEF UsePublish
<1>2. QED BY <1>1 DEF LibraryNext, LibraryCall, UseNext, UseCall

LEMMA LibraryIsUse == LibrarySpec => UseSpec
<1>1. ClientTypeOK /\ [LibraryNext]_clientVars => [UseNext]_clientVars
  BY LibraryStepIsUse
<1>2. QED BY <1>1, LibraryTypeCorrect, PTL DEF LibrarySpec, UseSpec

LEMMA UseStepType == ASSUME ClientTypeOK, [UseNext]_clientVars PROVE ClientTypeOK'
<1> DEFINE anyMessage == [id |-> 0, qos |-> 0, body |-> 0]
<1>0. anyMessage \in Message BY ZeroId DEF Message
<1>1. CASE MQTT_client_init \/ MQTT_client_connect \/ MQTT_client_disconnect
  BY <1>0, <1>1, CallsType
<1>2. CASE UsePublish BY <1>2, CallsType DEF UsePublish
<1>3. CASE LibraryOpenLink
  BY <1>3, LinkType, CallStutterType, ReadStutterType, TypeParts, TypePartsPrime
     DEF LibraryOpenLink
<1>4. CASE LibraryReturn
  BY <1>4, WanStutterType, ReadStutterType, TypeParts, TypePartsPrime
     DEF LibraryReturn, CallTypeOK, Labels, selfVars
<1>5. CASE UsePrepare
  BY <1>5, WanStutterType, ReadStutterType, TypeParts, TypePartsPrime
     DEF UsePrepare, CallTypeOK, selfVars
<1>6. CASE ClientStep BY <1>6, ClientStepType
<1>7. CASE WanStep BY <1>7, WanStepType
<1>8. CASE UNCHANGED clientVars BY <1>8, ClientStutterType
<1>9. QED
  BY <1>1, <1>2, <1>3, <1>4, <1>5, <1>6, <1>7, <1>8 DEF UseNext, UseCall

LEMMA UseTypeCorrect == UseSpec => []ClientTypeOK
  BY ClientInitType, UseStepType, PTL DEF UseSpec

\* Only a read touches what is known of the place in the stream, and what has
\* gone wrong with it stays wrong.
LEMMA ReadVarsStep ==
    ASSUME [UseNext]_clientVars
    PROVE  \/ UNCHANGED readVars
           \/ ReadFailsHalfway /\ ~inStep' /\ strayed' = strayed
           \/ ReadRest /\ inStep' = inStep /\ (strayed => strayed')
<1>1. CASE ReadFailsHalfway BY <1>1 DEF ReadFailsHalfway
<1>2. CASE ReadRest BY <1>2 DEF ReadRest
<1>3. CASE UNCHANGED clientVars BY <1>3 DEF clientVars
<1>4. CASE MQTT_client_init \/ LibraryOpenLink \/ UsePrepare \/ LibraryReturn \/ WanStep
  BY <1>4
     DEF MQTT_client_init, LibraryOpenLink, UsePrepare, LibraryReturn, WanStep, KeepAliveElapses
<1>5. CASE UseCall
  BY <1>5
     DEF UseCall, UsePublish, MQTT_client_connect, ConnectRejected, ConnectStarts,
         MQTT_client_publish, PublishRejected, PublishStarts, MQTT_client_disconnect
<1>6. CASE Proceed \/ ReadFails
  BY <1>6
     DEF Proceed, SendConnect, SendPublish, SendPubrel, SendDisconnect, ReadPacket, ReadEnds,
         ReadFails, NothingRead, KeepAliveQuiet, KeepAliveDead, SendPingReq, IgnorePacket,
         MalformedPacket, GotConnack, GotPubrec, GotAck
<1>7. QED BY <1>1, <1>2, <1>3, <1>4, <1>5, <1>6 DEF UseNext, ClientStep

-----------------------------------------------------------------------------
\* The inductive invariant, in parts.

\* The answer that ends the wait for what was sent.
AckOf(p) ==
    IF p.kind = "PUBREL" THEN "PUBCOMP" ELSE IF p.qos = 2 THEN "PUBREC" ELSE "PUBACK"

Waiting == pc \in {"read", "keepAlive", "match"}

\* The packet just read is an acknowledgement.
AckRead == Reading /\ rx.kind \in AckKinds

\* The one CONNACK of the connection was not used yet.
NotYetConnected ==
    \/ session = "none"
    \/ \E i \in 1..Len(toClient) : toClient[i].kind = "CONNACK"
    \/ Reading /\ rx.kind = "CONNACK"

\* Until then nothing was published; the broker accepts one CONNECT only.
ConnackInv ==
    /\ session = "none" => toClient = << >> /\ (Reading => rx = NoPacket)
    /\ \A i, j \in 1..Len(toClient) :
          toClient[i].kind = "CONNACK" /\ toClient[j].kind = "CONNACK" => i = j
    /\ Reading /\ rx.kind = "CONNACK" =>
          \A i \in 1..Len(toClient) : toClient[i].kind # "CONNACK"
    /\ NotYetConnected =>
          /\ ~isConnected /\ want \in {"none", "CONNACK"}
          /\ \A i \in 1..Len(toBroker) : toBroker[i].kind \notin {"PUBLISH", "PUBREL"}
          /\ \A i \in 1..Len(toClient) : toClient[i].kind \notin AckKinds
          /\ ~AckRead /\ held = {}

\* A running call fits the session it runs in.
CallInv ==
    /\ pc = "new" => ~isConnected /\ want = "none"
    /\ pc \in {"idle", "returned", "sendPublish", "sendDisconnect"} => want = "none"
    /\ pc \in {"sendPublish", "sendPubrel"} => isConnected
    /\ pc = "sendConnect" => want = "CONNACK"
    /\ want # "none" => (isConnected <=> want # "CONNACK")
    /\ Waiting => want # "none"
    /\ pc = "sendPubrel" => want = "PUBREC" /\ rx.kind = want
    /\ pc = "sendPublish" /\ msg.qos \in {1, 2} => msg.id # 0

\* What belongs to the running exchange, wherever it is.
MatchInv ==
    isConnected =>
        /\ \A i \in 1..Len(toBroker) :
              InExchange(toBroker[i]) =>
                  Waiting /\ AckOf(toBroker[i]) = want /\ toBroker[i].id = msg.id
        /\ \A i \in 1..Len(toClient) :
              toClient[i].kind \in AckKinds =>
                  Waiting /\ toClient[i].kind = want /\ toClient[i].id = msg.id
        /\ AckRead => rx.kind = want /\ (want = "PUBREC" => rx.id = msg.id)

\* There is at most one such packet.
UniqueInv ==
    isConnected =>
        /\ \A i, j \in 1..Len(toBroker) : InExchange(toBroker[i]) /\ InExchange(toBroker[j]) => i = j
        /\ \A i, j \in 1..Len(toClient) :
              toClient[i].kind \in AckKinds /\ toClient[j].kind \in AckKinds => i = j
        /\ \A i \in 1..Len(toBroker), j \in 1..Len(toClient) :
              ~(InExchange(toBroker[i]) /\ toClient[j].kind \in AckKinds)
        /\ AckRead =>
              /\ \A i \in 1..Len(toBroker) : ~InExchange(toBroker[i])
              /\ \A i \in 1..Len(toClient) : toClient[i].kind \notin AckKinds

\* What the broker knows of the message of the running exchange.
Accepted == \E i \in 1..Len(delivered) : delivered[i] = msg.body

HeldInv ==
    isConnected =>
        /\ \A h \in held : h.id = msg.id /\ h.body = msg.body /\ want \in {"PUBREC", "PUBCOMP"}
        /\ \A i \in 1..Len(toBroker) :
              /\ toBroker[i].kind = "PUBLISH" /\ toBroker[i].qos # 0 =>
                    toBroker[i].body = msg.body /\ held = {}
              /\ toBroker[i].kind = "PUBREL" => held # {}
        /\ \A i \in 1..Len(toClient) :
              /\ toClient[i].kind = "PUBREC" => held # {}
              /\ toClient[i].kind \in {"PUBACK", "PUBCOMP"} => Accepted /\ held = {}
        /\ AckRead => IF rx.kind = "PUBREC" THEN held # {} ELSE Accepted /\ held = {}

ExchangeInv == ClientTypeOK /\ ConnackInv /\ CallInv /\ MatchInv /\ UniqueInv /\ HeldInv

-----------------------------------------------------------------------------
\* Streams.

\* t is a part of s in one piece.
PartOf(t, s) ==
    \E k \in Nat : Len(t) + k <= Len(s) /\ \A i \in 1..Len(t) : t[i] = s[i + k]

LEMMA TailIsPart == ASSUME NEW S, NEW s \in Seq(S), s # << >> PROVE PartOf(Tail(s), s)
<1>1. Len(Tail(s)) + 1 <= Len(s) /\ \A i \in 1..Len(Tail(s)) : Tail(s)[i] = s[i + 1]
  OBVIOUS
<1>2. QED BY <1>1 DEF PartOf

LEMMA SameIsPart == ASSUME NEW S, NEW s \in Seq(S) PROVE PartOf(s, s)
<1>1. Len(s) + 0 <= Len(s) /\ \A i \in 1..Len(s) : s[i] = s[i + 0]
  OBVIOUS
<1>2. QED BY <1>1 DEF PartOf

LEMMA EmptyIsPart == ASSUME NEW S, NEW s \in Seq(S) PROVE PartOf(<< >>, s)
<1>1. Len(<< >>) + 0 <= Len(s) /\ \A i \in 1..Len(<< >>) : << >>[i] = s[i + 0]
  OBVIOUS
<1>2. QED BY <1>1 DEF PartOf

LEMMA PrefixIsPart ==
    ASSUME NEW S, NEW s \in Seq(S), NEW n \in 0..Len(s) PROVE PartOf(SubSeq(s, 1, n), s)
<1>1. Len(SubSeq(s, 1, n)) + 0 <= Len(s)
  OBVIOUS
<1>2. \A i \in 1..Len(SubSeq(s, 1, n)) : SubSeq(s, 1, n)[i] = s[i + 0]
  OBVIOUS
<1>3. QED BY <1>1, <1>2 DEF PartOf

\* A stream with a packet more.
LEMMA AppendFacts ==
    ASSUME NEW S, NEW s \in Seq(S), NEW e
    PROVE  /\ Len(Append(s, e)) = Len(s) + 1 /\ Append(s, e)[Len(s) + 1] = e
           /\ \A i \in 1..Len(s) : Append(s, e)[i] = s[i]
           /\ \A i \in 1..Len(Append(s, e)) : i \in 1..Len(s) \/ i = Len(s) + 1
  OBVIOUS

\* A write puts one packet more into the stream, the one it was given or
\* garbage, or leaves the stream alone.
LEMMA WriteFacts ==
    ASSUME NEW p, SendPacket(p) \/ WriteFails(p)
    PROVE  /\ UNCHANGED <<link, toClient, session, held, delivered>>
           /\ \/ toBroker' = toBroker
              \/ \E q \in {p, Control("garbage")} : toBroker' = Append(toBroker, q)
  BY DEF SendPacket, WriteFails, Arrives, InStream

-----------------------------------------------------------------------------
\* Steps that leave the streams alone.

\* Between two calls nothing of an exchange is left.
LEMMA BetweenCalls ==
    ASSUME ExchangeInv, isConnected, pc \in {"idle", "returned", "sendPublish", "sendDisconnect"}
    PROVE  /\ \A i \in 1..Len(toBroker) : ~InExchange(toBroker[i])
           /\ \A i \in 1..Len(toClient) : toClient[i].kind \notin AckKinds
           /\ held = {} /\ ~Reading /\ ~NotYetConnected
<1>1. ~Waiting /\ ~Reading /\ want = "none"
  BY DEF Waiting, Reading, ExchangeInv, CallInv
<1>2. held = {} BY <1>1 DEF ExchangeInv, HeldInv
<1>3. ~NotYetConnected BY DEF ExchangeInv, ConnackInv
<1>4. QED BY <1>1, <1>2, <1>3 DEF ExchangeInv, MatchInv

\* Without a session only the CONNACK and the position matter.
LEMMA NoSessionInv ==
    ASSUME ~isConnected', ClientTypeOK', ConnackInv', CallInv' PROVE ExchangeInv'
  BY DEF ExchangeInv, MatchInv, UniqueInv, HeldInv

\* What was read is told again only until it was looked at.
LEMMA ConnackFrame ==
    ASSUME ConnackInv, UNCHANGED <<toBroker, toClient, session, held>>,
           Reading' => Reading /\ rx' = rx,
           NotYetConnected => ~isConnected' /\ want' \in {"none", "CONNACK"}
    PROVE  ConnackInv'
<1>1. NotYetConnected' => NotYetConnected BY DEF NotYetConnected
<1>2. AckRead' => AckRead BY DEF AckRead
<1>3. QED BY <1>1, <1>2 DEF ConnackInv

\* A step within a session that moves nothing and forgets nothing.
LEMMA SessionFrame ==
    ASSUME MatchInv, UniqueInv, HeldInv,
           UNCHANGED <<toBroker, toClient, session, held, delivered>>,
           isConnected' => isConnected /\ want' = want /\ msg' = msg,
           isConnected' /\ Waiting => Waiting' \/ (rx.kind = "PUBREC" /\ AckRead),
           Reading' => Reading /\ rx' = rx
    PROVE  MatchInv' /\ UniqueInv' /\ HeldInv'
<1> SUFFICES ASSUME isConnected' PROVE MatchInv' /\ UniqueInv' /\ HeldInv'
  BY DEF MatchInv, UniqueInv, HeldInv
<1>1. AckRead' => AckRead /\ rx' = rx BY DEF AckRead
<1>2. MatchInv' BY <1>1 DEF MatchInv, UniqueInv
<1>3. UniqueInv' BY <1>1 DEF UniqueInv
<1>4. HeldInv' BY <1>1 DEF HeldInv, Accepted
<1>5. QED BY <1>2, <1>3, <1>4

\* The calls, as far as they start or are refused.
LEMMA CallsExchange ==
    ASSUME ExchangeInv, NEW m \in Message,
           \/ MQTT_client_init \/ MQTT_client_connect
           \/ MQTT_client_publish(m) \/ MQTT_client_disconnect
    PROVE  ExchangeInv'
<1> USE DEF ExchangeInv
<1>0. ClientTypeOK' BY CallsType
<1>1. /\ UNCHANGED <<toBroker, toClient, session, held, delivered>>
      /\ ~Reading' /\ pc \in {"new", "idle"}
      /\ isConnected' => isConnected
      /\ want' \in {want, "none", "CONNACK"}
  BY DEF MQTT_client_init, MQTT_client_connect, ConnectRejected, ConnectStarts,
         MQTT_client_publish, PublishRejected, PublishStarts, MQTT_client_disconnect,
         Return, closeSession, wanVars, selfVars, Reading
<1>2. ConnackInv'
  <2>1. NotYetConnected => ~isConnected' /\ want' \in {"none", "CONNACK"}
    BY <1>1 DEF ConnackInv
  <2>2. QED BY <1>1, <2>1, ConnackFrame
<1>3. CallInv'
  <2>1. CASE MQTT_client_init BY <2>1 DEF MQTT_client_init, CallInv, Waiting
  <2>2. CASE ConnectRejected BY <2>2 DEF ConnectRejected, Return, selfVars, CallInv, Waiting
  <2>3. CASE ConnectStarts BY <2>3 DEF ConnectStarts, CallInv, Waiting
  <2>4. CASE PublishRejected(m)
    BY <2>4 DEF PublishRejected, Return, closeSession, CallInv, Waiting
  <2>5. CASE PublishStarts(m)
    <3>1. getNextPacketId # 0
      BY PacketIdAssumption, TypeParts DEF getNextPacketId, CallTypeOK, PacketIds
    <3>2. msg'.qos \in {1, 2} => msg'.id # 0
      BY <2>5, <3>1 DEF PublishStarts, Message
    <3>3. QED BY <2>5, <3>2 DEF PublishStarts, CallInv, Waiting
  <2>6. CASE MQTT_client_disconnect
    BY <2>6 DEF MQTT_client_disconnect, selfVars, CallInv, Waiting
  <2>7. QED
    BY <2>1, <2>2, <2>3, <2>4, <2>5, <2>6 DEF MQTT_client_connect, MQTT_client_publish
<1>4. CASE ~isConnected' BY <1>0, <1>2, <1>3, <1>4, NoSessionInv
<1>5. CASE isConnected'
  <2>1. isConnected /\ pc = "idle" BY <1>1, <1>5 DEF CallInv
  <2>2. /\ \A i \in 1..Len(toBroker) : ~InExchange(toBroker[i])
        /\ \A i \in 1..Len(toClient) : toClient[i].kind \notin AckKinds
        /\ held = {}
    BY <2>1, BetweenCalls
  <2>3. ~AckRead' BY <1>1 DEF AckRead
  <2>4. MatchInv' BY <1>1, <2>2, <2>3 DEF MatchInv
  <2>5. UniqueInv' BY <1>1, <2>2, <2>3 DEF UniqueInv
  <2>6. HeldInv' BY <1>1, <2>2, <2>3 DEF HeldInv, InExchange, AckKinds
  <2>7. QED BY <1>0, <1>2, <1>3, <2>4, <2>5, <2>6
<1>6. QED BY <1>4, <1>5

\* A call that fails ends the session, unless it was a connect without one.
LEMMA FailCallExchange ==
    ASSUME ExchangeInv, ClientTypeOK', want # "none" \/ pc = "sendPublish", FailCall,
           UNCHANGED <<toBroker, toClient, session, held>>
    PROVE  ExchangeInv'
<1> USE DEF ExchangeInv
<1>1. pc' = "returned" /\ want' = "none" BY DEF FailCall, Return
<1>2. ~isConnected'
  <2>1. CASE want = "CONNACK" BY <2>1 DEF FailCall, CallInv
  <2>2. CASE want # "CONNACK" BY <2>2 DEF FailCall, closeSession
  <2>3. QED BY <2>1, <2>2
<1>3. ~Reading' BY <1>1 DEF Reading
<1>4. ConnackInv' BY <1>1, <1>2, <1>3, ConnackFrame
<1>5. CallInv' BY <1>1, <1>2 DEF CallInv, Waiting
<1>6. QED BY <1>2, <1>4, <1>5, NoSessionInv

\* The steps inside a wait that only look at what was read.
LEMMA WaitExchange ==
    ASSUME ExchangeInv,
           \/ ReadEnds \/ ReadFails \/ ReadFailsHalfway
           \/ KeepAliveQuiet \/ IgnorePacket \/ GotPubrec
    PROVE  ExchangeInv'
<1> USE DEF ExchangeInv
<1>0. ClientTypeOK' BY ClientStepType DEF ClientStep, Proceed
<1>1. /\ UNCHANGED <<toBroker, toClient, session, held, delivered, isConnected, want, msg>>
      /\ Waiting /\ pc' \in {"read", "keepAlive", "match", "sendPubrel"}
      /\ pc' = "sendPubrel" => want = "PUBREC" /\ rx.kind = want /\ pc = "match" /\ rx' = rx
  BY DEF ReadEnds, ReadFails, NothingRead, ReadFailsHalfway, KeepAliveQuiet, IgnorePacket,
         GotPubrec, wanVars, selfVars, Waiting
<1>2. \/ Reading' => Reading /\ rx' = rx
      \/ rx' = NoPacket /\ pc' = "keepAlive"
  BY DEF ReadEnds, ReadFails, NothingRead, ReadFailsHalfway, KeepAliveQuiet, IgnorePacket,
         GotPubrec, Reading
<1>3. NoPacket.kind \notin AckKinds \union {"CONNACK"}
  BY DEF NoPacket, Answer, AckKinds
<1>4. ConnackInv'
  <2>1. NotYetConnected' => NotYetConnected
    BY <1>1, <1>2, <1>3 DEF NotYetConnected
  <2>2. AckRead' => AckRead BY <1>1, <1>2, <1>3 DEF AckRead
  <2>3. Reading' /\ rx'.kind = "CONNACK" => Reading /\ rx.kind = "CONNACK"
    BY <1>2, <1>3
  <2>4. session = "none" => (Reading' => rx' = NoPacket)
    BY <1>2 DEF ConnackInv
  <2>5. QED BY <1>1, <2>1, <2>2, <2>3, <2>4 DEF ConnackInv
<1>5. CallInv'
  <2>1. want # "none" BY <1>1 DEF CallInv
  <2>2. pc' = "sendPubrel" => isConnected BY <1>1 DEF CallInv
  <2>3. QED BY <1>1, <2>1, <2>2 DEF CallInv
<1>6. CASE ~isConnected' BY <1>0, <1>4, <1>5, <1>6, NoSessionInv
<1>7. CASE isConnected'
  <2>1. AckRead' => AckRead /\ rx' = rx BY <1>1, <1>2, <1>3 DEF AckRead
  <2>2. Waiting' \/ (rx.kind = "PUBREC" /\ AckRead)
    BY <1>1 DEF Waiting, AckRead, Reading, AckKinds
  <2>3. MatchInv' BY <1>1, <2>1, <2>2 DEF MatchInv, UniqueInv
  <2>4. UniqueInv' BY <1>1, <2>1 DEF UniqueInv
  <2>5. HeldInv' BY <1>1, <2>1 DEF HeldInv, Accepted
  <2>6. QED BY <1>0, <1>4, <1>5, <2>3, <2>4, <2>5
<1>8. QED BY <1>6, <1>7

\* The CONNACK opens a session in which nothing was sent yet.
LEMMA GotConnackExchange == ASSUME ExchangeInv, GotConnack PROVE ExchangeInv'
<1> USE DEF ExchangeInv
<1>0. ClientTypeOK' BY ClientStepType DEF ClientStep, Proceed
<1>1. /\ UNCHANGED <<toBroker, toClient, session, held, delivered, rx, msg>>
      /\ pc = "match" /\ rx.kind = "CONNACK"
      /\ pc' = "returned" /\ want' = "none" /\ isConnected'
  BY DEF GotConnack, Return, wanVars
<1>2. Reading /\ NotYetConnected BY <1>1 DEF Reading, NotYetConnected
<1>3. /\ \A i \in 1..Len(toBroker) : toBroker[i].kind \notin {"PUBLISH", "PUBREL"}
      /\ \A i \in 1..Len(toClient) : toClient[i].kind \notin AckKinds \union {"CONNACK"}
      /\ held = {}
  BY <1>1, <1>2 DEF ConnackInv
<1>4. session # "none"
  <2>1. NoPacket.kind # "CONNACK" BY DEF NoPacket, Answer
  <2>2. QED BY <1>1, <1>2, <2>1 DEF ConnackInv
<1>5. ~Reading' /\ ~AckRead' BY <1>1 DEF Reading, AckRead
<1>6. ~NotYetConnected' BY <1>1, <1>3, <1>4, <1>5 DEF NotYetConnected
<1>7. ConnackInv' BY <1>1, <1>3, <1>4, <1>5, <1>6 DEF ConnackInv
<1>8. CallInv' BY <1>1 DEF CallInv, Waiting
<1>9. MatchInv' BY <1>1, <1>3, <1>5 DEF MatchInv, InExchange
<1>10. UniqueInv' BY <1>1, <1>3, <1>5 DEF UniqueInv, InExchange
<1>11. HeldInv' BY <1>1, <1>3, <1>5 DEF HeldInv, AckKinds
<1>12. QED BY <1>0, <1>7, <1>8, <1>9, <1>10, <1>11

\* The acknowledgement ends the exchange: it was the only packet of it.
LEMMA GotAckExchange == ASSUME ExchangeInv, GotAck PROVE ExchangeInv'
<1> USE DEF ExchangeInv
<1>0. ClientTypeOK' BY ClientStepType DEF ClientStep, Proceed
<1>1. /\ UNCHANGED <<toBroker, toClient, session, held, delivered, isConnected, rx, msg>>
      /\ pc = "match" /\ rx.kind = want /\ want \in {"PUBACK", "PUBCOMP"}
      /\ pc' = "returned" /\ want' = "none"
  BY DEF GotAck, Return, wanVars, selfVars
<1>2. isConnected /\ AckRead BY <1>1 DEF CallInv, AckRead, Reading, AckKinds
<1>3. /\ \A i \in 1..Len(toBroker) : ~InExchange(toBroker[i])
      /\ \A i \in 1..Len(toClient) : toClient[i].kind \notin AckKinds
  BY <1>2 DEF UniqueInv
<1>4. Accepted /\ held = {} BY <1>1, <1>2 DEF HeldInv
<1>5. ~Reading' /\ ~AckRead' BY <1>1 DEF Reading, AckRead
<1>6. ConnackInv'
  <2>1. ~NotYetConnected BY <1>2 DEF ConnackInv
  <2>2. QED BY <1>1, <1>5, <2>1, ConnackFrame
<1>7. CallInv' BY <1>1 DEF CallInv, Waiting
<1>8. MatchInv' BY <1>1, <1>3, <1>5 DEF MatchInv
<1>9. UniqueInv' BY <1>1, <1>3, <1>5 DEF UniqueInv
<1>10. HeldInv' BY <1>1, <1>3, <1>4, <1>5 DEF HeldInv, InExchange, AckKinds
<1>11. QED BY <1>0, <1>6, <1>7, <1>8, <1>9, <1>10

-----------------------------------------------------------------------------
\* The client's writes.

\* After a write the stream holds what it held, and at its end what was
\* written or garbage.
LEMMA WrittenPackets ==
    ASSUME WanTypeOK, NEW p, SendPacket(p) \/ WriteFails(p)
    PROVE  \A i \in 1..Len(toBroker') :
              \/ i \in 1..Len(toBroker) /\ toBroker'[i] = toBroker[i]
              \/ i = Len(toBroker) + 1 /\ toBroker'[i] \in {p, Control("garbage")}
<1>1. toBroker \in Seq(ClientPacket) BY DEF WanTypeOK
<1>2. CASE toBroker' = toBroker BY <1>2
<1>3. CASE \E q \in {p, Control("garbage")} : toBroker' = Append(toBroker, q)
  BY <1>1, <1>3, AppendFacts
<1>4. QED BY <1>2, <1>3, WriteFacts

LEMMA GarbageIsQuiet ==
    /\ ~InExchange(Control("garbage"))
    /\ Control("garbage").kind = "garbage" /\ Control("PINGREQ").kind = "PINGREQ"
    /\ Control("CONNECT").kind = "CONNECT" /\ Control("DISCONNECT").kind = "DISCONNECT"
  BY DEF InExchange, Control

LEMMA WriteConnack ==
    ASSUME ExchangeInv, NEW p, SendPacket(p) \/ WriteFails(p),
           Reading' => Reading /\ rx' = rx,
           NotYetConnected =>
              ~isConnected' /\ want' \in {"none", "CONNACK"} /\ p.kind \notin {"PUBLISH", "PUBREL"}
    PROVE  ConnackInv'
<1> USE DEF ExchangeInv
<1>1. UNCHANGED <<toClient, session, held>> BY WriteFacts
<1>2. WanTypeOK BY TypeParts
<1>3. NotYetConnected' => NotYetConnected BY <1>1 DEF NotYetConnected
<1>4. AckRead' => AckRead BY DEF AckRead
<1>5. NotYetConnected => \A i \in 1..Len(toBroker') : toBroker'[i].kind \notin {"PUBLISH", "PUBREL"}
  BY <1>2, WrittenPackets, GarbageIsQuiet DEF ConnackInv
<1>6. QED BY <1>1, <1>3, <1>4, <1>5 DEF ConnackInv

\* A packet that is no part of an exchange does not disturb the running one.
LEMMA QuietWrite ==
    ASSUME ExchangeInv, NEW p, SendPacket(p) \/ WriteFails(p), isConnected,
           ~InExchange(p), p.kind = "PUBLISH" => p.qos = 0, p.kind # "PUBREL",
           UNCHANGED <<want, msg>>, Waiting => Waiting', Reading' => Reading /\ rx' = rx
    PROVE  MatchInv' /\ UniqueInv' /\ HeldInv'
<1> USE DEF ExchangeInv
<1>1. UNCHANGED <<toClient, held, delivered>> BY WriteFacts
<1>2. AckRead' => AckRead /\ rx' = rx BY DEF AckRead
<1>3. \A i \in 1..Len(toBroker') :
         \/ i \in 1..Len(toBroker) /\ toBroker'[i] = toBroker[i]
         \/ /\ ~InExchange(toBroker'[i]) /\ toBroker'[i].kind # "PUBREL"
            /\ toBroker'[i].kind = "PUBLISH" => toBroker'[i].qos = 0
  BY WrittenPackets, GarbageIsQuiet, TypeParts
<1>4. MatchInv' BY <1>1, <1>2, <1>3 DEF MatchInv
<1>5. UniqueInv' BY <1>1, <1>2, <1>3 DEF UniqueInv
<1>6. HeldInv' BY <1>1, <1>2, <1>3 DEF HeldInv, Accepted
<1>7. QED BY <1>4, <1>5, <1>6

\* A packet that needs an answer is sent when nothing of the exchange is left.
LEMMA ExchangeWrite ==
    ASSUME ExchangeInv, NEW p, SendPacket(p),
           \A i \in 1..Len(toBroker) : ~InExchange(toBroker[i]),
           \A i \in 1..Len(toClient) : toClient[i].kind \notin AckKinds,
           UNCHANGED msg, pc' = "read", want' = AckOf(p), p.id = msg.id,
           p.kind = "PUBLISH" => p.body = msg.body /\ held = {},
           p.kind = "PUBREL" => held # {},
           \A h \in held : h.id = msg.id /\ h.body = msg.body /\ want' \in {"PUBREC", "PUBCOMP"}
    PROVE  MatchInv' /\ UniqueInv' /\ HeldInv'
<1> USE DEF ExchangeInv
<1>1. UNCHANGED <<toClient, held, delivered>> BY WriteFacts
<1>2. Waiting' /\ ~AckRead' BY DEF Waiting, AckRead, Reading
<1>3. \A i \in 1..Len(toBroker') :
         InExchange(toBroker'[i]) => i = Len(toBroker) + 1 /\ toBroker'[i] = p
  BY WrittenPackets, GarbageIsQuiet, TypeParts
<1>4. MatchInv' BY <1>1, <1>2, <1>3 DEF MatchInv
<1>5. UniqueInv' BY <1>1, <1>2, <1>3 DEF UniqueInv
<1>6. HeldInv' BY <1>1, <1>2, <1>3 DEF HeldInv, InExchange, AckKinds
<1>7. QED BY <1>4, <1>5, <1>6

\* A failing write ends the call.
LEMMA WriteFailsExchange ==
    ASSUME ExchangeInv, ClientTypeOK', NEW p, WriteFails(p), FailCall,
           want # "none" \/ pc = "sendPublish",
           NotYetConnected => p.kind \notin {"PUBLISH", "PUBREL"}
    PROVE  ExchangeInv'
<1> USE DEF ExchangeInv
<1>1. pc' = "returned" /\ want' = "none" BY DEF FailCall, Return
<1>2. ~isConnected'
  <2>1. CASE want = "CONNACK" BY <2>1 DEF FailCall, CallInv
  <2>2. CASE want # "CONNACK" BY <2>2 DEF FailCall, closeSession
  <2>3. QED BY <2>1, <2>2
<1>3. ~Reading' BY <1>1 DEF Reading
<1>4. ConnackInv' BY <1>1, <1>2, <1>3, WriteConnack
<1>5. CallInv' BY <1>1, <1>2 DEF CallInv, Waiting
<1>6. QED BY <1>2, <1>4, <1>5, NoSessionInv

LEMMA SendConnectExchange == ASSUME ExchangeInv, SendConnect PROVE ExchangeInv'
<1> USE DEF ExchangeInv
<1>0. ClientTypeOK' BY ClientStepType DEF ClientStep, Proceed
<1>1. pc = "sendConnect" /\ want = "CONNACK" /\ ~isConnected
  BY DEF SendConnect, CallInv
<1>2. CASE WriteFails(Control("CONNECT")) /\ FailCall
  BY <1>0, <1>1, <1>2, WriteFailsExchange, GarbageIsQuiet
<1>3. CASE SendPacket(Control("CONNECT")) /\ WaitFor("CONNACK") /\ UNCHANGED isConnected
  <2>1. pc' = "read" /\ want' = "CONNACK" BY <1>3 DEF WaitFor
  <2>2. ~Reading' BY <2>1 DEF Reading
  <2>3. ConnackInv' BY <1>1, <1>3, <2>1, <2>2, WriteConnack, GarbageIsQuiet
  <2>4. CallInv' BY <1>1, <1>3, <2>1 DEF CallInv
  <2>5. QED BY <1>0, <1>1, <1>3, <2>3, <2>4, NoSessionInv
<1>4. QED BY <1>2, <1>3 DEF SendConnect

LEMMA SendDisconnectExchange == ASSUME ExchangeInv, SendDisconnect PROVE ExchangeInv'
<1> USE DEF ExchangeInv
<1>0. ClientTypeOK' BY ClientStepType DEF ClientStep, Proceed
<1>1. /\ pc' = "returned" /\ want' = "none" /\ ~isConnected'
      /\ SendPacket(Control("DISCONNECT")) \/ WriteFails(Control("DISCONNECT"))
  BY DEF SendDisconnect, Return, closeSession
<1>2. ~Reading' BY <1>1 DEF Reading
<1>3. ConnackInv' BY <1>1, <1>2, WriteConnack, GarbageIsQuiet
<1>4. CallInv' BY <1>1 DEF CallInv, Waiting
<1>5. QED BY <1>0, <1>1, <1>3, <1>4, NoSessionInv

LEMMA SendPublishExchange == ASSUME ExchangeInv, SendPublish PROVE ExchangeInv'
<1> USE DEF ExchangeInv
<1> DEFINE p == PublishOf(msg)
<1>0. ClientTypeOK' BY ClientStepType DEF ClientStep, Proceed
<1>1. pc = "sendPublish" /\ isConnected /\ want = "none" /\ UNCHANGED <<rx, msg>>
  BY DEF SendPublish, CallInv
<1>2. /\ \A i \in 1..Len(toBroker) : ~InExchange(toBroker[i])
      /\ \A i \in 1..Len(toClient) : toClient[i].kind \notin AckKinds
      /\ held = {} /\ ~NotYetConnected
  BY <1>1, BetweenCalls
<1>3. p.kind = "PUBLISH" /\ p.qos = msg.qos /\ p.id = msg.id /\ p.body = msg.body
  BY DEF PublishOf
<1>4. CASE WriteFails(p) /\ FailCall
  BY <1>0, <1>1, <1>2, <1>4, WriteFailsExchange
<1>5. CASE SendPacket(p) /\ msg.qos = 0 /\ Return("success") /\ UNCHANGED isConnected
  <2>1. pc' = "returned" /\ want' = "none" BY <1>5 DEF Return
  <2>2. ~Reading' /\ ~Waiting BY <1>1, <2>1 DEF Reading, Waiting
  <2>3. ConnackInv' BY <1>2, <1>5, <2>2, WriteConnack
  <2>4. CallInv' BY <1>1, <1>5, <2>1 DEF CallInv, Waiting
  <2>5. ~InExchange(p) BY <1>3, <1>5 DEF InExchange
  <2>6. MatchInv' /\ UniqueInv' /\ HeldInv'
    BY <1>1, <1>3, <1>5, <2>1, <2>2, <2>5, QuietWrite
  <2>7. QED BY <1>0, <2>3, <2>4, <2>6
<1>6. CASE /\ SendPacket(p) /\ msg.qos \in {1, 2} /\ UNCHANGED isConnected
           /\ WaitFor(IF msg.qos = 1 THEN "PUBACK" ELSE "PUBREC")
  <2>1. pc' = "read" /\ want' = AckOf(p)
    BY <1>3, <1>6 DEF WaitFor, AckOf
  <2>2. ~Reading' BY <2>1 DEF Reading
  <2>3. ConnackInv' BY <1>2, <1>6, <2>2, WriteConnack
  <2>4. want' # "none" /\ want' # "CONNACK" BY <1>3, <2>1 DEF AckOf
  <2>5. CallInv' BY <1>1, <1>6, <2>1, <2>4 DEF CallInv
  <2>6. MatchInv' /\ UniqueInv' /\ HeldInv'
    BY <1>1, <1>2, <1>3, <1>6, <2>1, ExchangeWrite
  <2>7. QED BY <1>0, <2>3, <2>5, <2>6
<1>7. CASE SendPacket(p) /\ msg.qos = 3 /\ FailCall
  <2>1. pc' = "returned" /\ want' = "none" /\ ~isConnected'
    BY <1>1, <1>7 DEF FailCall, Return, closeSession
  <2>2. ~Reading' BY <2>1 DEF Reading
  <2>3. ConnackInv' BY <1>2, <1>7, <2>2, WriteConnack
  <2>4. CallInv' BY <2>1 DEF CallInv, Waiting
  <2>5. QED BY <1>0, <2>1, <2>3, <2>4, NoSessionInv
<1>8. QED BY <1>4, <1>5, <1>6, <1>7 DEF SendPublish

LEMMA SendPubrelExchange == ASSUME ExchangeInv, SendPubrel PROVE ExchangeInv'
<1> USE DEF ExchangeInv
<1> DEFINE p == PubrelOf(rx.id)
<1>0. ClientTypeOK' BY ClientStepType DEF ClientStep, Proceed
<1>1. /\ pc = "sendPubrel" /\ isConnected /\ want = "PUBREC" /\ rx.kind = "PUBREC"
      /\ UNCHANGED <<rx, msg>>
  BY DEF SendPubrel, CallInv
<1>2. AckRead BY <1>1 DEF AckRead, Reading, AckKinds
<1>3. /\ \A i \in 1..Len(toBroker) : ~InExchange(toBroker[i])
      /\ \A i \in 1..Len(toClient) : toClient[i].kind \notin AckKinds
      /\ rx.id = msg.id /\ held # {} /\ ~NotYetConnected
      /\ \A h \in held : h.id = msg.id /\ h.body = msg.body
  BY <1>1, <1>2 DEF MatchInv, UniqueInv, HeldInv, ConnackInv
<1>4. p.kind = "PUBREL" /\ p.id = msg.id BY <1>3 DEF PubrelOf
<1>5. CASE WriteFails(p) /\ FailCall
  BY <1>0, <1>1, <1>3, <1>5, WriteFailsExchange
<1>6. CASE SendPacket(p) /\ WaitFor("PUBCOMP") /\ UNCHANGED isConnected
  <2>1. pc' = "read" /\ want' = "PUBCOMP" /\ want' = AckOf(p)
    BY <1>4, <1>6 DEF WaitFor, AckOf
  <2>2. ~Reading' BY <2>1 DEF Reading
  <2>3. ConnackInv' BY <1>3, <1>6, <2>2, WriteConnack
  <2>4. CallInv' BY <1>1, <1>6, <2>1 DEF CallInv
  <2>5. MatchInv' /\ UniqueInv' /\ HeldInv'
    BY <1>1, <1>3, <1>4, <1>6, <2>1, ExchangeWrite
  <2>6. QED BY <1>0, <2>3, <2>4, <2>5
<1>7. QED BY <1>5, <1>6 DEF SendPubrel

LEMMA SendPingReqExchange == ASSUME ExchangeInv, SendPingReq PROVE ExchangeInv'
<1> USE DEF ExchangeInv
<1> DEFINE p == Control("PINGREQ")
<1>0. ClientTypeOK' BY ClientStepType DEF ClientStep, Proceed
<1>1. pc = "keepAlive" /\ want # "none" /\ UNCHANGED <<rx, msg>>
  BY DEF SendPingReq, CallInv, Waiting
<1>2. p.kind = "PINGREQ" /\ ~InExchange(p) BY DEF Control, InExchange
<1>3. CASE WriteFails(p) /\ FailCall
  BY <1>0, <1>1, <1>2, <1>3, WriteFailsExchange
<1>4. CASE /\ SendPacket(p) \/ WriteFails(p)
           /\ pc' = "match" /\ UNCHANGED <<isConnected, want>>
  <2>1. Reading' => Reading /\ rx' = rx BY <1>1 DEF Reading
  <2>2. NotYetConnected => ~isConnected' /\ want' \in {"none", "CONNACK"}
    BY <1>4 DEF ConnackInv
  <2>3. ConnackInv' BY <1>2, <1>4, <2>1, <2>2, WriteConnack
  <2>4. CallInv' BY <1>1, <1>4 DEF CallInv, Waiting
  <2>5. Waiting' BY <1>4 DEF Waiting
  <2>6. CASE isConnected BY <1>0, <1>1, <1>2, <1>4, <2>1, <2>3, <2>4, <2>5, <2>6, QuietWrite
  <2>7. CASE ~isConnected BY <1>0, <1>4, <2>3, <2>4, <2>7, NoSessionInv
  <2>8. QED BY <2>6, <2>7
<1>5. QED BY <1>3, <1>4 DEF SendPingReq

-----------------------------------------------------------------------------
\* Reading, and what the connection and the broker do to the streams.

LEMMA ReadPacketExchange == ASSUME ExchangeInv, ReadPacket PROVE ExchangeInv'
<1> USE DEF ExchangeInv
<1>0. ClientTypeOK' BY ClientStepType DEF ClientStep, Proceed
<1>1. /\ UNCHANGED <<toBroker, session, held, delivered, isConnected, want, msg>>
      /\ pc = "read" /\ pc' = "keepAlive"
      /\ toClient # << >> /\ rx' = Head(toClient) /\ toClient' = Tail(toClient)
  BY DEF ReadPacket
<1>2. toClient \in Seq(BrokerPacket) BY TypeParts DEF WanTypeOK
<1>3. /\ 1 \in 1..Len(toClient) /\ rx' = toClient[1]
      /\ \A i \in 1..Len(toClient') :
            i + 1 \in 1..Len(toClient) /\ toClient'[i] = toClient[i + 1] /\ i + 1 # 1
      /\ \A i, j \in 1..Len(toClient') : i + 1 = j + 1 => i = j
  BY <1>1, <1>2
<1>4. ~Reading /\ Reading' /\ Waiting /\ Waiting' BY <1>1 DEF Reading, Waiting
<1>5. ConnackInv'
  <2>1. NotYetConnected' => NotYetConnected BY <1>1, <1>3, <1>4 DEF NotYetConnected
  <2>2. session # "none" BY <1>1 DEF ConnackInv
  <2>3. \A i, j \in 1..Len(toClient') :
           toClient'[i].kind = "CONNACK" /\ toClient'[j].kind = "CONNACK" => i = j
    BY <1>3 DEF ConnackInv
  <2>4. rx'.kind = "CONNACK" => \A i \in 1..Len(toClient') : toClient'[i].kind # "CONNACK"
    BY <1>3 DEF ConnackInv
  <2>5. NotYetConnected => /\ \A i \in 1..Len(toClient') : toClient'[i].kind \notin AckKinds
                           /\ ~AckRead'
    BY <1>3 DEF ConnackInv, AckRead
  <2>6. QED BY <1>1, <1>4, <2>1, <2>2, <2>3, <2>4, <2>5 DEF ConnackInv
<1>6. CallInv' BY <1>1, <1>4 DEF CallInv
<1>7. CASE ~isConnected' BY <1>0, <1>5, <1>6, <1>7, NoSessionInv
<1>8. CASE isConnected'
  <2>1. MatchInv' BY <1>1, <1>3, <1>4, <1>8 DEF MatchInv, AckRead
  <2>2. UniqueInv'
    <3>1. \A i, j \in 1..Len(toClient') :
             toClient'[i].kind \in AckKinds /\ toClient'[j].kind \in AckKinds => i = j
      BY <1>1, <1>3, <1>8 DEF UniqueInv
    <3>2. AckRead' => /\ \A i \in 1..Len(toBroker) : ~InExchange(toBroker[i])
                      /\ \A i \in 1..Len(toClient') : toClient'[i].kind \notin AckKinds
      BY <1>1, <1>3, <1>8 DEF UniqueInv, AckRead
    <3>3. QED BY <1>1, <1>3, <1>8, <3>1, <3>2 DEF UniqueInv
  <2>3. HeldInv'
    <3>1. Accepted' = Accepted BY <1>1 DEF Accepted
    <3>2. AckRead' => IF rx'.kind = "PUBREC" THEN held # {} ELSE Accepted /\ held = {}
      BY <1>1, <1>3, <1>8 DEF HeldInv, AckRead, AckKinds
    <3>3. QED BY <1>1, <1>3, <1>8, <3>1, <3>2 DEF HeldInv
  <2>4. QED BY <1>0, <1>5, <1>6, <2>1, <2>2, <2>3
<1>9. QED BY <1>7, <1>8

\* A read that starts in the middle of a packet uses up the front of the stream.
\* What it takes for an acknowledgement is the rest of the one that was awaited.
LEMMA ReadRestExchange == ASSUME ExchangeInv, ReadRest, ~strayed' PROVE ExchangeInv'
<1> USE DEF ExchangeInv
<1>0. ClientTypeOK' BY ClientStepType DEF ClientStep
<1>1. /\ UNCHANGED <<toBroker, session, held, delivered, isConnected, want, msg>>
      /\ pc = "read" /\ pc' = "keepAlive" /\ toClient # << >>
  BY DEF ReadRest
<1>2. PICK n \in 0..Len(toClient) :
        toClient' = SubSeq(toClient, n + 1, Len(toClient)) /\ rx' \in Misread(n)
  BY DEF ReadRest
<1>3. toClient \in Seq(BrokerPacket) /\ Len(toClient) \in Nat BY TypeParts DEF WanTypeOK
<1>4. \A i \in 1..Len(toClient') :
         i + n \in 1..Len(toClient) /\ toClient'[i] = toClient[i + n] /\ i \in Int
  BY <1>2, <1>3
<1>5. ~Reading /\ Reading' /\ Waiting /\ Waiting' BY <1>1 DEF Reading, Waiting
<1>6. ~(rx'.kind = want /\ want \in {"CONNACK", "PUBREC"}) BY DEF ReadRest
<1>7. \/ rx'.kind \notin AckKinds \union {"CONNACK"}
      \/ /\ n > 0 /\ Head(toClient).kind \in AckKinds
         /\ rx'.kind = want /\ want \in {"PUBACK", "PUBCOMP"}
  <2>1. NoPacket.kind \notin AckKinds \union {"CONNACK"}
        /\ UnknownPacket.kind \notin AckKinds \union {"CONNACK"}
    BY DEF NoPacket, UnknownPacket, Answer, AckKinds
  <2>2. CASE rx' \in {NoPacket, UnknownPacket} BY <2>1, <2>2
  <2>3. CASE rx' \notin {NoPacket, UnknownPacket}
    <3>1. n > 0 /\ Head(toClient).kind \in AckKinds /\ rx'.kind \in {want, "PINGRESP"}
      BY <1>2, <2>3 DEF Misread
    <3>2. QED BY <1>6, <3>1, TypeParts DEF AckKinds, CallTypeOK
  <2>4. QED BY <2>2, <2>3
<1>8. 1 \in 1..Len(toClient) /\ Head(toClient) = toClient[1] BY <1>1, <1>3
<1>9. AckRead' =>
        /\ n > 0 /\ toClient[1].kind \in AckKinds
        /\ rx'.kind = want /\ want \in {"PUBACK", "PUBCOMP"}
  BY <1>7, <1>8 DEF AckRead
<1>10. ConnackInv'
  <2>1. rx'.kind # "CONNACK" BY <1>7
  <2>2. NotYetConnected' => NotYetConnected BY <1>1, <1>4, <2>1 DEF NotYetConnected
  <2>3. session # "none" BY <1>1 DEF ConnackInv
  <2>4. \A i, j \in 1..Len(toClient') :
           toClient'[i].kind = "CONNACK" /\ toClient'[j].kind = "CONNACK" => i = j
    <3>1. SUFFICES ASSUME NEW i \in 1..Len(toClient'), NEW j \in 1..Len(toClient'),
                          toClient'[i].kind = "CONNACK", toClient'[j].kind = "CONNACK"
                   PROVE  i = j
      OBVIOUS
    <3>2. i + n = j + n BY <1>4, <3>1 DEF ConnackInv
    <3>3. i \in Int /\ j \in Int BY <1>4
    <3>4. QED BY <3>2, <3>3
  <2>5. NotYetConnected => /\ \A i \in 1..Len(toClient') : toClient'[i].kind \notin AckKinds
                           /\ ~AckRead'
    BY <1>4, <1>8, <1>9 DEF ConnackInv
  <2>6. QED BY <1>1, <2>1, <2>2, <2>3, <2>4, <2>5 DEF ConnackInv
<1>11. CallInv' BY <1>1, <1>5 DEF CallInv
<1>12. CASE ~isConnected' BY <1>0, <1>10, <1>11, <1>12, NoSessionInv
<1>13. CASE isConnected'
  <2>1. MatchInv' BY <1>1, <1>4, <1>5, <1>9, <1>13 DEF MatchInv
  <2>2. AckRead' =>
           /\ \A i \in 1..Len(toBroker) : ~InExchange(toBroker[i])
           /\ \A i \in 1..Len(toClient') : toClient'[i].kind \notin AckKinds
           /\ Accepted /\ held = {}
    <3> SUFFICES ASSUME AckRead'
                 PROVE  /\ \A i \in 1..Len(toBroker) : ~InExchange(toBroker[i])
                        /\ \A i \in 1..Len(toClient') : toClient'[i].kind \notin AckKinds
                        /\ Accepted /\ held = {}
      OBVIOUS
    <3>1. toClient[1].kind \in {"PUBACK", "PUBCOMP"}
      BY <1>1, <1>8, <1>9, <1>13 DEF MatchInv
    <3>2. Accepted /\ held = {} BY <1>1, <1>8, <1>13, <3>1 DEF HeldInv
    <3>3. \A i \in 1..Len(toBroker) : ~InExchange(toBroker[i])
      BY <1>1, <1>8, <1>9, <1>13 DEF UniqueInv
    <3>4. \A i \in 1..Len(toClient') : i + n # 1 BY <1>2, <1>4, <1>9
    <3>5. \A i \in 1..Len(toClient') : toClient'[i].kind \notin AckKinds
      BY <1>1, <1>4, <1>8, <1>9, <1>13, <3>4 DEF UniqueInv
    <3>6. QED BY <3>2, <3>3, <3>5
  <2>3. UniqueInv'
    <3>1. \A i, j \in 1..Len(toClient') :
             toClient'[i].kind \in AckKinds /\ toClient'[j].kind \in AckKinds => i = j
      <4>1. SUFFICES ASSUME NEW i \in 1..Len(toClient'), NEW j \in 1..Len(toClient'),
                            toClient'[i].kind \in AckKinds, toClient'[j].kind \in AckKinds
                     PROVE  i = j
        OBVIOUS
      <4>2. i + n = j + n BY <1>1, <1>4, <1>13, <4>1 DEF UniqueInv
      <4>3. i \in Int /\ j \in Int BY <1>4
      <4>4. QED BY <4>2, <4>3
    <3>2. \A i \in 1..Len(toBroker), j \in 1..Len(toClient') :
             ~(InExchange(toBroker[i]) /\ toClient'[j].kind \in AckKinds)
      BY <1>1, <1>4, <1>13 DEF UniqueInv
    <3>3. QED BY <1>1, <1>13, <2>2, <3>1, <3>2 DEF UniqueInv
  <2>4. HeldInv'
    <3>1. Accepted' = Accepted BY <1>1 DEF Accepted
    <3>2. AckRead' => rx'.kind # "PUBREC" BY <1>9
    <3>3. QED BY <1>1, <1>4, <1>13, <2>2, <3>1, <3>2 DEF HeldInv
  <2>5. QED BY <1>0, <1>10, <1>11, <2>1, <2>3, <2>4
<1>14. QED BY <1>12, <1>13

\* The call is not touched by what happens in the network.
LEMMA NetworkFrame ==
    ASSUME UNCHANGED <<selfVars, callVars>>
    PROVE  /\ UNCHANGED <<isConnected, pc, want, rx, msg>>
           /\ Reading' = Reading /\ Waiting' = Waiting /\ AckRead' = AckRead
           /\ CallInv => CallInv'
  BY DEF selfVars, callVars, Reading, Waiting, AckRead, CallInv

\* Packets get lost or are consumed without an answer.
LEMMA LossExchange ==
    ASSUME ExchangeInv, ClientTypeOK', UNCHANGED <<selfVars, callVars, session, held>>,
           PartOf(toBroker', toBroker), PartOf(toClient', toClient), Accepted => Accepted'
    PROVE  ExchangeInv'
<1> USE DEF ExchangeInv
<1>1. /\ UNCHANGED <<isConnected, pc, want, rx, msg>>
      /\ Reading' = Reading /\ Waiting' = Waiting /\ AckRead' = AckRead /\ CallInv'
  BY NetworkFrame
<1>2. PICK k \in Nat : /\ Len(toBroker') + k <= Len(toBroker)
                       /\ \A i \in 1..Len(toBroker') : toBroker'[i] = toBroker[i + k]
  BY DEF PartOf
<1>3. PICK n \in Nat : /\ Len(toClient') + n <= Len(toClient)
                       /\ \A i \in 1..Len(toClient') : toClient'[i] = toClient[i + n]
  BY DEF PartOf
<1>4. /\ Len(toBroker) \in Nat /\ Len(toBroker') \in Nat
      /\ Len(toClient) \in Nat /\ Len(toClient') \in Nat
      /\ toClient' \in Seq(BrokerPacket)
  BY TypeParts, TypePartsPrime DEF WanTypeOK
<1>5. /\ \A i \in 1..Len(toBroker') : i + k \in 1..Len(toBroker)
      /\ \A i \in 1..Len(toClient') : i + n \in 1..Len(toClient)
  BY <1>2, <1>3, <1>4
<1>6. /\ \A i, j \in 1..Len(toBroker') : i + k = j + k => i = j
      /\ \A i, j \in 1..Len(toClient') : i + n = j + n => i = j
  BY <1>2, <1>3, <1>4
<1>7. ConnackInv'
  <2>1. NotYetConnected' => NotYetConnected BY <1>1, <1>3, <1>5 DEF NotYetConnected
  <2>2. session = "none" => toClient' = << >>
    <3> SUFFICES ASSUME session = "none" PROVE toClient' = << >> OBVIOUS
    <3>1. Len(toClient) = 0 BY DEF ConnackInv
    <3>2. Len(toClient') = 0 BY <1>3, <1>4, <3>1
    <3>3. QED BY <1>4, <3>2
  <2>3. \A i, j \in 1..Len(toClient') :
           toClient'[i].kind = "CONNACK" /\ toClient'[j].kind = "CONNACK" => i = j
    BY <1>3, <1>5, <1>6 DEF ConnackInv
  <2>4. Reading /\ rx.kind = "CONNACK" => \A i \in 1..Len(toClient') : toClient'[i].kind # "CONNACK"
    BY <1>3, <1>5 DEF ConnackInv
  <2>5. NotYetConnected =>
           /\ \A i \in 1..Len(toBroker') : toBroker'[i].kind \notin {"PUBLISH", "PUBREL"}
           /\ \A i \in 1..Len(toClient') : toClient'[i].kind \notin AckKinds
    BY <1>2, <1>3, <1>5 DEF ConnackInv
  <2>6. QED BY <1>1, <2>1, <2>2, <2>3, <2>4, <2>5 DEF ConnackInv
<1>8. MatchInv' BY <1>1, <1>2, <1>3, <1>5, ZenonT(40) DEF MatchInv
<1>9. UniqueInv'
  <2> SUFFICES ASSUME isConnected PROVE UniqueInv' BY <1>1 DEF UniqueInv
  <2>1. \A i, j \in 1..Len(toBroker') : InExchange(toBroker'[i]) /\ InExchange(toBroker'[j]) => i = j
    BY <1>2, <1>5, <1>6 DEF UniqueInv
  <2>2. \A i, j \in 1..Len(toClient') :
           toClient'[i].kind \in AckKinds /\ toClient'[j].kind \in AckKinds => i = j
    BY <1>3, <1>5, <1>6 DEF UniqueInv
  <2>3. \A i \in 1..Len(toBroker'), j \in 1..Len(toClient') :
           ~(InExchange(toBroker'[i]) /\ toClient'[j].kind \in AckKinds)
    BY <1>2, <1>3, <1>5 DEF UniqueInv
  <2>4. AckRead => /\ \A i \in 1..Len(toBroker') : ~InExchange(toBroker'[i])
                   /\ \A i \in 1..Len(toClient') : toClient'[i].kind \notin AckKinds
    BY <1>2, <1>3, <1>5 DEF UniqueInv
  <2>5. QED BY <1>1, <2>1, <2>2, <2>3, <2>4 DEF UniqueInv
<1>10. HeldInv' BY <1>1, <1>2, <1>3, <1>5 DEF HeldInv
<1>11. QED BY <1>1, <1>7, <1>8, <1>9, <1>10

\* What the broker takes from the stream of the client.
LEMMA HeadFacts ==
    ASSUME WanTypeOK, toBroker # << >>
    PROVE  /\ 1 \in 1..Len(toBroker) /\ Head(toBroker) = toBroker[1]
           /\ Head(toBroker) \in ClientPacket
           /\ \A i \in 1..Len(Tail(toBroker)) :
                 /\ i + 1 \in 1..Len(toBroker) /\ i + 1 # 1
                 /\ Tail(toBroker)[i] = toBroker[i + 1]
  BY DEF WanTypeOK

\* What it adds to the stream to the client.
LEMMA AnswerFacts ==
    ASSUME WanTypeOK, NEW kind, NEW id, Answers(kind, id)
    PROVE  /\ Len(toClient) + 1 \in 1..Len(toClient')
           /\ toClient'[Len(toClient) + 1].kind = kind /\ toClient'[Len(toClient) + 1].id = id
           /\ \A i \in 1..Len(toClient') :
                 \/ i \in 1..Len(toClient) /\ toClient'[i] = toClient[i]
                 \/ i = Len(toClient) + 1 /\ toClient'[i].kind = kind /\ toClient'[i].id = id
<1>1. toClient \in Seq(BrokerPacket) BY DEF WanTypeOK
<1>2. toClient' = Append(toClient, Answer(kind, id)) BY DEF Answers
<1>3. Answer(kind, id).kind = kind /\ Answer(kind, id).id = id BY DEF Answer
<1>4. Len(toClient) \in Nat BY <1>1
<1>5. QED BY <1>1, <1>2, <1>3, <1>4, AppendFacts

\* The one CONNECT that is answered.
LEMMA ConnectAnswered ==
    ASSUME ExchangeInv, ClientTypeOK', UNCHANGED <<selfVars, callVars, held>>,
           session = "none", session' # "none", Answers("CONNACK", 0),
           PartOf(toBroker', toBroker)
    PROVE  ExchangeInv'
<1> USE DEF ExchangeInv
<1>1. /\ UNCHANGED <<isConnected, pc, want, rx, msg>>
      /\ Reading' = Reading /\ Waiting' = Waiting /\ AckRead' = AckRead /\ CallInv'
  BY NetworkFrame
<1>2. NotYetConnected BY DEF NotYetConnected
<1>3. /\ ~isConnected /\ want \in {"none", "CONNACK"} /\ held = {} /\ ~AckRead
      /\ \A i \in 1..Len(toBroker) : toBroker[i].kind \notin {"PUBLISH", "PUBREL"}
      /\ toClient = << >> /\ (Reading => rx = NoPacket)
  BY <1>2 DEF ConnackInv
<1>4. \A i \in 1..Len(toBroker') : toBroker'[i].kind \notin {"PUBLISH", "PUBREL"}
  <2>1. PICK k \in Nat : /\ Len(toBroker') + k <= Len(toBroker)
                         /\ \A i \in 1..Len(toBroker') : toBroker'[i] = toBroker[i + k]
    BY DEF PartOf
  <2>2. Len(toBroker) \in Nat /\ Len(toBroker') \in Nat
    BY TypeParts, TypePartsPrime DEF WanTypeOK
  <2>3. \A i \in 1..Len(toBroker') : i + k \in 1..Len(toBroker) BY <2>1, <2>2
  <2>4. QED BY <1>3, <2>1, <2>3
<1>5. \A i \in 1..Len(toClient') : i = 1 /\ toClient'[i].kind = "CONNACK"
  <2>1. Len(toClient) = 0 BY <1>3
  <2>2. QED BY <2>1, AnswerFacts, TypeParts
<1>6. NoPacket.kind # "CONNACK" BY DEF NoPacket, Answer
<1>7. ConnackInv'
  <2>1. \A i \in 1..Len(toClient') : toClient'[i].kind \notin AckKinds BY <1>5 DEF AckKinds
  <2>2. \A i, j \in 1..Len(toClient') : i = j BY <1>5
  <2>3. ~(Reading' /\ rx'.kind = "CONNACK") BY <1>1, <1>3, <1>6
  <2>4. QED BY <1>1, <1>3, <1>4, <2>1, <2>2, <2>3 DEF ConnackInv
<1>8. QED BY <1>1, <1>3, <1>7, NoSessionInv

\* An answer that is no part of an exchange.
LEMMA PingExchange ==
    ASSUME ExchangeInv, BrokerPing, UNCHANGED <<selfVars, callVars>>, ClientTypeOK'
    PROVE  ExchangeInv'
<1> USE DEF ExchangeInv
<1>1. /\ UNCHANGED <<isConnected, pc, want, rx, msg>>
      /\ Reading' = Reading /\ Waiting' = Waiting /\ AckRead' = AckRead /\ CallInv'
  BY NetworkFrame
<1>2. /\ toBroker # << >> /\ toBroker' = Tail(toBroker) /\ Answers("PINGRESP", 0)
      /\ UNCHANGED <<session, held, delivered>> /\ session = "open"
  BY DEF BrokerPing, BrokerReads, Consumes
<1>3. \A i \in 1..Len(toBroker') :
         i + 1 \in 1..Len(toBroker) /\ toBroker'[i] = toBroker[i + 1]
  BY <1>2, HeadFacts, TypeParts
<1>4. \A i, j \in 1..Len(toBroker') : i + 1 = j + 1 => i = j OBVIOUS
<1>5. \A i \in 1..Len(toClient') :
         \/ i \in 1..Len(toClient) /\ toClient'[i] = toClient[i]
         \/ toClient'[i].kind \notin AckKinds \union {"CONNACK"}
  <2>1. \A i \in 1..Len(toClient') :
           \/ i \in 1..Len(toClient) /\ toClient'[i] = toClient[i]
           \/ toClient'[i].kind = "PINGRESP"
    BY <1>2, AnswerFacts, TypeParts
  <2>2. QED BY <2>1 DEF AckKinds
<1>6. ConnackInv'
  <2>1. NotYetConnected' => NotYetConnected BY <1>1, <1>2, <1>5 DEF NotYetConnected
  <2>2. QED BY <1>1, <1>2, <1>3, <1>5, <2>1 DEF ConnackInv
<1>7. MatchInv' BY <1>1, <1>3, <1>5 DEF MatchInv
<1>8. UniqueInv'
  <2> SUFFICES ASSUME isConnected PROVE UniqueInv' BY <1>1 DEF UniqueInv
  <2>1. \A i, j \in 1..Len(toBroker') : InExchange(toBroker'[i]) /\ InExchange(toBroker'[j]) => i = j
    BY <1>3, <1>4 DEF UniqueInv
  <2>2. QED BY <1>1, <1>3, <1>5, <2>1 DEF UniqueInv
<1>9. HeldInv'
  <2>1. Accepted' = Accepted BY <1>1, <1>2 DEF Accepted
  <2>2. \A i \in 1..Len(toClient') :
           toClient'[i].kind \in AckKinds =>
               i \in 1..Len(toClient) /\ toClient'[i] = toClient[i]
    BY <1>5
  <2>3. QED BY <1>1, <1>2, <1>3, <2>1, <2>2 DEF HeldInv, AckKinds
<1>10. QED BY <1>1, <1>6, <1>7, <1>8, <1>9

\* The packet of the exchange is taken, and its acknowledgement takes its place.
LEMMA ExchangeAnswered ==
    ASSUME ExchangeInv, ClientTypeOK', UNCHANGED <<selfVars, callVars, session>>,
           toBroker # << >>, toBroker' = Tail(toBroker), session = "open",
           Head(toBroker).kind \in {"PUBLISH", "PUBREL"}, InExchange(Head(toBroker)),
           Answers(AckOf(Head(toBroker)), Head(toBroker).id),
           isConnected =>
              /\ \A h \in held' : h.id = msg.id /\ h.body = msg.body /\ want \in {"PUBREC", "PUBCOMP"}
              /\ IF AckOf(Head(toBroker)) = "PUBREC" THEN held' # {} ELSE Accepted' /\ held' = {}
    PROVE  ExchangeInv'
<1> USE DEF ExchangeInv
<1>1. /\ UNCHANGED <<isConnected, pc, want, rx, msg>>
      /\ Reading' = Reading /\ Waiting' = Waiting /\ AckRead' = AckRead /\ CallInv'
  BY NetworkFrame
<1> DEFINE p == Head(toBroker)
           n == Len(toClient) + 1
<1>2. 1 \in 1..Len(toBroker) /\ p = toBroker[1] BY HeadFacts, TypeParts
<1>3. \A i \in 1..Len(toBroker') :
         i + 1 \in 1..Len(toBroker) /\ i + 1 # 1 /\ toBroker'[i] = toBroker[i + 1]
  BY HeadFacts, TypeParts
<1>4. /\ toClient'[n].kind = AckOf(p) /\ toClient'[n].id = p.id
      /\ \A i \in 1..Len(toClient') :
            \/ i \in 1..Len(toClient) /\ toClient'[i] = toClient[i]
            \/ i = n /\ toClient'[i].kind = AckOf(p) /\ toClient'[i].id = p.id
  BY AnswerFacts, TypeParts
<1>5. AckOf(p) \in AckKinds /\ AckOf(p) # "CONNACK" BY DEF AckOf, AckKinds
<1>6. ~NotYetConnected BY <1>2 DEF ConnackInv
<1>7. ConnackInv'
  <2>1. \A i \in 1..Len(toClient') : toClient'[i].kind # "CONNACK"
    BY <1>4, <1>5, <1>6 DEF NotYetConnected
  <2>2. ~(Reading' /\ rx'.kind = "CONNACK") BY <1>1, <1>6 DEF NotYetConnected
  <2>3. ~NotYetConnected' BY <2>1, <2>2 DEF NotYetConnected
  <2>4. QED BY <2>1, <2>2, <2>3 DEF ConnackInv
<1>8. CASE ~isConnected BY <1>1, <1>7, <1>8, NoSessionInv
<1>9. CASE isConnected
  <2>1. Waiting /\ AckOf(p) = want /\ p.id = msg.id BY <1>2, <1>9 DEF MatchInv
  <2>2. /\ ~AckRead
        /\ \A i \in 1..Len(toClient) : toClient[i].kind \notin AckKinds
    BY <1>2, <1>9 DEF UniqueInv
  <2>3. \A i \in 1..Len(toBroker') : ~InExchange(toBroker'[i])
    BY <1>2, <1>3, <1>9 DEF UniqueInv
  <2>4. \A i \in 1..Len(toClient') :
           toClient'[i].kind \in AckKinds =>
               i = n /\ toClient'[i].kind = AckOf(p) /\ toClient'[i].id = p.id
    BY <1>4, <2>2
  <2>5. MatchInv' BY <1>1, <2>1, <2>2, <2>3, <2>4 DEF MatchInv
  <2>6. UniqueInv' BY <1>1, <2>2, <2>3, <2>4 DEF UniqueInv
  <2>7. HeldInv'
    <3>1. \A i \in 1..Len(toBroker') :
             ~(toBroker'[i].kind = "PUBLISH" /\ toBroker'[i].qos # 0) /\ toBroker'[i].kind # "PUBREL"
      BY <2>3 DEF InExchange
    <3>2. \A i \in 1..Len(toClient') :
             /\ toClient'[i].kind = "PUBREC" => held' # {}
             /\ toClient'[i].kind \in {"PUBACK", "PUBCOMP"} => Accepted' /\ held' = {}
      BY <1>9, <2>4 DEF AckKinds
    <3>3. QED BY <1>1, <1>9, <2>2, <3>1, <3>2 DEF HeldInv
  <2>8. QED BY <1>1, <1>7, <2>5, <2>6, <2>7
<1>10. QED BY <1>8, <1>9

\* A message the broker appends to delivered is accepted.
LEMMA AppendAccepted ==
    ASSUME WanTypeOK, NEW b, delivered' = Append(delivered, b), UNCHANGED msg
    PROVE  (Accepted => Accepted') /\ (b = msg.body => Accepted')
<1>1. delivered \in Seq(Nat) /\ Len(delivered) \in Nat BY DEF WanTypeOK
<1>2. /\ Len(delivered) + 1 \in 1..Len(delivered') /\ delivered'[Len(delivered) + 1] = b
      /\ \A i \in 1..Len(delivered) : i \in 1..Len(delivered') /\ delivered'[i] = delivered[i]
  BY <1>1, AppendFacts
<1>3. QED BY <1>2 DEF Accepted

LEMMA BrokerExchange ==
    ASSUME ExchangeInv, Broker, UNCHANGED <<selfVars, callVars, readVars, confirmed>> PROVE ExchangeInv'
<1> USE DEF ExchangeInv
<1> DEFINE p == Head(toBroker)
<1>0. ClientTypeOK' BY BrokerType, CallStutterType, ReadStutterType, TypeParts, TypePartsPrime
<1>1. /\ toBroker \in Seq(ClientPacket) /\ toClient \in Seq(BrokerPacket) /\ WanTypeOK
      /\ UNCHANGED <<msg, isConnected, want>>
  BY TypeParts DEF WanTypeOK, selfVars, callVars
<1>2. toBroker # << >> =>
         /\ PartOf(Tail(toBroker), toBroker) /\ 1 \in 1..Len(toBroker) /\ p = toBroker[1]
         /\ p \in ClientPacket
  BY <1>1, TailIsPart, HeadFacts
<1>3. PartOf(<< >>, toBroker) /\ PartOf(toClient, toClient) BY <1>1, EmptyIsPart, SameIsPart
<1>4. CASE BrokerAccepts
  BY <1>0, <1>2, <1>4, ConnectAnswered DEF BrokerAccepts, BrokerReads, Consumes
<1>5. CASE BrokerRefuses
  BY <1>0, <1>3, <1>5, ConnectAnswered DEF BrokerRefuses, BrokerReads, BrokerCloses
<1>6. CASE BrokerPublish0
  <2>1. Accepted => Accepted' BY <1>1, <1>6, AppendAccepted DEF BrokerPublish0
  <2>2. QED BY <1>0, <1>2, <1>3, <1>6, <2>1, LossExchange DEF BrokerPublish0, BrokerReads, Consumes
<1>7. CASE BrokerPublish1
  <2>1. /\ toBroker # << >> /\ p.kind = "PUBLISH" /\ p.qos = 1 /\ session = "open"
        /\ toBroker' = Tail(toBroker) /\ Answers("PUBACK", p.id)
        /\ delivered' = Append(delivered, p.body) /\ UNCHANGED <<session, held>>
    BY <1>7 DEF BrokerPublish1, BrokerReads, Consumes
  <2>2. InExchange(p) /\ AckOf(p) = "PUBACK" BY <2>1 DEF InExchange, AckOf
  <2>3. isConnected => p.body = msg.body /\ held = {}
    BY <1>2, <2>1 DEF HeldInv
  <2>4. isConnected => Accepted' BY <1>1, <2>1, <2>3, AppendAccepted
  <2>5. QED BY <1>0, <2>1, <2>2, <2>3, <2>4, ExchangeAnswered
<1>8. CASE BrokerPublish2
  <2>1. /\ toBroker # << >> /\ p.kind = "PUBLISH" /\ p.qos = 2 /\ session = "open"
        /\ toBroker' = Tail(toBroker) /\ Answers("PUBREC", p.id)
        /\ held' = held \union {[id |-> p.id, body |-> p.body]} /\ UNCHANGED <<session, delivered>>
    BY <1>8 DEF BrokerPublish2, BrokerReads, Consumes
  <2>2. InExchange(p) /\ AckOf(p) = "PUBREC" BY <2>1 DEF InExchange, AckOf
  <2>3. isConnected => p.body = msg.body /\ held = {}
    BY <1>2, <2>1 DEF HeldInv
  <2>4. isConnected => p.id = msg.id /\ want = "PUBREC"
    BY <1>2, <2>1, <2>2 DEF MatchInv
  <2>5. isConnected =>
           /\ \A h \in held' : h.id = msg.id /\ h.body = msg.body /\ want \in {"PUBREC", "PUBCOMP"}
           /\ held' # {}
    <3> DEFINE r == [id |-> p.id, body |-> p.body]
    <3> SUFFICES ASSUME isConnected
                 PROVE  /\ \A h \in held' : /\ h.id = msg.id /\ h.body = msg.body
                                            /\ want \in {"PUBREC", "PUBCOMP"}
                        /\ held' # {}
      OBVIOUS
    <3>1. r.id = msg.id /\ r.body = msg.body BY <2>3, <2>4
    <3>2. held' = {r} BY <2>1, <2>3
    <3> HIDE DEF r
    <3>3. QED BY <2>4, <3>1, <3>2
  <2>6. QED BY <1>0, <2>1, <2>2, <2>5, ExchangeAnswered
<1>9. CASE BrokerPubrel
  <2> DEFINE released == {h \in held : h.id = p.id}
  <2>1. /\ toBroker # << >> /\ p.kind = "PUBREL" /\ session = "open"
        /\ toBroker' = Tail(toBroker) /\ Answers("PUBCOMP", p.id)
        /\ held' = held \ released /\ UNCHANGED session
        /\ released # {} => delivered' = Append(delivered, (CHOOSE h \in released : TRUE).body)
    BY <1>9 DEF BrokerPubrel, BrokerReads, Consumes
  <2>2. InExchange(p) /\ AckOf(p) = "PUBCOMP" BY <2>1 DEF InExchange, AckOf
  <2>3. isConnected => /\ held # {} /\ p.id = msg.id
                       /\ \A h \in held : h.id = msg.id /\ h.body = msg.body
    BY <1>2, <2>1, <2>2 DEF HeldInv, MatchInv
  <2>4. isConnected => released = held BY <2>3
  <2>5. isConnected => held' = {} BY <2>1, <2>4
  <2>6. isConnected => Accepted'
    <3> SUFFICES ASSUME isConnected PROVE Accepted' OBVIOUS
    <3>1. (CHOOSE h \in released : TRUE) \in held BY <2>3, <2>4
    <3>2. (CHOOSE h \in released : TRUE).body = msg.body BY <2>3, <3>1
    <3>3. QED BY <1>1, <2>1, <2>3, <2>4, <3>2, AppendAccepted
  <2>7. QED BY <1>0, <2>1, <2>2, <2>5, <2>6, ExchangeAnswered
<1>10. CASE BrokerPing BY <1>0, <1>10, PingExchange
<1>11. CASE BrokerEnds
  <2>1. toBroker' = << >> /\ UNCHANGED <<toClient, session, held, delivered>>
    BY <1>11 DEF BrokerEnds, BrokerCloses
  <2>2. Accepted => Accepted' BY <1>1, <2>1 DEF Accepted
  <2>3. QED BY <1>0, <1>3, <2>1, <2>2, LossExchange
<1>12. CASE BrokerSkipsGarbage
  <2>1. /\ toBroker # << >> /\ toBroker' = Tail(toBroker)
        /\ UNCHANGED <<toClient, session, held, delivered>>
    BY <1>12 DEF BrokerSkipsGarbage, BrokerReads, Consumes
  <2>2. Accepted => Accepted' BY <1>1, <2>1 DEF Accepted
  <2>3. QED BY <1>0, <1>2, <1>3, <2>1, <2>2, LossExchange
<1>13. QED
  BY <1>4, <1>5, <1>6, <1>7, <1>8, <1>9, <1>10, <1>11, <1>12 DEF Broker

\* Network, clock, and the caller between two calls.
LEMMA WanStepExchange ==
    ASSUME ExchangeInv, WanStep \/ LibraryOpenLink \/ LibraryReturn PROVE ExchangeInv'
<1> USE DEF ExchangeInv
<1>1. CASE LinkDrops /\ UNCHANGED <<selfVars, callVars, readVars, confirmed>>
  <2>1. ClientTypeOK'
    BY <1>1, LinkType, CallStutterType, ReadStutterType, TypeParts, TypePartsPrime
  <2>2. toBroker \in Seq(ClientPacket) /\ toClient \in Seq(BrokerPacket)
    BY TypeParts DEF WanTypeOK
  <2>3. PartOf(toBroker', toBroker) /\ PartOf(toClient', toClient)
    BY <1>1, <2>2, EmptyIsPart, PrefixIsPart DEF LinkDrops
  <2>4. Accepted => Accepted' BY <1>1 DEF LinkDrops, callVars, Accepted
  <2>5. QED BY <1>1, <2>1, <2>3, <2>4, LossExchange DEF LinkDrops
<1>2. CASE Broker /\ UNCHANGED <<selfVars, callVars, readVars, confirmed>> BY <1>2, BrokerExchange
<1>3. CASE KeepAliveElapses \/ LibraryOpenLink \/ LibraryReturn
  <2>1. ClientTypeOK' BY <1>3, UseStepType DEF UseNext, WanStep
  <2>2. /\ UNCHANGED <<toBroker, toClient, session, held, delivered, isConnected, want, rx, msg>>
        /\ pc' = pc \/ (pc = "returned" /\ pc' = "idle")
    BY <1>3 DEF KeepAliveElapses, LibraryOpenLink, OpenLink, LibraryReturn, wanVars, selfVars, callVars
  <2>3. Reading' = Reading /\ Waiting' = Waiting BY <2>2 DEF Reading, Waiting
  <2>4. ConnackInv'
    <3>1. NotYetConnected => ~isConnected' /\ want' \in {"none", "CONNACK"}
      BY <2>2 DEF ConnackInv
    <3>2. QED BY <2>2, <2>3, <3>1, ConnackFrame
  <2>5. CallInv' BY <2>2, <2>3 DEF CallInv
  <2>6. QED BY <2>1, <2>2, <2>3, <2>4, <2>5, SessionFrame
<1>4. QED BY <1>1, <1>2, <1>3 DEF WanStep

LEMMA ClientStepExchange == ASSUME ExchangeInv, ClientStep, ~strayed' PROVE ExchangeInv'
<1>1. CASE KeepAliveDead \/ MalformedPacket
  <2>1. ClientTypeOK' BY <1>1, ClientStepType DEF ExchangeInv, ClientStep, Proceed
  <2>2. /\ FailCall /\ UNCHANGED <<toBroker, toClient, session, held>> /\ Waiting
    BY <1>1 DEF KeepAliveDead, MalformedPacket, wanVars, Waiting
  <2>3. want # "none" BY <2>2 DEF ExchangeInv, CallInv
  <2>4. QED BY <2>1, <2>2, <2>3, FailCallExchange
<1>2. QED
  BY <1>1, SendConnectExchange, SendPublishExchange, SendPubrelExchange, SendDisconnectExchange,
     ReadPacketExchange, ReadRestExchange, SendPingReqExchange, WaitExchange, GotConnackExchange,
     GotAckExchange
     DEF ClientStep, Proceed

LEMMA ClientInitExchange == ClientInit => ExchangeInv
<1> SUFFICES ASSUME ClientInit PROVE ExchangeInv OBVIOUS
<1> USE DEF ClientInit, WanInit
<1>1. ~Reading /\ ~AckRead /\ ~Waiting BY DEF Reading, AckRead, Waiting
<1>2. Len(toBroker) = 0 /\ Len(toClient) = 0 OBVIOUS
<1>3. ConnackInv BY <1>1, <1>2 DEF ConnackInv
<1>4. CallInv BY <1>1 DEF CallInv
<1>5. MatchInv /\ UniqueInv /\ HeldInv BY DEF MatchInv, UniqueInv, HeldInv
<1>6. QED BY <1>3, <1>4, <1>5, ClientInitType DEF ExchangeInv

\* Between two calls the message belongs to no exchange.
LEMMA PrepareExchange == ASSUME ExchangeInv, UsePrepare PROVE ExchangeInv'
<1> USE DEF ExchangeInv
<1>1. /\ pc = "idle" /\ pc' = "idle" /\ msg' \in Message
      /\ UNCHANGED <<wanVars, selfVars, want, rx, ret, readVars, confirmed>>
  BY DEF UsePrepare
<1>2. /\ UNCHANGED <<toBroker, toClient, session, held, delivered, isConnected, want, rx>>
      /\ ~Reading' /\ ~Waiting'
  BY <1>1 DEF wanVars, selfVars, Reading, Waiting
<1>3. ClientTypeOK' BY UseStepType DEF UseNext
<1>4. ConnackInv'
  <2>1. NotYetConnected => ~isConnected' /\ want' \in {"none", "CONNACK"}
    BY <1>2 DEF ConnackInv
  <2>2. QED BY <1>2, <2>1, ConnackFrame
<1>5. CallInv' BY <1>1, <1>2 DEF CallInv
<1>6. CASE ~isConnected' BY <1>3, <1>4, <1>5, <1>6, NoSessionInv
<1>7. CASE isConnected'
  <2>1. /\ \A i \in 1..Len(toBroker) : ~InExchange(toBroker[i])
        /\ \A i \in 1..Len(toClient) : toClient[i].kind \notin AckKinds
        /\ held = {}
    BY <1>1, <1>2, <1>7, BetweenCalls
  <2>2. ~AckRead' BY <1>2 DEF AckRead
  <2>3. MatchInv' BY <1>2, <2>1, <2>2 DEF MatchInv
  <2>4. UniqueInv' BY <1>2, <2>1, <2>2 DEF UniqueInv
  <2>5. HeldInv' BY <1>2, <2>1, <2>2 DEF HeldInv, InExchange, AckKinds
  <2>6. QED BY <1>3, <1>4, <1>5, <2>3, <2>4, <2>5
<1>8. QED BY <1>6, <1>7

LEMMA UseStepExchange ==
    ASSUME ExchangeInv, [UseNext]_clientVars, ~strayed' PROVE ExchangeInv'
<1> DEFINE anyMessage == [id |-> 0, qos |-> 0, body |-> 0]
<1>0. anyMessage \in Message BY ZeroId DEF Message
<1>1. CASE MQTT_client_init \/ MQTT_client_connect \/ MQTT_client_disconnect
  BY <1>0, <1>1, CallsExchange
<1>2. CASE UsePublish BY <1>2, CallsExchange DEF UsePublish
<1>3. CASE LibraryOpenLink \/ LibraryReturn \/ WanStep BY <1>3, WanStepExchange
<1>4. CASE ClientStep BY <1>4, ClientStepExchange
<1>5. CASE UNCHANGED clientVars
  <2> USE DEF clientVars, wanVars, selfVars, callVars
  <2>1. ClientTypeOK' BY <1>5, ClientStutterType DEF ExchangeInv
  <2>2. Reading' = Reading /\ Waiting' = Waiting BY <1>5 DEF Reading, Waiting
  <2>3. ConnackInv'
    <3>1. NotYetConnected => ~isConnected' /\ want' \in {"none", "CONNACK"}
      BY <1>5 DEF ConnackInv, ExchangeInv
    <3>2. QED BY <1>5, <2>2, <3>1, ConnackFrame DEF ExchangeInv
  <2>4. CallInv' BY <1>5, <2>2 DEF CallInv, ExchangeInv
  <2>5. MatchInv' /\ UniqueInv' /\ HeldInv' BY <1>5, <2>2, SessionFrame DEF ExchangeInv
  <2>6. QED BY <2>1, <2>3, <2>4, <2>5 DEF ExchangeInv
<1>6. CASE UsePrepare BY <1>6, PrepareExchange
<1>7. QED BY <1>1, <1>2, <1>3, <1>4, <1>5, <1>6 DEF UseNext, UseCall

LEMMA StrayedStays == ASSUME [UseNext]_clientVars, ~strayed' PROVE ~strayed
<1>1. CASE UNCHANGED readVars BY <1>1 DEF readVars
<1>2. QED BY <1>1, ReadVarsStep

LEMMA ExchangeInvariant == UseSpec => [](~strayed => ExchangeInv)
<1>1. ClientInit => (~strayed => ExchangeInv) BY ClientInitExchange
<1>2. (~strayed => ExchangeInv) /\ [UseNext]_clientVars => (~strayed => ExchangeInv)'
  BY StrayedStays, UseStepExchange
<1>3. QED BY <1>1, <1>2, PTL DEF UseSpec

-----------------------------------------------------------------------------
\* What the exchanges of the client promise.

(* An acknowledgement can only be the one of the running publish.           *)
LEMMA UseAckIsForThisPublish == UseSpec => []AckIsForThisPublish
<1>1. (~strayed => ExchangeInv) => AckIsForThisPublish
  BY DEF ExchangeInv, MatchInv, AckRead, AckIsForThisPublish
<1>2. QED BY <1>1, ExchangeInvariant, PTL

(* There is never more than one packet of an exchange on its way.           *)
LEMMA UseOneExchange == UseSpec => []OneExchange
<1>1. (~strayed => ExchangeInv) => OneExchange
  <2> SUFFICES ASSUME ExchangeInv, isConnected PROVE OneExchange BY DEF OneExchange
  <2> DEFINE out == {i \in 1..Len(toBroker) : InExchange(toBroker[i])}
             in  == {i \in 1..Len(toClient) : toClient[i].kind \in AckKinds}
  <2>1. \A i, j \in out : i = j BY DEF ExchangeInv, UniqueInv
  <2>2. \A i, j \in in : i = j BY DEF ExchangeInv, UniqueInv
  <2>3. out = {} \/ in = {} BY DEF ExchangeInv, UniqueInv
  <2>4. QED BY <2>1, <2>2, <2>3 DEF OneExchange
<1>2. QED BY <1>1, ExchangeInvariant, PTL

\* What a step of the client on its own does to the stream to the broker: it
\* takes a piece of it, or adds one packet.
LEMMA StreamStep ==
    ASSUME ClientTypeOK, [UseNext]_clientVars
    PROVE  \/ PartOf(toBroker', toBroker)
           \/ \E q \in ClientPacket :
                 /\ toBroker' = Append(toBroker, q)
                 /\ q.kind = "PUBLISH" => pc = "sendPublish" /\ q = PublishOf(msg)
                 /\ q.kind = "PUBREL" => pc = "sendPubrel"
<1>0. toBroker \in Seq(ClientPacket) BY TypeParts DEF WanTypeOK
<1>1. CASE UNCHANGED toBroker BY <1>0, <1>1, SameIsPart
<1>2. CASE toBroker' = << >> BY <1>0, <1>2, EmptyIsPart
<1>3. CASE toBroker # << >> /\ toBroker' = Tail(toBroker) BY <1>0, <1>3, TailIsPart
<1>4. CASE LinkDrops BY <1>2, <1>4 DEF LinkDrops
<1>5. CASE Broker
  BY <1>1, <1>2, <1>3, <1>5
     DEF Broker, BrokerAccepts, BrokerRefuses, BrokerPublish0, BrokerPublish1, BrokerPublish2,
         BrokerPubrel, BrokerPing, BrokerEnds, BrokerSkipsGarbage, BrokerReads, Consumes,
         BrokerCloses
<1>6. ASSUME NEW p \in ClientPacket, SendPacket(p) \/ WriteFails(p),
             p.kind = "PUBLISH" => pc = "sendPublish" /\ p = PublishOf(msg),
             p.kind = "PUBREL" => pc = "sendPubrel"
      PROVE  \/ UNCHANGED toBroker
             \/ \E q \in ClientPacket :
                   /\ toBroker' = Append(toBroker, q)
                   /\ q.kind = "PUBLISH" => pc = "sendPublish" /\ q = PublishOf(msg)
                   /\ q.kind = "PUBREL" => pc = "sendPubrel"
  <2>1. Control("garbage") \in ClientPacket BY ControlType
  <2>2. Control("garbage").kind \notin {"PUBLISH", "PUBREL"} BY DEF Control
  <2>3. QED BY <1>6, <2>1, <2>2, WriteFacts
<1>7. CASE SendConnect \/ SendPingReq \/ SendDisconnect
  <2>1. PICK kind \in {"CONNECT", "PINGREQ", "DISCONNECT"} :
          SendPacket(Control(kind)) \/ WriteFails(Control(kind))
    BY <1>7 DEF SendConnect, SendPingReq, SendDisconnect
  <2>2. Control(kind) \in ClientPacket BY ControlType
  <2>3. Control(kind).kind \notin {"PUBLISH", "PUBREL"} BY DEF Control
  <2>4. QED BY <1>1, <1>6, <2>1, <2>2, <2>3
<1>8. CASE SendPublish
  <2>1. PublishOf(msg) \in ClientPacket BY PublishOfType, TypeParts DEF CallTypeOK
  <2>2. PublishOf(msg).kind # "PUBREL" BY DEF PublishOf
  <2>3. QED BY <1>1, <1>6, <1>8, <2>1, <2>2 DEF SendPublish
<1>9. CASE SendPubrel
  <2>1. PubrelOf(rx.id) \in ClientPacket BY PubrelOfType, RxId, TypeParts
  <2>2. PubrelOf(rx.id).kind # "PUBLISH" BY DEF PubrelOf
  <2>3. QED BY <1>1, <1>6, <1>9, <2>1, <2>2 DEF SendPubrel
<1>10. CASE \/ ReadPacket \/ ReadEnds \/ ReadFails \/ ReadFailsHalfway \/ ReadRest
            \/ KeepAliveQuiet \/ KeepAliveDead
            \/ IgnorePacket \/ MalformedPacket \/ GotConnack \/ GotPubrec \/ GotAck
  BY <1>1, <1>10
     DEF ReadPacket, ReadEnds, ReadFails, NothingRead, ReadFailsHalfway, ReadRest,
         KeepAliveQuiet, KeepAliveDead, IgnorePacket, MalformedPacket,
         GotConnack, GotPubrec, GotAck, wanVars
<1>11. CASE \/ MQTT_client_init \/ LibraryOpenLink \/ UseCall \/ UsePrepare \/ LibraryReturn
            \/ KeepAliveElapses \/ UNCHANGED clientVars
  BY <1>1, <1>11
     DEF MQTT_client_init, LibraryOpenLink, OpenLink, UseCall, UsePrepare, MQTT_client_connect,
         ConnectRejected, ConnectStarts, UsePublish, MQTT_client_publish, PublishRejected,
         PublishStarts, MQTT_client_disconnect, LibraryReturn, KeepAliveElapses, wanVars, clientVars
<1>12. QED
  BY <1>4, <1>5, <1>7, <1>8, <1>9, <1>10, <1>11 DEF UseNext, ClientStep, Proceed, WanStep

\* An acknowledgement is in the stream to the client only if one was before, or
\* if the broker has just read what it answers.
LEMMA AnswerStep ==
    ASSUME ClientTypeOK, [UseNext]_clientVars,
           \A i \in 1..Len(toBroker) : toBroker[i].kind \notin {"PUBLISH", "PUBREL"},
           \A i \in 1..Len(toClient) : toClient[i].kind \notin AckKinds
    PROVE  \A i \in 1..Len(toClient') : toClient'[i].kind \notin AckKinds
<1>0. toClient \in Seq(BrokerPacket) /\ WanTypeOK BY TypeParts DEF WanTypeOK
<1>1. CASE toClient' = toClient BY <1>1
<1>2. ASSUME NEW m \in Nat, NEW n \in Nat, n <= Len(toClient), toClient' = SubSeq(toClient, m + 1, n)
      PROVE  \A i \in 1..Len(toClient') : toClient'[i].kind \notin AckKinds
  <2>1. \A i \in 1..Len(toClient') : i + m \in 1..Len(toClient) /\ toClient'[i] = toClient[i + m]
    BY <1>0, <1>2
  <2>2. QED BY <2>1
<1>3. CASE ReadPacket
  <2>1. \A i \in 1..Len(toClient') : i + 1 \in 1..Len(toClient) /\ toClient'[i] = toClient[i + 1]
    BY <1>0, <1>3 DEF ReadPacket
  <2>2. QED BY <2>1
<1>4. CASE ReadRest
  <2>1. PICK n \in 0..Len(toClient) : toClient' = SubSeq(toClient, n + 1, Len(toClient))
    BY <1>4 DEF ReadRest
  <2>2. n \in Nat /\ Len(toClient) \in Nat BY <1>0
  <2>3. QED BY <1>2, <2>1, <2>2
<1>5. CASE LinkDrops
  <2>1. PICK n \in 0..Len(toClient) : toClient' = SubSeq(toClient, 1, n) BY <1>5 DEF LinkDrops
  <2>2. n \in Nat /\ n <= Len(toClient) /\ toClient' = SubSeq(toClient, 0 + 1, n) BY <1>0, <2>1
  <2>3. QED BY <1>2, <2>2
<1>6. CASE BrokerAccepts \/ BrokerRefuses \/ BrokerPing
  <2>1. PICK kind \in {"CONNACK", "PINGRESP"} : Answers(kind, 0)
    BY <1>6 DEF BrokerAccepts, BrokerRefuses, BrokerPing
  <2>2. kind \notin AckKinds BY DEF AckKinds
  <2>3. QED BY <1>0, <2>1, <2>2, AnswerFacts
<1>7. CASE BrokerPublish1 \/ BrokerPublish2 \/ BrokerPubrel
  <2>1. toBroker # << >> /\ Head(toBroker).kind \in {"PUBLISH", "PUBREL"}
    BY <1>7 DEF BrokerPublish1, BrokerPublish2, BrokerPubrel, BrokerReads
  <2>2. QED BY <1>0, <2>1, HeadFacts
<1>8. CASE BrokerPublish0 \/ BrokerEnds \/ BrokerSkipsGarbage
  BY <1>1, <1>8 DEF BrokerPublish0, BrokerEnds, BrokerSkipsGarbage
<1>9. CASE SendConnect \/ SendPublish \/ SendPubrel \/ SendDisconnect \/ SendPingReq
  BY <1>1, <1>9, WriteFacts DEF SendConnect, SendPublish, SendPubrel, SendDisconnect, SendPingReq
<1>10. CASE \/ ReadEnds \/ ReadFails \/ ReadFailsHalfway \/ KeepAliveQuiet \/ KeepAliveDead
            \/ IgnorePacket \/ MalformedPacket \/ GotConnack \/ GotPubrec \/ GotAck
  BY <1>1, <1>10
     DEF ReadEnds, ReadFails, NothingRead, ReadFailsHalfway, KeepAliveQuiet, KeepAliveDead,
         IgnorePacket, MalformedPacket, GotConnack, GotPubrec, GotAck, wanVars
<1>11. CASE \/ MQTT_client_init \/ LibraryOpenLink \/ UseCall \/ UsePrepare \/ LibraryReturn
            \/ KeepAliveElapses \/ UNCHANGED clientVars
  BY <1>1, <1>11
     DEF MQTT_client_init, LibraryOpenLink, OpenLink, UseCall, UsePrepare, MQTT_client_connect,
         ConnectRejected, ConnectStarts, UsePublish, MQTT_client_publish, PublishRejected,
         PublishStarts, MQTT_client_disconnect, LibraryReturn, KeepAliveElapses, wanVars, clientVars
<1>12. QED
  BY <1>3, <1>4, <1>5, <1>6, <1>7, <1>8, <1>9, <1>10, <1>11
     DEF UseNext, ClientStep, Proceed, WanStep, Broker

\* A PUBLISH that asks for an acknowledgement has an identifier.
PublishHasId ==
    \A i \in 1..Len(toBroker) :
        toBroker[i].kind = "PUBLISH" /\ toBroker[i].qos \in {1, 2} => toBroker[i].id # 0

\* So has the message a call is about to send.
SendsWithId == pc = "sendPublish" /\ msg.qos \in {1, 2} => msg.id # 0

LEMMA SendsWithIdStep ==
    ASSUME ClientTypeOK, SendsWithId, [UseNext]_clientVars PROVE SendsWithId'
<1>1. CASE pc' # "sendPublish" BY <1>1 DEF SendsWithId
<1>2. CASE UNCHANGED <<pc, msg>> BY <1>2 DEF SendsWithId
<1>3. CASE UsePublish
  <2>1. PICK m \in Message : MQTT_client_publish(m) BY <1>3 DEF UsePublish
  <2>2. getNextPacketId # 0
    BY PacketIdAssumption, TypeParts DEF getNextPacketId, CallTypeOK, PacketIds
  <2>3. QED
    BY <2>1, <2>2
       DEF MQTT_client_publish, PublishRejected, PublishStarts, Return, Message, SendsWithId
<1>4. CASE \/ MQTT_client_init \/ MQTT_client_connect \/ MQTT_client_disconnect
           \/ UsePrepare \/ LibraryReturn
  <2>1. pc' # "sendPublish"
    BY <1>4
       DEF MQTT_client_init, MQTT_client_connect, ConnectRejected, ConnectStarts, Return,
           MQTT_client_disconnect, UsePrepare, LibraryReturn
  <2>2. QED BY <1>1, <2>1
<1>5. CASE ClientStep
  <2>1. pc' # "sendPublish"
    <3>1. CASE SendConnect \/ SendPublish \/ SendPubrel \/ SendDisconnect \/ SendPingReq
      BY <3>1
         DEF SendConnect, SendPublish, SendPubrel, SendDisconnect, SendPingReq, WaitFor, FailCall,
             Return
    <3>2. CASE ~(SendConnect \/ SendPublish \/ SendPubrel \/ SendDisconnect \/ SendPingReq)
      BY <1>5, <3>2
         DEF ClientStep, Proceed, ReadPacket, ReadEnds, ReadFails, NothingRead, ReadFailsHalfway,
             ReadRest, KeepAliveQuiet, KeepAliveDead, IgnorePacket, MalformedPacket, GotConnack,
             GotPubrec, GotAck, FailCall, Return
    <3>3. QED BY <3>1, <3>2
  <2>2. QED BY <1>1, <2>1
<1>6. CASE LibraryOpenLink \/ WanStep \/ UNCHANGED clientVars
  BY <1>2, <1>6 DEF LibraryOpenLink, WanStep, KeepAliveElapses, clientVars, callVars
<1>7. QED BY <1>3, <1>4, <1>5, <1>6 DEF UseNext, UseCall

LEMMA PublishHasIdStep ==
    ASSUME ClientTypeOK, SendsWithId, PublishHasId, [UseNext]_clientVars PROVE PublishHasId'
<1>0. toBroker \in Seq(ClientPacket) /\ Len(toBroker) \in Nat
  BY TypeParts DEF WanTypeOK
<1>1. CASE PartOf(toBroker', toBroker)
  <2>1. PICK k \in Nat : /\ Len(toBroker') + k <= Len(toBroker)
                         /\ \A i \in 1..Len(toBroker') : toBroker'[i] = toBroker[i + k]
    BY <1>1 DEF PartOf
  <2>2. toBroker' \in Seq(ClientPacket) BY UseStepType, TypePartsPrime DEF WanTypeOK
  <2>3. \A i \in 1..Len(toBroker') : i + k \in 1..Len(toBroker) BY <1>0, <2>1, <2>2
  <2>4. QED BY <2>1, <2>3 DEF PublishHasId
<1>2. ASSUME NEW q \in ClientPacket, toBroker' = Append(toBroker, q),
             q.kind = "PUBLISH" => pc = "sendPublish" /\ q = PublishOf(msg)
      PROVE  PublishHasId'
  <2>1. q.kind = "PUBLISH" /\ q.qos \in {1, 2} => q.id # 0
    BY <1>2 DEF SendsWithId, PublishOf
  <2>2. QED BY <1>0, <1>2, <2>1, AppendFacts DEF PublishHasId
<1>3. QED BY <1>0, <1>1, <1>2, StreamStep

(* Only a broker that has accepted the session is sent messages, and every  *)
(* one that is to be acknowledged can be.                                   *)
LEMMA UsePublishWellFormed == UseSpec => []PublishWellFormed
<1>1. ClientInit => SendsWithId /\ PublishHasId
  BY DEF ClientInit, WanInit, SendsWithId, PublishHasId
<1>2. ClientTypeOK /\ SendsWithId /\ PublishHasId /\ [UseNext]_clientVars
        => SendsWithId' /\ PublishHasId'
  BY SendsWithIdStep, PublishHasIdStep
<1>3. (~strayed => ExchangeInv) /\ PublishHasId => PublishWellFormed
  BY DEF ExchangeInv, ConnackInv, NotYetConnected, PublishHasId, PublishWellFormed
<1>4. QED BY <1>1, <1>2, <1>3, UseTypeCorrect, ExchangeInvariant, PTL DEF UseSpec

\* What a step of the client on its own does to the history.
LEMMA HistoryStep ==
    ASSUME [UseNext]_clientVars
    PROVE  /\ \/ delivered' = delivered
              \/ \E b : delivered' = Append(delivered, b)
           /\ \/ confirmed' \subseteq confirmed
              \/ GotAck /\ confirmed' = confirmed \union {msg.body}
<1>1. CASE UNCHANGED <<delivered, confirmed>> BY <1>1
<1>2. CASE LinkDrops /\ UNCHANGED confirmed BY <1>1, <1>2 DEF LinkDrops
<1>3. CASE Broker /\ UNCHANGED confirmed
  BY <1>1, <1>3
     DEF Broker, BrokerAccepts, BrokerRefuses, BrokerPublish0, BrokerPublish1, BrokerPublish2,
         BrokerPubrel, BrokerPing, BrokerEnds, BrokerSkipsGarbage
<1>4. CASE SendConnect \/ SendPublish \/ SendPubrel \/ SendDisconnect \/ SendPingReq
  BY <1>1, <1>4, WriteFacts
     DEF SendConnect, SendPublish, SendPubrel, SendDisconnect, SendPingReq, SendPacket, WriteFails
<1>5. CASE \/ ReadPacket \/ ReadEnds \/ ReadFails \/ ReadFailsHalfway \/ ReadRest
           \/ KeepAliveQuiet \/ KeepAliveDead
           \/ IgnorePacket \/ MalformedPacket \/ GotConnack \/ GotPubrec
  BY <1>1, <1>5
     DEF ReadPacket, ReadEnds, ReadFails, NothingRead, ReadFailsHalfway, ReadRest,
         KeepAliveQuiet, KeepAliveDead, IgnorePacket, MalformedPacket,
         GotConnack, GotPubrec, wanVars
<1>6. CASE GotAck BY <1>6 DEF GotAck, wanVars
<1>7. CASE \/ MQTT_client_init \/ LibraryOpenLink \/ UseCall \/ UsePrepare \/ LibraryReturn
           \/ KeepAliveElapses \/ UNCHANGED clientVars
  BY <1>1, <1>7
     DEF MQTT_client_init, LibraryOpenLink, OpenLink, UseCall, UsePrepare, MQTT_client_connect,
         ConnectRejected, ConnectStarts, UsePublish, MQTT_client_publish, PublishRejected,
         PublishStarts, MQTT_client_disconnect, LibraryReturn, KeepAliveElapses, wanVars, clientVars
<1>8. QED
  BY <1>2, <1>3, <1>4, <1>5, <1>6, <1>7 DEF UseNext, ClientStep, Proceed, WanStep

LEMMA ConfirmedStep ==
    ASSUME ExchangeInv, ConfirmedDelivered, [UseNext]_clientVars, ~strayed
    PROVE  ConfirmedDelivered'
<1>1. delivered \in Seq(Nat) /\ Len(delivered) \in Nat
  BY TypeParts DEF ExchangeInv, WanTypeOK
<1>2. \A i \in 1..Len(delivered) : i \in 1..Len(delivered') /\ delivered'[i] = delivered[i]
  BY <1>1, HistoryStep, AppendFacts
<1>3. \A n \in confirmed : \E i \in 1..Len(delivered') : delivered'[i] = n
  BY <1>2 DEF ConfirmedDelivered
<1>4. CASE GotAck
  <2>1. AckRead /\ rx.kind # "PUBREC" /\ want \notin {"none", "CONNACK"} /\ pc = "match"
    BY <1>4 DEF GotAck, AckRead, Reading, AckKinds
  <2>2. isConnected BY <2>1, TypeParts DEF ExchangeInv, CallInv
  <2>3. Accepted BY <2>1, <2>2 DEF ExchangeInv, HeldInv
  <2>4. \E i \in 1..Len(delivered') : delivered'[i] = msg.body BY <1>2, <2>3 DEF Accepted
  <2>5. QED BY <1>3, <2>4, HistoryStep DEF ConfirmedDelivered
<1>5. QED BY <1>3, <1>4, HistoryStep DEF ConfirmedDelivered

(* A publish call reports success only for a message the broker has, even   *)
(* if the acknowledgement was misread.                                      *)
LEMMA UseConfirmedDelivered == UseSpec => []ConfirmedDelivered
<1>1. ClientInit => ConfirmedDelivered BY DEF ClientInit, ConfirmedDelivered
<1>2. (~strayed => ExchangeInv) /\ ConfirmedDelivered /\ [UseNext]_clientVars
        => ConfirmedDelivered'
  <2>1. CASE strayed' BY <2>1 DEF ConfirmedDelivered
  <2>2. QED BY <2>1, StrayedStays, ConfirmedStep
<1>3. QED BY <1>1, <1>2, ExchangeInvariant, PTL DEF UseSpec

-----------------------------------------------------------------------------
\* Pings.

PingSent    == \E i \in 1..Len(toBroker) : toBroker[i].kind = "PINGREQ"
PingComes   == \E i \in 1..Len(toClient) : toClient[i].kind = "PINGRESP"

\* No call runs before there is a connection; after that it is PingAccounted.
\* A client in step with the stream is never in the middle of a packet.
PingInv ==
    /\ link = "down" => pc \in {"new", "idle"} /\ ~isPingOutstanding
    /\ inStep => rest = 0
    /\ isPingOutstanding /\ link = "up" /\ ~torn /\ inStep => PingSent \/ PingComes

\* A packet more loses no ping.
LEMMA PingKept ==
    ASSUME ClientTypeOK
    PROVE  /\ \A q : toBroker' = Append(toBroker, q) /\ PingSent => PingSent'
           /\ \A q : toClient' = Append(toClient, q) /\ PingComes => PingComes'
           /\ \A q : toBroker' = Append(toBroker, q) /\ q.kind = "PINGREQ" => PingSent'
           /\ \A q : toClient' = Append(toClient, q) /\ q.kind = "PINGRESP" => PingComes'
<1>1. /\ toBroker \in Seq(ClientPacket) /\ Len(toBroker) \in Nat
      /\ toClient \in Seq(BrokerPacket) /\ Len(toClient) \in Nat
  BY TypeParts DEF WanTypeOK
<1>2. ASSUME NEW q, toBroker' = Append(toBroker, q)
      PROVE  (PingSent => PingSent') /\ (q.kind = "PINGREQ" => PingSent')
  <2>1. /\ Len(toBroker) + 1 \in 1..Len(toBroker') /\ toBroker'[Len(toBroker) + 1] = q
        /\ \A i \in 1..Len(toBroker) : i \in 1..Len(toBroker') /\ toBroker'[i] = toBroker[i]
    BY <1>1, <1>2, AppendFacts
  <2>2. QED BY <2>1 DEF PingSent
<1>3. ASSUME NEW q, toClient' = Append(toClient, q)
      PROVE  (PingComes => PingComes') /\ (q.kind = "PINGRESP" => PingComes')
  <2>1. /\ Len(toClient) + 1 \in 1..Len(toClient') /\ toClient'[Len(toClient) + 1] = q
        /\ \A i \in 1..Len(toClient) : i \in 1..Len(toClient') /\ toClient'[i] = toClient[i]
    BY <1>1, <1>3, AppendFacts
  <2>2. QED BY <2>1 DEF PingComes
<1>4. QED BY <1>2, <1>3

\* What is taken from the front of a stream loses only the ping it is.
LEMMA PingTaken ==
    ASSUME ClientTypeOK
    PROVE  /\ toBroker # << >> /\ toBroker' = Tail(toBroker) /\ Head(toBroker).kind # "PINGREQ"
              /\ PingSent => PingSent'
           /\ toClient # << >> /\ toClient' = Tail(toClient) /\ Head(toClient).kind # "PINGRESP"
              /\ PingComes => PingComes'
<1>1. toBroker \in Seq(ClientPacket) /\ toClient \in Seq(BrokerPacket)
  BY TypeParts DEF WanTypeOK
<1>2. ASSUME toBroker # << >>, toBroker' = Tail(toBroker), Head(toBroker).kind # "PINGREQ", PingSent
      PROVE  PingSent'
  <2>1. PICK i \in 1..Len(toBroker) : toBroker[i].kind = "PINGREQ" BY <1>2 DEF PingSent
  <2>2. i # 1 BY <1>1, <1>2, <2>1
  <2>3. i - 1 \in 1..Len(toBroker') /\ toBroker'[i - 1] = toBroker[i] BY <1>1, <1>2, <2>2
  <2>4. QED BY <2>1, <2>3 DEF PingSent
<1>3. ASSUME toClient # << >>, toClient' = Tail(toClient), Head(toClient).kind # "PINGRESP", PingComes
      PROVE  PingComes'
  <2>1. PICK i \in 1..Len(toClient) : toClient[i].kind = "PINGRESP" BY <1>3 DEF PingComes
  <2>2. i # 1 BY <1>1, <1>3, <2>1
  <2>3. i - 1 \in 1..Len(toClient') /\ toClient'[i - 1] = toClient[i] BY <1>1, <1>3, <2>2
  <2>4. QED BY <2>1, <2>3 DEF PingComes
<1>4. QED BY <1>2, <1>3

\* What a step writes joins the stream, or tears it.
LEMMA PingWrite ==
    ASSUME ClientTypeOK, NEW p, SendPacket(p) \/ WriteFails(p)
    PROVE  /\ link' = link /\ toClient' = toClient
           /\ PingSent => PingSent'
           /\ PingComes => PingComes'
           /\ ~torn' => ~torn
           /\ SendPacket(p) /\ p.kind = "PINGREQ" /\ link = "up" /\ ~torn => PingSent'
<1>1. link' = link /\ toClient' = toClient BY DEF SendPacket, WriteFails
<1>2. PingComes => PingComes' BY <1>1 DEF PingComes
<1>3. PingSent => PingSent'
  <2>1. toBroker' = toBroker \/ \E q : toBroker' = Append(toBroker, q) BY WriteFacts
  <2>2. QED BY <2>1, PingKept DEF PingSent
<1>4. torn' \in BOOLEAN /\ (~torn' => ~torn)
  BY TypeParts DEF SendPacket, WriteFails, WanTypeOK
<1>5. SendPacket(p) /\ p.kind = "PINGREQ" /\ link = "up" /\ ~torn => PingSent'
  BY PingKept DEF SendPacket, Arrives, InStream
<1>6. QED BY <1>1, <1>2, <1>3, <1>4, <1>5

LEMMA PingStep == ASSUME ClientTypeOK, PingInv, [UseNext]_clientVars PROVE PingInv'
<1>0. (inStep' => inStep) /\ (inStep' => rest' = 0)
  <2>1. CASE UNCHANGED readVars BY <2>1 DEF readVars, PingInv
  <2>2. CASE ReadRest /\ inStep' = inStep BY <2>2 DEF ReadRest, PingInv
  <2>3. QED BY <2>1, <2>2, ReadVarsStep
<1>1. CASE SendConnect \/ SendPublish \/ SendPubrel \/ SendDisconnect
  <2>1. PICK p : SendPacket(p) \/ WriteFails(p)
    BY <1>1 DEF SendConnect, SendPublish, SendPubrel, SendDisconnect
  <2>2. (isPingOutstanding' => isPingOutstanding) /\ link # "down"
    BY <1>1 DEF SendConnect, SendPublish, SendPubrel, SendDisconnect, FailCall, closeSession, PingInv
  <2>3. QED BY <1>0, <2>1, <2>2, PingWrite DEF PingInv
<1>2. CASE SendPingReq
  <2>1. link # "down" BY <1>2 DEF SendPingReq, PingInv
  <2>2. CASE SendPacket(Control("PINGREQ"))
    <3>1. Control("PINGREQ").kind = "PINGREQ" BY DEF Control
    <3>2. QED BY <1>0, <2>1, <2>2, <3>1, PingWrite DEF PingInv
  <2>3. CASE /\ WriteFails(Control("PINGREQ")) /\ ~isPingOutstanding'
    BY <1>0, <2>1, <2>3, PingWrite DEF PingInv
  <2>4. QED BY <1>2, <2>2, <2>3 DEF SendPingReq, FailCall, closeSession
<1>3. CASE ReadPacket
  <2>1. /\ toClient # << >> /\ toClient' = Tail(toClient) /\ UNCHANGED <<link, torn, toBroker>>
        /\ isPingOutstanding' => isPingOutstanding /\ Head(toClient).kind # "PINGRESP"
        /\ link # "down"
    BY <1>3 DEF ReadPacket, PingAnswered, PingInv
  <2>2. PingSent' <=> PingSent BY <2>1 DEF PingSent
  <2>3. QED BY <1>0, <2>1, <2>2, PingTaken DEF PingInv
<1>4. CASE UNCHANGED wanVars
  <2>1. (PingSent' <=> PingSent) /\ (PingComes' <=> PingComes) /\ link' = link /\ torn' = torn
    BY <1>4 DEF PingSent, PingComes, wanVars
  <2>2. CASE isPingOutstanding' => isPingOutstanding
    <3>1. CASE link # "down" BY <1>0, <2>1, <2>2, <3>1 DEF PingInv
    <3>2. CASE link = "down"
      <4>1. pc' \in {"new", "idle"}
        BY <1>4, <3>2
           DEF PingInv, UseNext, MQTT_client_init, LibraryOpenLink, OpenLink, UseCall, UsePrepare,
               LibraryReturn, ClientStep, Proceed, SendConnect, SendPublish, SendPubrel,
               SendDisconnect, ReadPacket, ReadEnds, ReadFails, NothingRead, ReadFailsHalfway,
               ReadRest, KeepAliveQuiet, KeepAliveDead, SendPingReq, IgnorePacket,
               MalformedPacket, GotConnack, GotPubrec, GotAck, WanStep, KeepAliveElapses,
               clientVars, callVars
      <4>2. QED BY <1>0, <2>1, <2>2, <3>2, <4>1 DEF PingInv
    <3>3. QED BY <3>1, <3>2
  <2>3. CASE SendPingReq BY <2>3, <1>2
  <2>4. CASE ClientStep /\ ~SendPingReq
    <3>1. isPingOutstanding' => isPingOutstanding
      BY <2>4
         DEF ClientStep, Proceed, SendConnect, SendPublish, SendPubrel, SendDisconnect, ReadPacket,
             PingAnswered, ReadEnds, ReadFails, NothingRead, ReadFailsHalfway, ReadRest,
             KeepAliveQuiet, KeepAliveDead, IgnorePacket, MalformedPacket, GotConnack,
             GotPubrec, GotAck, FailCall, closeSession, selfVars
    <3>2. QED BY <2>2, <3>1
  <2>5. CASE UseCall
    <3>1. isPingOutstanding' \in {FALSE, isPingOutstanding}
      BY <2>5
         DEF UseCall, UsePrepare, MQTT_client_connect, ConnectRejected, ConnectStarts, UsePublish,
             MQTT_client_publish, PublishRejected, PublishStarts, MQTT_client_disconnect,
             closeSession, selfVars
    <3>2. QED BY <2>2, <3>1
  <2>6. CASE \/ MQTT_client_init \/ LibraryOpenLink \/ UsePrepare \/ LibraryReturn
             \/ WanStep \/ UNCHANGED clientVars
    <3>1. isPingOutstanding' \in {FALSE, isPingOutstanding}
      BY <2>6
         DEF MQTT_client_init, LibraryOpenLink, UsePrepare, LibraryReturn, WanStep,
             KeepAliveElapses, clientVars, selfVars
    <3>2. QED BY <2>2, <3>1
  <2>7. QED BY <2>3, <2>4, <2>5, <2>6 DEF UseNext
<1>5. CASE LibraryOpenLink
  BY <1>0, <1>5 DEF LibraryOpenLink, OpenLink, PingInv, selfVars
<1>6. CASE LinkDrops /\ UNCHANGED <<selfVars, callVars, readVars, confirmed>>
  BY <1>0, <1>6 DEF LinkDrops, PingInv
<1>7. CASE Broker /\ UNCHANGED <<selfVars, callVars, readVars, confirmed>>
  <2>1. /\ isPingOutstanding' = isPingOutstanding /\ link = "up" /\ torn' = torn
        /\ toBroker # << >> /\ link' \in {"up", "closed"}
    BY <1>7
       DEF Broker, BrokerAccepts, BrokerRefuses, BrokerPublish0, BrokerPublish1, BrokerPublish2,
           BrokerPubrel, BrokerPing, BrokerEnds, BrokerSkipsGarbage, BrokerReads, Consumes,
           BrokerCloses, selfVars
  <2>2. PingComes => PingComes' \/ link' = "closed"
    <3>1. toClient' = toClient \/ link' = "closed" \/ \E q : toClient' = Append(toClient, q)
      BY <1>7
         DEF Broker, BrokerAccepts, BrokerRefuses, BrokerPublish0, BrokerPublish1, BrokerPublish2,
             BrokerPubrel, BrokerPing, BrokerEnds, BrokerSkipsGarbage, Answers, BrokerCloses
    <3>2. QED BY <3>1, PingKept DEF PingComes
  <2>3. link' = "up" /\ PingSent => PingSent' \/ PingComes'
    <3>1. CASE BrokerPing
      <4>1. toClient' = Append(toClient, Answer("PINGRESP", 0)) BY <3>1 DEF BrokerPing, Answers
      <4>2. Answer("PINGRESP", 0).kind = "PINGRESP" BY DEF Answer
      <4>3. QED BY <4>1, <4>2, PingKept
    <3>2. CASE BrokerRefuses \/ BrokerEnds
      BY <3>2 DEF BrokerRefuses, BrokerEnds, BrokerCloses
    <3>3. CASE \/ BrokerAccepts \/ BrokerPublish0 \/ BrokerPublish1 \/ BrokerPublish2
               \/ BrokerPubrel \/ BrokerSkipsGarbage
      <4>1. toBroker' = Tail(toBroker) /\ Head(toBroker).kind # "PINGREQ"
        BY <3>3
           DEF BrokerAccepts, BrokerPublish0, BrokerPublish1, BrokerPublish2, BrokerPubrel,
               BrokerSkipsGarbage, BrokerReads, Consumes
      <4>2. QED BY <2>1, <4>1, PingTaken
    <3>4. QED BY <1>7, <3>1, <3>2, <3>3 DEF Broker
  <2>4. QED BY <1>0, <2>1, <2>2, <2>3 DEF PingInv
<1>8. CASE UNCHANGED clientVars BY <1>4, <1>8 DEF clientVars
<1>9. CASE \/ MQTT_client_init \/ UseCall \/ UsePrepare \/ LibraryReturn \/ KeepAliveElapses
           \/ ReadEnds \/ ReadFails \/ ReadFailsHalfway \/ KeepAliveQuiet \/ KeepAliveDead \/ IgnorePacket \/ MalformedPacket
           \/ GotConnack \/ GotPubrec \/ GotAck
  <2>1. UNCHANGED wanVars
    BY <1>9
       DEF MQTT_client_init, UseCall, UsePrepare, MQTT_client_connect, ConnectRejected, ConnectStarts,
           UsePublish, MQTT_client_publish, PublishRejected, PublishStarts,
           MQTT_client_disconnect, LibraryReturn, KeepAliveElapses, ReadEnds, ReadFails,
           NothingRead, ReadFailsHalfway, KeepAliveQuiet,
           KeepAliveDead, IgnorePacket, MalformedPacket, GotConnack, GotPubrec, GotAck
  <2>2. QED BY <1>4, <2>1
<1>11. CASE ReadRest
  <2>1. ~inStep' /\ link' = link /\ link # "down"
    BY <1>0, <1>11 DEF ReadRest, PingInv
  <2>2. QED BY <1>0, <2>1 DEF PingInv
<1>10. QED
  BY <1>11, <1>1, <1>2, <1>3, <1>5, <1>6, <1>7, <1>8, <1>9 DEF UseNext, ClientStep, Proceed, WanStep

(* Until a read fails half way, a ping counts as outstanding only while its *)
(* answer can still come.                                                   *)
LEMMA UsePingAccounted == UseSpec => []PingAccounted
<1>1. ClientInit => PingInv BY DEF ClientInit, WanInit, PingInv
<1>2. ClientTypeOK /\ PingInv /\ [UseNext]_clientVars => PingInv' BY PingStep
<1>3. PingInv => PingAccounted BY DEF PingInv, PingSent, PingComes, PingAccounted
<1>4. QED BY <1>1, <1>2, <1>3, UseTypeCorrect, PTL DEF UseSpec

-----------------------------------------------------------------------------
\* The order of the messages.

\* Newer than everything in d; 0 is the body of no message.
Under(b, d) == 0 < b /\ \A i \in 1..Len(d) : d[i] < b

\* Bodies are numbered by the calls; the one being sent is newer than the rest.
Fresh(b, m, at) == b <= m.body /\ (at = "sendPublish" => b < m.body)

InOrder == \A i, j \in 1..Len(delivered) : i < j => delivered[i] < delivered[j]

IsPublish(i) == i \in 1..Len(toBroker) /\ toBroker[i].kind = "PUBLISH"

\* Accepted messages come before the one the broker holds, and that one is
\* alone: nothing is published behind a QoS 2 message before it is released.
OrderInv ==
    /\ InOrder
    /\ \A i, j : IsPublish(i) /\ IsPublish(j) /\ i < j =>
          toBroker[i].body < toBroker[j].body /\ toBroker[i].qos # 2
    /\ \A i : IsPublish(i) => Under(toBroker[i].body, delivered) /\ Fresh(toBroker[i].body, msg, pc) /\ held = {}
    /\ \A h \in held : Under(h.body, delivered) /\ Fresh(h.body, msg, pc)
    /\ \A g, h \in held : g = h
    /\ \A i \in 1..Len(delivered) : Fresh(delivered[i], msg, pc)
    /\ Fresh(0, msg, pc)

\* The types the order is about.
LEMMA OrderTypes ==
    ASSUME ClientTypeOK
    PROVE  /\ toBroker \in Seq(ClientPacket) /\ Len(toBroker) \in Nat
           /\ delivered \in Seq(Nat) /\ Len(delivered) \in Nat
           /\ \A i \in 1..Len(toBroker) : toBroker[i].body \in Nat /\ toBroker[i].qos \in 0..3
           /\ \A i \in 1..Len(delivered) : delivered[i] \in Nat
           /\ \A h \in held : h.body \in Nat
           /\ msg.body \in Nat
<1>1. WanTypeOK /\ CallTypeOK BY TypeParts
<1>2. \A i \in 1..Len(toBroker) : toBroker[i] \in ClientPacket BY <1>1 DEF WanTypeOK
<1>3. \A i \in 1..Len(toBroker) : toBroker[i].body \in Nat /\ toBroker[i].qos \in 0..3
  BY <1>2 DEF ClientPacket
<1>4. QED BY <1>1, <1>3 DEF WanTypeOK, CallTypeOK, Message

\* A step of the client, the network or the caller makes no message newer.
LEMMA NewerStep ==
    ASSUME ClientTypeOK, [UseNext]_clientVars
    PROVE  \A b \in Nat : Fresh(b, msg, pc) => Fresh(b, msg', pc')
<1>0. msg.body \in Nat BY OrderTypes
<1>1. CASE msg' = msg /\ pc' # "sendPublish" BY <1>1 DEF Fresh
<1>2. CASE UNCHANGED <<msg, pc>> BY <1>2 DEF Fresh
<1>3. CASE MQTT_client_init BY <1>1, <1>3 DEF MQTT_client_init
<1>4. CASE LibraryOpenLink \/ WanStep \/ UNCHANGED clientVars
  BY <1>2, <1>4 DEF LibraryOpenLink, WanStep, KeepAliveElapses, clientVars, callVars
<1>5. CASE LibraryReturn BY <1>1, <1>5 DEF LibraryReturn
<1>6. CASE UseCall
  <2>1. CASE MQTT_client_connect \/ MQTT_client_disconnect
    BY <1>1, <2>1
       DEF MQTT_client_connect, ConnectRejected, ConnectStarts, MQTT_client_disconnect, Return
  <2>2. CASE UsePublish
    <3>1. PICK m \in Message : msg.body < m.body /\ MQTT_client_publish(m)
      BY <2>2 DEF UsePublish
    <3>2. msg'.body = m.body /\ m.body \in Nat
      BY <3>1 DEF MQTT_client_publish, PublishRejected, PublishStarts, Message
    <3>3. QED BY <1>0, <3>1, <3>2 DEF Fresh
  <2>3. QED BY <1>6, <2>1, <2>2 DEF UseCall
<1>7. CASE ClientStep
  <2>1. msg' = msg /\ pc' # "sendPublish"
    <3>1. CASE SendConnect \/ SendPublish \/ SendPubrel \/ SendDisconnect \/ SendPingReq
      BY <3>1
         DEF SendConnect, SendPublish, SendPubrel, SendDisconnect, SendPingReq, WaitFor, FailCall,
             Return
    <3>2. CASE \/ ReadPacket \/ ReadEnds \/ ReadFails \/ ReadFailsHalfway \/ ReadRest
               \/ KeepAliveQuiet \/ KeepAliveDead
               \/ IgnorePacket \/ MalformedPacket \/ GotConnack \/ GotPubrec \/ GotAck
      BY <3>2
         DEF ReadPacket, ReadEnds, ReadFails, NothingRead, ReadFailsHalfway, ReadRest,
             KeepAliveQuiet, KeepAliveDead, IgnorePacket, MalformedPacket, GotConnack, GotPubrec,
             GotAck, FailCall, Return
    <3>3. QED BY <1>7, <3>1, <3>2 DEF ClientStep, Proceed
  <2>2. QED BY <1>1, <2>1
<1>8. CASE UsePrepare
  <2>1. msg'.body \in Nat /\ msg.body <= msg'.body /\ pc' # "sendPublish"
    BY <1>8 DEF UsePrepare, Message
  <2>2. QED BY <1>0, <2>1 DEF Fresh
<1>9. QED BY <1>3, <1>4, <1>5, <1>6, <1>7, <1>8 DEF UseNext

\* Nothing new in the stream but what is no message, nothing accepted or held.
LEMMA OrderFrame ==
    ASSUME ClientTypeOK, ClientTypeOK', OrderInv, UNCHANGED <<held, delivered>>,
           \A b \in Nat : Fresh(b, msg, pc) => Fresh(b, msg', pc'),
           \/ PartOf(toBroker', toBroker)
           \/ \E q : toBroker' = Append(toBroker, q) /\ q.kind # "PUBLISH"
    PROVE  OrderInv'
<1>1. PICK k \in Nat :
        \A i : IsPublish(i)' => IsPublish(i + k) /\ toBroker'[i] = toBroker[i + k]
  <2>1. CASE PartOf(toBroker', toBroker)
    <3>1. PICK k \in Nat : /\ Len(toBroker') + k <= Len(toBroker)
                           /\ \A i \in 1..Len(toBroker') : toBroker'[i] = toBroker[i + k]
      BY <2>1 DEF PartOf
    <3>2. Len(toBroker') \in Nat /\ Len(toBroker) \in Nat BY OrderTypes DEF ClientTypeOK, WanTypeOK
    <3>3. \A i \in 1..Len(toBroker') : i + k \in 1..Len(toBroker) BY <3>1, <3>2
    <3>4. QED BY <3>1, <3>3 DEF IsPublish
  <2>2. CASE \E q : toBroker' = Append(toBroker, q) /\ q.kind # "PUBLISH"
    <3>1. \A i : IsPublish(i)' => i \in 1..Len(toBroker) /\ toBroker'[i] = toBroker[i]
      BY <2>2, OrderTypes, AppendFacts DEF IsPublish
    <3>2. \A i : IsPublish(i)' => IsPublish(i + 0) /\ toBroker'[i] = toBroker[i + 0]
      BY <3>1, OrderTypes DEF IsPublish
    <3>3. QED BY <3>2
  <2>3. QED BY <2>1, <2>2
<1>2. \A b : Under(b, delivered') <=> Under(b, delivered) OBVIOUS
<1>3. InOrder' BY DEF OrderInv, InOrder
<1>4. \A i, j : IsPublish(i)' /\ IsPublish(j)' /\ i < j =>
         toBroker'[i].body < toBroker'[j].body /\ toBroker'[i].qos # 2
  <2>1. SUFFICES ASSUME NEW i, NEW j, IsPublish(i)', IsPublish(j)', i < j
                 PROVE  toBroker'[i].body < toBroker'[j].body /\ toBroker'[i].qos # 2
    OBVIOUS
  <2>2. i \in Int /\ j \in Int BY <2>1, OrderTypes DEF IsPublish
  <2>3. i + k < j + k BY <2>1, <2>2
  <2>4. QED BY <1>1, <2>1, <2>3 DEF OrderInv
<1>5. \A i : IsPublish(i)' =>
         Under(toBroker'[i].body, delivered') /\ Fresh(toBroker'[i].body, msg', pc') /\ held' = {}
  <2>1. SUFFICES ASSUME NEW i, IsPublish(i)'
                 PROVE  Under(toBroker'[i].body, delivered') /\ Fresh(toBroker'[i].body, msg', pc') /\ held' = {}
    OBVIOUS
  <2>2. IsPublish(i + k) /\ toBroker'[i] = toBroker[i + k] BY <1>1, <2>1
  <2>3. toBroker[i + k].body \in Nat BY <2>2, OrderTypes DEF IsPublish
  <2>4. Fresh(toBroker[i + k].body, msg', pc') BY <2>2, <2>3 DEF OrderInv
  <2>5. Under(toBroker[i + k].body, delivered) /\ held = {} BY <2>2 DEF OrderInv
  <2>6. QED BY <1>2, <2>2, <2>4, <2>5 DEF Fresh, Under
<1>6. \A h \in held' : Under(h.body, delivered') /\ Fresh(h.body, msg', pc')
  <2>1. SUFFICES ASSUME NEW h \in held PROVE Under(h.body, delivered') /\ Fresh(h.body, msg', pc') OBVIOUS
  <2>2. h.body \in Nat BY OrderTypes
  <2>3. QED BY <1>2, <2>2 DEF OrderInv
<1>7. \A g, h \in held' : g = h BY DEF OrderInv
<1>8. \A i \in 1..Len(delivered') : Fresh(delivered'[i], msg', pc')
  <2>1. SUFFICES ASSUME NEW i \in 1..Len(delivered) PROVE Fresh(delivered[i], msg', pc')
    OBVIOUS
  <2>2. delivered[i] \in Nat BY OrderTypes
  <2>3. QED BY <2>2 DEF OrderInv
<1>9. QED BY <1>3, <1>4, <1>5, <1>6, <1>7, <1>8 DEF OrderInv

\* The broker accepts a message that is newer than all it has accepted.
LEMMA OrderAccept ==
    ASSUME ClientTypeOK, ClientTypeOK', OrderInv, UNCHANGED <<msg, pc>>,
           NEW b \in Nat, Under(b, delivered), Fresh(b, msg, pc), delivered' = Append(delivered, b)
    PROVE  /\ InOrder'
           /\ \A i \in 1..Len(delivered') : Fresh(delivered'[i], msg', pc')
           /\ \A c \in Nat : Under(c, delivered) /\ b < c => Under(c, delivered')
<1>1. /\ Len(delivered') = Len(delivered) + 1 /\ delivered'[Len(delivered) + 1] = b
      /\ \A i \in 1..Len(delivered) : delivered'[i] = delivered[i]
      /\ \A i \in 1..Len(delivered') : i \in 1..Len(delivered) \/ i = Len(delivered) + 1
  BY OrderTypes, AppendFacts
<1>2. Len(delivered) \in Nat BY OrderTypes
<1>3. InOrder'
  <2>1. SUFFICES ASSUME NEW i \in 1..Len(delivered'), NEW j \in 1..Len(delivered'), i < j
                 PROVE  delivered'[i] < delivered'[j]
    BY DEF InOrder
  <2>2. i \in 1..Len(delivered) BY <1>1, <1>2, <2>1
  <2>3. CASE j \in 1..Len(delivered) BY <1>1, <2>1, <2>2, <2>3 DEF OrderInv, InOrder
  <2>4. CASE j = Len(delivered) + 1 BY <1>1, <2>2, <2>4 DEF Under
  <2>5. QED BY <1>1, <2>3, <2>4
<1>4. \A i \in 1..Len(delivered') : Fresh(delivered'[i], msg', pc')
  BY <1>1 DEF OrderInv, Fresh
<1>5. \A c \in Nat : Under(c, delivered) /\ b < c => Under(c, delivered') BY <1>1 DEF Under
<1>6. QED BY <1>3, <1>4, <1>5

\* What is behind the head of the stream.
LEMMA OrderTail ==
    ASSUME ClientTypeOK, toBroker # << >>, toBroker' = Tail(toBroker)
    PROVE  /\ Head(toBroker).kind = "PUBLISH" => IsPublish(1)
           /\ Head(toBroker) = toBroker[1] /\ Head(toBroker).body \in Nat
           /\ \A i : IsPublish(i)' =>
                 /\ IsPublish(i + 1) /\ 1 < i + 1 /\ i \in Int
                 /\ toBroker'[i] = toBroker[i + 1] /\ toBroker[i + 1].body \in Nat
<1>1. /\ 1 \in 1..Len(toBroker) /\ Head(toBroker) = toBroker[1]
      /\ \A i \in 1..Len(Tail(toBroker)) :
            i + 1 \in 1..Len(toBroker) /\ Tail(toBroker)[i] = toBroker[i + 1]
  BY HeadFacts, TypeParts
<1>2. Len(Tail(toBroker)) \in Nat BY OrderTypes
<1>3. \A i : IsPublish(i)' => i \in 1..Len(Tail(toBroker)) /\ i \in Int /\ 1 < i + 1
  BY <1>2 DEF IsPublish
<1>4. QED BY <1>1, <1>3, OrderTypes DEF IsPublish

LEMMA OrderAccepts ==
    ASSUME ExchangeInv, ClientTypeOK', OrderInv, UNCHANGED <<msg, pc>>,
           BrokerPublish0 \/ BrokerPublish1
    PROVE  OrderInv'
<1> DEFINE b == Head(toBroker).body
<1>0. ClientTypeOK BY DEF ExchangeInv
<1>1. /\ toBroker # << >> /\ toBroker' = Tail(toBroker) /\ Head(toBroker).kind = "PUBLISH"
      /\ delivered' = Append(delivered, b) /\ held' = held
  BY DEF BrokerPublish0, BrokerPublish1, BrokerReads, Consumes
<1>2. IsPublish(1) /\ b = toBroker[1].body /\ b \in Nat BY <1>0, <1>1, OrderTail
<1>3. Under(b, delivered) /\ Fresh(b, msg, pc) /\ held = {} BY <1>2 DEF OrderInv
<1> HIDE DEF b
<1>4. /\ InOrder'
      /\ \A i \in 1..Len(delivered') : Fresh(delivered'[i], msg', pc')
      /\ \A c \in Nat : Under(c, delivered) /\ b < c => Under(c, delivered')
  BY <1>0, <1>1, <1>2, <1>3, OrderAccept
<1>5. \A i : IsPublish(i)' =>
         Under(toBroker'[i].body, delivered') /\ Fresh(toBroker'[i].body, msg', pc') /\ held' = {}
  <2>1. SUFFICES ASSUME NEW i, IsPublish(i)'
                 PROVE  Under(toBroker'[i].body, delivered') /\ Fresh(toBroker'[i].body, msg', pc')
    BY <1>1, <1>3
  <2>2. /\ IsPublish(i + 1) /\ 1 < i + 1 /\ toBroker'[i] = toBroker[i + 1]
        /\ toBroker[i + 1].body \in Nat
    BY <1>0, <1>1, <2>1, OrderTail
  <2>3. b < toBroker[i + 1].body BY <1>2, <2>2 DEF OrderInv
  <2>4. Under(toBroker[i + 1].body, delivered) /\ Fresh(toBroker[i + 1].body, msg, pc)
    BY <2>2 DEF OrderInv
  <2>5. QED BY <1>4, <2>2, <2>3, <2>4
<1>6. \A i, j : IsPublish(i)' /\ IsPublish(j)' /\ i < j =>
         toBroker'[i].body < toBroker'[j].body /\ toBroker'[i].qos # 2
  <2>1. SUFFICES ASSUME NEW i, NEW j, IsPublish(i)', IsPublish(j)', i < j
                 PROVE  toBroker'[i].body < toBroker'[j].body /\ toBroker'[i].qos # 2
    OBVIOUS
  <2>2. /\ IsPublish(i + 1) /\ i \in Int /\ toBroker'[i] = toBroker[i + 1]
        /\ IsPublish(j + 1) /\ j \in Int /\ toBroker'[j] = toBroker[j + 1]
    BY <1>0, <1>1, <2>1, OrderTail
  <2>3. i + 1 < j + 1 BY <2>1, <2>2
  <2>4. QED BY <2>2, <2>3 DEF OrderInv
<1>7. QED BY <1>1, <1>3, <1>4, <1>5, <1>6 DEF OrderInv

\* A QoS 2 message is the last of the stream: the broker holds it alone.
LEMMA OrderHolds ==
    ASSUME ExchangeInv, ClientTypeOK', OrderInv, UNCHANGED <<msg, pc>>, BrokerPublish2
    PROVE  OrderInv'
<1> DEFINE r == [id |-> Head(toBroker).id, body |-> Head(toBroker).body]
<1>0. ClientTypeOK BY DEF ExchangeInv
<1>1. /\ toBroker # << >> /\ toBroker' = Tail(toBroker) /\ Head(toBroker).kind = "PUBLISH"
      /\ Head(toBroker).qos = 2 /\ delivered' = delivered /\ held' = held \union {r}
  BY DEF BrokerPublish2, BrokerReads, Consumes
<1>2. IsPublish(1) /\ Head(toBroker) = toBroker[1] BY <1>0, <1>1, OrderTail
<1>3. Under(r.body, delivered) /\ Fresh(r.body, msg, pc) /\ held = {} BY <1>2 DEF OrderInv
<1> HIDE DEF r
<1>4. held' = {r} BY <1>1, <1>3
<1>5. \A i : ~IsPublish(i)'
  <2>1. SUFFICES ASSUME NEW i, IsPublish(i)' PROVE FALSE OBVIOUS
  <2>2. IsPublish(i + 1) /\ 1 < i + 1 BY <1>0, <1>1, <2>1, OrderTail
  <2>3. QED BY <1>1, <1>2, <2>2 DEF OrderInv
<1>6. InOrder' BY <1>1 DEF OrderInv, InOrder
<1>7. \A h \in held' : Under(h.body, delivered') /\ Fresh(h.body, msg', pc')
  BY <1>1, <1>3, <1>4
<1>8. \A i \in 1..Len(delivered') : Fresh(delivered'[i], msg', pc') BY <1>1 DEF OrderInv
<1>9. QED BY <1>4, <1>5, <1>6, <1>7, <1>8 DEF OrderInv

\* A released message is the only one the broker held, and nothing follows it.
LEMMA OrderReleases ==
    ASSUME ExchangeInv, ClientTypeOK', OrderInv, UNCHANGED <<msg, pc>>, BrokerPubrel,
           \A b \in Nat : Fresh(b, msg, pc) => Fresh(b, msg', pc')
    PROVE  OrderInv'
<1> DEFINE released == {h \in held : h.id = Head(toBroker).id}
<1>0. ClientTypeOK BY DEF ExchangeInv
<1>1. /\ toBroker # << >> /\ toBroker' = Tail(toBroker) /\ held' = held \ released
      /\ delivered' = IF released = {} THEN delivered
                      ELSE Append(delivered, (CHOOSE h \in released : TRUE).body)
  BY DEF BrokerPubrel, BrokerReads, Consumes
<1>2. \A i : IsPublish(i)' => IsPublish(i + 1) BY <1>0, <1>1, OrderTail
<1>3. CASE released = {}
  <2>1. held' = held /\ delivered' = delivered BY <1>1, <1>3
  <2>2. PartOf(toBroker', toBroker) BY <1>0, <1>1, TailIsPart, OrderTypes
  <2>3. QED BY <1>0, <2>1, <2>2, OrderFrame
<1>4. CASE released # {}
  <2> DEFINE r == CHOOSE h \in released : TRUE
  <2>1. r \in held /\ r \in released BY <1>4
  <2>2. delivered' = Append(delivered, r.body) BY <1>1, <1>4
  <2> HIDE DEF r
  <2>3. held = {r} BY <2>1 DEF OrderInv
  <2>4. held' = {} BY <1>1, <2>1, <2>3
  <2>5. Under(r.body, delivered) /\ Fresh(r.body, msg, pc) /\ r.body \in Nat
    BY <1>0, <2>1, OrderTypes DEF OrderInv
  <2>6. /\ InOrder'
        /\ \A i \in 1..Len(delivered') : Fresh(delivered'[i], msg', pc')
    BY <1>0, <2>2, <2>5, OrderAccept
  <2>7. \A i : ~IsPublish(i)' BY <1>2, <2>1 DEF OrderInv
  <2>8. QED BY <2>4, <2>6, <2>7 DEF OrderInv
<1>5. QED BY <1>3, <1>4

\* The message a call sends is newer than all others, and the broker holds none.
LEMMA OrderSends ==
    ASSUME ExchangeInv, ClientTypeOK', OrderInv, pc = "sendPublish", UNCHANGED <<held, delivered>>,
           \A b \in Nat : Fresh(b, msg, pc) => Fresh(b, msg', pc'),
           msg' = msg, pc' # "sendPublish", toBroker' = Append(toBroker, PublishOf(msg))
    PROVE  OrderInv'
<1> DEFINE n == Len(toBroker) + 1
<1>0. ClientTypeOK /\ n \in Nat /\ Len(toBroker) \in Nat BY OrderTypes DEF ExchangeInv
<1>1. /\ toBroker'[n] = PublishOf(msg)
      /\ \A i \in 1..Len(toBroker) : toBroker'[i] = toBroker[i]
      /\ \A i \in 1..Len(toBroker') : i \in 1..Len(toBroker) \/ i = n
  BY <1>0, OrderTypes, AppendFacts
<1>2. PublishOf(msg).body = msg.body BY DEF PublishOf
<1>3. \A i : IsPublish(i)' => (IsPublish(i) /\ toBroker'[i] = toBroker[i]) \/ i = n
  BY <1>1 DEF IsPublish
<1>4. held = {} /\ isConnected /\ ~Waiting
  BY DEF ExchangeInv, CallInv, HeldInv, Waiting
<1>5. \A i : IsPublish(i) => toBroker[i].qos # 2 /\ toBroker[i].body < msg.body
  BY <1>4 DEF ExchangeInv, MatchInv, InExchange, IsPublish, OrderInv, Fresh
<1>6. Under(msg.body, delivered)
  BY <1>0, OrderTypes DEF OrderInv, Fresh, Under
<1>7. Fresh(msg.body, msg', pc') BY <1>0, OrderTypes DEF Fresh
<1>8. \A i, j : IsPublish(i)' /\ IsPublish(j)' /\ i < j =>
         toBroker'[i].body < toBroker'[j].body /\ toBroker'[i].qos # 2
  <2>1. SUFFICES ASSUME NEW i, NEW j, IsPublish(i)', IsPublish(j)', i < j
                 PROVE  toBroker'[i].body < toBroker'[j].body /\ toBroker'[i].qos # 2
    OBVIOUS
  <2>2. i # n
    <3>1. i \in Int /\ (j \in 1..Len(toBroker) \/ j = n) BY <1>1, <2>1 DEF IsPublish
    <3>2. QED BY <1>0, <2>1, <3>1
  <2>3. IsPublish(i) /\ toBroker'[i] = toBroker[i] BY <1>3, <2>1, <2>2
  <2>4. CASE j = n BY <1>1, <1>2, <1>5, <2>3, <2>4
  <2>5. CASE IsPublish(j) /\ toBroker'[j] = toBroker[j] BY <2>1, <2>3, <2>5 DEF OrderInv
  <2>6. QED BY <1>3, <2>1, <2>4, <2>5
<1>9. \A i : IsPublish(i)' =>
         Under(toBroker'[i].body, delivered') /\ Fresh(toBroker'[i].body, msg', pc') /\ held' = {}
  <2>1. SUFFICES ASSUME NEW i, IsPublish(i)'
                 PROVE  Under(toBroker'[i].body, delivered') /\ Fresh(toBroker'[i].body, msg', pc')
    BY <1>4
  <2>2. CASE i = n BY <1>1, <1>2, <1>6, <1>7, <2>2
  <2>3. CASE IsPublish(i) /\ toBroker'[i] = toBroker[i]
    <3>1. toBroker[i].body \in Nat BY <1>0, <2>3, OrderTypes DEF IsPublish
    <3>2. QED BY <2>3, <3>1 DEF OrderInv
  <2>4. QED BY <1>3, <2>1, <2>2, <2>3
<1>10. \A i \in 1..Len(delivered') : Fresh(delivered'[i], msg', pc')
  <2>1. SUFFICES ASSUME NEW i \in 1..Len(delivered) PROVE Fresh(delivered[i], msg', pc')
    OBVIOUS
  <2>2. delivered[i] \in Nat BY <1>0, OrderTypes
  <2>3. QED BY <2>2 DEF OrderInv
<1>11. InOrder' BY DEF OrderInv, InOrder
<1>12. QED BY <1>4, <1>8, <1>9, <1>10, <1>11 DEF OrderInv

LEMMA OrderStep ==
    ASSUME ExchangeInv, OrderInv, [UseNext]_clientVars PROVE OrderInv'
<1>0. ClientTypeOK /\ ClientTypeOK' BY UseStepType DEF ExchangeInv
<1>1. \A b \in Nat : Fresh(b, msg, pc) => Fresh(b, msg', pc') BY <1>0, NewerStep
<1>2. CASE Broker /\ UNCHANGED <<selfVars, callVars, readVars, confirmed>>
  <2>1. UNCHANGED <<msg, pc>> BY <1>2 DEF callVars
  <2>2. CASE BrokerPublish0 \/ BrokerPublish1 BY <1>0, <2>1, <2>2, OrderAccepts
  <2>3. CASE BrokerPublish2 BY <1>0, <2>1, <2>3, OrderHolds
  <2>4. CASE BrokerPubrel BY <1>0, <1>1, <2>1, <2>4, OrderReleases
  <2>5. CASE \/ BrokerAccepts \/ BrokerRefuses \/ BrokerPing \/ BrokerEnds \/ BrokerSkipsGarbage
    <3>1. /\ UNCHANGED <<held, delivered>>
          /\ toBroker' = << >> \/ (toBroker # << >> /\ toBroker' = Tail(toBroker))
      BY <2>5
         DEF BrokerAccepts, BrokerRefuses, BrokerPing, BrokerEnds, BrokerSkipsGarbage,
             BrokerReads, Consumes, BrokerCloses
    <3>2. PartOf(toBroker', toBroker) BY <1>0, <3>1, OrderTypes, EmptyIsPart, TailIsPart
    <3>3. QED BY <1>0, <1>1, <3>1, <3>2, OrderFrame
  <2>6. QED BY <1>2, <2>2, <2>3, <2>4, <2>5 DEF Broker
<1>3. CASE SendPublish
  <2>1. /\ pc = "sendPublish" /\ UNCHANGED <<held, delivered>> /\ msg' = msg
        /\ pc' # "sendPublish"
    BY <1>3 DEF SendPublish, SendPacket, WriteFails, WaitFor, FailCall, Return
  <2>2. \/ toBroker' = toBroker
        \/ \E q \in {PublishOf(msg), Control("garbage")} : toBroker' = Append(toBroker, q)
    BY <1>3, WriteFacts DEF SendPublish
  <2>3. CASE toBroker' = Append(toBroker, PublishOf(msg)) BY <1>0, <1>1, <2>1, <2>3, OrderSends
  <2>4. CASE toBroker' = Append(toBroker, Control("garbage"))
    <3>1. Control("garbage").kind # "PUBLISH" BY DEF Control
    <3>2. QED BY <1>0, <1>1, <2>1, <2>4, <3>1, OrderFrame
  <2>5. CASE toBroker' = toBroker
    <3>1. PartOf(toBroker', toBroker) BY <1>0, <2>5, OrderTypes, SameIsPart
    <3>2. QED BY <1>0, <1>1, <2>1, <3>1, OrderFrame
  <2>6. QED BY <2>2, <2>3, <2>4, <2>5
<1> DEFINE writes == SendConnect \/ SendPubrel \/ SendDisconnect \/ SendPingReq
           local  == \/ ReadPacket \/ ReadEnds \/ ReadFails \/ ReadFailsHalfway \/ ReadRest
                     \/ KeepAliveQuiet \/ KeepAliveDead
                     \/ IgnorePacket \/ MalformedPacket \/ GotConnack \/ GotPubrec \/ GotAck
           around == \/ MQTT_client_init \/ LibraryOpenLink \/ UseCall \/ UsePrepare \/ LibraryReturn
                     \/ LinkDrops /\ UNCHANGED <<selfVars, callVars, readVars, confirmed>>
                     \/ KeepAliveElapses \/ UNCHANGED clientVars
<1>4. CASE writes \/ local \/ around
  <2>1. UNCHANGED <<held, delivered>>
    <3>1. CASE writes
      BY <3>1
         DEF SendConnect, SendPubrel, SendDisconnect, SendPingReq, SendPacket, WriteFails
    <3>2. CASE local
      BY <3>2
         DEF ReadPacket, ReadEnds, ReadFails, NothingRead, ReadFailsHalfway, ReadRest,
             KeepAliveQuiet, KeepAliveDead, IgnorePacket, MalformedPacket, GotConnack, GotPubrec,
             GotAck, wanVars
    <3>3. CASE around
      BY <3>3
         DEF MQTT_client_init, LibraryOpenLink, OpenLink, UseCall, UsePrepare, MQTT_client_connect,
             ConnectRejected, ConnectStarts, UsePublish, MQTT_client_publish, PublishRejected,
             PublishStarts, MQTT_client_disconnect, LibraryReturn, LinkDrops,
             KeepAliveElapses, wanVars, clientVars
    <3>4. QED BY <1>4, <3>1, <3>2, <3>3
  <2>2. CASE PartOf(toBroker', toBroker) BY <1>0, <1>1, <2>1, <2>2, OrderFrame
  <2>3. CASE pc = "sendPublish"
    <3>1. ~writes /\ ~local
      BY <2>3
         DEF SendConnect, SendPubrel, SendDisconnect, SendPingReq, ReadPacket, ReadEnds,
             ReadFails, NothingRead, ReadFailsHalfway, ReadRest, KeepAliveQuiet, KeepAliveDead,
             IgnorePacket, MalformedPacket, GotConnack, GotPubrec,
             GotAck
    <3>2. UNCHANGED toBroker \/ toBroker' = << >>
      BY <1>4, <3>1
         DEF MQTT_client_init, LibraryOpenLink, OpenLink, UseCall, UsePrepare, MQTT_client_connect,
             ConnectRejected, ConnectStarts, UsePublish, MQTT_client_publish, PublishRejected,
             PublishStarts, MQTT_client_disconnect, LibraryReturn, LinkDrops,
             KeepAliveElapses, wanVars, clientVars
    <3>3. QED BY <1>0, <2>2, <3>2, OrderTypes, SameIsPart, EmptyIsPart
  <2>4. CASE \E q : toBroker' = Append(toBroker, q) /\ q.kind # "PUBLISH"
    BY <1>0, <1>1, <2>1, <2>4, OrderFrame
  <2>5. QED BY <1>0, <2>2, <2>3, <2>4, StreamStep
<1> HIDE DEF writes, local, around
<1>5. writes \/ local \/ around \/ SendPublish \/ (Broker /\ UNCHANGED <<selfVars, callVars, readVars, confirmed>>)
  BY DEF UseNext, ClientStep, Proceed, WanStep, writes, local, around
<1>6. QED BY <1>2, <1>3, <1>4, <1>5

LEMMA OrderInvariant == UseSpec => [](~strayed => OrderInv)
<1>1. ClientInit => OrderInv
  BY DEF ClientInit, WanInit, NoMessage, OrderInv, InOrder, IsPublish, Fresh, Under
<1>2. /\ ~strayed => ExchangeInv
      /\ ~strayed => OrderInv
      /\ [UseNext]_clientVars
      => (~strayed => OrderInv)'
  BY StrayedStays, OrderStep
<1>3. QED BY <1>1, <1>2, ExchangeInvariant, PTL DEF UseSpec

(* The broker accepts the messages in the order of the calls, none twice.   *)
LEMMA UseDeliveredInOrder == UseSpec => []DeliveredInOrder
<1>1. (~strayed => OrderInv) => DeliveredInOrder BY DEF OrderInv, InOrder, DeliveredInOrder
<1>2. QED BY <1>1, OrderInvariant, PTL

\* What the broker accepts is newer than all it has accepted, and no newer
\* than the message of the last call.
LEMMA AcceptStep ==
    ASSUME ClientTypeOK, OrderInv, Broker
    PROVE  \/ delivered' = delivered
           \/ \E b \in Nat : /\ delivered' = Append(delivered, b)
                            /\ Under(b, delivered) /\ Fresh(b, msg, pc)
<1>1. CASE BrokerPublish0 \/ BrokerPublish1
  <2>1. /\ toBroker # << >> /\ Head(toBroker).kind = "PUBLISH"
        /\ delivered' = Append(delivered, Head(toBroker).body)
    BY <1>1 DEF BrokerPublish0, BrokerPublish1, BrokerReads
  <2>2. 1 \in 1..Len(toBroker) /\ Head(toBroker) = toBroker[1]
    BY <2>1, HeadFacts, TypeParts
  <2>3. IsPublish(1) BY <2>1, <2>2 DEF IsPublish
  <2>4. QED BY <2>1, <2>2, <2>3, OrderTypes DEF OrderInv
<1>2. CASE BrokerPubrel
  <2> DEFINE released == {h \in held : h.id = Head(toBroker).id}
  <2>1. delivered' = IF released = {} THEN delivered
                     ELSE Append(delivered, (CHOOSE h \in released : TRUE).body)
    BY <1>2 DEF BrokerPubrel
  <2>2. ASSUME released # {} PROVE (CHOOSE h \in released : TRUE) \in held BY <2>2
  <2>3. QED BY <2>1, <2>2, OrderTypes DEF OrderInv
<1>3. CASE \/ BrokerAccepts \/ BrokerRefuses \/ BrokerPublish2 \/ BrokerPing
           \/ BrokerEnds \/ BrokerSkipsGarbage
  BY <1>3
     DEF BrokerAccepts, BrokerRefuses, BrokerPublish2, BrokerPing, BrokerEnds, BrokerSkipsGarbage
<1>4. QED BY <1>1, <1>2, <1>3 DEF Broker

-----------------------------------------------------------------------------
\* The results, for every proper caller and for the one the run checks.

(* Whoever calls the client one call at a time, with a connection and with  *)
(* new messages only, gets exchanges that cannot be mixed up, messages that *)
(* arrive in order and at most once, and a success that means accepted      *)
(* (checkPublishQos, 392-463, and its callers), until a PUBREC or CONNACK   *)
(* is acted upon that the broker did not write.                             *)
THEOREM ExchangeSafety ==
    UseSpec => [](/\ ClientTypeOK
                  /\ AckIsForThisPublish /\ OneExchange /\ PublishWellFormed
                  /\ ConfirmedDelivered /\ DeliveredInOrder /\ PingAccounted)
  BY UseTypeCorrect, UseAckIsForThisPublish, UseOneExchange, UsePublishWellFormed,
     UseConfirmedDelivered, UseDeliveredInOrder, UsePingAccounted, PTL

(* An acknowledgement that checkPublishQos takes is the one of the running  *)
(* publish, although it never compares the identifiers.                     *)
THEOREM AckIsForThisPublishInvariant == LibrarySpec => []AckIsForThisPublish
  BY LibraryIsUse, UseAckIsForThisPublish, PTL

(* There is never more than one packet of an exchange on its way, over both *)
(* directions of the connection.                                            *)
THEOREM OneExchangeInvariant == LibrarySpec => []OneExchange
  BY LibraryIsUse, UseOneExchange, PTL

(* Only a broker that has accepted the session is sent messages (560), and  *)
(* every one that is to be acknowledged has an identifier (22-38).          *)
THEOREM PublishWellFormedInvariant == LibrarySpec => []PublishWellFormed
  BY LibraryIsUse, UsePublishWellFormed, PTL

(* MQTT_client_publish reports an acknowledged message only if the broker   *)
(* has it.                                                                  *)
THEOREM ConfirmedDeliveredInvariant == LibrarySpec => []ConfirmedDelivered
  BY LibraryIsUse, UseConfirmedDelivered, PTL

(* The broker accepts the messages in the order of the calls, none twice.   *)
THEOREM DeliveredInOrderInvariant == LibrarySpec => []DeliveredInOrder
  BY LibraryIsUse, UseDeliveredInOrder, PTL

(* isPingOutstanding is set only while the PINGREQ or its answer is on its  *)
(* way (waitForNextPacket).                                                 *)
THEOREM PingAccountedInvariant == LibrarySpec => []PingAccounted
  BY LibraryIsUse, UsePingAccounted, PTL
=============================================================================
