------------------------------ MODULE MqttNet ------------------------------
(***************************************************************************)
(* MQTT_net.c: MQTT_network_readPacket cuts the byte stream of the TLS     *)
(* connection into packets.  A packet is a header byte, its remaining      *)
(* length in digits of base 128 (least significant first, bit 7 says that  *)
(* another one follows), and that many bytes of payload.                   *)
(*                                                                         *)
(* The base, the number of length bytes and the buffer are parameters, so  *)
(* that an instance has short packets of every kind of length.             *)
(***************************************************************************)
EXTENDS Naturals, Sequences, SequencesExt

CONSTANTS
    Base,           \* 128: a byte is a digit below Base, plus Base if more follow
    MaxLenBytes,    \* 4
    BufferSize,     \* bufferSize of the caller
    Types,          \* header bytes of the packets the peer sends
    Lengths,        \* lengths of their payloads
    MaxPackets,     \* bound on the packets sent
    ReadsFail       \* MQTT_network_read may fail

ASSUME BaseAssumption == Base \in Nat /\ Base > 1
\* The longest header fits the buffer, so that the space left is not negative.
ASSUME BufferAssumption ==
    /\ MaxLenBytes \in Nat \ {0} /\ BufferSize \in Nat /\ BufferSize > MaxLenBytes
\* What a digit counts that has n digits before it (shift).
Power[n \in Nat] == IF n = 0 THEN 1 ELSE Base * Power[n - 1]

ASSUME PacketAssumption ==
    /\ Types \subseteq 0..(2 * Base - 1)
    /\ Lengths \subseteq 0..(Power[MaxLenBytes] - 1)
    /\ MaxPackets \in Nat /\ ReadsFail \in BOOLEAN

VARIABLES
    stream,         \* bytes that were sent and not yet read
    netPc,          \* "idle", or which part of a packet is read next
    buffer,         \* what was put into the caller's buffer
    tmpPacketLen,   \* value of the length bytes read so far
    cntBytes,       \* number of these
    payloadLen,
    netRet,         \* result of the last call
    sent, received, \* packets sent and packets returned (histories)
    inStep          \* no part of a packet was left in the stream (history)

lenVars == <<tmpPacketLen, cntBytes>>
netVars == <<stream, netPc, buffer, lenVars, payloadLen, netRet, sent, received, inStep>>

-----------------------------------------------------------------------------

\* MQTTPacket_encode of the packet library, which the peer uses as well.
Encode[n \in Nat] ==
    IF n < Base THEN <<n>> ELSE <<Base + (n % Base)>> \o Encode[n \div Base]

Payload(len) == [i \in 1..len |-> i % (2 * Base)]

\* Bytes of a packet.
Packet(type, len) == <<type>> \o Encode[len] \o Payload(len)

PeerSends ==
    /\ Len(sent) < MaxPackets
    /\ \E t \in Types, n \in Lengths :
          /\ stream' = stream \o Packet(t, n)
          /\ sent' = Append(sent, Packet(t, n))
    /\ UNCHANGED <<netPc, buffer, lenVars, payloadLen, netRet, received, inStep>>

\* MQTT_network_read of n bytes.
Take(n) == Len(stream) >= n /\ stream' = SubSeq(stream, n + 1, Len(stream))

EndRead(result) == netPc' = "idle" /\ netRet' = result

\* The packet type, a part of the header byte, is returned; the caller finds the
\* whole packet in the buffer.
ReturnPacket ==
    /\ EndRead("packet")
    /\ received' = Append(received, buffer')
    /\ UNCHANGED inStep

\* An error that leaves the rest of the packet in the stream.
Abandon(result) == EndRead(result) /\ inStep' = FALSE /\ UNCHANGED received

MQTT_network_readPacket ==
    /\ netPc = "idle"
    /\ netPc' = "header"
    /\ UNCHANGED <<stream, buffer, lenVars, payloadLen, netRet, sent, received, inStep>>

ReadHeader ==
    /\ netPc = "header"
    /\ Take(1)
    /\ buffer' = <<Head(stream)>>
    /\ tmpPacketLen' = 0 /\ cntBytes' = 0
    /\ netPc' = "length"
    /\ UNCHANGED <<payloadLen, netRet, sent, received, inStep>>

\* Mutant: the offset of the payload is forgotten.
Mut_NoOffset(len, offset) == len <= BufferSize

\* Mutant: the last byte of the buffer is not used.
Mut_StrictlySmaller(len, offset) == len < BufferSize - offset

Fits(len, offset) == len <= BufferSize - offset

\* The length is known and was put back into the buffer.
LengthKnown(len) ==
    /\ payloadLen' = len
    /\ buffer' = buffer \o Encode[len]
    /\ IF len = 0 THEN ReturnPacket
       ELSE IF Fits(len, Len(buffer')) THEN netPc' = "payload" /\ UNCHANGED <<netRet, received, inStep>>
       ELSE Abandon("MQTT_BUFFER_OVERFLOW")

\* Mutant: the digits are taken most significant first.
Mut_DigitsSwapped(byte) == tmpPacketLen * Base + (byte % Base)

\* Value of the length bytes with one more.
WithByte(byte) == tmpPacketLen + (byte % Base) * Power[cntBytes]

\* MQTT_network_readAndDecodePacketLength reads bytes up to one without bit 7.
ReadLengthByte ==
    /\ netPc = "length"
    /\ Take(1)
    /\ tmpPacketLen' = WithByte(Head(stream)) /\ cntBytes' = cntBytes + 1
    /\ IF Head(stream) < Base THEN LengthKnown(tmpPacketLen')
       ELSE /\ UNCHANGED <<buffer, payloadLen>>
            /\ IF cntBytes' < MaxLenBytes THEN UNCHANGED <<netPc, netRet, received, inStep>>
               ELSE Abandon("MQTT_FAILURE")
    /\ UNCHANGED sent

\* Mutant: the payload is put where the length bytes are.
Mut_PayloadOverLength ==
    /\ netPc = "payload"
    /\ Take(payloadLen)
    /\ buffer' = SubSeq(buffer, 1, 1) \o SubSeq(stream, 1, payloadLen)
    /\ ReturnPacket
    /\ UNCHANGED <<lenVars, payloadLen, sent>>

ReadPayload ==
    /\ netPc = "payload"
    /\ Take(payloadLen)
    /\ buffer' = buffer \o SubSeq(stream, 1, payloadLen)
    /\ ReturnPacket
    /\ UNCHANGED <<lenVars, payloadLen, sent>>

\* A read of n bytes that fails has taken fewer than n; if it was the header
\* nothing of the packet is lost.
ReadFails ==
    /\ ReadsFail /\ netPc # "idle"
    /\ \E k \in 0..(IF netPc = "payload" THEN payloadLen - 1 ELSE 0) : Take(k)
    /\ EndRead("error")
    /\ inStep' = (inStep /\ netPc = "header")
    /\ UNCHANGED <<buffer, lenVars, payloadLen, sent, received>>

NetInit ==
    /\ stream = << >> /\ netPc = "idle" /\ buffer = << >>
    /\ tmpPacketLen = 0 /\ cntBytes = 0 /\ payloadLen = 0 /\ netRet = "none"
    /\ sent = << >> /\ received = << >> /\ inStep = TRUE

NetNext ==
    \/ PeerSends
    \/ MQTT_network_readPacket \/ ReadHeader \/ ReadLengthByte \/ ReadPayload \/ ReadFails

NetSpec == NetInit /\ [][NetNext]_netVars

-----------------------------------------------------------------------------
Bytes == 0..(2 * Base - 1)

(* Type correctness; in particular nothing is ever written behind the end   *)
(* of the caller's buffer, also when the bytes are read out of step.        *)
NetTypeOK ==
    /\ stream \in Seq(Bytes)
    /\ netPc \in {"idle", "header", "length", "payload"}
    /\ buffer \in Seq(Bytes) /\ Len(buffer) <= BufferSize
    /\ netPc = "payload" => Len(buffer) + payloadLen <= BufferSize
    /\ tmpPacketLen \in 0..(Power[MaxLenBytes] - 1) /\ cntBytes \in 0..MaxLenBytes
    /\ payloadLen \in 0..(Power[MaxLenBytes] - 1)
    /\ netRet \in {"none", "packet", "error", "MQTT_FAILURE", "MQTT_BUFFER_OVERFLOW"}
    /\ sent \in Seq(Seq(Bytes)) /\ received \in Seq(Seq(Bytes)) /\ inStep \in BOOLEAN

(* As long as no packet was abandoned half way, MQTT_network_readPacket     *)
(* returns the packets that were sent, whole and in order, and the stream   *)
(* holds the ones that follow: what Wan takes for granted.                  *)
FramingKept ==
    inStep =>
        /\ IsPrefix(received, sent)
        /\ netPc = "idle" => FlattenSeq(received) \o stream = FlattenSeq(sent)

(* While in step the reader gives a packet up only if it does not fit the   *)
(* buffer or the network fails: every length that can be encoded is         *)
(* accepted, and a packet may fill the buffer to the last byte.             *)
OnlyTooLargeRejected ==
    [][inStep /\ netRet' \in {"MQTT_FAILURE", "MQTT_BUFFER_OVERFLOW"} /\ netPc = "length" /\ netPc' = "idle"
         => Len(sent[Len(received) + 1]) > BufferSize]_netVars
=============================================================================
