--------------------------- MODULE TlsGlueProofs ---------------------------
(***************************************************************************)
(* Proofs about the start of the connection: what the result of            *)
(* glue_tls_init says about the socket and the connection.                 *)
(***************************************************************************)
EXTENDS TlsGlue, TLAPS

-----------------------------------------------------------------------------
\* The inductive invariant, in parts.

Telling == {"CONN_EST", "FIN", "CLOSE", "ERROR"}

\* Nothing has gone wrong, and the socket belongs to the position.
PositionInv ==
    /\ pc \in {"cryptoInit", "tlsInit", "waitStack", "create"} => socket = "none"
    /\ pc \in {"connect", "wait", "pending", "close"} => socket = "open"
    /\ pc \notin {"close", "failed", "handshake", "ready", "noHandshake"} =>
           events \intersect Telling = {}
    /\ pc \notin {"close", "failed"} => ret = "OS_SUCCESS"
    /\ pc = "close" => ret # "OS_SUCCESS"

\* The code of an error event that was not read yet.
ErrorInv == "ERROR" \in eventMask => currentError # "OS_SUCCESS"

TlsInv ==
    /\ TlsTypeOK /\ PositionInv /\ ErrorInv
    /\ SocketMatchesResult /\ HandshakeOnConnection /\ GivesUpForAReason

-----------------------------------------------------------------------------

LEMMA TlsInitInv == TlsInit => TlsInv
  BY DEF TlsInit, TlsInv, TlsTypeOK, PositionInv, ErrorInv, SocketMatchesResult,
         HandshakeOnConnection, GivesUpForAReason, EventKinds

LEMMA TlsStutterInv == ASSUME TlsInv, UNCHANGED tlsVars PROVE TlsInv'
  BY DEF tlsVars, stackVars, TlsInv, TlsTypeOK, PositionInv, ErrorInv, SocketMatchesResult,
         HandshakeOnConnection, GivesUpForAReason

\* The stack never touches what the client has decided.
LEMMA StackInv == ASSUME TlsInv, StackStarts \/ LinkStep PROVE TlsInv'
<1> USE DEF TlsInv
<1>1. UNCHANGED <<pc, ret, socket, events, faulted>>
  BY DEF StackStarts, LinkStep
<1>2. TlsTypeOK'
  <2>1. CASE StackStarts BY <2>1 DEF StackStarts, TlsTypeOK
  <2>2. CASE LinkStep
    <3>1. PICK event \in EventKinds : Raise(event)
      BY <2>2 DEF LinkStep, Outcome, Established, PeerCloses, StackCloses, LinkError, OtherEvent,
                  EventKinds
    <3>2. eventMask' \subseteq EventKinds /\ notified' \in BOOLEAN
      BY <3>1 DEF Raise, TlsTypeOK
    <3>3. /\ link' \in {"none", "connecting", "established", "closing", "over"}
          /\ currentError' \in ErrorCodes \union {"OS_SUCCESS"}
          /\ stack' = stack
      BY <2>2 DEF LinkStep, Outcome, Established, PeerCloses, StackCloses, LinkError, OtherEvent,
                  TlsTypeOK
    <3>4. QED BY <1>1, <3>2, <3>3 DEF TlsTypeOK
  <2>3. QED BY <2>1, <2>2
<1>3. PositionInv' BY <1>1 DEF PositionInv
<1>4. ErrorInv'
  <2>1. CASE StackStarts BY <2>1 DEF StackStarts, ErrorInv
  <2>2. CASE LinkStep
    BY <2>2, ErrorAssumption
       DEF LinkStep, Outcome, Established, PeerCloses, StackCloses, LinkError, OtherEvent,
           Raise, ErrorInv
  <2>3. QED BY <2>1, <2>2
<1>5. SocketMatchesResult' BY <1>1 DEF SocketMatchesResult
<1>6. HandshakeOnConnection' BY <1>1 DEF HandshakeOnConnection
<1>7. GivesUpForAReason'
  <2>1. stack = "FATAL_ERROR" => stack' = "FATAL_ERROR"
    BY DEF StackStarts, LinkStep
  <2>2. QED BY <1>1, <2>1 DEF GivesUpForAReason
<1>8. QED BY <1>2, <1>3, <1>4, <1>5, <1>6, <1>7

\* The calls up to the creation of the socket.
LEMMA PreparationInv ==
    ASSUME TlsInv, InitCrypto \/ InitTls \/ WaitForNetworkStackInit \/ CreateSocket
    PROVE  TlsInv'
<1> USE DEF TlsInv, Return, stackVars, TlsTypeOK, PositionInv, ErrorInv, SocketMatchesResult,
            HandshakeOnConnection, GivesUpForAReason, Telling
<1>1. CASE InitCrypto BY <1>1 DEF InitCrypto, Call
<1>2. CASE InitTls BY <1>2 DEF InitTls, Call
<1>3. CASE WaitForNetworkStackInit BY <1>3 DEF WaitForNetworkStackInit
<1>4. CASE CreateSocket
  <2>1. pc = "create" /\ UNCHANGED <<stack, link, eventMask, currentError, notified, events>>
    BY <1>4 DEF CreateSocket
  <2>2. \/ pc' = "connect" /\ socket' = "open" /\ ret' = ret /\ faulted' = faulted
        \/ pc' = "failed" /\ ret' = "error" /\ faulted' = TRUE /\ socket' = socket
    BY <1>4 DEF CreateSocket
  <2>3. events \intersect Telling = {} BY <2>1
  <2>4. QED BY <2>1, <2>2, <2>3
<1>5. QED BY <1>1, <1>2, <1>3, <1>4

\* The calls of the connected or connecting socket, but for the reading of events.
LEMMA SocketInv ==
    ASSUME TlsInv,
           \/ ConnectSocket \/ WaitForEvent \/ PendingFails \/ NoPendingEvents
           \/ CloseSocket \/ Handshake
    PROVE  TlsInv'
<1> USE DEF TlsInv, Break, stackVars, TlsTypeOK, PositionInv, ErrorInv, SocketMatchesResult,
            HandshakeOnConnection, GivesUpForAReason, Telling
<1>1. CASE ConnectSocket BY <1>1 DEF ConnectSocket
<1>2. CASE WaitForEvent BY <1>2 DEF WaitForEvent
<1>3. CASE PendingFails
  <2>1. PICK f \in {"events", "count", "handle"} :
          Break(CASE f = "events" -> "error"
                  [] f = "count"  -> "OS_ERROR_INVALID_STATE"
                  [] f = "handle" -> "OS_ERROR_INVALID_HANDLE")
    BY <1>3 DEF PendingFails
  <2>2. /\ ret' \in {"error", "OS_ERROR_INVALID_STATE", "OS_ERROR_INVALID_HANDLE"}
        /\ pc' = "close"
    BY <2>1
  <2>3. pc = "pending" /\ faulted' = TRUE /\ UNCHANGED <<stackVars, socket, events>>
    BY <1>3 DEF PendingFails
  <2>4. QED BY <2>2, <2>3
<1>4. CASE NoPendingEvents BY <1>4 DEF NoPendingEvents
<1>5. CASE CloseSocket BY <1>5 DEF CloseSocket
<1>6. CASE Handshake BY <1>6 DEF Handshake
<1>7. QED BY <1>1, <1>2, <1>3, <1>4, <1>5, <1>6

\* Reading the mask: what each result says about the events read so far.
LEMMA PendingEventsInv == ASSUME TlsInv, PendingEvents PROVE TlsInv'
<1> USE DEF TlsInv
<1>1. /\ pc = "pending" /\ Dispatch
      /\ events' = events \union eventMask /\ eventMask' = {}
      /\ UNCHANGED <<stack, link, currentError, notified, socket, faulted>>
  BY DEF PendingEvents
<1>2. \/ /\ pc' = "handshake" /\ ret' = "OS_SUCCESS"
         /\ "CONN_EST" \in eventMask /\ "FIN" \notin eventMask
      \/ /\ pc' = "close" /\ ret' # "OS_SUCCESS"
         /\ ret' \in {"OS_ERROR_NETWORK_CONN_REFUSED", "OS_ERROR_CONNECTION_CLOSED"} \union ErrorCodes
         /\ eventMask \intersect {"FIN", "CLOSE", "ERROR"} # {}
      \/ /\ pc' = "wait" /\ ret' = ret
         /\ eventMask \intersect Telling = {}
  BY <1>1 DEF Dispatch, Break, ErrorInv, TlsTypeOK, Telling
<1>3. socket = "open" /\ events \intersect Telling = {} /\ ret = "OS_SUCCESS"
  BY <1>1 DEF PositionInv
<1>4. TlsTypeOK' BY <1>1, <1>2 DEF TlsTypeOK
<1>5. PositionInv' BY <1>1, <1>2, <1>3 DEF PositionInv
<1>6. ErrorInv' BY <1>1 DEF ErrorInv
<1>7. SocketMatchesResult' BY <1>1, <1>2, <1>3 DEF SocketMatchesResult
<1>8. HandshakeOnConnection' BY <1>1, <1>2, <1>3 DEF HandshakeOnConnection, Telling
<1>9. GivesUpForAReason' BY <1>1, <1>2 DEF GivesUpForAReason
<1>10. QED BY <1>4, <1>5, <1>6, <1>7, <1>8, <1>9

LEMMA TlsInvariant == TlsSpec => []TlsInv
<1>1. ASSUME TlsInv, [TlsNext]_tlsVars PROVE TlsInv'
  BY <1>1, TlsStutterInv, StackInv, PreparationInv, SocketInv, PendingEventsInv
     DEF TlsNext, GlueStep
<1>2. QED BY <1>1, TlsInitInv, PTL DEF TlsSpec

-----------------------------------------------------------------------------
\* The theorems: for every set of faults and error codes.

(* The types of glue_tls_init, its result and the state of the stack.       *)
THEOREM TlsTypeCorrect == TlsSpec => []TlsTypeOK
<1>1. TlsInv => TlsTypeOK BY DEF TlsInv
<1>2. QED BY <1>1, TlsInvariant, PTL

(* connectSocket leaves no socket open when it fails, and an open one when  *)
(* it succeeds.                                                             *)
THEOREM SocketMatchesResultInvariant == TlsSpec => []SocketMatchesResult
<1>1. TlsInv => SocketMatchesResult BY DEF TlsInv
<1>2. QED BY <1>1, TlsInvariant, PTL

(* The handshake starts only on a connection reported as established and    *)
(* not reported as finished, in whatever way the reports were merged.       *)
THEOREM HandshakeOnConnectionInvariant == TlsSpec => []HandshakeOnConnection
<1>1. TlsInv => HandshakeOnConnection BY DEF TlsInv
<1>2. QED BY <1>1, TlsInvariant, PTL

(* Late notifications and events of no interest never make glue_tls_init    *)
(* fail.                                                                    *)
THEOREM GivesUpForAReasonInvariant == TlsSpec => []GivesUpForAReason
<1>1. TlsInv => GivesUpForAReason BY DEF TlsInv
<1>2. QED BY <1>1, TlsInvariant, PTL
=============================================================================
