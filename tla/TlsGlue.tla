------------------------------ MODULE TlsGlue ------------------------------
(***************************************************************************)
(* glue_tls_mqtt.c: glue_tls_init and glue_tls_handshake, called one after *)
(* the other by the CloudConnector.  Crypto and TLS libraries are set up,  *)
(* the network stack is awaited, and a socket is connected by waiting for  *)
(* its events.                                                             *)
(*                                                                         *)
(* The network stack is external: it keeps one mask of pending events per  *)
(* socket and a notification.  Events that come before the mask is read    *)
(* are merged, and a notification may be left over from events that were   *)
(* read already.                                                           *)
(***************************************************************************)
CONSTANTS
    Faults,         \* what may fail: a subset of FaultKinds
    ErrorCodes      \* values of currentError of an error event

FaultKinds == {"crypto", "tls", "create", "connect", "wait", "events", "count", "handle", "handshake"}

ASSUME FaultsAssumption == Faults \subseteq FaultKinds

\* An error event carries an error.
ASSUME ErrorAssumption == "OS_SUCCESS" \notin ErrorCodes

VARIABLES
    pc,             \* position in glue_tls_init and glue_tls_handshake
    ret,            \* result of glue_tls_init so far
    stack,          \* state of the network stack: "starting", "RUNNING" or "FATAL_ERROR"
    socket,         \* "none", "open" or "closed"
    link,           \* what the stack knows of the connection of the socket
    eventMask,      \* pending events of the socket
    currentError,   \* of the last error event
    notified,       \* OS_Socket_wait would return
    events,         \* events read from the stack so far (history)
    faulted         \* a call of the platform failed (history)

stackVars  == <<stack, link, eventMask, currentError, notified>>
tlsVars    == <<pc, ret, stackVars, socket, events, faulted>>

-----------------------------------------------------------------------------
(* The network stack.                                                       *)

\* It comes up, or does not.
StackStarts ==
    /\ stack = "starting"
    /\ stack' \in {"RUNNING", "FATAL_ERROR"}
    /\ UNCHANGED <<pc, ret, link, eventMask, currentError, notified, socket, events, faulted>>

Raise(event) == eventMask' = eventMask \union {event} /\ notified' = TRUE

\* What becomes of a connection; the last event ends it.
Established ==
    /\ link = "connecting" /\ link' = "established"
    /\ Raise("CONN_EST")
    /\ UNCHANGED currentError

PeerCloses ==
    /\ link = "established" /\ link' = "closing"
    /\ Raise("CLOSE")
    /\ UNCHANGED currentError

StackCloses ==
    /\ link \in {"connecting", "established", "closing"} /\ link' = "over"
    /\ Raise("FIN")
    /\ UNCHANGED currentError

LinkError ==
    /\ link \in {"connecting", "established"} /\ link' = "over"
    /\ Raise("ERROR")
    /\ currentError' \in ErrorCodes

\* Events that tell nothing about the connection.
OtherEvent ==
    /\ link \in {"connecting", "established"} /\ link' = link
    /\ Raise("WRITE")
    /\ UNCHANGED currentError

Outcome == Established \/ StackCloses \/ LinkError

LinkStep ==
    /\ Outcome \/ PeerCloses \/ OtherEvent
    /\ UNCHANGED <<pc, ret, stack, socket, events, faulted>>

-----------------------------------------------------------------------------
(* The client.                                                              *)

Return(result) == ret' = result /\ pc' = IF result = "OS_SUCCESS" THEN "handshake" ELSE "failed"

\* A platform call that does nothing but succeed or fail.
Call(from, to, fault) ==
    /\ pc = from
    /\ \/ pc' = to /\ UNCHANGED <<ret, faulted>>
       \/ fault \in Faults /\ Return("error") /\ faulted' = TRUE
    /\ UNCHANGED <<stackVars, socket, events>>

InitCrypto == Call("cryptoInit", "tlsInit", "crypto")

InitTls == Call("tlsInit", "waitStack", "tls")

\* Mutant: a stack that will not come up is waited for.
Mut_FatalIgnored ==
    /\ pc = "waitStack"
    /\ stack = "RUNNING" /\ pc' = "create"
    /\ UNCHANGED <<ret, stackVars, socket, events, faulted>>

\* Otherwise it yields and asks again.
WaitForNetworkStackInit ==
    /\ pc = "waitStack"
    /\ \/ stack = "RUNNING" /\ pc' = "create" /\ UNCHANGED ret
       \/ stack = "FATAL_ERROR" /\ Return("OS_ERROR_ABORTED")
    /\ UNCHANGED <<stackVars, socket, events, faulted>>

CreateSocket ==
    /\ pc = "create"
    /\ \/ pc' = "connect" /\ socket' = "open" /\ UNCHANGED <<ret, faulted>>
       \/ "create" \in Faults /\ Return("error") /\ faulted' = TRUE /\ UNCHANGED socket
    /\ UNCHANGED <<stackVars, events>>

\* After "break" or a failed connect, OS_Socket_close is the next call.
Break(result) == ret' = result /\ pc' = IF result = "OS_SUCCESS" THEN "handshake" ELSE "close"

\* Mutant: a socket that cannot be connected is not closed.
Mut_ConnectKeepsSocket ==
    /\ pc = "connect"
    /\ \/ pc' = "wait" /\ link' = "connecting" /\ UNCHANGED <<ret, faulted>>
       \/ "connect" \in Faults /\ Return("error") /\ faulted' = TRUE /\ UNCHANGED link
    /\ UNCHANGED <<stack, eventMask, currentError, notified, socket, events>>

ConnectSocket ==
    /\ pc = "connect"
    /\ \/ pc' = "wait" /\ link' = "connecting" /\ UNCHANGED <<ret, faulted>>
       \/ "connect" \in Faults /\ Break("error") /\ faulted' = TRUE /\ UNCHANGED link
    /\ UNCHANGED <<stack, eventMask, currentError, notified, socket, events>>

\* OS_Socket_wait blocks until there is a notification, and takes it.
WaitForEvent ==
    /\ pc = "wait"
    /\ \/ notified /\ notified' = FALSE /\ pc' = "pending" /\ UNCHANGED <<ret, faulted>>
       \/ "wait" \in Faults /\ Break("error") /\ faulted' = TRUE /\ UNCHANGED notified
    /\ UNCHANGED <<stack, link, eventMask, currentError, socket, events>>

\* OS_Socket_getPendingEvents fails, or tells of several sockets or another one.
PendingFails ==
    /\ pc = "pending"
    /\ \E f \in {"events", "count", "handle"} \intersect Faults :
          Break(CASE f = "events" -> "error"
                  [] f = "count"  -> "OS_ERROR_INVALID_STATE"
                  [] f = "handle" -> "OS_ERROR_INVALID_HANDLE")
    /\ faulted' = TRUE
    /\ UNCHANGED <<stackVars, socket, events>>

\* Mutant: a notification without events is an error.
Mut_NoEventsIsError ==
    /\ pc = "pending" /\ eventMask = {}
    /\ Break("OS_ERROR_INVALID_STATE")
    /\ UNCHANGED <<stackVars, socket, events, faulted>>

\* The notification was that of events read before.
NoPendingEvents ==
    /\ pc = "pending" /\ eventMask = {}
    /\ pc' = "wait"
    /\ UNCHANGED <<ret, stackVars, socket, events, faulted>>

\* Mutant: the established connection is looked for first.
Mut_EstablishedFirst ==
    IF "CONN_EST" \in eventMask THEN Break("OS_SUCCESS")
    ELSE IF "FIN" \in eventMask THEN Break("OS_ERROR_NETWORK_CONN_REFUSED")
    ELSE IF "CLOSE" \in eventMask THEN Break("OS_ERROR_CONNECTION_CLOSED")
    ELSE IF "ERROR" \in eventMask THEN Break(currentError)
    ELSE pc' = "wait" /\ UNCHANGED ret

\* Mutant: the flag is returned instead of an error code.
Mut_FlagAsResult ==
    IF "FIN" \in eventMask THEN Break("FIN")
    ELSE IF "CONN_EST" \in eventMask THEN Break("OS_SUCCESS")
    ELSE IF "CLOSE" \in eventMask THEN Break("CLOSE")
    ELSE IF "ERROR" \in eventMask THEN Break(currentError)
    ELSE pc' = "wait" /\ UNCHANGED ret

\* The flags of a mask are looked at in this order.
Dispatch ==
    IF "FIN" \in eventMask THEN Break("OS_ERROR_NETWORK_CONN_REFUSED")
    ELSE IF "CONN_EST" \in eventMask THEN Break("OS_SUCCESS")
    ELSE IF "CLOSE" \in eventMask THEN Break("OS_ERROR_CONNECTION_CLOSED")
    ELSE IF "ERROR" \in eventMask THEN Break(currentError)
    ELSE pc' = "wait" /\ UNCHANGED ret

\* OS_Socket_getPendingEvents takes the mask.
PendingEvents ==
    /\ pc = "pending" /\ eventMask # {}
    /\ Dispatch
    /\ events' = events \union eventMask
    /\ eventMask' = {}
    /\ UNCHANGED <<stack, link, currentError, notified, socket, faulted>>

\* A closed socket has no more events.
CloseSocket ==
    /\ pc = "close"
    /\ pc' = "failed"
    /\ socket' = "closed" /\ link' = "over" /\ eventMask' = {}
    /\ UNCHANGED <<ret, stack, currentError, notified, events, faulted>>

\* glue_tls_handshake; the socket stays as it is whatever the result.
Handshake ==
    /\ pc = "handshake"
    /\ pc' \in {"ready"} \union IF "handshake" \in Faults THEN {"noHandshake"} ELSE {}
    /\ faulted' = (faulted \/ pc' = "noHandshake")
    /\ UNCHANGED <<ret, stackVars, socket, events>>

GlueStep ==
    \/ InitCrypto \/ InitTls \/ WaitForNetworkStackInit
    \/ CreateSocket \/ ConnectSocket \/ WaitForEvent
    \/ PendingFails \/ NoPendingEvents \/ PendingEvents
    \/ CloseSocket \/ Handshake

TlsInit ==
    /\ pc = "cryptoInit" /\ ret = "OS_SUCCESS"
    /\ stack = "starting" /\ socket = "none" /\ link = "none"
    /\ eventMask = {} /\ currentError = "OS_SUCCESS" /\ notified = FALSE
    /\ events = {} /\ faulted = FALSE

TlsNext == GlueStep \/ StackStarts \/ LinkStep

TlsSpec == TlsInit /\ [][TlsNext]_tlsVars

\* The client runs; the stack starts or gives up, and so does a connection.
TlsFairSpec ==
    /\ TlsSpec
    /\ WF_tlsVars(GlueStep) /\ WF_tlsVars(StackStarts)
    /\ WF_tlsVars(Outcome /\ UNCHANGED <<pc, ret, stack, socket, events, faulted>>)

-----------------------------------------------------------------------------
EventKinds == {"CONN_EST", "CLOSE", "FIN", "ERROR", "WRITE"}

(* Type correctness.                                                        *)
TlsTypeOK ==
    /\ pc \in {"cryptoInit", "tlsInit", "waitStack", "create", "connect", "wait", "pending",
               "close", "failed", "handshake", "ready", "noHandshake"}
    /\ ret \in {"OS_SUCCESS", "error", "OS_ERROR_ABORTED", "OS_ERROR_INVALID_STATE",
                "OS_ERROR_INVALID_HANDLE", "OS_ERROR_NETWORK_CONN_REFUSED",
                "OS_ERROR_CONNECTION_CLOSED"} \union ErrorCodes
    /\ stack \in {"starting", "RUNNING", "FATAL_ERROR"}
    /\ socket \in {"none", "open", "closed"}
    /\ link \in {"none", "connecting", "established", "closing", "over"}
    /\ eventMask \subseteq EventKinds /\ events \subseteq EventKinds
    /\ currentError \in ErrorCodes \union {"OS_SUCCESS"}
    /\ notified \in BOOLEAN /\ faulted \in BOOLEAN

(* When glue_tls_init has failed no socket is left open, whichever of its   *)
(* calls failed; when it has succeeded the TLS layer gets an open one.      *)
SocketMatchesResult ==
    /\ pc = "failed" => ret # "OS_SUCCESS" /\ socket # "open"
    /\ pc \in {"handshake", "ready"} => ret = "OS_SUCCESS" /\ socket = "open"

(* The handshake starts only on a connection that the stack reported as     *)
(* established and had not reported as ended by then, though these reports  *)
(* may be merged.                                                           *)
HandshakeOnConnection ==
    pc \in {"handshake", "ready"} => "CONN_EST" \in events /\ "FIN" \notin events

(* glue_tls_init gives up only for a reason: the stack is dead, one of its  *)
(* calls failed, or the connection was reported as ended.  A notification   *)
(* that comes late or for an event of no interest is not a reason.          *)
GivesUpForAReason ==
    pc \in {"close", "failed"} =>
        faulted \/ stack = "FATAL_ERROR" \/ events \intersect {"FIN", "CLOSE", "ERROR"} # {}

(* glue_tls_init and the handshake end, whatever the stack does and however *)
(* notifications and events interleave with the reading of the mask.        *)
StartEnds == <>(pc \in {"failed", "ready", "noHandshake"})
=============================================================================
