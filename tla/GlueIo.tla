------------------------------- MODULE GlueIo -------------------------------
(***************************************************************************)
(* glue_tls_mqtt.c: glue_tls_mqtt_write and glue_tls_mqtt_read.  Both move *)
(* a given number of bytes between a buffer and the TLS layer, in as many  *)
(* parts as the TLS layer likes, until all are moved, an error is reported *)
(* or the time is up.                                                      *)
(*                                                                         *)
(* Bytes are numbered: the callers write the bytes 1, 2, 3, ... and the    *)
(* peer sends the bytes 1, 2, 3, ..., so that losing, repeating or         *)
(* swapping bytes can be seen.                                             *)
(***************************************************************************)
EXTENDS Integers, Sequences

CONSTANTS
    TimeModulus,    \* 2^64, the range of the uint64_t times
    FirstTime,      \* time in ms when the first call is made
    MaxTime,        \* bound on the clock
    MaxLen,         \* bound on the length of a transfer
    MaxBytes,       \* bound on the bytes moved in each direction
    Limits,         \* values of timeout_ms; -1 stands for no limit
    ClockFails      \* TimeServer_getTime may return an error

\* The first call comes more than a millisecond after the TimeServer started,
\* and neither the clock nor a limit comes near the range of the integers.
ASSUME TimeAssumption ==
    /\ FirstTime \in Nat /\ 1 < FirstTime /\ FirstTime <= MaxTime
    /\ MaxTime \in Nat /\ TimeModulus \in Nat /\ MaxTime < TimeModulus - 1
    /\ Limits \subseteq Int
    /\ \A t \in Limits : -1 <= t /\ t + MaxTime < TimeModulus
ASSUME LengthAssumption == MaxLen \in Nat \ {0} /\ MaxBytes \in Nat
ASSUME ClockAssumption == ClockFails \in BOOLEAN

VARIABLES
    pc,             \* "idle": no call; "test": at the loop condition; "io": in the body
    op, len, limit, \* the call: "write" or "read", and its arguments
    entryTime,
    moved,          \* writtenLen or readLen; remainingLen is len - moved
    buf,            \* the caller's buffer
    ret,            \* result of the last call, "none" during a call
    clock,          \* time in ms
    clockFailed,    \* the clock failed during this call (history)
    offered,        \* bytes the callers wanted to write so far (history)
    outgoing,       \* bytes handed to OS_Tls_write, in order
    taken           \* bytes taken from OS_Tls_read

callVars   == <<op, len, limit, entryTime>>
streamVars == <<offered, outgoing, taken>>
glueVars   == <<pc, callVars, moved, buf, ret, clock, clockFailed, streamVars>>

-----------------------------------------------------------------------------

\* What glue_tls_mqtt_getTimeMs may return: 0 stands for an error.
Readings == IF ClockFails THEN {clock, 0} ELSE {clock}

\* Differences of uint64_t wrap around.
\* Mutant: the time is measured from the last look at the clock.
Mut_ElapsedRestarts(now) == 0
Elapsed(now) == IF now >= entryTime THEN now - entryTime ELSE now - entryTime + TimeModulus

\* The comparison of the difference with the int timeout_ms is an unsigned one.
\* Mutant: it is a signed one.
Mut_SignedLimit == limit
UnsignedLimit == IF limit < 0 THEN limit + TimeModulus ELSE limit

Finish(result) == pc' = "idle" /\ ret' = result

\* A caller enters the function; without a time there is no transfer.
Enter ==
    /\ pc = "idle"
    /\ \E o \in {"write", "read"}, n \in 1..MaxLen, t \in Limits, now \in Readings :
          /\ (IF o = "write" THEN offered ELSE taken) + n <= MaxBytes
          /\ clock + t < MaxTime
          /\ op' = o /\ len' = n /\ limit' = t /\ entryTime' = now
          /\ buf' = [i \in 1..n |-> IF o = "write" THEN offered + i ELSE 0]
          /\ offered' = IF o = "write" THEN offered + n ELSE offered
          /\ clockFailed' = (now = 0)
          /\ IF now = 0 THEN Finish("failure") ELSE pc' = "test" /\ ret' = "none"
    /\ moved' = 0
    /\ UNCHANGED <<clock, outgoing, taken>>

\* The loop condition, and what follows when it is false.
AllMoved ==
    /\ pc = "test" /\ moved = len
    /\ Finish("success")
    /\ UNCHANGED <<callVars, moved, buf, clock, clockFailed, streamVars>>

CheckTime ==
    /\ pc = "test" /\ moved < len
    /\ \E now \in Readings :
          /\ clockFailed' = (clockFailed \/ now = 0)
          /\ IF Elapsed(now) < UnsignedLimit THEN pc' = "io" /\ ret' = ret
             ELSE Finish("timeout")
    /\ UNCHANGED <<callVars, moved, buf, clock, streamVars>>

\* Mutant: the written part does not advance the pointer into the buffer.
Mut_WriteFromStart ==
    /\ pc = "io" /\ op = "write"
    /\ \E n \in 0..(len - moved) :
          /\ moved' = moved + n
          /\ outgoing' = outgoing \o SubSeq(buf, 1, n)
    /\ pc' = "test"
    /\ UNCHANGED <<callVars, buf, ret, clock, clockFailed, offered, taken>>

\* OS_Tls_write took n bytes.
TlsWrites ==
    /\ pc = "io" /\ op = "write"
    /\ \E n \in 0..(len - moved) :
          /\ moved' = moved + n
          /\ outgoing' = outgoing \o SubSeq(buf, moved + 1, moved + n)
    /\ pc' = "test"
    /\ UNCHANGED <<callVars, buf, ret, clock, clockFailed, offered, taken>>

\* Mutant: every part is asked for with the length of the whole transfer.
Mut_ReadAsksForAll ==
    /\ pc = "io" /\ op = "read"
    /\ \E n \in 0..len :
          /\ moved' = moved + n
          /\ buf' = [i \in 1..len |-> IF i \in (moved + 1)..(moved + n) THEN taken + (i - moved) ELSE buf[i]]
          /\ taken' = taken + n
    /\ pc' = "test"
    /\ UNCHANGED <<callVars, ret, clock, clockFailed, offered, outgoing>>

\* Mutant: the parts of a read are all put at the start of the buffer.
Mut_ReadToStart ==
    /\ pc = "io" /\ op = "read"
    /\ \E n \in 0..(len - moved) :
          /\ moved' = moved + n
          /\ buf' = [i \in 1..len |-> IF i <= n THEN taken + i ELSE buf[i]]
          /\ taken' = taken + n
    /\ pc' = "test"
    /\ UNCHANGED <<callVars, ret, clock, clockFailed, offered, outgoing>>

\* OS_Tls_read gave n bytes.
TlsReads ==
    /\ pc = "io" /\ op = "read"
    /\ \E n \in 0..(len - moved) :
          /\ moved' = moved + n
          /\ buf' = [i \in 1..len |-> IF i \in (moved + 1)..(moved + n) THEN taken + (i - moved) ELSE buf[i]]
          /\ taken' = taken + n
    /\ pc' = "test"
    /\ UNCHANGED <<callVars, ret, clock, clockFailed, offered, outgoing>>

\* OS_ERROR_WOULD_BLOCK: yield, and try again.
WouldBlock ==
    /\ pc = "io"
    /\ pc' = "test"
    /\ UNCHANGED <<callVars, moved, buf, ret, clock, clockFailed, streamVars>>

TlsFails ==
    /\ pc = "io"
    /\ Finish("failure")
    /\ UNCHANGED <<callVars, moved, buf, clock, clockFailed, streamVars>>

\* A millisecond passes.
Tick ==
    /\ clock < MaxTime
    /\ clock' = clock + 1
    /\ UNCHANGED <<pc, callVars, moved, buf, ret, clockFailed, streamVars>>

Transfer == AllMoved \/ CheckTime \/ TlsWrites \/ TlsReads \/ WouldBlock \/ TlsFails

GlueInit ==
    /\ pc = "idle" /\ op = "write" /\ len = 0 /\ limit = 0 /\ entryTime = 0
    /\ moved = 0 /\ buf = << >> /\ ret = "none"
    /\ clock = FirstTime /\ clockFailed = FALSE
    /\ offered = 0 /\ outgoing = << >> /\ taken = 0

GlueNext == Enter \/ Transfer \/ Tick

GlueSpec == GlueInit /\ [][GlueNext]_glueVars

\* The thread runs, and time passes.
GlueFairSpec == GlueSpec /\ WF_glueVars(Transfer) /\ WF_glueVars(Tick)

-----------------------------------------------------------------------------
(* Type correctness; in particular a transfer never moves more than it was  *)
(* asked for, so that remainingLen does not wrap around.                    *)
GlueTypeOK ==
    /\ pc \in {"idle", "test", "io"}
    /\ op \in {"write", "read"}
    /\ len \in Nat /\ moved \in 0..len
    /\ limit \in Int /\ entryTime \in Nat
    /\ buf \in Seq(Nat) /\ Len(buf) = len
    /\ ret \in {"none", "success", "failure", "timeout"}
    /\ clock \in Nat /\ clockFailed \in BOOLEAN
    /\ offered \in Nat /\ outgoing \in Seq(Nat) /\ taken \in Nat

-----------------------------------------------------------------------------

(* A call reports MQTT_TIMEOUT only if it has a limit, and only when that   *)
(* time has passed or the clock has failed on the way.  The -1 of callers   *)
(* without a timer works only through the conversion to unsigned at 320 and *)
(* 376, and a failing clock (0) makes the difference wrap around.           *)
TimeoutIsReal ==
    ret = "timeout" =>
        /\ limit # -1
        /\ clockFailed \/ clock - entryTime >= limit

(* The TLS layer gets no byte twice and none out of order over all calls,   *)
(* also after calls that failed half way; and what a successful write was   *)
(* given is what the TLS layer got last, as a whole.                        *)
WrittenInOrder ==
    /\ \A i, j \in 1..Len(outgoing) : i < j => outgoing[i] < outgoing[j]
    /\ ret = "success" /\ op = "write" =>
           /\ len <= Len(outgoing)
           /\ \A i \in 1..len : outgoing[Len(outgoing) - len + i] = buf[i]

(* A successful read has filled the whole buffer with the bytes that were   *)
(* next in the stream, in order, whatever the parts they came in.           *)
ReadInOrder ==
    ret = "success" /\ op = "read" =>
        \A i \in 1..len : buf[i] = (taken - len) + i

(* A call with a limit returns, though the peer is silent, the TLS layer    *)
(* accepts nothing or the clock fails.                                      *)
LimitedCallReturns == pc # "idle" /\ limit # -1 ~> pc = "idle"
=============================================================================
