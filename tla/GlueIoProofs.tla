---------------------------- MODULE GlueIoProofs ----------------------------
(***************************************************************************)
(* Proofs about the transfer loops of glue_tls_mqtt.c: types, the meaning  *)
(* of a timeout, and the order of the bytes in both directions.            *)
(***************************************************************************)
EXTENDS GlueIo, SequenceTheorems, TLAPS

InCall == pc # "idle"

\* The arguments and the buffer still belong to the bytes moved.
BufferInUse == InCall \/ ret = "success"

-----------------------------------------------------------------------------
\* The inductive invariant, in parts.

\* A call has read a clock that works; time only grows.
TimeInv ==
    /\ FirstTime <= clock /\ clock <= MaxTime
    /\ InCall => limit \in Limits /\ 1 < entryTime /\ entryTime <= clock

ResultInv ==
    /\ InCall => ret = "none"
    /\ ret = "success" => moved = len

\* outgoing ends with the part of the buffer that was moved; what comes before
\* belongs to earlier calls.
WriteInv ==
    /\ \A i, j \in 1..Len(outgoing) : i < j => outgoing[i] < outgoing[j]
    /\ \A i \in 1..Len(outgoing) : outgoing[i] <= offered
    /\ op = "write" /\ BufferInUse =>
           /\ moved <= Len(outgoing) /\ len <= offered
           /\ \A i \in 1..len : buf[i] = (offered - len) + i
           /\ \A i \in 1..moved : outgoing[(Len(outgoing) - moved) + i] = buf[i]
           /\ \A i \in 1..(Len(outgoing) - moved) : outgoing[i] <= offered - len

ReadInv ==
    op = "read" /\ BufferInUse =>
        /\ moved <= taken
        /\ \A i \in 1..moved : buf[i] = (taken - moved) + i

GlueInv ==
    /\ GlueTypeOK /\ TimeInv /\ ResultInv
    /\ TimeoutIsReal /\ WriteInv /\ ReadInv

-----------------------------------------------------------------------------
\* Buffers given by a formula are sequences.
LEMMA BufferType ==
    ASSUME NEW n \in Nat, NEW f(_), \A i \in 1..n : f(i) \in Nat
    PROVE  /\ [i \in 1..n |-> f(i)] \in Seq(Nat)
           /\ Len([i \in 1..n |-> f(i)]) = n
  OBVIOUS

LEMMA GlueInitInv == GlueInit => GlueInv
<1> SUFFICES ASSUME GlueInit PROVE GlueInv OBVIOUS
<1> USE DEF GlueInit
<1>1. << >> \in Seq(Nat) /\ Len(<< >>) = 0
  OBVIOUS
<1>2. GlueTypeOK
  <2>1. clock \in Nat BY TimeAssumption
  <2>2. buf \in Seq(Nat) /\ Len(buf) = len /\ outgoing \in Seq(Nat)
    BY <1>1, Zenon
  <2>3. moved \in 0..len /\ len \in Nat /\ limit \in Int /\ entryTime \in Nat
        /\ offered \in Nat /\ taken \in Nat
    OBVIOUS
  <2>4. QED BY <2>1, <2>2, <2>3 DEF GlueTypeOK
<1>3. TimeInv
  <2>1. FirstTime <= MaxTime BY TimeAssumption
  <2>2. QED BY <2>1, TimeAssumption DEF TimeInv, InCall
<1>4. WriteInv BY <1>1 DEF WriteInv, BufferInUse, InCall
<1>5. QED BY <1>2, <1>3, <1>4 DEF GlueInv, ResultInv, TimeoutIsReal, ReadInv, BufferInUse, InCall

LEMMA StutterInv == ASSUME GlueInv, UNCHANGED glueVars PROVE GlueInv'
  BY DEF GlueInv, GlueTypeOK, TimeInv, ResultInv, TimeoutIsReal, WriteInv, ReadInv,
         InCall, BufferInUse, glueVars, callVars, streamVars

LEMMA TickInv == ASSUME GlueInv, Tick PROVE GlueInv'
<1> USE DEF GlueInv, Tick, callVars, streamVars
<1>1. GlueTypeOK' BY DEF GlueTypeOK
<1>2. TimeInv' BY TimeAssumption DEF TimeInv, InCall, GlueTypeOK
<1>3. TimeoutIsReal' BY DEF TimeoutIsReal, GlueTypeOK
<1>4. ResultInv' BY DEF ResultInv, InCall
<1>5. WriteInv' BY DEF WriteInv, BufferInUse, InCall
<1>6. ReadInv' BY DEF ReadInv, BufferInUse, InCall
<1>7. QED BY <1>1, <1>2, <1>3, <1>4, <1>5, <1>6

-----------------------------------------------------------------------------
\* One call.

\* What the two kinds of clock readings mean for the loop condition.
LEMMA TimeUp ==
    ASSUME GlueInv, InCall, NEW now \in Readings, ~(Elapsed(now) < UnsignedLimit)
    PROVE  limit # -1 /\ (now = 0 \/ clock - entryTime >= limit)
<1>1. /\ limit \in Int /\ -1 <= limit /\ limit + MaxTime < TimeModulus
      /\ entryTime \in Nat /\ 1 < entryTime /\ entryTime <= clock
      /\ clock \in Nat /\ clock <= MaxTime /\ MaxTime \in Nat
      /\ TimeModulus \in Nat /\ MaxTime < TimeModulus - 1
  BY TimeAssumption DEF GlueInv, GlueTypeOK, TimeInv
<1>2. now = clock \/ now = 0
  BY DEF Readings
<1>3. CASE now = clock
  <2>1. Elapsed(now) = clock - entryTime BY <1>1, <1>3 DEF Elapsed
  <2>2. QED BY <1>1, <2>1 DEF UnsignedLimit
<1>4. CASE now = 0
  <2>1. Elapsed(now) = TimeModulus - entryTime BY <1>1, <1>4 DEF Elapsed
  <2>2. QED BY <1>1, <1>4, <2>1 DEF UnsignedLimit
<1>5. QED BY <1>2, <1>3, <1>4

LEMMA AllMovedInv == ASSUME GlueInv, AllMoved PROVE GlueInv'
<1> USE DEF GlueInv, AllMoved, Finish, callVars, streamVars
<1>1. GlueTypeOK' BY DEF GlueTypeOK
<1>2. TimeInv' BY DEF TimeInv, InCall
<1>3. TimeoutIsReal' BY DEF TimeoutIsReal
<1>4. ResultInv' BY DEF ResultInv, InCall
<1>5. WriteInv' BY DEF WriteInv, BufferInUse, InCall
<1>6. ReadInv' BY DEF ReadInv, BufferInUse, InCall
<1>7. QED BY <1>1, <1>2, <1>3, <1>4, <1>5, <1>6

LEMMA CheckTimeInv == ASSUME GlueInv, CheckTime PROVE GlueInv'
<1> USE DEF GlueInv, callVars, streamVars
<1>1. PICK now \in Readings :
        /\ clockFailed' = (clockFailed \/ now = 0)
        /\ IF Elapsed(now) < UnsignedLimit THEN pc' = "io" /\ ret' = ret
           ELSE Finish("timeout")
  BY DEF CheckTime
<1>2. pc = "test" /\ UNCHANGED <<op, len, limit, entryTime, moved, buf, clock, offered, outgoing, taken>>
  BY DEF CheckTime
<1>3. \/ pc' = "io" /\ ret' = ret
      \/ pc' = "idle" /\ ret' = "timeout" /\ ~(Elapsed(now) < UnsignedLimit)
  BY <1>1 DEF Finish
<1>4. GlueTypeOK'
  <2>1. clockFailed' \in BOOLEAN BY <1>1 DEF GlueTypeOK
  <2>2. QED BY <1>2, <1>3, <2>1 DEF GlueTypeOK
<1>5. TimeInv' BY <1>2, <1>3 DEF TimeInv, InCall
<1>6. TimeoutIsReal'
  <2>1. CASE ret' = "timeout" /\ ~(Elapsed(now) < UnsignedLimit)
    <3>1. limit # -1 /\ (now = 0 \/ clock - entryTime >= limit)
      BY <1>2, <2>1, TimeUp DEF InCall
    <3>2. QED BY <1>1, <1>2, <3>1 DEF TimeoutIsReal
  <2>2. CASE ret' = ret /\ pc' = "io"
    BY <1>2, <2>2 DEF ResultInv, InCall, TimeoutIsReal
  <2>3. QED BY <1>3, <2>1, <2>2
<1>7. ResultInv' BY <1>2, <1>3 DEF ResultInv, InCall
<1>8. WriteInv' BY <1>2, <1>3 DEF WriteInv, BufferInUse, InCall
<1>9. ReadInv' BY <1>2, <1>3 DEF ReadInv, BufferInUse, InCall
<1>10. QED BY <1>4, <1>5, <1>6, <1>7, <1>8, <1>9

LEMMA WouldBlockInv == ASSUME GlueInv, WouldBlock PROVE GlueInv'
<1> USE DEF GlueInv, WouldBlock, callVars, streamVars
<1>1. GlueTypeOK' BY DEF GlueTypeOK
<1>2. TimeInv' BY DEF TimeInv, InCall
<1>3. TimeoutIsReal' BY DEF TimeoutIsReal
<1>4. ResultInv' BY DEF ResultInv, InCall
<1>5. WriteInv' BY DEF WriteInv, BufferInUse, InCall
<1>6. ReadInv' BY DEF ReadInv, BufferInUse, InCall
<1>7. QED BY <1>1, <1>2, <1>3, <1>4, <1>5, <1>6

LEMMA TlsFailsInv == ASSUME GlueInv, TlsFails PROVE GlueInv'
<1> USE DEF GlueInv, TlsFails, Finish, callVars, streamVars
<1>1. GlueTypeOK' BY DEF GlueTypeOK
<1>2. TimeInv' BY DEF TimeInv, InCall
<1>3. TimeoutIsReal' BY DEF TimeoutIsReal
<1>4. ResultInv' BY DEF ResultInv, InCall
<1>5. WriteInv' BY DEF WriteInv, BufferInUse, InCall
<1>6. ReadInv' BY DEF ReadInv, BufferInUse, InCall
<1>7. QED BY <1>1, <1>2, <1>3, <1>4, <1>5, <1>6

\* The part of a write that TlsWrites moves, as explicit positions.
LEMMA TlsWritesInv == ASSUME GlueInv, TlsWrites PROVE GlueInv'
<1> USE DEF GlueInv, callVars, streamVars
<1>1. PICK n \in 0..(len - moved) :
        /\ moved' = moved + n
        /\ outgoing' = outgoing \o SubSeq(buf, moved + 1, moved + n)
  BY DEF TlsWrites
<1>2. /\ pc = "io" /\ op = "write" /\ pc' = "test"
      /\ UNCHANGED <<op, len, limit, entryTime, buf, ret, clock, clockFailed, offered, taken>>
  BY DEF TlsWrites
<1> DEFINE part == SubSeq(buf, moved + 1, moved + n)
           old  == Len(outgoing)
<1>3. /\ len \in Nat /\ moved \in Nat /\ n \in Nat /\ moved + n <= len
      /\ outgoing \in Seq(Nat) /\ old \in Nat /\ offered \in Nat
      /\ buf \in Seq(Nat) /\ Len(buf) = len
      /\ \A i \in 1..old : outgoing[i] \in Nat
  BY <1>1 DEF GlueTypeOK
<1>4. /\ part \in Seq(Nat) /\ Len(part) = n
      /\ \A i \in 1..n : part[i] = buf[moved + i]
  <2>1. \A i \in (moved + 1)..(moved + n) : buf[i] \in Nat
    BY <1>3
  <2>2. /\ part \in Seq(Nat)
        /\ Len(part) = IF moved + 1 <= moved + n THEN (moved + n) - (moved + 1) + 1 ELSE 0
        /\ \A i \in 1..((moved + n) - (moved + 1) + 1) : part[i] = buf[(moved + 1) + i - 1]
    BY <1>3, <2>1, SubSeqProperties
  <2>3. QED BY <1>3, <2>2
<1>5. /\ outgoing' \in Seq(Nat) /\ Len(outgoing') = old + n
      /\ \A i \in 1..(old + n) :
            outgoing'[i] = IF i <= old THEN outgoing[i] ELSE buf[moved + (i - old)]
  <2>1. /\ outgoing \o part \in Seq(Nat)
        /\ Len(outgoing \o part) = old + Len(part)
        /\ \A i \in 1..(old + Len(part)) :
              (outgoing \o part)[i] = IF i <= old THEN outgoing[i] ELSE part[i - old]
    BY <1>3, <1>4, ConcatProperties
  <2>2. QED BY <1>1, <1>3, <1>4, <2>1
<1> HIDE DEF part, old
<1>6. GlueTypeOK' BY <1>1, <1>2, <1>3, <1>5 DEF GlueTypeOK
<1>7. TimeInv' BY <1>2 DEF TimeInv, InCall
<1>8. TimeoutIsReal' BY <1>2 DEF TimeoutIsReal
<1>9. ResultInv' BY <1>2 DEF ResultInv, InCall
<1>10. ReadInv' BY <1>2 DEF ReadInv
<1>11. WriteInv'
  <2>1. /\ \A i, j \in 1..old : i < j => outgoing[i] < outgoing[j]
        /\ moved <= old /\ len <= offered
        /\ \A i \in 1..len : buf[i] = (offered - len) + i
        /\ \A i \in 1..moved : outgoing[(old - moved) + i] = buf[i]
        /\ \A i \in 1..(old - moved) : outgoing[i] <= offered - len
    BY <1>2 DEF WriteInv, BufferInUse, InCall, old
  <2>2. \A i \in 1..old : outgoing[i] <= (offered - len) + moved
    <3> SUFFICES ASSUME NEW i \in 1..old PROVE outgoing[i] <= (offered - len) + moved
      OBVIOUS
    <3>1. CASE i <= old - moved BY <1>3, <2>1, <3>1
    <3>2. CASE i > old - moved
      <4> DEFINE k == i - (old - moved)
      <4>1. k \in 1..moved /\ i = (old - moved) + k BY <1>3, <2>1, <3>2
      <4>2. outgoing[i] = buf[k] /\ buf[k] = (offered - len) + k
        BY <1>3, <2>1, <4>1
      <4>3. QED BY <1>3, <2>1, <4>1, <4>2
    <3>3. QED BY <1>3, <3>1, <3>2
  <2>3. \A i \in 1..(old + n) :
           /\ i <= old => outgoing'[i] = outgoing[i]
           /\ i > old  => outgoing'[i] = (offered - len) + moved + (i - old)
    <3> SUFFICES ASSUME NEW i \in 1..(old + n)
                 PROVE  /\ i <= old => outgoing'[i] = outgoing[i]
                        /\ i > old  => outgoing'[i] = (offered - len) + moved + (i - old)
      OBVIOUS
    <3>1. CASE i <= old BY <1>3, <1>5, <3>1
    <3>2. CASE i > old
      <4>1. outgoing'[i] = buf[moved + (i - old)] BY <1>3, <1>5, <3>2
      <4>2. moved + (i - old) \in 1..len BY <1>3, <3>2
      <4>3. buf[moved + (i - old)] = (offered - len) + (moved + (i - old))
        BY <2>1, <4>2
      <4>4. QED BY <1>3, <3>2, <4>1, <4>3
    <3>3. QED BY <1>3, <3>1, <3>2
  <2>4. \A i, j \in 1..(old + n) : i < j => outgoing'[i] < outgoing'[j]
    <3> SUFFICES ASSUME NEW i \in 1..(old + n), NEW j \in 1..(old + n), i < j
                 PROVE  outgoing'[i] < outgoing'[j]
      OBVIOUS
    <3>1. CASE j <= old BY <1>3, <2>1, <2>3, <3>1
    <3>2. CASE i <= old /\ j > old
      <4>1. i \in 1..old BY <1>3, <3>2
      <4>2. outgoing'[i] = outgoing[i] BY <2>3, <3>2
      <4>3. outgoing[i] \in Nat BY <1>3, <4>1
      <4>4. outgoing[i] <= (offered - len) + moved BY <2>2, <4>1
      <4>5. outgoing'[i] <= (offered - len) + moved /\ outgoing'[i] \in Nat
        BY <4>2, <4>3, <4>4
      <4>6. outgoing'[j] = (offered - len) + moved + (j - old) BY <2>3, <3>2
      <4>7. (offered - len) + moved \in Int /\ j - old \in Int /\ j - old > 0
        BY <1>3, <3>2
      <4>8. QED BY <4>5, <4>6, <4>7
    <3>3. CASE i > old BY <1>3, <2>3, <3>3
    <3>4. QED BY <1>3, <3>1, <3>2, <3>3
  <2>5. \A i \in 1..(old + n) : outgoing'[i] <= offered
    <3> SUFFICES ASSUME NEW i \in 1..(old + n) PROVE outgoing'[i] <= offered
      OBVIOUS
    <3>1. CASE i <= old
      <4>1. outgoing[i] \in Nat /\ outgoing[i] <= (offered - len) + moved
        BY <1>3, <2>2, <3>1
      <4>2. QED BY <1>3, <2>3, <3>1, <4>1
    <3>2. CASE i > old
      <4>1. outgoing'[i] = (offered - len) + moved + (i - old) BY <2>3, <3>2
      <4>2. QED BY <1>3, <4>1
    <3>3. QED BY <1>3, <3>1, <3>2
  <2>6. \A i \in 1..(moved + n) : outgoing'[((old + n) - (moved + n)) + i] = buf[i]
    <3> SUFFICES ASSUME NEW i \in 1..(moved + n)
                 PROVE  outgoing'[((old + n) - (moved + n)) + i] = buf[i]
      OBVIOUS
    <3>0. ((old + n) - (moved + n)) + i = (old - moved) + i BY <1>3
    <3>1. (old - moved) + i \in 1..(old + n) BY <1>3, <2>1
    <3>2. CASE i <= moved
      <4>1. outgoing'[(old - moved) + i] = outgoing[(old - moved) + i]
        BY <1>3, <2>1, <2>3, <3>1, <3>2
      <4>2. outgoing[(old - moved) + i] = buf[i] BY <1>3, <2>1, <3>2
      <4>3. QED BY <3>0, <4>1, <4>2
    <3>3. CASE i > moved
      <4>1. outgoing'[(old - moved) + i] = buf[moved + (((old - moved) + i) - old)]
        BY <1>3, <1>5, <3>1, <3>3
      <4>2. moved + (((old - moved) + i) - old) = i BY <1>3
      <4>3. QED BY <3>0, <4>1, <4>2
    <3>4. QED BY <1>3, <3>0, <3>2, <3>3
  <2>7. \A i \in 1..((old + n) - (moved + n)) : outgoing'[i] <= offered - len
    BY <1>3, <2>1, <2>3
  <2>8. moved' = moved + n /\ Len(outgoing') = old + n /\ len' = len
        /\ offered' = offered /\ buf' = buf
    BY <1>1, <1>2, <1>5
  <2>9. moved + n <= old + n BY <1>3, <2>1
  <2>10. \A i \in 1..len' : buf'[i] = (offered' - len') + i BY <2>1, <2>8
  <2>11. QED BY <2>1, <2>4, <2>5, <2>6, <2>7, <2>8, <2>9, <2>10 DEF WriteInv
<1>12. QED BY <1>6, <1>7, <1>8, <1>9, <1>10, <1>11

LEMMA TlsReadsInv == ASSUME GlueInv, TlsReads PROVE GlueInv'
<1> USE DEF GlueInv, callVars, streamVars
<1>1. PICK n \in 0..(len - moved) :
        /\ moved' = moved + n
        /\ buf' = [i \in 1..len |-> IF i \in (moved + 1)..(moved + n) THEN taken + (i - moved) ELSE buf[i]]
        /\ taken' = taken + n
  BY DEF TlsReads
<1>2. /\ pc = "io" /\ op = "read" /\ pc' = "test"
      /\ UNCHANGED <<op, len, limit, entryTime, ret, clock, clockFailed, offered, outgoing>>
  BY DEF TlsReads
<1>3. /\ len \in Nat /\ moved \in Nat /\ n \in Nat /\ moved + n <= len
      /\ taken \in Nat /\ buf \in Seq(Nat) /\ Len(buf) = len
      /\ \A i \in 1..len : buf[i] \in Nat
  BY <1>1 DEF GlueTypeOK
<1> DEFINE byte(i) == IF i \in (moved + 1)..(moved + n) THEN taken + (i - moved) ELSE buf[i]
<1>4. buf' \in Seq(Nat) /\ Len(buf') = len
  <2>1. \A i \in 1..len : byte(i) \in Nat BY <1>3
  <2> HIDE DEF byte
  <2>2. [i \in 1..len |-> byte(i)] \in Seq(Nat) /\ Len([i \in 1..len |-> byte(i)]) = len
    BY <1>3, <2>1, BufferType
  <2>3. buf' = [i \in 1..len |-> byte(i)] BY <1>1 DEF byte
  <2>4. QED BY <2>2, <2>3
<1>5. GlueTypeOK'
  <2>1. moved' \in 0..len /\ taken' \in Nat BY <1>1, <1>3
  <2>2. QED BY <1>2, <1>4, <2>1 DEF GlueTypeOK
<1>6. TimeInv' BY <1>2 DEF TimeInv, InCall
<1>7. TimeoutIsReal' BY <1>2 DEF TimeoutIsReal
<1>8. ResultInv' BY <1>2 DEF ResultInv, InCall
<1>9. WriteInv' BY <1>2 DEF WriteInv
<1>10. ReadInv'
  <2>1. moved <= taken /\ \A i \in 1..moved : buf[i] = (taken - moved) + i
    BY <1>2 DEF ReadInv, BufferInUse, InCall
  <2>2. moved' <= taken' BY <1>1, <1>3, <2>1
  <2>3. \A i \in 1..(moved + n) : buf'[i] = ((taken + n) - (moved + n)) + i
    <3> SUFFICES ASSUME NEW i \in 1..(moved + n)
                 PROVE  buf'[i] = ((taken + n) - (moved + n)) + i
      OBVIOUS
    <3>1. i \in 1..len /\ i \in Nat BY <1>3
    <3>2. buf'[i] = IF i \in (moved + 1)..(moved + n) THEN taken + (i - moved) ELSE buf[i]
      BY <1>1, <3>1
    <3>3. CASE i <= moved
      <4>1. buf'[i] = buf[i] BY <1>3, <3>1, <3>2, <3>3
      <4>2. buf[i] = (taken - moved) + i BY <1>3, <2>1, <3>1, <3>3
      <4>3. QED BY <1>3, <3>1, <4>1, <4>2
    <3>4. CASE i > moved BY <1>3, <3>1, <3>2, <3>4
    <3>5. QED BY <1>3, <3>1, <3>3, <3>4
  <2>4. QED BY <1>1, <2>2, <2>3 DEF ReadInv
<1>11. QED BY <1>5, <1>6, <1>7, <1>8, <1>9, <1>10

LEMMA EnterInv == ASSUME GlueInv, Enter PROVE GlueInv'
<1> USE DEF GlueInv, callVars, streamVars
<1>1. PICK o \in {"write", "read"}, n \in 1..MaxLen, t \in Limits, now \in Readings :
          /\ op' = o /\ len' = n /\ limit' = t /\ entryTime' = now
          /\ buf' = [i \in 1..n |-> IF o = "write" THEN offered + i ELSE 0]
          /\ offered' = IF o = "write" THEN offered + n ELSE offered
          /\ clockFailed' = (now = 0)
          /\ IF now = 0 THEN Finish("failure") ELSE pc' = "test" /\ ret' = "none"
  BY DEF Enter
<1>2. pc = "idle" /\ moved' = 0 /\ UNCHANGED <<clock, outgoing, taken>>
  BY DEF Enter
<1>3. /\ n \in Nat /\ 0 < n /\ t \in Int /\ offered \in Nat /\ clock \in Nat
      /\ taken \in Nat /\ outgoing \in Seq(Nat) /\ Len(outgoing) \in Nat
      /\ \A i \in 1..Len(outgoing) : outgoing[i] \in Nat
      /\ FirstTime <= clock /\ 1 < FirstTime /\ FirstTime \in Nat /\ clock <= MaxTime
  BY LengthAssumption, TimeAssumption DEF GlueTypeOK, TimeInv
<1>4. now = 0 \/ (now = clock /\ 1 < now)
  BY <1>3 DEF Readings
<1>5. \/ now # 0 /\ pc' = "test" /\ ret' = "none"
      \/ now = 0 /\ pc' = "idle" /\ ret' = "failure"
  BY <1>1 DEF Finish
<1> DEFINE byte(i) == IF o = "write" THEN offered + i ELSE 0
<1>6. /\ buf' \in Seq(Nat) /\ Len(buf') = n
      /\ \A i \in 1..n : buf'[i] = byte(i)
  <2>1. \A i \in 1..n : byte(i) \in Nat BY <1>3
  <2>2. buf' = [i \in 1..n |-> byte(i)] BY <1>1
  <2> HIDE DEF byte
  <2>3. [i \in 1..n |-> byte(i)] \in Seq(Nat) /\ Len([i \in 1..n |-> byte(i)]) = n
    BY <1>3, <2>1, BufferType
  <2>4. QED BY <2>2, <2>3
<1>7. offered' \in Nat /\ offered <= offered' BY <1>1, <1>3
<1>8. GlueTypeOK'
  <2>1. pc' \in {"idle", "test", "io"} /\ ret' \in {"none", "success", "failure", "timeout"}
    BY <1>5
  <2>2. op' \in {"write", "read"} /\ len' \in Nat /\ moved' \in 0..len' /\ limit' \in Int
        /\ entryTime' \in Nat /\ clockFailed' \in BOOLEAN
    BY <1>1, <1>2, <1>3, <1>4
  <2>3. buf' \in Seq(Nat) /\ Len(buf') = len' BY <1>1, <1>6
  <2>4. clock' \in Nat /\ outgoing' \in Seq(Nat) /\ taken' \in Nat BY <1>2, <1>3
  <2>5. QED BY <1>7, <2>1, <2>2, <2>3, <2>4 DEF GlueTypeOK
<1>9. TimeInv'
  <2>1. FirstTime <= clock' /\ clock' <= MaxTime BY <1>2, <1>3
  <2>2. (pc' # "idle") => limit' \in Limits /\ 1 < entryTime' /\ entryTime' <= clock'
    BY <1>1, <1>2, <1>3, <1>4, <1>5
  <2>3. QED BY <2>1, <2>2 DEF TimeInv, InCall
<1>10. TimeoutIsReal' BY <1>5 DEF TimeoutIsReal
<1>11. ResultInv' BY <1>5 DEF ResultInv, InCall
<1>12. WriteInv'
  <2>1. /\ \A i, j \in 1..Len(outgoing) : i < j => outgoing[i] < outgoing[j]
        /\ \A i \in 1..Len(outgoing) : outgoing[i] <= offered
    BY DEF WriteInv
  <2>2. \A i \in 1..Len(outgoing) : outgoing[i] <= offered'
    BY <1>3, <1>7, <2>1
  <2>3. ASSUME op' = "write"
        PROVE  /\ 0 <= Len(outgoing) /\ n <= offered'
               /\ \A i \in 1..n : buf'[i] = (offered' - n) + i
               /\ \A i \in 1..(Len(outgoing) - 0) : outgoing[i] <= offered' - n
    <3>1. o = "write" /\ offered' = offered + n /\ offered' - n = offered
      BY <1>1, <1>3, <2>3
    <3>2. \A i \in 1..n : buf'[i] = offered + i BY <1>6, <3>1
    <3>3. QED BY <1>3, <2>1, <3>1, <3>2
  <2>4. moved' = 0 /\ outgoing' = outgoing /\ len' = n BY <1>1, <1>2
  <2>5. QED BY <2>1, <2>2, <2>3, <2>4 DEF WriteInv
<1>13. ReadInv' BY <1>2, <1>3 DEF ReadInv
<1>14. QED BY <1>8, <1>9, <1>10, <1>11, <1>12, <1>13

LEMMA GlueStepInv == ASSUME GlueInv, [GlueNext]_glueVars PROVE GlueInv'
<1>1. CASE Enter BY <1>1, EnterInv
<1>2. CASE Transfer
  BY <1>2, AllMovedInv, CheckTimeInv, TlsWritesInv, TlsReadsInv, WouldBlockInv, TlsFailsInv
     DEF Transfer
<1>3. CASE Tick BY <1>3, TickInv
<1>4. CASE UNCHANGED glueVars BY <1>4, StutterInv
<1>5. QED BY <1>1, <1>2, <1>3, <1>4 DEF GlueNext

LEMMA GlueInvariant == GlueSpec => []GlueInv
  BY GlueInitInv, GlueStepInv, PTL DEF GlueSpec

LEMMA WrittenInOrderHolds == ASSUME GlueInv PROVE WrittenInOrder
<1> USE DEF GlueInv
<1>1. \A i, j \in 1..Len(outgoing) : i < j => outgoing[i] < outgoing[j]
  BY DEF WriteInv
<1>2. ASSUME ret = "success", op = "write"
      PROVE  /\ len <= Len(outgoing)
             /\ \A i \in 1..len : outgoing[(Len(outgoing) - len) + i] = buf[i]
  <2>1. moved = len BY <1>2 DEF ResultInv
  <2>2. /\ moved <= Len(outgoing)
        /\ \A i \in 1..moved : outgoing[(Len(outgoing) - moved) + i] = buf[i]
    BY <1>2 DEF WriteInv, BufferInUse
  <2>3. QED BY <2>1, <2>2
<1>3. QED BY <1>1, <1>2 DEF WrittenInOrder

LEMMA ReadInOrderHolds == ASSUME GlueInv PROVE ReadInOrder
  BY DEF GlueInv, ReadInOrder, ReadInv, ResultInv, BufferInUse

-----------------------------------------------------------------------------
\* The theorems: for all lengths, limits and times within TimeAssumption.

(* glue_tls_mqtt_write and glue_tls_mqtt_read never move more bytes than    *)
(* they were asked to: remainingLen does not wrap around.                   *)
THEOREM GlueTypeCorrect == GlueSpec => []GlueTypeOK
<1>1. GlueInv => GlueTypeOK BY DEF GlueInv
<1>2. QED BY <1>1, GlueInvariant, PTL

(* MQTT_TIMEOUT is reported only by a call with a limit, after that time or *)
(* after a failure of the clock, in spite of the unsigned arithmetic.       *)
THEOREM TimeoutIsRealInvariant == GlueSpec => []TimeoutIsReal
<1>1. GlueInv => TimeoutIsReal BY DEF GlueInv
<1>2. QED BY <1>1, GlueInvariant, PTL

(* glue_tls_mqtt_write hands the callers' bytes to the TLS layer in order,  *)
(* none of them twice, and all of them if it reports success.               *)
THEOREM WrittenInOrderInvariant == GlueSpec => []WrittenInOrder
<1>1. GlueInv => WrittenInOrder BY WrittenInOrderHolds
<1>2. QED BY <1>1, GlueInvariant, PTL

(* A successful glue_tls_mqtt_read has put the next bytes of the stream     *)
(* into the caller's buffer, in order.                                      *)
THEOREM ReadInOrderInvariant == GlueSpec => []ReadInOrder
<1>1. GlueInv => ReadInOrder BY ReadInOrderHolds
<1>2. QED BY <1>1, GlueInvariant, PTL
=============================================================================
