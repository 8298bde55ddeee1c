---------------------------- MODULE MCMqttClient ----------------------------
(***************************************************************************)
(* TLC instances of MqttClient: the client as a library, with keep-alive.  *)
(***************************************************************************)
EXTENDS MqttClient

\* The environment without failures, with every failure of the stream, and
\* with failing writes.
NoFaults     == {}
StreamFaults == {"write", "read", "malformed", "drop", "refuse"}
WriteFaults  == {"write"}

AckedQos     == {1, 2}
AllQos       == 0..3

\* States that differ in a packet already acted upon, or in a result already
\* returned, go on alike.
LiveState ==
    <<wanVars, selfVars, readVars, confirmed, pc, want, msg,
      IF Reading THEN rx ELSE NoPacket,
      IF pc = "returned" THEN ret ELSE "success">>
=============================================================================
