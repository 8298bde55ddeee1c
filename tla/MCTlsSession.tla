---------------------------- MODULE MCTlsSession ----------------------------
(***************************************************************************)
(* TLC instance of TlsSession.  Everything may fail at the start.  With    *)
(* base 2 and three length bytes a payload of 0 needs one length byte, 3   *)
(* needs two, 4 and 5 need three; a buffer of 8 holds a packet of payload  *)
(* 4 exactly and 5 not any more.                                           *)
(***************************************************************************)
EXTENDS TlsSession

Errors == {"OS_ERROR_NETWORK_HOST_UNREACHABLE", "OS_ERROR_NETWORK_CONN_NONE"}

OneType == {2}
EveryLength == {0, 3, 4, 5}
=============================================================================
