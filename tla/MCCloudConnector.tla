-------------------------- MODULE MCCloudConnector --------------------------
(***************************************************************************)
(* TLC instances of CloudConnector on its own.                             *)
(***************************************************************************)
EXTENDS CloudConnector

AllFaults == FaultNames
NoFaults  == {}
=============================================================================
