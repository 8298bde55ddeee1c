---------------------------- MODULE MCDemoIotApp ----------------------------
(***************************************************************************)
(* TLC instances of CloudConnector and DemoIotApp.                         *)
(***************************************************************************)
EXTENDS DemoIotApp

AllFaults  == FaultNames
DropOnly   == {"drop"}
RefuseOnly == {"refuse"}
NoFaults   == {}
=============================================================================
