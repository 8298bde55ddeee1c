------------------------------ MODULE MCGlueIo ------------------------------
(***************************************************************************)
(* TLC instance of GlueIo: no limit, a limit that is over, a short one.    *)
(***************************************************************************)
EXTENDS GlueIo

NoneOverShort == {-1, 0, 2}
=============================================================================
