--------------------------- MODULE MCCrashProtocol --------------------------
(***************************************************************************)
(* CrashProtocol on three cores, two of which may raise an error.          *)
(***************************************************************************)
EXTENDS CrashProtocol
=============================================================================
