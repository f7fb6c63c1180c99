----------------------------- MODULE MCLogRing ------------------------------
(***************************************************************************)
(* LogRing on two cores, each with a message to log, and two NMIs.         *)
(***************************************************************************)
EXTENDS LogRing
=============================================================================
