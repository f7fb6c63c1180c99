----------------------------- MODULE MCNmiQueue -----------------------------
(***************************************************************************)
(* NmiQueue alone, for the decrement that is not one instruction.          *)
(***************************************************************************)
EXTENDS NmiQueue
=============================================================================
