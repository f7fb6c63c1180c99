---------------------------- MODULE MCTraceRing -----------------------------
(***************************************************************************)
(* TraceRing with a ring of three records (N = 4), flushes of at most      *)
(* three records in batches of two, and up to MaxTsc emissions: enough to  *)
(* fill the ring, to wrap both indices and to need two batches per flush.  *)
(***************************************************************************)
EXTENDS TraceRing
=============================================================================
