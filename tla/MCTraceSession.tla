-------------------------- MODULE MCTraceSession ----------------------------
(***************************************************************************)
(* TraceSession with a ring of two records (N = 3) and flushes of one, so  *)
(* that a full ring takes the final drain several flushes.  TraceRing's    *)
(* own run covers flushes of several batches.                              *)
(***************************************************************************)
EXTENDS TraceSession
=============================================================================
