------------------------------ MODULE TraceLog ------------------------------
(***************************************************************************)
(* What a per-core trace buffer promises (trace::ring_buffer in            *)
(* common/trace_log.hpp): a bounded first-in first-out log with newest     *)
(* records dropped when it is full, whose records leave in the order they  *)
(* were emitted, each exactly once.  TraceRing implements it.              *)
(***************************************************************************)
EXTENDS Integers, Sequences

CONSTANT Capacity  \* records the log can hold

VARIABLES
  log,      \* the records emitted and not yet taken, oldest first
  taken,    \* the records taken by the consumer, oldest first
  clock,    \* time stamp of the newest record
  dropped,  \* a record was dropped since the log was last opened
  open      \* records are accepted

logVars == <<log, taken, clock, dropped, open>>

Init ==
  log = <<>> /\ taken = <<>> /\ clock = 0 /\ dropped = FALSE /\ open = FALSE

(* The producer adds a record with a later stamp, if there is room. *)
Emit ==
  /\ open /\ Len(log) < Capacity
  /\ clock' > clock
  /\ log' = Append(log, clock')
  /\ UNCHANGED <<taken, dropped, open>>

(* A record is dropped only when there is no room. *)
Drop ==
  /\ open /\ Len(log) = Capacity
  /\ dropped' = TRUE
  /\ UNCHANGED <<log, taken, clock, open>>

(* The consumer takes the n oldest records. *)
Take(n) ==
  /\ taken' = taken \o SubSeq(log, 1, n)
  /\ log' = SubSeq(log, n + 1, Len(log))
  /\ UNCHANGED <<clock, dropped, open>>

(* A new trace starts with an empty log. *)
Open ==
  /\ log' = <<>> /\ dropped' = FALSE /\ open' = TRUE
  /\ UNCHANGED <<taken, clock>>

Close ==
  /\ open' = FALSE
  /\ UNCHANGED <<log, taken, clock, dropped>>

Next == Emit \/ Drop \/ (\E n \in 1 .. Len(log) : Take(n)) \/ Open \/ Close

Spec == Init /\ [][Next]_logVars
=============================================================================
