------------------------------ MODULE TraceRing -----------------------------
(***************************************************************************)
(* One core's trace ring buffer: trace::emit and trace::drain              *)
(* (revhv-km/trace.h), the flush_trace_logs hypercall that drains it in    *)
(* batches, and what the enable and disable hypercalls do to it            *)
(* (revhv-km/hypercall.cpp).                                               *)
(*                                                                         *)
(* The producer is the exit handler of the ring's core, the consumer the   *)
(* hypercall handler of a core that may be another one ("any core",        *)
(* common/trace_log.hpp), so their loads and stores interleave.  The       *)
(* compiler barriers and the processor keep each side's stores in order.   *)
(* A record is its rdtsc time stamp; between its first and its last store  *)
(* it is Torn.                                                             *)
(***************************************************************************)
EXTENDS Integers, Sequences, FiniteSets

CONSTANTS
  N,              \* ring_buffer_entry_count
  MaxFlush,       \* max_flush_entries
  BatchCapacity,  \* records that fit in hypercall_local_buffer
  MaxTsc          \* bound: records emitted in a behaviour

ASSUME RingAssumption == N \in Nat \ {0, 1}
ASSUME FlushAssumption == MaxFlush \in Nat \ {0} /\ BatchCapacity \in Nat \ {0}
ASSUME TscAssumption == MaxTsc \in Nat

VARIABLES
  active, write_head, read_tail, entries,  \* the ring_buffer
  tsc,        \* the last time stamp emit read
  epc,        \* where the producer is in emit
  fpc,        \* where the consumer is in handle_flush_trace_logs
  limit,      \* its max_entries, clamped
  tail,       \* the local tail of drain
  batch,      \* hypercall_local_buffer[0 .. count-1]
  out,        \* the guest buffer's total_flushed records
  received,   \* the records the hypercalls have returned, in order
  drained,    \* history: the records released from the ring, in order
  lost,       \* history: records released and not written to the guest
  discarded,  \* history: records in the ring when it was reset
  dropped     \* history: emit met a full ring since the last reset

history == <<drained, lost, discarded, dropped>>
flush == <<fpc, limit, tail, batch, out, received>>
vars == <<active, write_head, read_tail, entries, tsc, epc, fpc, limit, tail, batch,
          out, received, drained, lost, discarded, dropped>>

Index == 0 .. (N - 1)
Torn == -1
Set(s) == {s[i] : i \in DOMAIN s}

(* The index mask: (i + 1) & ring_buffer_index_mask. *)
Inc(i) == IF i = N - 1 THEN 0 ELSE i + 1

(* The records between read_tail and write_head, oldest first. *)
Wrap(i) == IF i >= N THEN i - N ELSE i
Size == IF write_head >= read_tail THEN write_head - read_tail
                                   ELSE write_head - read_tail + N
Contents == [i \in 1 .. Size |-> entries[Wrap(read_tail + i - 1)]]

-----------------------------------------------------------------------------
(* trace::emit.  Only this core stores write_head, so the local head is     *)
(* write_head throughout.                                                   *)

EmitBeginUnchecked ==
  /\ epc = "idle" /\ active /\ tsc < MaxTsc
  /\ epc' = "store"
  /\ UNCHANGED <<active, write_head, read_tail, entries, tsc, flush, history>>

EmitBeginKeepsTwoFree ==
  /\ epc = "idle" /\ active /\ tsc < MaxTsc
  /\ IF read_tail \in {Inc(write_head), Inc(Inc(write_head))}
     THEN dropped' = TRUE /\ UNCHANGED epc
     ELSE epc' = "store" /\ UNCHANGED dropped
  /\ UNCHANGED <<active, write_head, read_tail, entries, tsc, flush, drained, lost, discarded>>

EmitBegin ==
  /\ epc = "idle" /\ active /\ tsc < MaxTsc
  /\ IF Inc(write_head) = read_tail
     THEN dropped' = TRUE /\ UNCHANGED epc
     ELSE epc' = "store" /\ UNCHANGED dropped
  /\ UNCHANGED <<active, write_head, read_tail, entries, tsc, flush, drained, lost, discarded>>

EmitStore ==
  /\ epc = "store"
  /\ entries' = [entries EXCEPT ![write_head] = Torn]
  /\ epc' = "stamp"
  /\ UNCHANGED <<active, write_head, read_tail, tsc, flush, history>>

EmitStampPublishing ==
  /\ epc = "stamp"
  /\ write_head' = Inc(write_head)
  /\ epc' = "idle"
  /\ UNCHANGED <<active, read_tail, entries, tsc, flush, history>>

EmitStamp ==
  /\ epc = "stamp"
  /\ tsc' = tsc + 1
  /\ entries' = [entries EXCEPT ![write_head] = tsc + 1]
  /\ epc' = "publish"
  /\ UNCHANGED <<active, write_head, read_tail, flush, history>>

EmitPublish ==
  /\ epc = "publish"
  /\ write_head' = Inc(write_head)
  /\ epc' = "idle"
  /\ UNCHANGED <<active, read_tail, entries, tsc, flush, history>>

Emit == EmitBegin \/ EmitStore \/ EmitStamp \/ EmitPublish

-----------------------------------------------------------------------------
(* handle_flush_trace_logs(max) and trace::drain, on the calling core.      *)

FlushCall(max) ==
  /\ fpc = "idle"
  /\ limit' = IF max > MaxFlush THEN MaxFlush ELSE max
  /\ out' = <<>>
  /\ fpc' = "loop"
  /\ UNCHANGED <<active, write_head, read_tail, entries, tsc, epc, tail, batch, received, history>>

ToDrainUnclamped == limit - Len(out)
ToDrain == IF limit - Len(out) > BatchCapacity THEN BatchCapacity ELSE limit - Len(out)

(* while (total_flushed < max_entries): enter drain, or leave. *)
FlushLoop ==
  /\ fpc = "loop"
  /\ IF Len(out) < limit
     THEN tail' = read_tail /\ batch' = <<>> /\ fpc' = "drain"
     ELSE fpc' = "return" /\ UNCHANGED <<tail, batch>>
  /\ UNCHANGED <<active, write_head, read_tail, entries, tsc, epc, limit, out, received, history>>

(* while (count < max_entries), and the load of write_head. *)
DrainTest ==
  /\ fpc = "drain"
  /\ fpc' = IF Len(batch) < ToDrain /\ tail # write_head THEN "copy" ELSE "publish"
  /\ UNCHANGED <<active, write_head, read_tail, entries, tsc, epc, limit, tail, batch, out,
                 received, history>>

DrainCopy ==
  /\ fpc = "copy"
  /\ batch' = Append(batch, entries[tail])
  /\ tail' = Inc(tail)
  /\ fpc' = "drain"
  /\ UNCHANGED <<active, write_head, read_tail, entries, tsc, epc, limit, out, received, history>>

DrainPublishHead ==
  /\ fpc = "publish"
  /\ read_tail' = write_head
  /\ drained' = drained \o batch
  /\ fpc' = IF batch = <<>> THEN "return" ELSE "write"
  /\ UNCHANGED <<active, write_head, entries, tsc, epc, limit, tail, batch, out, received,
                 lost, discarded, dropped>>

DrainPublishNoBreak ==
  /\ fpc = "publish"
  /\ read_tail' = tail
  /\ drained' = drained \o batch
  /\ fpc' = IF batch = <<>> THEN "loop" ELSE "write"
  /\ UNCHANGED <<active, write_head, entries, tsc, epc, limit, tail, batch, out, received,
                 lost, discarded, dropped>>

DrainPublish ==
  /\ fpc = "publish"
  /\ read_tail' = tail
  /\ drained' = drained \o batch
  /\ fpc' = IF batch = <<>> THEN "return" ELSE "write"
  /\ UNCHANGED <<active, write_head, entries, tsc, epc, limit, tail, batch, out, received,
                 lost, discarded, dropped>>

(* write_guest_virtual: the batch is counted only if it was written whole.  *)
(* By then the ring has released it.                                        *)
GuestWrite ==
  /\ fpc = "write"
  /\ \/ out' = out \o batch /\ fpc' = "loop" /\ UNCHANGED lost
     \/ lost' = lost \cup Set(batch) /\ fpc' = "return" /\ UNCHANGED out
  /\ UNCHANGED <<active, write_head, read_tail, entries, tsc, epc, limit, tail, batch, received,
                 drained, discarded, dropped>>

(* rax = total_flushed; the locals die. *)
FlushReturn ==
  /\ fpc = "return"
  /\ received' = received \o out
  /\ limit' = 0 /\ tail' = 0 /\ batch' = <<>> /\ out' = <<>>
  /\ fpc' = "idle"
  /\ UNCHANGED <<active, write_head, read_tail, entries, tsc, epc, history>>

Flush == FlushLoop \/ DrainTest \/ DrainCopy \/ DrainPublish \/ GuestWrite \/ FlushReturn

-----------------------------------------------------------------------------
(* What handle_enable_auto_trace and handle_disable_auto_trace do to the    *)
(* ring.  They run on the ring's core, never inside an emit.                *)

handle_enable_auto_trace ==
  /\ epc = "idle"
  /\ write_head' = 0 /\ read_tail' = 0 /\ active' = TRUE
  /\ discarded' = discarded \cup Set(Contents)
  /\ dropped' = FALSE
  /\ UNCHANGED <<entries, tsc, epc, flush, drained, lost>>

handle_disable_auto_trace ==
  /\ epc = "idle"
  /\ active' = FALSE
  /\ UNCHANGED <<write_head, read_tail, entries, tsc, epc, flush, history>>

-----------------------------------------------------------------------------
Init ==
  /\ active = FALSE /\ write_head = 0 /\ read_tail = 0
  /\ entries = [i \in Index |-> 0]
  /\ tsc = 0 /\ epc = "idle"
  /\ fpc = "idle" /\ limit = 0 /\ tail = 0 /\ batch = <<>> /\ out = <<>>
  /\ received = <<>> /\ drained = <<>>
  /\ lost = {} /\ discarded = {} /\ dropped = FALSE

Background ==
  \/ Emit
  \/ \E max \in 0 .. (MaxFlush + 1) : FlushCall(max)
  \/ Flush
  \/ handle_disable_auto_trace

(* The poller's worker for a ring is pinned to the ring's core, so no flush *)
(* of this ring is in progress when this core handles an enable.            *)
Next == Background \/ (fpc = "idle" /\ handle_enable_auto_trace)

(* VM-exit handlers run to their end. *)
Spec == Init /\ [][Next]_vars /\ WF_vars(Flush)

-----------------------------------------------------------------------------
(* Properties.                                                             *)

Increasing(s) == \A i, j \in DOMAIN s : i < j => s[i] < s[j]

(* Types and the bounds of the two buffers a flush fills: the batch never   *)
(* overruns hypercall_local_buffer, nor the total the caller's limit.       *)
TypeOK ==
  /\ active \in BOOLEAN /\ write_head \in Index /\ read_tail \in Index
  /\ entries \in [Index -> Nat \cup {Torn}]
  /\ tsc \in Nat
  /\ epc \in {"idle", "store", "stamp", "publish"}
  /\ fpc \in {"idle", "loop", "drain", "copy", "publish", "write", "return"}
  /\ limit \in 0 .. MaxFlush /\ tail \in Index
  /\ batch \in Seq(Nat \cup {Torn}) /\ Len(batch) <= BatchCapacity
  /\ out \in Seq(Nat \cup {Torn}) /\ Len(out) <= limit
  /\ received \in Seq(Nat \cup {Torn}) /\ drained \in Seq(Nat \cup {Torn})
  /\ lost \subseteq Nat \cup {Torn} /\ discarded \subseteq Nat \cup {Torn}
  /\ dropped \in BOOLEAN

(* The published records are whole and in emission order, and the slot the  *)
(* producer is filling is not one of them, nor one the consumer is about to *)
(* copy (the barrier before emit publishes write_head).                     *)
WindowIntact ==
  /\ Increasing(Contents) /\ \A i \in 1 .. Size : Contents[i] \in 1 .. tsc
  /\ epc \in {"store", "stamp", "publish"} =>
       /\ \A i \in 1 .. Size : Wrap(read_tail + i - 1) # write_head
       /\ fpc = "copy" => tail # write_head

(* The hypercalls hand over records in emission order, whole and without    *)
(* duplicates: the offline merge relies on every file being sorted.         *)
DeliveredInOrder == Increasing(received \o out) /\ \A r \in Set(received \o out) : r \in 1 .. tsc

(* Every record emit published is in exactly one place: the ring, the       *)
(* batch in hand, the guest's buffer or an earlier answer, a batch whose    *)
(* write failed, or a ring that an enable reset.                            *)
NothingVanishes ==
  LET inHand == IF fpc = "write" THEN batch ELSE <<>>
      places == Contents \o inHand \o out \o received
      published == IF epc = "publish" THEN tsc - 1 ELSE tsc
  IN /\ Set(places) \cup lost \cup discarded = 1 .. published
     /\ Len(places) + Cardinality(lost) + Cardinality(discarded) = published

(* A flush returns even while the producer keeps emitting. *)
FlushReturns == fpc # "idle" ~> fpc = "idle"

(* The ring implements the bounded log of N - 1 records. *)
Log == INSTANCE TraceLog WITH
  Capacity <- N - 1,
  log <- Contents,
  taken <- drained,
  clock <- IF epc = "publish" THEN tsc - 1 ELSE tsc,
  open <- active
LogSpec == Log!Spec
=============================================================================
