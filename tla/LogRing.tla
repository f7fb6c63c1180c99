------------------------------ MODULE LogRing -------------------------------
(***************************************************************************)
(* The standard log: the ring of revhv-km/logging.cpp and the reentrant    *)
(* spin lock of revhv-km/sync.hpp that guards it.                          *)
(*                                                                         *)
(* A core logs from its exit handlers (context "base") and from its NMI    *)
(* handlers (context "nmi"), which run to their end before the base        *)
(* context goes on and are never interrupted by another NMI.  The steps    *)
(* are the instructions another core, or an NMI, can come between.  An     *)
(* increment or decrement of m_depth is one instruction.                   *)
(***************************************************************************)
EXTENDS Integers, Sequences

CONSTANTS
  LogCore,      \* cores, as owner tokens: initial APIC ID + 1
  LogLen,       \* max_standard_message_count
  FlushMax,     \* max_messages of a flush
  MaxLogs,      \* bound: messages logged by exit handlers
  MaxFlushes,   \* bound: flush hypercalls
  MaxLogNmis    \* bound: messages logged by NMI handlers

ASSUME LogAssumption ==
  /\ LogCore \subseteq Nat \ {0}
  /\ LogLen \in Nat \ {0} /\ FlushMax \in Nat \ {0}
  /\ MaxLogs \in Nat /\ MaxFlushes \in Nat /\ MaxLogNmis \in Nat

UNLOCKED == 0

Context == LogCore \X {"base", "nmi"}

VARIABLES
  m_owner, m_depth,                            \* the lock
  messages, cursor, message_count, pending_count, \* standard_logger
  log_pc,                                      \* context -> where it is, "idle" when it does not log
  log_op,                                      \* context -> "write" or "flush"
  log_local,                                   \* context -> the cursor read, or the flush's plan
  logs, flushes, log_nmis,                     \* counters for the bounds
  nested                                       \* history: an NMI handler logged inside its core's log code

logVars == <<m_owner, m_depth, messages, cursor, message_count, pending_count, log_pc, log_op,
             log_local, logs, flushes, log_nmis, nested>>
lockVars == <<m_owner, m_depth>>
ringVars == <<messages, cursor, message_count, pending_count>>
boundVars == <<log_op, logs, flushes, log_nmis, nested>>

NoLocal == [start |-> 0, out |-> << >>]
LogMin(m, n) == IF m < n THEN m ELSE n

LogInit ==
  /\ m_owner = UNLOCKED /\ m_depth = 0
  /\ messages = [i \in 0 .. LogLen - 1 |-> -1]
  /\ cursor = 0 /\ message_count = 0 /\ pending_count = 0
  /\ log_pc = [x \in Context |-> "idle"]
  /\ log_op = [x \in Context |-> "write"]
  /\ log_local = [x \in Context |-> NoLocal]
  /\ logs = 0 /\ flushes = 0 /\ log_nmis = 0 /\ nested = FALSE

(* The base context stands still while the core is in its NMI handler. *)
Running(x) == x[2] = "nmi" \/ log_pc[<<x[1], "nmi">>] = "idle"

Goto(x, from, to) == Running(x) /\ log_pc[x] = from /\ log_pc' = [log_pc EXCEPT ![x] = to]

-----------------------------------------------------------------------------
(* Entries.                                                                *)

(* An exit handler logs a message. *)
log_fmt_print(x) ==
  /\ x[2] = "base" /\ logs < MaxLogs
  /\ Goto(x, "idle", "test")
  /\ log_op' = [log_op EXCEPT ![x] = "write"]
  /\ logs' = logs + 1
  /\ UNCHANGED <<lockVars, ringVars, log_local, flushes, log_nmis, nested>>

(* The flush hypercall of the one thread of revhv-um that shows the log. *)
handle_flush_standard_logs(x) ==
  /\ x[2] = "base" /\ flushes < MaxFlushes
  /\ \A y \in Context : log_op[y] = "flush" => log_pc[y] = "idle"
  /\ Goto(x, "idle", "test")
  /\ log_op' = [log_op EXCEPT ![x] = "flush"]
  /\ flushes' = flushes + 1
  /\ UNCHANGED <<lockVars, ringVars, log_local, logs, log_nmis, nested>>

(* An NMI: the host handler or the NMI exit logs before anything else. *)
LogNmi(x) ==
  /\ x[2] = "nmi" /\ log_nmis < MaxLogNmis
  /\ Goto(x, "idle", "test")
  /\ log_nmis' = log_nmis + 1
  /\ nested' = (nested \/ log_pc[<<x[1], "base">>] # "idle")
  /\ UNCHANGED <<lockVars, ringVars, log_local, log_op, logs, flushes>>

-----------------------------------------------------------------------------
(* reentrant_spin_lock::lock                                               *)

lock_test(x) ==
  /\ Goto(x, "test", IF m_owner = x[1] THEN "bump" ELSE "swap")
  /\ UNCHANGED lockVars

lock_bump(x) ==
  /\ Goto(x, "bump", log_op[x])
  /\ m_depth' = m_depth + 1 /\ UNCHANGED m_owner

(* The compare-exchange that succeeds; one that fails is a spin. *)
lock_swap_unchecked(x) ==
  /\ Goto(x, "swap", "depth")
  /\ m_owner' = x[1] /\ UNCHANGED m_depth
lock_swap(x) ==
  /\ m_owner = UNLOCKED
  /\ Goto(x, "swap", "depth")
  /\ m_owner' = x[1] /\ UNCHANGED m_depth

lock_depth(x) ==
  /\ Goto(x, "depth", log_op[x])
  /\ m_depth' = 1 /\ UNCHANGED m_owner

(* reentrant_spin_lock::unlock *)
unlock_decrement(x) ==
  /\ Goto(x, "unlock", IF m_depth - 1 = 0 THEN "release" ELSE "idle")
  /\ m_depth' = m_depth - 1 /\ UNCHANGED m_owner

unlock_release(x) ==
  /\ Goto(x, "release", "idle")
  /\ m_owner' = UNLOCKED /\ UNCHANGED m_depth

LockStep(x) ==
  /\ \/ lock_test(x) \/ lock_bump(x) \/ lock_swap(x) \/ lock_depth(x)
     \/ unlock_decrement(x) \/ unlock_release(x)
  /\ UNCHANGED <<ringVars, boundVars, log_local>>

-----------------------------------------------------------------------------
(* write_to_standard_log: number and text, then cursor and pending count.  *)

write_message(x) ==
  /\ Goto(x, "write", "publish")
  /\ messages' = [messages EXCEPT ![cursor] = message_count]
  /\ message_count' = message_count + 1
  /\ log_local' = [log_local EXCEPT ![x].start = cursor]
  /\ UNCHANGED <<cursor, pending_count>>

write_publish(x) ==
  /\ Goto(x, "publish", "unlock")
  /\ cursor' = (log_local[x].start + 1) % LogLen
  /\ pending_count' = LogMin(pending_count + 1, LogLen)
  /\ log_local' = [log_local EXCEPT ![x] = NoLocal]
  /\ UNCHANGED <<messages, message_count>>

(* flush_standard_logs: the plan, the copy in at most two chunks, and the  *)
(* decrement.                                                              *)
flush_plan(x) ==
  LET available == pending_count
      count == LogMin(available, FlushMax)
      start == (cursor + LogLen - available) % LogLen
  IN /\ Goto(x, "flush", IF count = 0 THEN "unlock" ELSE "copy")
     /\ log_local' = [log_local EXCEPT ![x] = [start |-> start, out |-> [i \in 1 .. count |-> -1]]]
     /\ UNCHANGED ringVars

flush_copy(x) ==
  LET start == log_local[x].start
      count == Len(log_local[x].out)
      first_chunk == LogMin(count, LogLen - start)
  IN /\ Goto(x, "copy", "retire")
     /\ log_local' = [log_local EXCEPT ![x].out =
          [i \in 1 .. count |->
             IF i <= first_chunk THEN messages[start + i - 1] ELSE messages[i - first_chunk - 1]]]
     /\ UNCHANGED ringVars

flush_retire(x) ==
  /\ Goto(x, "retire", "unlock")
  /\ pending_count' = pending_count - Len(log_local[x].out)
  /\ log_local' = [log_local EXCEPT ![x] = NoLocal]
  /\ UNCHANGED <<messages, cursor, message_count>>

RingStep(x) ==
  /\ \/ write_message(x) \/ write_publish(x)
     \/ flush_plan(x) \/ flush_copy(x) \/ flush_retire(x)
  /\ UNCHANGED <<lockVars, boundVars>>

LogStep(x) == LockStep(x) \/ RingStep(x)

LogNext ==
  \E x \in Context :
    log_fmt_print(x) \/ handle_flush_standard_logs(x) \/ LogNmi(x) \/ LogStep(x)

(* A core in VMX root, or in its NMI handler, runs on. *)
LogSpec ==
  /\ LogInit /\ [][LogNext]_logVars
  /\ \A x \in Context : WF_logVars(LogStep(x))

-----------------------------------------------------------------------------
(* Properties.                                                             *)

(* A core that takes the log's lock gives it up, whatever NMIs log on top   *)
(* of its lock and unlock ("reentrant so nested/recursive logging from the  *)
(* same core cannot deadlock", logging.cpp; "safe for use in VMX-root",     *)
(* sync.hpp).                                                               *)
LockReleased == m_owner # UNLOCKED ~> m_owner = UNLOCKED

(* What a flush copies (flush_standard_logs) is the oldest messages that    *)
(* wait, consecutive and in order, also when the ring has wrapped or        *)
(* overwritten some; as long as no NMI handler logged inside its own core's *)
(* log code, which the TODO there leaves open.                              *)
FlushExact ==
  \A x \in Context : log_pc[x] = "retire" /\ ~nested =>
    log_local[x].out =
      [i \in 1 .. Len(log_local[x].out) |-> message_count - pending_count + i - 1]
=============================================================================
