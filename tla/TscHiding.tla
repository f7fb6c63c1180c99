----------------------------- MODULE TscHiding ------------------------------
(***************************************************************************)
(* Hiding the cost of VM-exits from the guest's time-stamp counter on one  *)
(* vCPU: the benchmark of revhv-km/stealth.cpp, the offset arithmetic of   *)
(* vmexit_stub.asm, and the preemption timer that re-synchronises the      *)
(* counter (vmexit.cpp).  tsc_hiding_enabled is set.                       *)
(*                                                                         *)
(* Time runs in units; an exit costs from the instruction to the store of  *)
(* the TSC, then in the handler, then from VMRESUME to the guest.          *)
(***************************************************************************)
EXTENDS Integers

CONSTANTS
  ExitCost, HandlerCost, EntryCost, \* sets of possible costs
  InsnCost,        \* instruction_overhead: what the instruction takes natively
  MaxTsc           \* bound on time

ASSUME CostAssumption ==
  /\ ExitCost \subseteq Nat \ {0} /\ HandlerCost \subseteq Nat \ {0}
  /\ EntryCost \subseteq Nat \ {0} /\ InsnCost \subseteq Nat \ {0}
  /\ \A i \in InsnCost, t \in HandlerCost : i <= t   \* executed in the handler; 100 cycles for a MOV to CR
  /\ MaxTsc \in Nat

VARIABLES
  tsc,                       \* the processor's counter
  offset_field,              \* the TSC offset in the VMCS
  tsc_offset,                \* stealth_data.tsc_data.tsc_offset
  vmexit_to_store_overhead, vmentry_overhead,
  bench,                     \* "warm up", "measure" or "completed"
  preemption_timer_enabled

tscVars == <<tsc, offset_field, tsc_offset, vmexit_to_store_overhead, vmentry_overhead, bench,
             preemption_timer_enabled>>
overheads == <<vmexit_to_store_overhead, vmentry_overhead>>

TscInit ==
  /\ tsc = 0 /\ offset_field = 0 /\ tsc_offset = 0
  /\ vmexit_to_store_overhead = 0 /\ vmentry_overhead = 0
  /\ bench = "warm up" /\ preemption_timer_enabled = FALSE

(* What RDTSC returns in the guest. *)
GuestTsc == tsc + offset_field

Pass(t) == tsc' = tsc + t /\ tsc' <= MaxTsc

GuestRuns ==
  /\ Pass(1)
  /\ UNCHANGED <<offset_field, tsc_offset, overheads, bench, preemption_timer_enabled>>

-----------------------------------------------------------------------------
(* bench_tsc_overhead.  The stub's fast path leaves -1 in the offset field. *)

LeastOf(least, sample) == IF sample < least \/ least = 0 THEN sample ELSE least

(* The stored TSC minus the guest's RDTSC before the exit, and the guest's   *)
(* RDTSC after the entry minus the host's before it.                        *)
stealth_vmexit_bench_one(e, n) == [diff |-> tsc + e - GuestTsc, entry |-> n - 1]

bench_tsc_overhead ==
  \E e \in ExitCost, n \in EntryCost :
    LET sample == stealth_vmexit_bench_one(e, n)
    IN /\ bench \in {"warm up", "measure"}
       /\ Pass(e + n)
       /\ offset_field' = -1
       /\ IF bench = "warm up"
          THEN UNCHANGED overheads
          ELSE /\ vmexit_to_store_overhead' = LeastOf(vmexit_to_store_overhead, sample.diff)
               /\ vmentry_overhead' = LeastOf(vmentry_overhead, sample.entry)
       /\ bench' = "measure"
       /\ UNCHANGED <<tsc_offset, preemption_timer_enabled>>

(* Ten thousand iterations are taken to meet the least costs. *)
bench_completed ==
  /\ bench = "measure"
  /\ vmexit_to_store_overhead > 0
  /\ \A e \in ExitCost : vmexit_to_store_overhead <= e + 1
  /\ \A n \in EntryCost : vmentry_overhead <= n - 1
  /\ bench' = "completed"
  /\ UNCHANGED <<tsc, offset_field, tsc_offset, overheads, preemption_timer_enabled>>

-----------------------------------------------------------------------------
(* Exits.                                                                  *)

(* handler returned no tsc_data: the guest sees the whole cost. *)
PlainExit ==
  /\ \E e \in ExitCost, t \in HandlerCost, n \in EntryCost : Pass(e + t + n)
  /\ UNCHANGED <<offset_field, tsc_offset, overheads, bench, preemption_timer_enabled>>

(* CPUID, RDMSR, WRMSR, XSETBV and control registers: handler arms the      *)
(* timer, update_tsc_offset subtracts the cost.                             *)
hidden_exit ==
  \E e \in ExitCost, t \in HandlerCost, i \in InsnCost, n \in EntryCost :
    LET stored_tsc == tsc + e
        curr_tsc == stored_tsc + t
        desired_tsc == stored_tsc + i - vmentry_overhead - vmexit_to_store_overhead
    IN /\ bench = "completed"
       /\ preemption_timer_enabled' = TRUE
       /\ tsc_offset' = tsc_offset - (curr_tsc - desired_tsc)
       /\ offset_field' = tsc_offset'
       /\ Pass(e + t + n)
       /\ UNCHANGED <<overheads, bench>>

(* The timer, also when "disabled" (set to its largest value), may expire.  *)
preemption_timer_expired_field_only ==
  /\ offset_field' = 0
  /\ preemption_timer_enabled' = FALSE
  /\ \E e \in ExitCost, t \in HandlerCost, n \in EntryCost : Pass(e + t + n)
  /\ UNCHANGED <<tsc_offset, overheads, bench>>
preemption_timer_expired ==
  /\ tsc_offset' = 0
  /\ offset_field' = 0
  /\ preemption_timer_enabled' = FALSE
  /\ \E e \in ExitCost, t \in HandlerCost, n \in EntryCost : Pass(e + t + n)
  /\ UNCHANGED <<overheads, bench>>

TscNext ==
  \/ GuestRuns \/ bench_tsc_overhead \/ bench_completed
  \/ PlainExit \/ hidden_exit \/ preemption_timer_expired

-----------------------------------------------------------------------------
(* Properties.                                                             *)

(* The guest's time-stamp counter never runs backwards: not over a hidden   *)
(* exit (update_tsc_offset), whose cost varies around the measured one, and *)
(* not when the timer's expiry or the benchmark rewrites the offset.        *)
GuestClockMonotone == [][GuestTsc' >= GuestTsc]_tscVars
=============================================================================
