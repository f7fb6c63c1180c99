------------------------------ MODULE NmiQueue ------------------------------
(***************************************************************************)
(* How one vCPU passes NMIs on to its guest: the NMI and NMI-window exits  *)
(* of revhv-km/vmexit.cpp, the host NMI handler of revhv-km/exception.cpp, *)
(* and the NMI-window-exiting control bit (revhv-km/vmcs.cpp).             *)
(*                                                                         *)
(* An NMI that arrives in VMX root interrupts the exit handler between two *)
(* instructions.  Inside an NMI handler, and after an exit caused by an    *)
(* NMI, further NMIs are blocked: those handlers are single steps.         *)
(***************************************************************************)
EXTENDS Integers

CONSTANTS
  SplitDecrement,  \* --queued_nmi_count is compiled to a load and a store
  MaxNmi           \* bound: NMIs raised in a behaviour

ASSUME NmiAssumption == SplitDecrement \in BOOLEAN /\ MaxNmi \in Nat

VARIABLES
  nmi_pc,             \* "guest", or where the exit handler is
  queued_nmi_count,   \* vcpu->queued_nmi_count
  loaded,             \* the register that holds it during a decrement
  nmi_window_exiting, \* the processor-based control bit
  inject,             \* the VM-entry interruption-information field holds an NMI
  blocked,            \* the guest blocks virtual NMIs: it is in its NMI handler
  latched,            \* the processor holds an NMI
  raised,             \* NMIs raised so far
  received,           \* history: NMIs a handler of the hypervisor took
  delivered           \* history: NMIs the guest took

nmiVars == <<nmi_pc, queued_nmi_count, loaded, nmi_window_exiting, inject, blocked, latched,
             raised, received, delivered>>

-----------------------------------------------------------------------------
(* External: the processor.                                                *)

(* The processor latches one NMI; another that arrives meanwhile merges.    *)
NmiRaised ==
  /\ raised < MaxNmi
  /\ raised' = raised + 1
  /\ latched' = TRUE
  /\ UNCHANGED <<nmi_pc, queued_nmi_count, loaded, nmi_window_exiting, inject, blocked,
                 received, delivered>>

(* The guest's NMI handler ends with IRET. *)
GuestIret ==
  /\ nmi_pc = "guest" /\ blocked
  /\ blocked' = FALSE
  /\ UNCHANGED <<nmi_pc, queued_nmi_count, loaded, nmi_window_exiting, inject, latched,
                 raised, received, delivered>>

(* VM-entry delivers what the interruption-information field holds. *)
GuestEntry ==
  /\ nmi_pc = "resume"
  /\ nmi_pc' = "guest"
  /\ inject' = FALSE
  /\ blocked' = IF inject THEN TRUE ELSE blocked
  /\ delivered' = IF inject THEN delivered + 1 ELSE delivered
  /\ UNCHANGED <<queued_nmi_count, loaded, nmi_window_exiting, latched, raised, received>>

(* Any other exit; handler clears the interruption-information field. *)
OtherExit ==
  /\ nmi_pc = "guest"
  /\ nmi_pc' = "resume"
  /\ inject' = FALSE
  /\ UNCHANGED <<queued_nmi_count, loaded, nmi_window_exiting, blocked, latched, raised,
                 received, delivered>>

-----------------------------------------------------------------------------
(* handle_nmi of vmexit.cpp and of exception.cpp make the same two changes. *)
enqueue_nmi_only ==
  /\ latched' = FALSE
  /\ received' = received + 1
  /\ queued_nmi_count' = queued_nmi_count + 1
  /\ UNCHANGED nmi_window_exiting

enqueue_nmi ==
  /\ latched' = FALSE
  /\ received' = received + 1
  /\ queued_nmi_count' = queued_nmi_count + 1
  /\ nmi_window_exiting' = TRUE

(* An NMI in the guest: a VM-exit whatever the guest blocks, and the        *)
(* VM-entry that ends it.                                                   *)
guest_handle_nmi ==
  /\ nmi_pc = "guest" /\ latched
  /\ enqueue_nmi
  /\ inject' = FALSE
  /\ UNCHANGED <<nmi_pc, loaded, blocked, raised, delivered>>

(* An NMI in VMX root: an interrupt of the exit handler. *)
host_handle_nmi ==
  /\ nmi_pc # "guest" /\ latched
  /\ enqueue_nmi
  /\ UNCHANGED <<nmi_pc, loaded, inject, blocked, raised, delivered>>

-----------------------------------------------------------------------------
(* handle_nmi_window, from the exit on.                                     *)

NmiWindowExit ==
  /\ nmi_pc = "guest" /\ nmi_window_exiting /\ ~blocked
  /\ nmi_pc' = "load"
  /\ inject' = FALSE
  /\ UNCHANGED <<queued_nmi_count, loaded, nmi_window_exiting, blocked, latched, raised,
                 received, delivered>>

(* --queued_nmi_count, in one instruction or as a load and a store. *)
DecrementInTwo ==
  \/ /\ nmi_pc = "load"
     /\ loaded' = queued_nmi_count
     /\ nmi_pc' = "store" /\ UNCHANGED queued_nmi_count
  \/ /\ nmi_pc = "store"
     /\ queued_nmi_count' = loaded - 1
     /\ loaded' = 0
     /\ nmi_pc' = "inject"

Decrement ==
  \/ /\ nmi_pc = "load" /\ ~SplitDecrement
     /\ queued_nmi_count' = queued_nmi_count - 1
     /\ nmi_pc' = "inject" /\ UNCHANGED loaded
  \/ /\ nmi_pc = "load" /\ SplitDecrement
     /\ loaded' = queued_nmi_count
     /\ nmi_pc' = "store" /\ UNCHANGED queued_nmi_count
  \/ /\ nmi_pc = "store"
     /\ queued_nmi_count' = loaded - 1
     /\ loaded' = 0
     /\ nmi_pc' = "inject"

inject_nmi ==
  /\ nmi_pc = "inject"
  /\ inject' = TRUE
  /\ nmi_pc' = "test"
  /\ UNCHANGED <<queued_nmi_count, loaded, nmi_window_exiting, blocked, latched, raised,
                 received, delivered>>

DecrementStep ==
  /\ Decrement
  /\ UNCHANGED <<nmi_window_exiting, inject, blocked, latched, raised, received, delivered>>

(* if (queued_nmi_count == 0) disable; if (queued_nmi_count != 0) enable *)
TestEmptyNever == nmi_pc = "test" /\ nmi_pc' = "resume"
TestEmpty == nmi_pc = "test" /\ nmi_pc' = IF queued_nmi_count = 0 THEN "disable" ELSE "resume"
TestAgainSkipped == nmi_pc = "again" /\ nmi_pc' = "resume"
TestAgain == nmi_pc = "again" /\ nmi_pc' = IF queued_nmi_count # 0 THEN "enable" ELSE "resume"

Test ==
  /\ TestEmpty \/ TestAgain
  /\ UNCHANGED <<queued_nmi_count, loaded, nmi_window_exiting, inject, blocked, latched,
                 raised, received, delivered>>

disable_nmi_window_exiting == nmi_pc = "disable" /\ nmi_window_exiting' = FALSE /\ nmi_pc' = "again"
enable_nmi_window_exiting == nmi_pc = "enable" /\ nmi_window_exiting' = TRUE /\ nmi_pc' = "resume"

SetWindow ==
  /\ disable_nmi_window_exiting \/ enable_nmi_window_exiting
  /\ UNCHANGED <<queued_nmi_count, loaded, inject, blocked, latched, raised, received, delivered>>

handle_nmi_window == DecrementStep \/ inject_nmi \/ Test \/ SetWindow

-----------------------------------------------------------------------------
NmiInit ==
  /\ nmi_pc = "guest" /\ queued_nmi_count = 0 /\ loaded = 0
  /\ nmi_window_exiting = FALSE /\ inject = FALSE /\ blocked = FALSE /\ latched = FALSE
  /\ raised = 0 /\ received = 0 /\ delivered = 0

HandleNmi == guest_handle_nmi \/ host_handle_nmi

NmiNext ==
  \/ NmiRaised \/ HandleNmi
  \/ OtherExit \/ NmiWindowExit \/ handle_nmi_window \/ GuestEntry \/ GuestIret

(* The processor takes latched NMIs and window exits, the handlers run to   *)
(* their end, and the guest returns from its NMI handler.  A window exit    *)
(* has priority over the guest's next instruction, hence strong fairness.   *)
NmiFairness ==
  /\ WF_nmiVars(HandleNmi)
  /\ WF_nmiVars(handle_nmi_window)
  /\ WF_nmiVars(GuestEntry)
  /\ SF_nmiVars(NmiWindowExit)
  /\ SF_nmiVars(GuestIret)

NmiSpec == NmiInit /\ [][NmiNext]_nmiVars /\ NmiFairness

-----------------------------------------------------------------------------
(* Properties.                                                             *)

(* Types; the count never runs below zero, which would keep the window open *)
(* and inject NMIs nobody raised.                                           *)
NmiTypeOK ==
  /\ nmi_pc \in {"guest", "load", "store", "inject", "test", "disable", "again", "enable", "resume"}
  /\ queued_nmi_count \in Nat /\ loaded \in Nat
  /\ nmi_window_exiting \in BOOLEAN /\ inject \in BOOLEAN
  /\ blocked \in BOOLEAN /\ latched \in BOOLEAN
  /\ raised \in Nat /\ received \in Nat /\ delivered \in Nat

(* The guest runs with the window control set exactly while NMIs wait, also *)
(* when a host NMI falls between the test of the count and the write of the *)
(* control ("in case a host NMI occurred while we were handling the NMI     *)
(* window").                                                                *)
WindowArmed == nmi_pc = "guest" => (nmi_window_exiting <=> queued_nmi_count > 0)

(* Every NMI the hypervisor took is waiting, being injected or delivered    *)
(* ("enqueue the NMI to be injected into the guest when NMIs are            *)
(* unblocked").                                                             *)
NmisConserved ==
  LET taken == IF nmi_pc = "inject" THEN 1 ELSE 0
      injecting == IF inject THEN 1 ELSE 0
  IN received = queued_nmi_count + taken + injecting + delivered

(* An NMI the hypervisor took reaches the guest. *)
NmisDelivered == \A k \in 1 .. MaxNmi : received = k ~> delivered >= k
=============================================================================
