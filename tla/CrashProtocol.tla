---------------------------- MODULE CrashProtocol ---------------------------
(***************************************************************************)
(* The unrecoverable-host-error protocol of revhv-km/error.cpp: the core   *)
(* that raises the error leaves VMX operation, sends an NMI to every other *)
(* core, waits until all have acknowledged and calls KeBugCheckEx; the     *)
(* others leave VMX operation and hang.  vcpu::devirtualize is cut where   *)
(* an NMI meets a different world: VMXOFF, then the reload of the IDT.     *)
(***************************************************************************)
EXTENDS Integers, FiniteSets

CONSTANTS
  Core,      \* logical processors, all launched
  MaxErrors  \* bound: unrecoverable errors raised in a behaviour

ASSUME CoreAssumption == IsFiniteSet(Core) /\ Core # {}
ASSUME ErrorsAssumption == MaxErrors \in Nat

VARIABLES
  crash_in_progress,     \* g_hv.crash_in_progress
  crash_ack_core_count,  \* g_hv.crash_ack_core_count
  pc,       \* where a core is
  vmx,      \* cores in VMX operation
  os_idt,   \* cores whose IDT is Windows' again
  nmi,      \* cores with an NMI latched
  masked,   \* cores inside an NMI handler or after an NMI exit: NMIs blocked
  foreign,  \* cores that Windows stopped over an NMI it did not expect
  errors    \* errors raised so far

vars == <<crash_in_progress, crash_ack_core_count, pc, vmx, os_idt, nmi, masked, foreign, errors>>

(* The steps of raise_host_crash, and of give_control_on_unrecoverable_error. *)
Raising == {"raise_off", "raise_idt", "raise_ack", "send", "wait"}
Giving == {"give_off", "give_idt", "give_ack", "unblock", "hang"}
Bugchecked == {"bugcheck", "bugcheck_unsent"}
PC == {"guest", "root", "claim", "fault"} \cup Raising \cup Giving \cup Bugchecked

Goto(c, l) == pc' = [pc EXCEPT ![c] = l]

-----------------------------------------------------------------------------
(* The guest, VM-exits and the error that starts it all. *)

EnterRoot(c) ==
  /\ pc[c] = "guest" /\ Goto(c, "root")
  /\ UNCHANGED <<crash_in_progress, crash_ack_core_count, vmx, os_idt, nmi, masked, foreign, errors>>

LeaveRoot(c) ==
  /\ pc[c] = "root" /\ Goto(c, "guest")
  /\ UNCHANGED <<crash_in_progress, crash_ack_core_count, vmx, os_idt, nmi, masked, foreign, errors>>

(* An unexpected exception or exit reason: unrecoverable_host_error. *)
Error(c) ==
  /\ pc[c] = "root" /\ errors < MaxErrors
  /\ errors' = errors + 1
  /\ Goto(c, "claim")
  /\ UNCHANGED <<crash_in_progress, crash_ack_core_count, vmx, os_idt, nmi, masked, foreign>>

-----------------------------------------------------------------------------
(* raise_host_crash: the compare-and-exchange elects one core; a loser goes *)
(* on to give_control_on_unrecoverable_error, which finds the flag set.     *)
claim_unchecked(c) ==
  /\ pc[c] = "claim"
  /\ crash_in_progress' = 1
  /\ Goto(c, "raise_off")
  /\ UNCHANGED <<crash_ack_core_count, vmx, os_idt, nmi, masked, foreign, errors>>

claim(c) ==
  /\ pc[c] = "claim"
  /\ crash_in_progress' = 1
  /\ Goto(c, IF crash_in_progress = 0 THEN "raise_off" ELSE "give_off")
  /\ UNCHANGED <<crash_ack_core_count, vmx, os_idt, nmi, masked, foreign, errors>>

(* devirtualize.  VMXOFF outside VMX operation raises #UD; the host's       *)
(* handler raises another unrecoverable error, which executes VMXOFF again. *)
vmxoff(c) ==
  /\ pc[c] \in {"raise_off", "give_off"}
  /\ IF c \in vmx
     THEN Goto(c, IF pc[c] = "raise_off" THEN "raise_idt" ELSE "give_idt")
     ELSE Goto(c, "fault")
  /\ vmx' = vmx \ {c}
  /\ UNCHANGED <<crash_in_progress, crash_ack_core_count, os_idt, nmi, masked, foreign, errors>>

restore_idt(c) ==
  /\ pc[c] \in {"raise_idt", "give_idt"}
  /\ os_idt' = os_idt \cup {c}
  /\ Goto(c, IF pc[c] = "raise_idt" THEN "raise_ack" ELSE "give_ack")
  /\ UNCHANGED <<crash_in_progress, crash_ack_core_count, vmx, nmi, masked, foreign, errors>>

acknowledge_raiser_only(c) ==
  /\ pc[c] \in {"raise_ack", "give_ack"}
  /\ crash_ack_core_count' = crash_ack_core_count + (IF pc[c] = "raise_ack" THEN 1 ELSE 0)
  /\ Goto(c, IF pc[c] = "raise_ack" THEN "send" ELSE "unblock")
  /\ UNCHANGED <<crash_in_progress, vmx, os_idt, nmi, masked, foreign, errors>>

(* atomic_increment: from here the raiser may see the core counted. *)
acknowledge(c) ==
  /\ pc[c] \in {"raise_ack", "give_ack"}
  /\ crash_ack_core_count' = crash_ack_core_count + 1
  /\ Goto(c, IF pc[c] = "raise_ack" THEN "send" ELSE "unblock")
  /\ UNCHANGED <<crash_in_progress, vmx, os_idt, nmi, masked, foreign, errors>>

(* The crafted IRETQ unblocks NMIs and returns to the loop that hangs. *)
cpu_hang_unblock_nmi(c) ==
  /\ pc[c] = "unblock"
  /\ masked' = masked \ {c}
  /\ Goto(c, "hang")
  /\ UNCHANGED <<crash_in_progress, crash_ack_core_count, vmx, os_idt, nmi, foreign, errors>>

send_nmi_to_none(c) ==
  /\ pc[c] = "send"
  /\ nmi' = nmi
  /\ Goto(c, "wait")
  /\ UNCHANGED <<crash_in_progress, crash_ack_core_count, vmx, os_idt, masked, foreign, errors>>

(* NMIs to all others; in xAPIC mode the APIC's page may not be mappable. *)
send_nmi_all_others(c) ==
  /\ pc[c] = "send"
  /\ \/ nmi' = nmi \cup (Core \ {c}) /\ Goto(c, "wait")
     \/ nmi' = nmi /\ Goto(c, "bugcheck_unsent")
  /\ UNCHANGED <<crash_in_progress, crash_ack_core_count, vmx, os_idt, masked, foreign, errors>>

wait_for_others_only(c) ==
  /\ pc[c] = "wait"
  /\ crash_ack_core_count >= Cardinality(Core) - 1
  /\ Goto(c, "bugcheck")
  /\ UNCHANGED <<crash_in_progress, crash_ack_core_count, vmx, os_idt, nmi, masked, foreign, errors>>

wait_for_acks(c) ==
  /\ pc[c] = "wait"
  /\ crash_ack_core_count >= Cardinality(Core)
  /\ Goto(c, "bugcheck")
  /\ UNCHANGED <<crash_in_progress, crash_ack_core_count, vmx, os_idt, nmi, masked, foreign, errors>>

-----------------------------------------------------------------------------
(* handle_nmi, from the guest (a VM-exit) or in VMX root (an interrupt): if *)
(* a crash is in progress the core gives control and never resumes what it  *)
(* was doing; otherwise the NMI is queued for the guest (module NmiQueue).  *)
handle_nmi(c) ==
  /\ c \in nmi /\ c \notin masked /\ c \notin os_idt
  /\ pc[c] # "fault"
  /\ nmi' = nmi \ {c}
  /\ IF crash_in_progress # 0
     THEN Goto(c, "give_off") /\ masked' = masked \cup {c}
     ELSE UNCHANGED <<pc, masked>>
  /\ UNCHANGED <<crash_in_progress, crash_ack_core_count, vmx, os_idt, foreign, errors>>

(* External: an NMI that finds Windows' IDT is Windows' to handle.  It      *)
(* expects none: it dismisses it or, usually, bugchecks on that core.       *)
windows_nmi(c) ==
  /\ c \in nmi /\ c \notin masked /\ c \in os_idt
  /\ nmi' = nmi \ {c}
  /\ foreign' = foreign \/ foreign' = foreign \cup {c}
  /\ UNCHANGED <<crash_in_progress, crash_ack_core_count, pc, vmx, os_idt, masked, errors>>

-----------------------------------------------------------------------------
Init ==
  /\ crash_in_progress = 0 /\ crash_ack_core_count = 0
  /\ pc = [c \in Core |-> "guest"]
  /\ vmx = Core /\ os_idt = {} /\ nmi = {} /\ masked = {} /\ foreign = {}
  /\ errors = 0

(* What a core does by itself, unless Windows has stopped it. *)
Proceed(c) ==
  /\ c \notin foreign
  /\ \/ claim(c) \/ vmxoff(c) \/ restore_idt(c) \/ acknowledge(c) \/ cpu_hang_unblock_nmi(c)
     \/ send_nmi_all_others(c) \/ wait_for_acks(c)

Next ==
  \E c \in Core :
    \/ EnterRoot(c) \/ LeaveRoot(c) \/ Error(c)
    \/ Proceed(c) \/ handle_nmi(c) \/ windows_nmi(c)

(* Every processor runs, and takes an NMI that it does not block. *)
Fairness == \A c \in Core : WF_vars(Proceed(c)) /\ WF_vars(handle_nmi(c))

Spec == Init /\ [][Next]_vars /\ Fairness

-----------------------------------------------------------------------------
(* Properties.                                                             *)

GaveControl == {c \in Core : pc[c] \in {"send", "wait", "unblock", "hang"} \cup Bugchecked}

(* Types; the acknowledgement count is the number of cores that have left   *)
(* VMX operation with Windows' IDT, each counted once, and Windows stops no *)
(* core that is still revhv's.                                              *)
TypeOK ==
  /\ crash_in_progress \in {0, 1}
  /\ crash_ack_core_count = Cardinality(GaveControl)
  /\ pc \in [Core -> PC]
  /\ vmx \subseteq Core /\ os_idt \subseteq Core /\ nmi \subseteq Core /\ masked \subseteq Core
  /\ foreign \subseteq os_idt
  /\ errors \in 0 .. MaxErrors
  /\ \A c \in GaveControl : c \notin vmx /\ c \in os_idt

(* One core calls KeBugCheckEx, however many raise an error at once. *)
OneRaiser == \A c, d \in Core : pc[c] \in Raising \cup Bugchecked
                                 /\ pc[d] \in Raising \cup Bugchecked => c = d

(* "Windows can take control of all cores when KeBugCheckEx is called":     *)
(* every other core has acknowledged, is out of VMX operation and has       *)
(* Windows' IDT.  The last may still be on its way to the IRETQ that        *)
(* unblocks its NMIs; that it gets there is CrashCompletes.                 *)
BugcheckAfterAll ==
  \A c \in Core : pc[c] = "bugcheck" =>
    \A d \in Core \ {c} : pc[d] \in {"unblock", "hang"} /\ d \notin vmx /\ d \in os_idt

HandedOver(c) == \A d \in Core \ {c} : pc[d] = "hang" /\ d \notin masked

(* The failure path ends: once an error is raised the raiser reaches        *)
(* KeBugCheckEx and every other core hangs with NMIs unblocked, unless the  *)
(* NMIs cannot be sent, a core executes VMXOFF twice or Windows bugchecks   *)
(* over a raiser's NMI.                                                     *)
CrashCompletes ==
  (\E c \in Core : pc[c] = "claim")
    ~> \/ \E c \in Core : pc[c] = "bugcheck" /\ HandedOver(c)
       \/ \E c \in Core : pc[c] \in {"bugcheck_unsent", "fault"}
       \/ foreign # {}

(* "stop in a way that preserves diagnostic state and avoids triple-faults  *)
(* or resets": no core executes VMXOFF outside VMX operation, where the #UD *)
(* handler would raise the next error and execute it again.                 *)
NoSecondVmxoff == \A c \in Core : pc[c] # "fault"

(* An NMI through Windows' IDT "specifically happens when [...] all cores   *)
(* have not launched yet": with all launched, as here, Windows never        *)
(* bugchecks over a raiser's NMI.                                           *)
NoForeignBugcheck == foreign = {}
=============================================================================
