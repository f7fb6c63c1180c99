------------------------------ MODULE GuestCpu ------------------------------
(***************************************************************************)
(* The instruction exits of revhv-km/vmexit.cpp on one vCPU: control       *)
(* registers under guest/host masks and read shadows, instructions that    *)
(* the handler executes on the guest's behalf under an exception wrapper,  *)
(* injected faults, and the advance of the guest's RIP.                    *)
(*                                                                         *)
(* A step that ends in VM-entry is one step: the guest sees nothing of     *)
(* what happens before it.  Bits and instructions are those of BareCpu.    *)
(***************************************************************************)
CONSTANTS
  Insn, NoInsn, HasSmx, Cr4Lacks,
  Bit,              \* the bits of the control registers
  Cr0Fixed0, Cr0Fixed1, Cr4Fixed0, Cr4Fixed1,  \* the IA32_VMX_CRx_FIXEDx MSRs
  OsCr0, OsCr4      \* the control registers when the driver loads

ASSUME FixedAssumption ==
  /\ Cr0Fixed0 \subseteq Cr0Fixed1 /\ Cr0Fixed1 \subseteq Bit
  /\ Cr4Fixed0 \subseteq Cr4Fixed1 /\ Cr4Fixed1 \subseteq Bit
  /\ "VMXE" \in Cr4Fixed0 /\ "TS" \notin Cr0Fixed0

(* What IA32_VMX_CR0_FIXED0/1 and IA32_VMX_CR4_FIXED0/1 report of the bits *)
(* with a rule of their own, on every processor with VMX; and the OS loads *)
(* the driver with registers that the processor takes.                     *)
ASSUME RegisterAssumption ==
  /\ {"PE", "MP", "EM", "TS", "ET"} \subseteq Bit
  /\ "PE" \in Cr0Fixed0 /\ {"ET", "WP"} \subseteq Cr0Fixed1
  /\ "LO" \notin Cr0Fixed0
  /\ "CET" \notin Cr4Fixed0 /\ Cr4Lacks \cap Cr4Fixed1 = {}
  /\ "CET" \in OsCr4 => "WP" \in OsCr0

(* Operands of MOV to CR0 and CR4 are sets of bits.  `fault` is the fault  *)
(* that neither operand nor CR4 decide; at CPL 0 these have none.          *)
ASSUME InsnAssumption ==
  /\ NoInsn \notin Insn
  /\ \A i \in Insn : i.op \in {"mov_cr0", "mov_cr4"} => i.val \subseteq Bit
  /\ \A i \in Insn : i.fault \in {"none", "GP", "UD"}
  /\ \A i \in Insn : i.op \in {"mov_cr3", "clts", "lmsw", "cpuid"} => i.fault = "none"

VARIABLES
  guest_cr0, guest_cr4, cr0_shadow, cr4_shadow, \* VMCS fields
  cr3_low,            \* CR3[11:0] # 0
  insn,               \* the guest's instruction in progress
  cpu_pc,             \* "guest", "root" or "executed" (the wrapper has returned)
  guest_rip,          \* "fits" its code segment, or "high": past 4 GB outside 64-bit mode
  exception_info,     \* vcpu->exception_info: a vector, or "none"
  entry_info,         \* the VM-entry interruption-information field: [vector, error]
  again,              \* the emulated instruction runs again: its RIP was not advanced
  insn_outcome        \* what the guest observed of its last instruction, as in BareCpu

guestVars == <<guest_cr0, guest_cr4, cr0_shadow, cr4_shadow, cr3_low, insn, cpu_pc,
               guest_rip, exception_info, entry_info, again, insn_outcome>>
crVars == <<guest_cr0, guest_cr4, cr0_shadow, cr4_shadow, cr3_low>>

Ref == INSTANCE BareCpu WITH cr0 <- {}, cr4 <- {}, low <- FALSE, current <- NoInsn, outcome <- "ok"

-----------------------------------------------------------------------------
(* enable_vmx, write_other_control_fields and write_guest_state_fields.    *)

FixCr0(v) == (v \cup Cr0Fixed0) \cap Cr0Fixed1
FixCr4(v) == (v \cup Cr4Fixed0) \cap Cr4Fixed1

Cr0GuestHostMask == Cr0Fixed0 \cup (Bit \ Cr0Fixed1)
Cr4GuestHostMask == Cr4Fixed0 \cup (Bit \ Cr4Fixed1) \cup {"VMXE"}

NoEvent == [vector |-> "none", error |-> FALSE]

GuestInit ==
  /\ guest_cr0 = FixCr0(OsCr0)
  /\ guest_cr4 = FixCr4(OsCr4 \cup {"VMXE"})
  /\ cr0_shadow = guest_cr0
  /\ cr4_shadow = guest_cr4 \ {"VMXE"}
  /\ cr3_low = FALSE
  /\ insn = NoInsn /\ cpu_pc = "guest" /\ guest_rip = "fits"
  /\ exception_info = "none" /\ entry_info = NoEvent
  /\ again = FALSE /\ insn_outcome = "ok"

get_effective_guest_cr0 == (cr0_shadow \cap Cr0GuestHostMask) \cup (guest_cr0 \ Cr0GuestHostMask)
get_effective_guest_cr4 == (cr4_shadow \cap Cr4GuestHostMask) \cup (guest_cr4 \ Cr4GuestHostMask)

-----------------------------------------------------------------------------
(* External: the processor in VMX non-root operation.                      *)

(* What VM-entry injects is delivered before the next instruction.  An exit *)
(* for another reason (NMI, timer, EPT violation) changes nothing here.     *)
GuestIssue ==
  /\ cpu_pc = "guest" /\ insn = NoInsn
  /\ \E i \in Insn : insn' = i
  /\ insn_outcome' = "running"
  /\ entry_info' = NoEvent
  /\ UNCHANGED <<crVars, cpu_pc, guest_rip, exception_info, again>>

(* Whether the instruction exits.  A fault that the operand alone causes    *)
(* has no say: the masked bits decide first.  GETSEC is undefined, not an   *)
(* exit, without CR4.SMXE; the real CR4.VMXE is always set.                 *)
Exits(i) ==
  CASE i.op = "mov_cr0" -> (i.val \cap Cr0GuestHostMask) # (cr0_shadow \cap Cr0GuestHostMask)
    [] i.op = "mov_cr4" -> (i.val \cap Cr4GuestHostMask) # (cr4_shadow \cap Cr4GuestHostMask)
    [] i.op = "mov_cr3" -> FALSE
    [] i.op = "getsec" -> "SMXE" \in guest_cr4
    [] i.op = "clts" -> "TS" \in Cr0GuestHostMask \cap cr0_shadow
    [] i.op = "lmsw" -> \/ "PE" \in (i.val \cap Cr0GuestHostMask) \ cr0_shadow
                        \/ \E b \in {"MP", "EM", "TS"} \cap Cr0GuestHostMask :
                             (b \in i.val) # (b \in cr0_shadow)
    [] OTHER -> TRUE

VmExit ==
  /\ cpu_pc = "guest" /\ insn # NoInsn /\ Exits(insn)
  /\ cpu_pc' = "root"
  /\ entry_info' = NoEvent          \* clear_vmentry_interrupt_info
  /\ UNCHANGED <<crVars, insn, guest_rip, exception_info, again, insn_outcome>>

(* The fault of an instruction that does not exit.  Masked bits, those that *)
(* the processor lacks among them, are not written and not looked at.       *)
NativeFault(i, c0, c4) ==
  CASE i.op = "mov_cr0" -> IF Ref!Cr0Faults(i.val, c4) THEN "GP" ELSE "none"
    [] i.op = "mov_cr4" -> IF Ref!Cr4Faults(i.val, c0, c4, cr3_low) THEN "GP" ELSE "none"
    [] i.op = "getsec" -> "UD"
    [] OTHER -> i.fault

(* The processor executes it: masked bits keep their value. *)
Native ==
  /\ cpu_pc = "guest" /\ insn # NoInsn /\ ~Exits(insn)
  /\ insn' = NoInsn /\ again' = FALSE
  /\ LET c0 == get_effective_guest_cr0
         c4 == get_effective_guest_cr4
         f == NativeFault(insn, c0, c4)
     IN IF f = "none"
        THEN /\ guest_cr0' = (guest_cr0 \cap Cr0GuestHostMask)
                               \cup (Ref!Cr0After(insn, c0) \ Cr0GuestHostMask)
             /\ guest_cr4' = (guest_cr4 \cap Cr4GuestHostMask)
                               \cup (Ref!Cr4After(insn, c4) \ Cr4GuestHostMask)
             /\ cr3_low' = Ref!LowAfter(insn, cr3_low)
             /\ insn_outcome' = Ref!Done(insn)
        ELSE insn_outcome' = f /\ UNCHANGED <<guest_cr0, guest_cr4, cr3_low>>
  /\ UNCHANGED <<cr0_shadow, cr4_shadow, cpu_pc, guest_rip, exception_info, entry_info>>

-----------------------------------------------------------------------------
(* How a handler ends: with the guest's RIP advanced, with a fault, or with *)
(* neither.  VM-entry follows in the same step.                             *)

(* A RIP that runs past 4 GB outside 64-bit mode is cut to 32 bits; STI and *)
(* MOV SS blocking end; a set TF leaves a single-step trap pending.         *)
advance_guest_rip ==
  /\ insn' = NoInsn
  /\ insn_outcome' = IF insn.tf THEN "step" ELSE "ok"
  /\ LET new_rip == IF insn.wraps THEN "high" ELSE "fits"
     IN  guest_rip' = IF new_rip = "high" THEN "fits" ELSE new_rip
  /\ cpu_pc' = "guest"
  /\ UNCHANGED <<entry_info, again>>

inject_hw_exception(event) ==
  /\ entry_info' = event
  /\ insn' = NoInsn
  /\ insn_outcome' = event.vector
  /\ cpu_pc' = "guest"
  /\ UNCHANGED <<guest_rip, again>>

GP0 == [vector |-> "GP", error |-> TRUE]
UD == [vector |-> "UD", error |-> FALSE]

vector_has_error_code(v) == v = "GP"

(* inject_host_hw_exception_to_guest, with a wrapper's recorded exception. *)
inject_host_hw_exception_to_guest ==
  /\ inject_hw_exception([vector |-> exception_info, error |-> vector_has_error_code(exception_info)])
  /\ exception_info' = "none"

-----------------------------------------------------------------------------
(* Handlers.                                                               *)

InRoot(op) == cpu_pc = "root" /\ insn.op = op

mov_to_cr0_unfixed ==
  /\ InRoot("mov_cr0")
  /\ LET new == (insn.val \ {"LO"}) \cup {"ET"}
         c4 == get_effective_guest_cr4
     IN IF \/ "HI" \in new
           \/ "PG" \in new /\ "PE" \notin new
           \/ "WP" \notin new /\ "CET" \in c4
           \/ "PG" \notin new
           \/ "CD" \notin new /\ "NW" \in new
        THEN inject_hw_exception(GP0) /\ UNCHANGED <<cr0_shadow, guest_cr0>>
        ELSE cr0_shadow' = new /\ guest_cr0' = new /\ advance_guest_rip
  /\ UNCHANGED <<guest_cr4, cr4_shadow, cr3_low, exception_info>>
mov_to_cr0 ==
  /\ InRoot("mov_cr0")
  /\ LET new == (insn.val \ {"LO"}) \cup {"ET"}
         c4 == get_effective_guest_cr4
     IN IF \/ "HI" \in new
           \/ "PG" \in new /\ "PE" \notin new
           \/ "WP" \notin new /\ "CET" \in c4
           \/ "PG" \notin new
           \/ "CD" \notin new /\ "NW" \in new
        THEN inject_hw_exception(GP0) /\ UNCHANGED <<cr0_shadow, guest_cr0>>
        ELSE cr0_shadow' = new /\ guest_cr0' = FixCr0(new) /\ advance_guest_rip
  /\ UNCHANGED <<guest_cr4, cr4_shadow, cr3_low, exception_info>>

mov_to_cr4 ==
  /\ InRoot("mov_cr4")
  /\ LET new == insn.val
         c0 == get_effective_guest_cr0
         c4 == get_effective_guest_cr4
     IN IF \/ "RES" \in new
           \/ "CET" \in new /\ "WP" \notin c0
           \/ "PCIDE" \notin c4 /\ "PCIDE" \in new /\ cr3_low
           \/ \E b \in {"PAE", "LA57"} : (b \in new) # (b \in c4)
           \/ ~HasSmx /\ "SMXE" \in new
        THEN inject_hw_exception(GP0) /\ UNCHANGED <<cr4_shadow, guest_cr4>>
        ELSE cr4_shadow' = new /\ guest_cr4' = FixCr4(new) /\ advance_guest_rip
  /\ UNCHANGED <<guest_cr0, cr0_shadow, cr3_low, exception_info>>

(* The RIP is not advanced: CLTS runs again, and no longer exits. *)
handle_clts_real_only ==
  /\ InRoot("clts")
  /\ guest_cr0' = guest_cr0 \ {"TS"}
  /\ again' = TRUE /\ cpu_pc' = "guest"
  /\ UNCHANGED <<cr0_shadow, guest_cr4, cr4_shadow, cr3_low, insn, guest_rip, exception_info,
                 entry_info, insn_outcome>>
handle_clts ==
  /\ InRoot("clts")
  /\ cr0_shadow' = cr0_shadow \ {"TS"}
  /\ guest_cr0' = guest_cr0 \ {"TS"}
  /\ again' = TRUE /\ cpu_pc' = "guest"
  /\ UNCHANGED <<guest_cr4, cr4_shadow, cr3_low, insn, guest_rip, exception_info, entry_info,
                 insn_outcome>>

handle_lmsw ==
  /\ InRoot("lmsw")
  /\ LET bits == (insn.val \cap Ref!LmswBits) \cup (cr0_shadow \cap {"PE"})
     IN /\ cr0_shadow' = (cr0_shadow \ Ref!LmswBits) \cup bits
        /\ guest_cr0' = FixCr0((guest_cr0 \ Ref!LmswBits) \cup bits)
  /\ UNCHANGED <<guest_cr4, cr4_shadow, cr3_low, exception_info>>
  /\ advance_guest_rip

handle_cr_access == mov_to_cr0 \/ mov_to_cr4 \/ handle_clts \/ handle_lmsw

handle_cpuid ==
  /\ InRoot("cpuid")
  /\ UNCHANGED <<crVars, exception_info>>
  /\ advance_guest_rip

(* rdmsr_wrapper and its kin: a fault of the instruction at R14 is recorded *)
(* by handle_gp or handle_ud, and execution goes on at R15.                 *)
wrapper ==
  /\ cpu_pc = "root" /\ insn.op \in {"rdmsr", "wrmsr", "invd", "xsetbv"}
  /\ cpu_pc' = "executed"
  /\ exception_info' = IF insn.fault = "none" THEN exception_info ELSE insn.fault
  /\ UNCHANGED <<crVars, insn, guest_rip, entry_info, again, insn_outcome>>

handle_wrapped ==
  /\ cpu_pc = "executed"
  /\ IF exception_info # "none"
     THEN inject_host_hw_exception_to_guest
     ELSE advance_guest_rip /\ UNCHANGED exception_info
  /\ UNCHANGED crVars

(* RDMSR of HV_X64_MSR_GUEST_IDLE is not executed, but what an earlier      *)
(* wrapper recorded would still be looked at.                               *)
handle_rdmsr_guest_idle ==
  /\ InRoot("rdmsr_idle")
  /\ cpu_pc' = "executed"
  /\ UNCHANGED <<crVars, insn, guest_rip, exception_info, entry_info, again, insn_outcome>>

(* A hypercall; its copies of guest memory may fault under memcpy_wrapper,  *)
(* and introspection clears what was recorded.                              *)
handle_vmcall_unclear ==
  /\ InRoot("vmcall")
  /\ IF insn.keyed
     THEN /\ exception_info' = IF insn.fault = "none" THEN exception_info ELSE insn.fault
          /\ advance_guest_rip
     ELSE inject_hw_exception(UD) /\ UNCHANGED exception_info
  /\ UNCHANGED crVars
handle_vmcall ==
  /\ InRoot("vmcall")
  /\ IF insn.keyed
     THEN /\ exception_info' = IF insn.fault = "none" THEN exception_info ELSE "none"
          /\ advance_guest_rip
     ELSE inject_hw_exception(UD) /\ UNCHANGED exception_info
  /\ UNCHANGED crVars

(* handle_vmx_instruction and handle_getsec, whatever CR4 enables. *)
handle_vmx_instruction ==
  /\ InRoot("vmxon") \/ InRoot("vmx") \/ InRoot("getsec")
  /\ UNCHANGED <<crVars, exception_info>>
  /\ inject_hw_exception(UD)

handler ==
  \/ handle_cr_access \/ handle_cpuid \/ wrapper \/ handle_wrapped \/ handle_rdmsr_guest_idle
  \/ handle_vmcall \/ handle_vmx_instruction

CpuStep == VmExit \/ Native \/ handler

GuestNext == GuestIssue \/ CpuStep

-----------------------------------------------------------------------------
(* Properties.                                                             *)

(* No VM-entry fails (handle_vm_entry_failure would stop the machine): the  *)
(* control registers the handlers and the guest leave keep the bits VMX     *)
(* fixes, CR4.CET implies CR0.WP, an injected fault has an error code       *)
(* exactly when its vector has one, and the RIP fits the code segment.      *)
VmEntrySucceeds ==
  cpu_pc = "guest" =>
    /\ Cr0Fixed0 \subseteq guest_cr0 /\ guest_cr0 \subseteq Cr0Fixed1
    /\ Cr4Fixed0 \subseteq guest_cr4 /\ guest_cr4 \subseteq Cr4Fixed1
    /\ "CET" \in guest_cr4 => "WP" \in guest_cr0
    /\ entry_info # NoEvent => (entry_info.error <=> entry_info.vector = "GP")
    /\ guest_rip = "fits"

(* But for the deviations that BareCpu names (VMXON and GETSEC refused,     *)
(* the idle MSR, hypercalls, bits of CR4 the processor lacks), the guest    *)
(* cannot tell the emulation from the processor: seen through masks and     *)
(* shadows, each instruction changes the control registers, faults and      *)
(* single-steps as on a bare one, and no fault recorded for one instruction *)
(* is injected into another.                                                *)
Bare == INSTANCE BareCpu WITH
  cr0 <- get_effective_guest_cr0, cr4 <- get_effective_guest_cr4, low <- cr3_low,
  current <- IF again THEN NoInsn ELSE insn,
  outcome <- IF again THEN Ref!Done(insn) ELSE insn_outcome
LooksBare == Bare!PromisedSpec

(* An instruction the guest starts ends: an emulation that leaves the RIP   *)
(* in place (handle_clts) does not exit for ever.                           *)
InstructionEnds == insn # NoInsn ~> insn = NoInsn
=============================================================================
