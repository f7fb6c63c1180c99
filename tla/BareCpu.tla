------------------------------ MODULE BareCpu -------------------------------
(***************************************************************************)
(* The control registers, faults and traps of a processor in 64-bit mode   *)
(* on which no hypervisor runs, for the instructions that can cause a      *)
(* VM-exit; and, apart from it, the five ways in which revhv's guest may   *)
(* see another processor than that.                                        *)
(*                                                                         *)
(* A control register is the set of its bits that are 1.  Bits without a   *)
(* rule of their own are left out; "LO" and "HI" stand for the reserved    *)
(* bits of CR0[31:0] and CR0[63:32], "RES" for those of CR4.               *)
(***************************************************************************)
CONSTANTS
  Insn,        \* instructions: [op, val, fault, keyed, tf, wraps]
  NoInsn,
  HasSmx,      \* CPUID reports safer-mode extensions
  Cr4Lacks     \* bits of CR4 that are defined but that this processor lacks

VARIABLES
  cr0, cr4,    \* as MOV from CR reads them
  low,         \* CR3[11:0] # 0
  current,     \* the instruction in progress
  outcome      \* of the instruction: "running", "ok", "step" (ok and a single-step trap), a
               \* fault, or "vmx": VMXON has begun VMX operation, and what follows is not described

bareVars == <<cr0, cr4, low, current, outcome>>

(* The faults of MOV to CR0, of MOV to CR4, and of the other instructions. *)
Cr0Faults(v, c4) ==
  \/ "HI" \in v
  \/ "PG" \in v /\ "PE" \notin v
  \/ "WP" \notin v /\ "CET" \in c4
  \/ "PG" \notin v
  \/ "CD" \notin v /\ "NW" \in v

Cr4Faults(v, c0, c4, l) ==
  \/ "RES" \in v
  \/ "CET" \in v /\ "WP" \notin c0
  \/ "PCIDE" \in v \ c4 /\ l
  \/ \E b \in {"PAE", "LA57"} : (b \in v) # (b \in c4)
  \/ "SMXE" \in v /\ ~HasSmx

(* VMXON and GETSEC are there if CR4 enables them; the other instructions   *)
(* of VMX are not, outside VMX operation; 0x400000F0 is no MSR.             *)
Fault(i, c0, c4, l) ==
  CASE i.op = "mov_cr0" -> IF Cr0Faults(i.val, c4) THEN "GP" ELSE "none"
    [] i.op = "mov_cr4" -> IF Cr4Faults(i.val, c0, c4, l) \/ i.val \cap Cr4Lacks # {} THEN "GP" ELSE "none"
    [] i.op = "vmxon" -> IF "VMXE" \in c4 THEN i.fault ELSE "UD"
    [] i.op = "getsec" -> IF "SMXE" \in c4 THEN i.fault ELSE "UD"
    [] i.op \in {"vmx", "vmcall"} -> "UD"
    [] i.op = "rdmsr_idle" -> "GP"
    [] OTHER -> i.fault

(* The registers an instruction leaves when it does not fault. *)
LmswBits == {"PE", "MP", "EM", "TS"}
Cr0After(i, c0) ==
  CASE i.op = "mov_cr0" -> (i.val \ {"LO"}) \cup {"ET"}
    [] i.op = "clts" -> c0 \ {"TS"}
    [] i.op = "lmsw" -> (c0 \ LmswBits) \cup (i.val \cap LmswBits) \cup (c0 \cap {"PE"})
    [] OTHER -> c0
Cr4After(i, c4) == IF i.op = "mov_cr4" THEN i.val ELSE c4
LowAfter(i, l) == IF i.op = "mov_cr3" THEN i.val # {} ELSE l

Done(i) == IF i.tf THEN "step" ELSE "ok"

-----------------------------------------------------------------------------
Issue ==
  /\ current = NoInsn /\ outcome # "vmx"
  /\ \E i \in Insn : current' = i
  /\ outcome' = "running"
  /\ UNCHANGED <<cr0, cr4, low>>

Retire ==
  /\ current # NoInsn
  /\ current' = NoInsn
  /\ LET f == Fault(current, cr0, cr4, low)
     IN IF f = "none"
        THEN /\ outcome' = IF current.op = "vmxon" THEN "vmx" ELSE Done(current)
             /\ cr0' = Cr0After(current, cr0)
             /\ cr4' = Cr4After(current, cr4)
             /\ low' = LowAfter(current, low)
        ELSE outcome' = f /\ UNCHANGED <<cr0, cr4, low>>

-----------------------------------------------------------------------------
(* Where revhv's guest is not on a bare processor.                         *)

(* VMXON with CR4.VMXE set, GETSEC with CR4.SMXE set: refused with #UD. *)
Refuses(i, c4) ==
  \/ i.op = "vmxon" /\ "VMXE" \in c4
  \/ i.op = "getsec" /\ "SMXE" \in c4

(* RDMSR of HV_X64_MSR_GUEST_IDLE reads 0, VMCALL with the key is revhv's   *)
(* hypercall, and MOV to CR4 can set the bits that the processor lacks.     *)
Accepts(i, c0, c4, l) ==
  \/ i.op = "rdmsr_idle"
  \/ i.op = "vmcall" /\ i.keyed
  \/ i.op = "mov_cr4" /\ ~Cr4Faults(i.val, c0, c4, l)

Deviate ==
  /\ current # NoInsn /\ current' = NoInsn
  /\ \/ /\ Refuses(current, cr4)
        /\ outcome' = "UD" /\ cr4' = cr4
     \/ /\ Accepts(current, cr0, cr4, low)
        /\ outcome' = Done(current) /\ cr4' = Cr4After(current, cr4)
  /\ UNCHANGED <<cr0, low>>

PromisedSpec == [][Issue \/ Retire \/ Deviate]_bareVars
=============================================================================
