------------------------------- MODULE MCVcpu -------------------------------
(***************************************************************************)
(* What a vCPU does at its exits, in one run: a behaviour is about one of  *)
(* three modules that share no state, `subject` - the guest's              *)
(* instructions, the queue of its NMIs, or the NMIs of the crash protocol. *)
(***************************************************************************)
EXTENDS GuestCpu, NmiQueue, CrashProtocol

VARIABLE subject

(* GuestCpu: each instruction that exits, with operands on either side of   *)
(* each check.  FIXED1 leaves TS out so that CLTS and LMSW exit.            *)
I(op, val, fault, keyed, tf, wraps) ==
  [op |-> op, val |-> val, fault |-> fault, keyed |-> keyed, tf |-> tf, wraps |-> wraps]
MCCr0Values ==
  {{"PE", "PG", "ET"} \cup s : s \in SUBSET {"NE", "WP", "TS"}}
    \cup {{"PG", "ET"}, {"PE", "ET"}, {"PE", "PG", "NE", "WP", "HI"}, {"PE", "PG", "WP", "LO"},
          {"PE", "PG", "WP", "NW"}}
MCCr4Values ==
  {{"PAE"} \cup s : s \in SUBSET {"VMXE", "CET"}}
    \cup {{"PAE", "VMXE", "PCIDE"}, {"PAE", "PKS", "CET"}}
    \cup {{"VMXE"}, {"PAE", "VMXE", "LA57"}, {"PAE", "RES"}, {"PAE", "SMXE"}}
MCInsn ==
  {I("mov_cr0", v, "none", FALSE, FALSE, FALSE) : v \in MCCr0Values}
    \cup {I("mov_cr4", v, "none", FALSE, FALSE, FALSE) : v \in MCCr4Values}
    \cup {I("mov_cr3", v, "none", FALSE, FALSE, FALSE) : v \in {{}, {"PCD"}}}
    \cup {I("clts", {}, "none", FALSE, tf, FALSE) : tf \in BOOLEAN}
    \cup {I("lmsw", v, "none", FALSE, FALSE, FALSE) : v \in {{}, {"TS", "PE"}}}
    \cup {I("cpuid", {}, "none", FALSE, tf, w) : tf, w \in BOOLEAN}
    \cup {I(op, {}, f, FALSE, FALSE, FALSE) : op \in {"rdmsr", "wrmsr", "xsetbv"}, f \in {"none", "GP"}}
    \cup {I("invd", {}, f, FALSE, FALSE, FALSE) : f \in {"none", "GP", "UD"}}
    \cup {I(op, {}, f, FALSE, FALSE, FALSE) : op \in {"getsec", "vmxon"}, f \in {"none", "GP"}}
    \cup {I(op, {}, "none", FALSE, FALSE, FALSE) : op \in {"rdmsr_idle", "vmx"}}
    \cup {I("vmcall", {}, f, k, FALSE, FALSE) : f \in {"none", "GP"}, k \in BOOLEAN}
MCBit == {"PE", "MP", "EM", "TS", "ET", "NE", "WP", "NW", "CD", "PG", "LO", "HI",
          "VMXE", "PAE", "LA57", "CET", "PCIDE", "SMXE", "PKS", "RES"}
MCCr0Fixed1 == MCBit \ {"TS", "HI"}
MCCr4Fixed1 == {"VMXE", "PAE", "CET", "PCIDE", "LA57", "SMXE"}

(* NmiQueue: four NMIs are enough for two to wait while one is injected     *)
(* and one more interrupts the handler.  CrashProtocol: two errors on three *)
(* cores are two raisers and a bystander.                                   *)

-----------------------------------------------------------------------------
VcpuInit == subject \in {"cpu", "queue", "crash"} /\ GuestInit /\ NmiInit /\ Init

CpuRuns == subject = "cpu" /\ GuestNext /\ UNCHANGED <<subject, nmiVars, vars>>
QueueRuns == subject = "queue" /\ NmiNext /\ UNCHANGED <<subject, guestVars, vars>>
CrashRuns == subject = "crash" /\ Next /\ UNCHANGED <<subject, guestVars, nmiVars>>

(* The fairness of NmiQueue and CrashProtocol; and the processor and the    *)
(* exit handler go on with an instruction they have begun, but the guest    *)
(* need not begin another.                                                  *)
VcpuSpec ==
  /\ VcpuInit /\ [][CpuRuns \/ QueueRuns \/ CrashRuns]_<<subject, guestVars, nmiVars, vars>>
  /\ WF_guestVars(subject = "cpu" /\ CpuStep) /\ NmiFairness /\ Fairness
=============================================================================
