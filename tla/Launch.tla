------------------------------- MODULE Launch -------------------------------
(***************************************************************************)
(* Loading the driver: hv::start prepares the hypervisor and virtualizes   *)
(* the cores one after the other; each prepares its vCPU, writes the VMCS  *)
(* from it and from the processor, and launches; DriverEntry then installs *)
(* the load hook with a hypercall on every core.  Every VMX instruction    *)
(* may fail, and every failure takes the code's way out.                   *)
(*                                                                         *)
(* A vCPU field is "zero" (allocate_vcpus) until its function has run; a   *)
(* VMCS field holds the value its source had when it was written, "none"   *)
(* before.  The controls of a VMCS group are a set of names.               *)
(***************************************************************************)
EXTENDS Integers, FiniteSets

CONSTANTS
  NLaunchCores,       \* number of logical processors
  ControlCaps,        \* capabilities: functions from control groups to [allowed0, allowed1]
  tsc_hiding_enabled

ControlGroup == {"pin", "proc", "proc2", "exit", "entry"}

ASSUME LaunchAssumption ==
  /\ NLaunchCores \in Nat \ {0} /\ tsc_hiding_enabled \in BOOLEAN
  /\ \A caps \in ControlCaps : DOMAIN caps = ControlGroup
  /\ \A caps \in ControlCaps, g \in ControlGroup : caps[g].allowed0 \subseteq caps[g].allowed1

VARIABLES
  caps,          \* the capability MSRs
  launch_pc,     \* the step of the initialization thread
  launch_core,   \* the core for_each_cpu is at
  vcpus,         \* per core: the fields of the vCPU
  cpu,           \* per core: [vmx, fixed], VMX operation and CR0/CR4 as enable_vmx leaves them
  vmcs,          \* per core: control groups and other fields
  start_ok,      \* what hv::start returns
  hooked         \* per core: the answer of the hook's hypercall

launchVars == <<caps, launch_pc, launch_core, vcpus, cpu, vmcs, start_ok, hooked>>

LaunchCore == 1 .. NLaunchCores

ZeroVcpu == [restore_context |-> "zero", host_gdt |-> "zero", host_tss |-> "zero", host_idt |-> "zero",
             mtrr_state |-> "zero", msr_entries |-> "zero"]

NoVmcs == [current |-> FALSE, controls |-> [g \in ControlGroup |-> {"none"}], msr_area |-> "none",
           ept |-> "none", guest_cr |-> "none", guest_rip |-> "none", timer |-> "none",
           host_cr |-> "none", host_tables |-> "none"]

LaunchInit ==
  /\ caps \in ControlCaps
  /\ launch_pc = "start" /\ launch_core = 1
  /\ vcpus = [c \in LaunchCore |-> ZeroVcpu]
  /\ cpu = [c \in LaunchCore |-> [vmx |-> "off", fixed |-> "os"]]
  /\ vmcs = [c \in LaunchCore |-> NoVmcs]
  /\ start_ok = TRUE
  /\ hooked = [c \in LaunchCore |-> "none"]

-----------------------------------------------------------------------------
(* hv::start up to for_each_cpu: the vCPUs and the host page tables. *)
hv_start(ok) ==
  /\ launch_pc = "start"
  /\ launch_pc' = IF ok THEN "check" ELSE "thread_exit"
  /\ start_ok' = ok
  /\ UNCHANGED <<caps, launch_core, vcpus, cpu, vmcs, hooked>>

(* virtualize goes from one call to the next; a failure ends it and        *)
(* for_each_cpu, which ignores what the lambda returns, goes on.           *)
NextCore == /\ launch_core' = launch_core + 1
            /\ launch_pc' = IF launch_core = NLaunchCores THEN "thread_exit" ELSE "check"

Proceed(to) == launch_pc' = to /\ UNCHANGED <<launch_core, start_ok>>

VirtualizeFails == NextCore /\ start_ok' = FALSE

check_vmx_support(ok) ==
  /\ launch_pc = "check"
  /\ IF ok THEN /\ Proceed("enable_vmx")
                /\ vcpus' = [vcpus EXCEPT ![launch_core].restore_context = "set"]
     ELSE VirtualizeFails /\ UNCHANGED vcpus
  /\ UNCHANGED <<caps, cpu, vmcs, hooked>>

enable_vmx ==
  /\ launch_pc = "enable_vmx"
  /\ cpu' = [cpu EXCEPT ![launch_core].fixed = "vmx"]
  /\ Proceed("vmxon")
  /\ UNCHANGED <<caps, vcpus, vmcs, hooked>>

enter_vmx_operation(ok) ==
  /\ launch_pc = "vmxon"
  /\ IF ok THEN Proceed("prepare") /\ cpu' = [cpu EXCEPT ![launch_core].vmx = "root"]
     ELSE VirtualizeFails /\ UNCHANGED cpu
  /\ UNCHANGED <<caps, vcpus, vmcs, hooked>>

(* gdt::initialize, initialize_tss, idt::initialize, read_mtrrs and        *)
(* prepare_msr_entries: nothing here can fail.                             *)
PrepareHost_no_mtrrs ==
  /\ launch_pc = "prepare"
  /\ vcpus' = [vcpus EXCEPT ![launch_core] = [@ EXCEPT !.host_gdt = "set", !.host_tss = "set",
                                                       !.host_idt = "set", !.msr_entries = "set"]]
  /\ Proceed("load_vmcs")
  /\ UNCHANGED <<caps, cpu, vmcs, hooked>>

PrepareHost ==
  /\ launch_pc = "prepare"
  /\ vcpus' = [vcpus EXCEPT ![launch_core] = [@ EXCEPT !.host_gdt = "set", !.host_tss = "set",
                                                       !.host_idt = "set", !.mtrr_state = "set",
                                                       !.msr_entries = "set"]]
  /\ Proceed("load_vmcs")
  /\ UNCHANGED <<caps, cpu, vmcs, hooked>>

load_vmcs(ok) ==
  /\ launch_pc = "load_vmcs"
  /\ IF ok THEN Proceed("controls") /\ vmcs' = [vmcs EXCEPT ![launch_core].current = TRUE]
     ELSE VirtualizeFails /\ UNCHANGED vmcs
  /\ UNCHANGED <<caps, vcpus, cpu, hooked>>

-----------------------------------------------------------------------------
(* write_control_field: what is asked for, within what is allowed. *)
write_control_field(g, desired) == (desired \cup caps[g].allowed0) \cap caps[g].allowed1

Desired(g) ==
  CASE g = "pin" -> {"nmi_exiting", "virtual_nmi"}
                      \cup (IF tsc_hiding_enabled THEN {"activate_vmx_preemption_timer"} ELSE {})
    [] g = "proc" -> {"use_msr_bitmaps", "activate_secondary_controls"}
                      \cup (IF tsc_hiding_enabled THEN {"use_tsc_offsetting"} ELSE {})
    [] g = "proc2" -> {"enable_rdtscp", "enable_vpid", "enable_invpcid", "conceal_vmx_from_pt",
                       "enable_xsaves", "enable_user_wait_pause", "enable_ept"}
    [] g = "exit" -> {"save_debug_controls", "host_address_space_size", "save_ia32_pat", "load_ia32_pat",
                      "save_ia32_efer", "load_ia32_efer", "save_ia32_perf_global_ctl",
                      "load_ia32_perf_global_ctrl", "conceal_vmx_from_pt"}
    [] g = "entry" -> {"load_debug_controls", "ia32e_mode_guest", "load_ia32_efer", "load_ia32_pat",
                       "load_ia32_perf_global_ctrl", "conceal_vmx_from_pt"}

(* The pin, processor, exit and entry controls with their MSR areas; then  *)
(* the other control fields with both EPTs.  A VMWRITE that fails leaves   *)
(* the group unwritten.                                                    *)
write_execution_controls(ok) ==
  /\ launch_pc = "controls"
  /\ IF ok
     THEN /\ vmcs' = [vmcs EXCEPT ![launch_core].controls =
                                     [g \in ControlGroup |-> write_control_field(g, Desired(g))],
                                  ![launch_core].msr_area = vcpus[launch_core].msr_entries]
          /\ Proceed("other")
     ELSE VirtualizeFails /\ UNCHANGED vmcs
  /\ UNCHANGED <<caps, vcpus, cpu, hooked>>

write_other_control_fields(ok) ==
  /\ launch_pc = "other"
  /\ IF ok THEN /\ vmcs' = [vmcs EXCEPT ![launch_core].ept = vcpus[launch_core].mtrr_state]
                /\ Proceed("guest")
     ELSE VirtualizeFails /\ UNCHANGED vmcs
  /\ UNCHANGED <<caps, vcpus, cpu, hooked>>

(* The guest state is the core's own; with TSC hiding it ends with the     *)
(* preemption timer, whose control may have been dropped.                  *)
write_guest_state_fields(ok) ==
  /\ launch_pc = "guest"
  /\ LET timer == "activate_vmx_preemption_timer" \in vmcs[launch_core].controls["pin"]
     IN  IF ok /\ (tsc_hiding_enabled => timer)
         THEN /\ vmcs' = [vmcs EXCEPT ![launch_core].guest_cr = cpu[launch_core].fixed,
                                      ![launch_core].guest_rip = "zero",
                                      ![launch_core].timer = IF tsc_hiding_enabled THEN "set" ELSE @]
              /\ Proceed("host")
         ELSE VirtualizeFails /\ UNCHANGED vmcs
  /\ UNCHANGED <<caps, vcpus, cpu, hooked>>

write_host_state_fields(ok) ==
  /\ launch_pc = "host"
  /\ IF ok
     THEN /\ vmcs' = [vmcs EXCEPT ![launch_core].host_cr = cpu[launch_core].fixed,
                                  ![launch_core].host_tables =
                                     IF {vcpus[launch_core].host_gdt, vcpus[launch_core].host_tss,
                                         vcpus[launch_core].host_idt} = {"set"} THEN "set" ELSE "zero"]
          /\ Proceed("launch")
     ELSE VirtualizeFails /\ UNCHANGED vmcs
  /\ UNCHANGED <<caps, vcpus, cpu, hooked>>

(* vmx_vmlaunch_stub writes RIP and RSP; VM entry needs controls that the  *)
(* processor allows and may fail for other reasons.  Then the benchmark.   *)
launch_vm(ok) ==
  /\ launch_pc = "launch"
  /\ vmcs' = [vmcs EXCEPT ![launch_core].guest_rip = "successful_launch"]
  /\ IF ok
     THEN /\ \A g \in ControlGroup : /\ caps[g].allowed0 \subseteq vmcs[launch_core].controls[g]
                                     /\ vmcs[launch_core].controls[g] \subseteq caps[g].allowed1
          /\ cpu' = [cpu EXCEPT ![launch_core].vmx = "guest"]
          /\ NextCore /\ UNCHANGED start_ok
     ELSE VirtualizeFails /\ UNCHANGED cpu
  /\ UNCHANGED <<caps, vcpus, hooked>>

-----------------------------------------------------------------------------
(* thread_entry stores STATUS_SUCCESS whatever hv::start returned, so      *)
(* DriverEntry always goes on to hooks::initialize, which gives up before  *)
(* its hypercalls when the hook cannot be built.                           *)
thread_entry(built) ==
  /\ launch_pc = "thread_exit"
  /\ launch_pc' = IF built THEN "hooks" ELSE "loaded"
  /\ launch_core' = 1
  /\ UNCHANGED <<caps, vcpus, cpu, vmcs, start_ok, hooked>>

(* ept_hook's hypercall: a launched core answers; a core in VMX root gets  *)
(* VMfail; one that never executed VMXON raises #UD and the system stops.  *)
ept_hook(ok) ==
  /\ launch_pc = "hooks"
  /\ hooked' = [hooked EXCEPT ![launch_core] =
       CASE cpu[launch_core].vmx = "guest" -> IF ok THEN "hooked" ELSE "failed"
         [] cpu[launch_core].vmx = "root" -> "vmfail"
         [] OTHER -> "ud"]
  /\ launch_pc' = CASE cpu[launch_core].vmx = "off" -> "bugcheck"
                    [] cpu[launch_core].vmx # "off" /\ launch_core = NLaunchCores -> "loaded"
                    [] OTHER -> "hooks"
  /\ launch_core' = launch_core + 1
  /\ UNCHANGED <<caps, vcpus, cpu, vmcs, start_ok>>

LaunchNext ==
  \/ enable_vmx \/ PrepareHost
  \/ \E ok \in BOOLEAN :
       \/ hv_start(ok) \/ check_vmx_support(ok) \/ enter_vmx_operation(ok) \/ load_vmcs(ok)
       \/ write_execution_controls(ok) \/ write_other_control_fields(ok)
       \/ write_guest_state_fields(ok) \/ write_host_state_fields(ok) \/ launch_vm(ok)
       \/ thread_entry(ok) \/ ept_hook(ok)

-----------------------------------------------------------------------------
(* A core that runs as a guest has a whole VMCS, each part written after   *)
(* the data it is made from was ready: the EPTs from the core's MTRRs, the *)
(* MSR areas from the MSR entries, the host state from its descriptor      *)
(* tables, CR0 and CR4 with the bits VMX operation fixes, RIP from the     *)
(* launch stub, and with TSC hiding the preemption timer on.  And hooks    *)
(* meet a core that is not a guest only when hv::start has failed, the     *)
(* failure thread_entry overwrites.                                        *)
LaunchedWhole ==
  /\ \A c \in LaunchCore : cpu[c].vmx = "guest" =>
       /\ vmcs[c].current
       /\ {vmcs[c].ept, vmcs[c].msr_area, vmcs[c].host_tables} = {"set"}
       /\ {vmcs[c].guest_cr, vmcs[c].host_cr} = {"vmx"}
       /\ vmcs[c].guest_rip = "successful_launch"
       /\ tsc_hiding_enabled =>
            "activate_vmx_preemption_timer" \in vmcs[c].controls["pin"] /\ vmcs[c].timer = "set"
  /\ \A c \in LaunchCore : hooked[c] \in {"vmfail", "ud"} => ~start_ok
=============================================================================
