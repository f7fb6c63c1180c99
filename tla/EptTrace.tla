------------------------------ MODULE EptTrace ------------------------------
(***************************************************************************)
(* The two EPT views of one vCPU and everything that changes them:         *)
(* revhv-km/ept.cpp, the EPT hypercalls of revhv-km/hypercall.cpp, the     *)
(* MTRR branch of the WRMSR exit and the EPT-violation exit of             *)
(* revhv-km/vmexit.cpp.                                                    *)
(*                                                                         *)
(* A view maps Page (guest frames) through 2 MB regions.  A region is      *)
(* large until split_pde takes a page table from a pool that is never      *)
(* refilled.  Every assignment in the code sets the read and the write     *)
(* bit together, so an entry is described by three facts: not executable   *)
(* (nx), not readable and writable (xo, execute-only) and mapped to the    *)
(* hook's frame instead of its own (shadow).  All of a vCPU's tables are   *)
(* its own, so one vCPU is enough.                                         *)
(***************************************************************************)
EXTENDS Integers, FiniteSets

CONSTANTS
  Page,        \* guest frames
  RegionCount, \* ept_pd_count * 512: 2 MB regions, in the order the code scans them
  RegionOf,    \* the region of a page
  SplitCount,  \* ept_split_pte_count: page tables in a view's split pool
  MaxHooks,    \* ept_max_hook_count
  Insn,        \* guest instructions: [code |-> pages fetched, data |-> pages accessed]
  NoInsn       \* no instruction in flight

Region == 0 .. (RegionCount - 1)

ASSUME BoundsAssumption == RegionCount \in Nat /\ SplitCount \in Nat /\ MaxHooks \in Nat
ASSUME RegionAssumption == RegionOf \in [Page -> Region]
ASSUME InsnAssumption ==
  /\ Insn \subseteq [code : (SUBSET Page) \ {{}}, data : SUBSET Page]
  /\ NoInsn \notin Insn

VARIABLES
  ept,                  \* vcpu->ept_pages_normal and vcpu->ept_pages_target
  eptp,                 \* the view VMCS_CTRL_EPT_POINTER names
  in_normal_execution,  \* vcpu->in_normal_execution
  active,               \* vcpu->trace_buffer.active
  phase,                \* "install" while DriverEntry installs hooks, then "serve"
  crashed,              \* unrecoverable_host_error was called
  insn,                 \* the guest instruction being attempted
  target,               \* history: the pages the last successful enable traced
  stale,                \* history: entries changed since an INVEPT covered them
  unreported            \* history: target code ran and no record was emitted since

vars == <<ept, eptp, in_normal_execution, active, phase, crashed, insn, target,
          stale, unreported>>

View == {"normal", "target"}

-----------------------------------------------------------------------------
(* One view.                                                               *)

EptPages ==
  [split  : SUBSET Region,  \* regions whose PDE points to a page table
   nxPde  : SUBSET Region,  \* large PDEs with execute_access = 0
   nxPte  : SUBSET Page,    \* PTEs with execute_access = 0
   xo     : SUBSET Page,    \* PTEs with read_access = write_access = 0
   shadow : SUBSET Page,    \* PTEs whose frame is the hook's frame
   hooked : SUBSET Page,    \* orig_pfn of hooks[0 .. hook_count-1]
   armed  : SUBSET Page]    \* those with hook.pte # nullptr

PagesIn(R) == {p \in Page : RegionOf[p] \in R}
RegionsOf(P) == {RegionOf[p] : p \in P}

(* What the processor finds for page p when it walks view e. *)
NX(e, p) == IF RegionOf[p] \in e.split THEN p \in e.nxPte ELSE RegionOf[p] \in e.nxPde
NoRW(e, p) == RegionOf[p] \in e.split /\ p \in e.xo
ShadowMapped(e, p) == RegionOf[p] \in e.split /\ p \in e.shadow

(* The pool still serves the large regions among R. *)
CanSplit(e, R) == Cardinality(e.split \cup R) <= SplitCount

(* split_pde on each region of R: the new PTEs inherit the PDE's bits. *)
split_pde_forgets_nx(e, R) ==
  LET S == R \ e.split IN
  [e EXCEPT !.split = @ \cup S,
            !.nxPte = @ \ PagesIn(S),
            !.xo = @ \ PagesIn(S),
            !.shadow = @ \ PagesIn(S)]

split_pde(e, R) ==
  LET S == R \ e.split IN
  [e EXCEPT !.split = @ \cup S,
            !.nxPte = (@ \ PagesIn(S)) \cup PagesIn(S \cap e.nxPde),
            !.xo = @ \ PagesIn(S),
            !.shadow = @ \ PagesIn(S)]

(* set_all_permissions(e, true, true, x): large PDEs and every PTE of the pool. *)
set_all_permissions(e, x) ==
  [e EXCEPT !.nxPde = IF x THEN @ \cap e.split ELSE @ \cup (Region \ e.split),
            !.nxPte = IF x THEN {} ELSE Page,
            !.xo = {}]

(* add_hook's two failure returns, and what it does otherwise. *)
CanHook(e, p) == Cardinality(e.hooked) < MaxHooks /\ CanSplit(e, {RegionOf[p]})

add_hook(e, p) ==
  LET s == split_pde(e, {RegionOf[p]}) IN
  [s EXCEPT !.hooked = @ \cup {p}, !.armed = @ \cup {p}, !.nxPte = @ \cup {p}]

deactivate_hooks_keeps_xo(e) ==
  [e EXCEPT !.nxPte = @ \ e.armed, !.shadow = @ \ e.armed, !.armed = {}]

deactivate_hooks(e) ==
  [e EXCEPT !.nxPte = @ \ e.armed,
            !.xo = @ \ e.armed,
            !.shadow = @ \ e.armed,
            !.armed = {}]

(* Hooks still armed are skipped; so is one whose region has no page table. *)
reactivate_hooks(e) ==
  LET A == {p \in e.hooked \ e.armed : RegionOf[p] \in e.split} IN
  [e EXCEPT !.nxPte = @ \cup A, !.shadow = @ \ A, !.armed = @ \cup A]

(* The loop of update_ept_memory_types over the large PDEs: a region whose  *)
(* MTRR type is not uniform is split, in index order, while the pool lasts. *)
update_ept_memory_types(e, nonuniform) ==
  LET L == nonuniform \ e.split
      Served == {r \in L : CanSplit(e, {q \in L : q <= r})}
  IN split_pde(e, Served)

initialize_ept(nonuniform) ==
  update_ept_memory_types(
    [split |-> {}, nxPde |-> {}, nxPte |-> {}, xo |-> {}, shadow |-> {},
     hooked |-> {}, armed |-> {}], nonuniform)

(* The loop of ept::enable_auto_trace on the pages that translated, when    *)
(* the pool serves every region it needs.                                   *)
TraceNormal(e, T) == LET s == split_pde(e, RegionsOf(T)) IN [s EXCEPT !.nxPte = @ \cup T]
TraceTarget(e, T) ==
  LET s == split_pde(set_all_permissions(e, FALSE), RegionsOf(T))
  IN [s EXCEPT !.nxPte = @ \ T]

-----------------------------------------------------------------------------
(* INVEPT.  Walk(e, p) is everything a cached translation holds.           *)

Walk(e, p) == <<NX(e, p), NoRW(e, p), ShadowMapped(e, p)>>
Changed == {vp \in View \X Page : Walk(ept[vp[1]], vp[2]) # Walk(ept'[vp[1]], vp[2])}

invept_all == stale' = {}
invept_single(v) == stale' = {vp \in stale \cup Changed : vp[1] # v}
no_invept == stale' = stale \cup Changed

(* change_eptp and the assignment of in_normal_execution that follows it.  *)
change_eptp_only(v) == eptp' = v /\ UNCHANGED in_normal_execution
change_eptp(v) == eptp' = v /\ in_normal_execution' = (v = "normal")

-----------------------------------------------------------------------------
(* Hypercalls and the WRMSR exit.  Each runs between two guest             *)
(* instructions, in VMX root, and is the only one to touch this vCPU.      *)

Idle == ~crashed /\ insn = NoInsn

(* handle_ept_hook: the second add_hook is reached only if the first succeeds. *)
handle_ept_hook(p) ==
  /\ Idle /\ phase = "install"
  /\ p \notin ept["normal"].hooked \cup ept["target"].hooked
  /\ LET okN == CanHook(ept["normal"], p)
         okT == okN /\ CanHook(ept["target"], p)
     IN ept' = [v \in View |-> IF (v = "normal" /\ okN) \/ (v = "target" /\ okT)
                               THEN add_hook(ept[v], p) ELSE ept[v]]
  /\ invept_all
  /\ UNCHANGED <<eptp, in_normal_execution, active, phase, crashed, insn, target, unreported>>

(* DriverEntry returns; from now on the user-mode controller may call. *)
EndInstall ==
  /\ Idle /\ phase = "install"
  /\ phase' = "serve"
  /\ UNCHANGED <<ept, eptp, in_normal_execution, active, crashed, insn, target,
                 stale, unreported>>

(* handle_enable_auto_trace when every page table it needs is available. T  *)
(* is the translatable part of the range: gva_to_gpa failures are skipped.  *)
EnableSucceeds(T) ==
  LET n == deactivate_hooks(ept["normal"])
      t == deactivate_hooks(ept["target"])
  IN
  /\ CanSplit(n, RegionsOf(T)) /\ CanSplit(t, RegionsOf(T))
  /\ ept' = [v \in View |-> IF v = "normal" THEN TraceNormal(n, T) ELSE TraceTarget(t, T)]
  /\ active' = TRUE
  /\ change_eptp("normal")
  /\ target' = T
  /\ unreported' = FALSE
  /\ invept_all

(* ... and when the pool runs dry: the loop visits the regions of T in some *)
(* order, has split those in S, and cannot split f in one of the views.     *)
EnableFails(T) ==
  LET n == deactivate_hooks(ept["normal"])
      t == set_all_permissions(deactivate_hooks(ept["target"]), FALSE)
      Bail(e, S, f) ==
        LET R == IF CanSplit(e, S \cup {f}) THEN S \cup {f} ELSE S
        IN reactivate_hooks(set_all_permissions(split_pde(e, R), TRUE))
  IN
  /\ \E S \in SUBSET RegionsOf(T) : \E f \in RegionsOf(T) \ S :
       /\ CanSplit(n, S) /\ CanSplit(t, S)
       /\ ~(CanSplit(n, S \cup {f}) /\ CanSplit(t, S \cup {f}))
       /\ ept' = [v \in View |-> Bail(IF v = "normal" THEN n ELSE t, S, f)]
  /\ invept_all
  /\ UNCHANGED <<eptp, in_normal_execution, active, target, unreported>>

handle_enable_auto_trace(T) ==
  /\ Idle /\ phase = "serve"
  /\ EnableSucceeds(T) \/ EnableFails(T)
  /\ UNCHANGED <<phase, crashed, insn>>

disable_without_invept ==
  /\ Idle /\ phase = "serve"
  /\ active' = FALSE
  /\ ept' = [v \in View |-> reactivate_hooks(set_all_permissions(ept[v], TRUE))]
  /\ change_eptp("normal")
  /\ unreported' = FALSE
  /\ no_invept
  /\ UNCHANGED <<phase, crashed, insn, target>>

disable_rearms_first ==
  /\ Idle /\ phase = "serve"
  /\ active' = FALSE
  /\ ept' = [v \in View |-> set_all_permissions(reactivate_hooks(ept[v]), TRUE)]
  /\ change_eptp("normal")
  /\ unreported' = FALSE
  /\ invept_all
  /\ UNCHANGED <<phase, crashed, insn, target>>

handle_disable_auto_trace ==
  /\ Idle /\ phase = "serve"
  /\ active' = FALSE
  /\ ept' = [v \in View |-> reactivate_hooks(set_all_permissions(ept[v], TRUE))]
  /\ change_eptp("normal")
  /\ unreported' = FALSE
  /\ invept_all
  /\ UNCHANGED <<phase, crashed, insn, target>>

(* handle_wrmsr on an MTRR: both views follow the new memory types. *)
mtrr_update_normal_only(nonuniform) ==
  /\ Idle
  /\ ept' = [ept EXCEPT !["normal"] = update_ept_memory_types(@, nonuniform)]
  /\ invept_all
  /\ UNCHANGED <<eptp, in_normal_execution, active, phase, crashed, insn, target, unreported>>

handle_wrmsr_mtrr(nonuniform) ==
  /\ Idle
  /\ ept' = [v \in View |-> update_ept_memory_types(ept[v], nonuniform)]
  /\ invept_all
  /\ UNCHANGED <<eptp, in_normal_execution, active, phase, crashed, insn, target, unreported>>

-----------------------------------------------------------------------------
(* The guest.  An instruction faults on any page it may not use and is      *)
(* retried at the same RIP; it retires once no page stands in its way.      *)

Blocked(i) ==
  {<<p, "exec">> : p \in {q \in i.code : NX(ept[eptp], q)}}
    \cup {<<p, "data">> : p \in {q \in i.data : NoRW(ept[eptp], q)}}

GuestIssue(i) ==
  /\ Idle
  /\ insn' = i
  /\ UNCHANGED <<ept, eptp, in_normal_execution, active, phase, crashed, target,
                 stale, unreported>>

GuestRetire ==
  /\ ~crashed /\ insn \in Insn
  /\ Blocked(insn) = {}
  /\ insn' = NoInsn
  /\ unreported' = IF active /\ insn.code \cap target # {} THEN TRUE ELSE unreported
  /\ UNCHANGED <<ept, eptp, in_normal_execution, active, phase, crashed, target, stale>>

(* handle_ept_violation, armed hook: swap between the original frame        *)
(* (read, write) and the hook's frame (execute only).                       *)
ShowHook(e, p) ==
  [e EXCEPT !.xo = @ \cup {p}, !.nxPte = @ \ {p}, !.shadow = @ \cup {p}]
ShowHookReadable(e, p) ==
  [e EXCEPT !.nxPte = @ \ {p}, !.shadow = @ \cup {p}]
ShowOriginal(e, p) ==
  [e EXCEPT !.xo = @ \ {p}, !.nxPte = @ \cup {p}, !.shadow = @ \ {p}]

HookSwapWith(v, p, new) ==
  /\ p \in ept[v].armed
  /\ ept' = [ept EXCEPT ![v] = new]
  /\ invept_single(v)
  /\ UNCHANGED <<eptp, in_normal_execution, crashed, unreported>>

HookSwapKeepsRW(v, p, kind) ==
  HookSwapWith(v, p, IF kind = "exec" THEN ShowHookReadable(ept[v], p)
                                      ELSE ShowOriginal(ept[v], p))

HookSwap(v, p, kind) ==
  HookSwapWith(v, p, IF kind = "exec" THEN ShowHook(ept[v], p)
                                      ELSE ShowOriginal(ept[v], p))

(* handle_ept_violation, boundary crossing: flip the view; leaving the      *)
(* target emits a record (the ring is module TraceRing).                    *)
ViewFlipEmitsOnEntry(v, p, kind) ==
  /\ p \notin ept[v].armed /\ kind = "exec"
  /\ IF in_normal_execution
     THEN change_eptp("target") /\ unreported' = FALSE
     ELSE change_eptp("normal") /\ UNCHANGED unreported
  /\ UNCHANGED <<ept, stale, crashed>>

ViewFlipOneWay(v, p, kind) ==
  /\ p \notin ept[v].armed /\ kind = "exec"
  /\ change_eptp("target") /\ UNCHANGED unreported
  /\ UNCHANGED <<ept, stale, crashed>>

ViewFlip(v, p, kind) ==
  /\ p \notin ept[v].armed /\ kind = "exec"
  /\ IF in_normal_execution
     THEN change_eptp("target") /\ UNCHANGED unreported
     ELSE change_eptp("normal") /\ unreported' = FALSE
  /\ UNCHANGED <<ept, stale, crashed>>

(* "Should never reach here". *)
Unhandled(v, p, kind) ==
  /\ p \notin ept[v].armed /\ kind = "data"
  /\ crashed' = TRUE
  /\ UNCHANGED <<ept, eptp, in_normal_execution, stale, unreported>>

handle_ept_violation ==
  /\ ~crashed /\ insn \in Insn
  /\ LET v == IF in_normal_execution THEN "normal" ELSE "target" IN
     \E b \in Blocked(insn) :
       HookSwap(v, b[1], b[2]) \/ ViewFlip(v, b[1], b[2]) \/ Unhandled(v, b[1], b[2])
  /\ UNCHANGED <<active, phase, insn, target>>

-----------------------------------------------------------------------------
Init ==
  /\ \E nonuniform \in SUBSET Region : ept = [v \in View |-> initialize_ept(nonuniform)]
  /\ eptp = "normal" /\ in_normal_execution = TRUE
  /\ active = FALSE /\ phase = "install" /\ crashed = FALSE
  /\ insn = NoInsn /\ target = {} /\ stale = {} /\ unreported = FALSE

Guest == GuestRetire \/ handle_ept_violation

Background ==
  \/ \E p \in Page : handle_ept_hook(p)
  \/ EndInstall
  \/ \E R \in SUBSET Region : handle_wrmsr_mtrr(R)
  \/ \E i \in Insn : GuestIssue(i)
  \/ Guest

(* The operator enables tracing only when it is off and disables it only    *)
(* when it is on.                                                           *)
Next ==
  \/ Background
  \/ ~active /\ \E T \in SUBSET Page : handle_enable_auto_trace(T)
  \/ active /\ handle_disable_auto_trace

(* What the handlers accept: nothing in handle_at (revhv-um) or in the      *)
(* hypercalls checks whether tracing is on.                                 *)
FreeNext ==
  \/ Background
  \/ \E T \in SUBSET Page : handle_enable_auto_trace(T)
  \/ handle_disable_auto_trace

(* The processor retries a faulting instruction; nothing else is promised.  *)
Spec == Init /\ [][Next]_vars /\ WF_vars(Guest)
FreeSpec == Init /\ [][FreeNext]_vars /\ WF_vars(Guest)

-----------------------------------------------------------------------------
(* Properties.                                                             *)

(* Types, with what ties the fields together: the flag the handlers read    *)
(* names the view the processor uses, and a hook record's pte pointer is    *)
(* set only for a page that has a PTE.                                      *)
TypeOK ==
  /\ ept \in [View -> EptPages]
  /\ \A v \in View : ept[v].armed \subseteq ept[v].hooked
                     /\ RegionsOf(ept[v].hooked) \subseteq ept[v].split
  /\ eptp = IF in_normal_execution THEN "normal" ELSE "target"
  /\ in_normal_execution \in BOOLEAN
  /\ active \in BOOLEAN /\ phase \in {"install", "serve"} /\ crashed \in BOOLEAN
  /\ insn \in Insn \cup {NoInsn}
  /\ target \in SUBSET Page /\ stale \in SUBSET (View \X Page) /\ unreported \in BOOLEAN

(* While tracing, the normal view forbids execution of exactly the traced   *)
(* pages and the target view of exactly the others (README "How tracing     *)
(* works"; ept::enable_auto_trace), and neither shows a hook's frame or     *)
(* hides data.                                                              *)
TraceViews ==
  active => \A p \in Page :
    /\ NX(ept["normal"], p) <=> p \in target
    /\ NX(ept["target"], p) <=> p \notin target
    /\ \A v \in View : ~NoRW(ept[v], p) /\ ~ShadowMapped(ept[v], p)

(* Whenever tracing is off, every installed hook intercepts execution: in   *)
(* both views its page is either readable with its own frame and not        *)
(* executable, or executable with the hook's frame and not readable, and    *)
(* the violation handler knows it (handle_disable_auto_trace and the        *)
(* failure path of handle_enable_auto_trace log "hooks reactivated").       *)
HooksArmed ==
  ~active => \A v \in View : \A p \in ept[v].hooked :
    /\ p \in ept[v].armed
    /\ NX(ept[v], p) <=> ~NoRW(ept[v], p)
    /\ NX(ept[v], p) <=> ~ShadowMapped(ept[v], p)

(* A page's content is never replaced under a reader: a page that can be    *)
(* read shows its own frame (handle_ept_violation swaps both at once).      *)
ReadsSeeOriginal ==
  \A v \in View : \A p \in Page : ~NoRW(ept[v], p) => ~ShadowMapped(ept[v], p)

(* The views split the same regions and hold the same hooks, so that        *)
(* handle_ept_hook and ept::enable_auto_trace never succeed in one view     *)
(* only, and neither overruns its pool of page tables.                      *)
Lockstep ==
  /\ ept["normal"].split = ept["target"].split
  /\ ept["normal"].hooked = ept["target"].hooked
  /\ Cardinality(ept["normal"].split) <= SplitCount

(* No handler returns to the guest with a changed entry that an INVEPT has  *)
(* not covered.                                                             *)
NoStaleTranslation == stale = {}

(* handle_ept_violation never reaches its unrecoverable_host_error. *)
NoUnhandledViolation == ~crashed

(* "A trace record is emitted for target execution -> normal execution      *)
(* transitions": no instruction outside the target retires after target     *)
(* code ran unless a record was emitted in between.                         *)
TransitionTraced ==
  [][(active /\ insn \in Insn /\ insn' = NoInsn /\ insn.code \cap target = {})
       => ~unreported]_vars

(* The guest is never stuck: an instruction that starts eventually retires, *)
(* however many violations it takes.                                        *)
GuestProgress == insn \in Insn ~> insn = NoInsn
=============================================================================
