# A TLA+ model of revhv

revhv is a thin Intel VT-x hypervisor for Windows that traces the control flow
leaving a chosen address range.  Each virtual CPU has two EPT views; crossing
from the traced range to other code faults, flips the view and emits a record
into a per-core ring, which a user-mode controller drains into files.

This directory models the hypervisor and its controller: the two views, the
ring, the tracing session, the NMI queue and the crash protocol, where the order
of events decides whether the program is right; the emulation of instructions,
the launch, the log, guest memory, page tables, memory types, the TSC, the
transition maps, the module snapshot and the offline parser, where long
sequences, failures half-way and boundary values do.  TLC checks each on a small
instance; TLAPS proves every safety property and both refinements for every
instance.

    cd tla
    tlc -config MCEptTrace.cfg MCEptTrace      # model-check one run
    tlapm EptTraceProofs.tla                   # check the proofs of one module

`PROJECT.json` lists the runs, the source lines behind every definition, one
mutation of the code per property that the property must catch, the findings,
the hazards and the theorems.

## 1. Inventory

| Part | State | Operations | Talks to | What is hard |
|---|---|---|---|---|
| EPT views, hooks, auto-trace (`ept.cpp`, tracing hypercalls, EPT violation exit) | two page-table trees per vCPU, split pool, hook records, current view | add hook, enable / disable tracing, MTRR update, violation | ring (emits), hooks, controller | failure half-way, enable/disable/hook/MTRR in any order, stale translations, endless faults |
| Trace ring and flush hypercall (`trace.h`, `handle_flush_trace_logs`) | `write_head`, `read_tail`, `active`, entries | emit, drain, flush, reset | violation exit, poller | producer and consumer interleave, full and wrapping ring, failed guest write |
| Trace session (`trace_poller.hpp`, `at` commands, load hook) | `m_running`, worker threads, files, onload target | start, stop, enable, disable, onload, clear, driver load | flush and enable hypercalls | stop against late records, two consumers, reset under a running poller |
| NMI queue (`vmexit.cpp`, `exception.cpp`) | `queued_nmi_count`, NMI-window control, injection field | NMI exit, host NMI, window exit | guest, crash protocol | an NMI at any instruction of the window handler |
| Unrecoverable error (`error.cpp`, `vcpu::devirtualize`) | `crash_in_progress`, `crash_ack_core_count` | raise, give control | all cores, Windows | several raisers, an NMI in the middle of devirtualization, waiting for everyone |
| Standard log and locks (`logging.cpp`, `sync.hpp`) | message ring, reentrant lock | write, flush | everything | NMI that logs while its core holds the lock |
| Onload target (`g_hv.onload_target`) | name, active flag, spin lock | set, clear, match | controller, load hook | lock shared by guest code and VMX root |
| Transition configuration (`exact_transition_cfgs`) | open-addressing table per core | insert, look up | violation exit | full table, cores that differ |
| Start-up (`main.cpp`, `hv.cpp`, `vcpu::virtualize`, `vmcs.cpp`) | vCPUs, VMCS of each core | launch one core after the other, install hooks | everything | a failure at any step of any core, order of preparation |
| Introspection and memory hypercalls (`introspection.cpp`, `handle_vmem_*`, `read_vmemory`) | guest page tables, guest memory | read/write guest memory in chunks | hypercalls, commands | page boundaries, page sizes, pages that go away between chunks |
| Host page tables (`memory.cpp`) | host page tables | map a range | start-up | three page sizes, failure half-way |
| MTRR types (`memory.cpp`) | MTRR copy | type of a range | EPT | combination rules, mixed ranges |
| VM-exit emulation (`vmexit.cpp`, wrappers) | control registers, masks, shadows, `exception_info` | CPUID, MSRs, CR access, XSETBV, INVD, VMCALL, ... | guest | faults inside the emulation, what one instruction leaves for the next |
| TSC hiding (`stealth.cpp`, `vmexit_stub.asm`) | TSC offset, measured overheads, preemption timer | benchmark, hidden exit, re-synchronisation | every exit | costs that vary |
| Controller front end (`commands.cpp`, `kmodules.cpp`, `pdb_parser.cpp`, `pe.cpp`) | module list, mirrored maps, snapshot thread | refresh, export, parse, print | hypercalls, poller | two threads on one list |
| Offline parser (`trace_parser.hpp`) | per-core files, PE cache | merge by time stamp, name addresses | files of the poller | cut-off files, files that come and go |

What makes each modelled part correct:

- *views*: while tracing, one view forbids exactly the traced pages and the
  other exactly the rest; while not tracing every hook intercepts; leaving the
  target is recorded; every instruction gets through;
- *ring*: records are delivered whole, once and in order, or are dropped
  because the ring was full;
- *session*: what was in the ring when the poller was asked to stop reaches the
  file, the file is sorted, `stop()` returns;
- *NMIs*: every NMI taken reaches the guest once;
- *crash*: one core bugchecks, after all cores have left VMX operation;
- *emulation*: the guest cannot tell it from the processor, VM-entry never
  fails, and no instruction exits for ever;
- *launch*: a core runs as a guest only with a whole VMCS, made from data that
  was ready;
- *log*: a flush returns the oldest waiting messages in order; the lock is given
  up;
- *guest memory*: the count returned is exact, whatever the copy crosses;
- *host tables*, *memory types*: never another translation than the system's,
  never a weaker type than the MTRRs';
- *TSC*: the guest's clock never runs backwards;
- *maps, snapshot, parser*: a record is read back as it was written, the
  exported module list has the target, the merged log is sorted and complete.

## 2. Modules

| Module | Models | Extends / instantiates |
|---|---|---|
| `EptTrace` | both views of one vCPU and all that changes them | |
| `TraceLog` | abstract: a bounded first-in first-out log that drops the newest record | |
| `TraceRing` | emit, drain and flush of one core's ring, load by load | `INSTANCE TraceLog` |
| `TraceSession` | worker thread, poller, operator commands, driver load, on the ring | `TraceRing` |
| `NmiQueue`, `NmiQueueProofs` | NMI exits, host NMIs and the NMI window; proofs | |
| `CrashProtocol` | the unrecoverable-error protocol of all cores | |
| `BareCpu` | abstract: control registers, faults and traps of a processor without a hypervisor; apart from it, the five deviations of revhv's guest | |
| `GuestCpu` | instruction exits, masks and shadows, wrappers, injection | `INSTANCE BareCpu` |
| `TscHiding` | benchmark, offset and preemption timer | |
| `LogRing` | standard log, reentrant lock, NMIs that log | |
| `Launch` | `hv::start`, `virtualize`, VMCS set-up, hook installation | |
| `HostTables` | `map_va_range_to_host` | |
| `MemoryTypes` | `read_mtrrs`, type of a page and of a range | |
| `GuestMemory` | memory hypercalls, introspection, `gva_to_hva` | |
| `TransitionCfg` | `at config`, the tables of the cores, the mirror, its export to trace_cfg.bin, decoding of a record from that file | |
| `TraceMerge` | the parser's merge and naming of addresses | |
| `ModuleSnapshot` | `at onload`'s snapshot thread, the module list, and the three writers of modules.bin | |
| `EptTraceProofs`, `TraceRingProofs`, `CrashProtocolProofs` | proofs | the module of the name |
| `TraceSessionProofs` | proofs | `TraceSession`, `TraceRingProofs` |
| `VcpuProofs` | proofs | `GuestCpu`, `TscHiding`, `MemoryTypes` |
| `HostProofs` | proofs | `GuestMemory`, `Launch`, `HostTables`, `LogRing` |
| `ParserProofs` | proofs | `ModuleSnapshot`, `TraceMerge`, `TransitionCfg` |
| `MCVcpu` | the three modules of a vCPU's exits with their instances, in one run | `GuestCpu`, `NmiQueue`, `CrashProtocol` |
| `MCSubsystems` | `TscHiding` and the modules after it with their instances, in one run | all nine |
| other `MC*` | instances for TLC | one each |

Definitions keep the names of the functions they model.  A definition whose
name is a function's name plus what it forgets (`split_pde_forgets_nx`,
`EmitBeginUnchecked`) is a mutation used to test the properties; no
specification refers to it.

### EptTrace

One vCPU, because all its tables are its own.  A view is a record: the regions
with a page table (`split`), the large entries and page-table entries without
execute access (`nxPde`, `nxPte`), the entries without read and write access
(`xo`), the ones that map the hook's frame (`shadow`), the hook records
(`hooked`) and those whose `pte` pointer is set (`armed`).  Every assignment in
the code sets read and write together, which makes one bit of the two.
Memory types are reduced to what changes control: whether a region is uniform.

The hypercalls and the WRMSR exit are atomic: they run in VMX root, between two
guest instructions, on tables no other core touches.  The guest attempts an
instruction (`GuestIssue`), faults on each page in its way
(`handle_ept_violation`, in any order) and retires (`GuestRetire`).  `target`,
`stale` and `unreported` are history variables: what the last enable traced,
entries changed without an INVEPT, and target code that ran without a record.
`CanSplit` is `split_pte_used < ept_split_pte_count`: the number of tables in
use is the number of split regions, since tables are never returned.

`enable_auto_trace` is modelled by its result: on success the loop's effect on
all translatable pages, on failure any set of regions already split and the
region that could not be.  `Next` lets the operator enable only when tracing is
off and disable only when it is on; `FreeNext` drops that condition, which
nothing in the code enforces, and two runs show what follows.

### TraceLog, TraceRing

The ring's actions are the loads and stores of `trace::emit` and
`trace::drain`: the check for a full ring, the first store into the slot (from
then on it is `Torn`), the stamp, the publication of `write_head`; the loads of
`write_head`, the copies, the publication of `read_tail`, the write to the
guest.  x86 keeps each side's stores in order and the compiler barriers keep
the compiler from reordering them.  A record is its time stamp.  The producer
and the consumer may be on different cores ("any core", `trace_log.hpp`).
A flush of this ring is never in progress when its core handles an enable,
because the poller pins a worker to each core; with a consumer on another core
the reset of the indices and the late publication of `read_tail` would hand out
old records again.

`Log` maps the ring to `TraceLog`: the log is what lies between the indices,
the capacity is one less than the ring's size, the clock is the last published
stamp.

### TraceSession

One core of a session: the worker that drains the ring into its file, with its
loop and its final drain (`wpc`), `poller::start` and `stop`, and the commands
`at enable`, `at disable`, `at onload` and `at onload clear`, each carried to its
end (`opc`) while the target keeps emitting.  A driver load consumes the onload
target and enables tracing in two steps, as the hook releases the lock in
between.  The hypercalls may fail, the file may not open, the write to the
guest may fail.  `owed` remembers what the ring and the flush in progress held
when `stop()` was called.

### NmiQueue

`handle_nmi_window` is cut at every access to the count and to the control, so
that a host NMI may fall between any two.  Handlers that run with NMIs blocked
are one step.  `SplitDecrement` says how `--queued_nmi_count` was compiled: as
one read-modify-write instruction, or as a load and a store, as an unoptimised
build does.  The read-modify-write of the control field is one step, since each
writer stores a constant into the only bit that differs.

### CrashProtocol

`raise_host_crash` and `give_control_on_unrecoverable_error` of every core,
with `devirtualize` cut at VMXOFF and at the reload of the IDT: before the first
an NMI is the hypervisor's, between the two it still reaches the hypervisor's
handler, after the second it is Windows'.  The atomic increment that acknowledges
and the IRETQ that unblocks NMIs are two steps, since the raiser may see the count
in between: it can bugcheck while the last core still has its NMIs blocked.
`foreign` are the cores that Windows stopped over an NMI it did not expect, which
it may also dismiss.  All cores are launched; the README of the repository
documents the limitation for an error during start-up.

### GuestCpu, BareCpu

`BareCpu` is the promise: an instruction starts and retires with the registers,
the fault or the single-step trap of a bare processor.  `GuestCpu` is what
happens: the processor decides by masks and shadows whether to exit, the handler
emulates, and VM-entry injects.  A control register is the set of its bits.
`LooksBare` is the refinement: CR0 and CR4 are seen through mask and shadow
(`get_effective_guest_cr0`), and a CLTS that runs again because its RIP was not
advanced has already retired.  Exits for other reasons between two instructions
touch none of this state.

`Fault` in `BareCpu` is that of a bare processor: VMXON and GETSEC execute when CR4
enables them, 0x400000F0 is no MSR, VMCALL is undefined, and a CR4 bit that the
processor lacks raises #GP.  revhv differs in each of these, on purpose or not, and
`BareCpu` names the differences one by one as `Deviate`: VMXON with VMXE set and
GETSEC with SMXE set are refused, the idle MSR reads 0, VMCALL with the key is a
hypercall, and MOV to CR4 accepts the bits that the processor lacks (the guest sees
them set; the real register never has them).  Nothing else may differ.

### TscHiding

Costs of the exit, the handler and the entry vary within sets; the benchmark is
taken to have met the least ones, as its ten thousand iterations minimise.  The
handler takes at least as long as the overhead it claims for the instruction,
which for MOV to CR is the constant 100 of the code.  `save_vmx_preemption_timer`
is not set, so the timer restarts at each entry and its expiry may come at any
time.

### LogRing

The lock's `lock` and `unlock` are cut at every access, the ring's functions
where another context can see a difference.  An NMI context of a core
interrupts its base context anywhere and runs to its end.  One thread flushes, as
in revhv-um.  `nested` remembers that an NMI handler logged inside its own core's
log code: `FlushExact` is about the other behaviours, since the source marks this
one as a TODO; `LockReleased` is about all.

### Launch

A vCPU field is "zero" until its function has run, and a VMCS field takes the
value its source has when it is written: a wrong order would leave a "zero" in
it.  Every call that can fail may fail.  The controls asked for are those of the
code, cut to what the capability MSRs allow; the instances lack the preemption
timer, an optional control, or nothing.

### HostTables, MemoryTypes

Both are algorithms with a reference definition: the processor's walk
(`Translate`) and the architecture's combination rules (`ArchTypes`).  Addresses are
page numbers; the levels keep their proportions in small.

### GuestMemory

A hypercall is one step.  Between two chunks the guest may page in or out.  The
copy touches physical addresses in order and stops at one that raises #GP, the
fault `memcpy_wrapper` survives; the memory it has written by then stays written.
Physical address 0 is the walk's failure, as in the code.  No two pages share a
frame and the target is another address space than the caller's.

### TransitionCfg

The hypercall reaches the cores one after the other, may be unreadable on some,
and finds a table full on some.  The parser never sees the engine's maps: it loads
trace_cfg.bin, which `at enable`, `at onload` and `at config export` write
(`export_trace_config`, at any time between two commands), or falls back on the
default map while there is no file.  So a record may meet a file older than the
map it was written with.  `unmirrored` remembers maps that not all cores have and
maps of an earlier revhv-um; `differs` those that were unmirrored at the export or
set on a core since.  A record whose generic and exact maps are in neither, and
whose exact map has the RIP where the generic one has it, is read back as
written.

### TraceMerge, ModuleSnapshot

The heap leaves ties open, files may be cut off inside a record, empty or
foreign, and a module's PE may come or go while the parser runs: one attempt per
module decides for the whole log.  In `ModuleSnapshot` the command thread, the
worker and the snapshot thread interleave at every call, and both `at enable`, whose
`start()` leaves a running poller as it is, and `lm export` write the same
modules.bin.  A refresh is two steps, the query and the swap, and so is an export,
the copy of the list and the write.  `excused` marks, for each writer, the race in
which its file may lack the target: the other thread swaps in a list from before
the driver was loaded between this thread's check, or swap, and its export; a
command whose query failed or found no driver is excused too, as it promises
nothing.  `TargetGuaranteed` is the repository's claim, without the excuse.

## 3. Runs

| Run | Instance | Shows |
|---|---|---|
| `ept` | 4 pages in 3 regions, 2 page tables, 1 hook, instructions with and without data access | everything in section 1 about the views; the pool is one table short, so enabling can fail half-way and MTRR writes compete for tables |
| `ring` | ring of 4 slots, flush limit 3, batches of 2, 5 records | both indices wrap, the ring fills, a flush takes two batches, and `TraceRing` implements `TraceLog` |
| `session` | ring of 3 slots, flushes of 1, 3 records | one consumer, a sorted file, a complete final drain, `stop()` returns |
| `vcpu` | every instruction that exits; 4 NMIs, one-instruction decrement; 3 cores, 2 errors | three modules, each explored on its own: `subject` picks one, the others stay where they start.  Emulation looks bare but for the named deviations; an NMI is being injected, two wait and one interrupts the handler; two raisers and a bystander |
| `subsystems` | see `MCSubsystems` | nine subsystems, in the same way |
| `log_lock` | 2 cores, 2 messages, 2 NMIs that log | *violated*: an NMI inside `lock()` gives the lock away under its holder, and it ends up taken for ever |
| `ept_enable_twice` | as `ept`, `FreeSpec` | *violated*: a second enable leaves pages no view executes |
| `ept_disable_twice` | as `ept`, `FreeSpec` | *violated*: a disable with tracing off disarms the hooks |
| `session_disable` | as `session` | *violated*: records emitted while `at disable` stops the poller stay in the ring |
| `nmi_split` | 2 NMIs, decrement in two steps | *violated*: an NMI between load and store is lost |
| `crash_twice` | 3 cores, 2 errors | *violated*: VMXOFF twice on a core that lost the election |
| `snapshot_target` | as in `subsystems` | *violated*: the snapshot thread writes a modules.bin without the target |

Bounds.  The pages of one region behave alike unless hooked or traced, and the
instance has a hooked page with a neighbour in its region, and one region more
than the pool serves; the proofs cover all other sizes.  The ring's behaviour depends on the
indices modulo its size and on a full, empty or partly filled window; five
records over three usable slots reach all of them, and `MaxTsc` caps only the
history.  `session` takes a smaller ring because `ring` already covers batches.
`MaxNmi` and `MaxErrors` cap the counters.  `MaxTsc` has one effect to keep in
mind: emission ends, and `StopReturns` and `RecordsLeave` hold for a target that
comes to rest.  With a target that never rests the final drain need not end.
The other crash run allows deadlock as well: the machine has stopped.

`vcpu` and `subsystems` join modules that share no variable, so that their states are
the sum of the modules' and not the product; they allow deadlock because each
subject comes to its bounds or its end (a bugcheck, a merged log, a loaded driver).
`vcpu` has every instruction that exits, with operands on either side of each check,
on a processor with SMX that lacks one CR4 bit (PKS) and whose FIXED1 lacks TS so that
CLTS and LMSW exit as well.  `subsystems`: two cores log
three messages and flush once over a ring of two, with one NMI that logs; costs of two
values each; host ranges over entries of every kind; two variable MTRRs over
three pages, one of them fixed; copies of up to five units in chunks of three over
pages of two sizes, one at physical 0 and two that fault; two cores with tables of
two slots, two addresses that collide and address 0, which is also the mark of an
empty slot, three commands, one unreadable request, one restart of revhv-um and any
number of exports; three trace directories; two commands, two batches, one unload; two
cores to launch and three sets of capabilities.  Larger values repeat these cases.

Fairness.  `EptTrace`: the processor goes on with the current instruction
(weak fairness of faults and retirement together); no command is ever owed.
`TraceRing`: a VM-exit handler runs to its end.  `TraceSession`: threads are
scheduled and a command that began goes on; the operator, the target and driver
loads owe nothing.  `NmiQueue`: handlers end, latched NMIs are taken, a window
exit is taken if its condition keeps arising and the guest's NMI handler
eventually executes IRET even if exits interrupt it for ever (strong fairness;
both have priority over, or are not disabled by, what interrupts them).
`CrashProtocol`: every processor runs and takes an unblocked NMI.
`GuestCpu`: the processor and the exit handler go on with an instruction they
began; the guest need not begin another.  `LogRing` (`log_lock`): a core in VMX root,
or in its NMI handler, runs on; nothing is assumed of a compare-exchange that
keeps failing, as the step is then not enabled.

## 4. Findings

1. `at enable` twice (`ept_enable_twice`): the hypercall neither refuses nor
   undoes the first range, whose pages then fault in both views.
2. `at disable` with tracing off (`ept_disable_twice`), which also happens on
   the cores whose enable failed: hook pages become fully accessible and
   `reactivate_hooks` skips them because their `pte` is still set.
3. `at disable` (`session_disable`) stops the poller before it stops tracing,
   so it does not "flush remaining entries".
4. `--queued_nmi_count` (`nmi_split`) races with the host NMI handler.
5. A core that loses the election (`crash_twice`) can be interrupted by the
   raiser's NMI between VMXOFF and the reload of its IDT.
6. The log's lock (`log_lock`): ownership and depth are taken in two
   instructions, and an NMI handler that logs in between releases the lock; the
   core that spins for ever is in a further NMI.
7. modules.bin (`snapshot_target`) can lack the target that `README.md:360` calls
   "guaranteed to be present": a command's older refresh is swapped in between the
   snapshot thread's look and its export.

Met while modelling, and kept as the code has them:

- `thread_entry` overwrites a failure of `hv::start` with success; the hook's VMCALL
  then fails on a core left in VMX root and raises #UD on one without VMXON.
- The driver's desired controls are dropped silently where the processor lacks
  them, except for the preemption timer.
- `handle_clts` does not advance the RIP; the instruction runs again natively.
- Overlapping variable MTRRs of one type other than UC give UC: safe, but slower.
- After a 1 GB page `map_va_range_to_host` advances by 4 GB; a failed pool mapping
  leaves its host entries behind.
- The core of finding 5 can also take the raiser's NMI after the reload of its IDT,
  where Windows does not expect it and usually bugchecks: the limitation that
  `README.md:210` describes for start-up only.  `foreign` holds such cores.
- No mask covers CR4.SMXE, so on a processor with SMX the guest can enable it and reach
  `handle_getsec`, of which `vmexit.cpp:290` says that this "doesn't make sense".
- The mirror of the transition maps does not follow the cores across a restart of
  revhv-um, nor after an `at config` that fails on some of them, although
  `commands.h:41` calls it "mirrored from per-vCPU KM state": the next export lacks
  maps that the cores use.
- `at config` after `at enable` changes what the cores record but not trace_cfg.bin,
  until `at config export`.
- A flush of the log loses its messages if the write to the caller's buffer fails.
- `at enable` during `at onload` writes its own module list over the snapshot's.
- The guest sees VMXE and unsupported CR4 bits set that the processor does not act on.
- A core that hangs in the crash protocol while it holds the log's lock stops every
  core that logs afterwards.

`README.md` of the repository lists "marks crash-in-progress" after
devirtualization; the code sets the flag first (`error.cpp:10`), and the model
follows the code.

## 5. Proofs

`EptTraceProofs` (any set of pages, any number of regions, page tables and
hooks, any instructions whose code is not empty) proves every invariant of the
`ept` run and its action property.  Assumptions: the sizes are natural numbers,
`RegionOf` maps pages to regions, `NoInsn` is not an instruction.

The invariant the code needs is stronger than any of the properties.  `IInv`
says of each view that hooks lie in split regions and that entries are
consistent with them (`ViewInv`), and then distinguishes two modes.  Off: both
views are `HookedView`, nothing is restricted except the armed hooks, each in
one of its two phases.  On: both are `TracedView` of `target`, with no hook
armed.  In both modes the views agree on split regions and hooks: this is what
makes `handle_ept_hook` and the enable loop succeed or fail in both views
together, and it is why `HooksArmed` holds after a failure half-way.  `TraceViews`
alone is not inductive: without the hook discipline a disable could restore a
view that a stale hook then corrupts; `HooksArmed` alone is not either, since
`deactivate_hooks` relies on all restrictions being the hooks'.

The lemmas follow the helpers: splitting keeps what the processor sees
(`SplitKeepsWalk`) and what a view promises (`SplitKeepsView`), MTRR updates
stay within the pool (`ServedFits`), `deactivate_hooks` removes every
restriction, `set_all_permissions` makes all pages alike, `reactivate_hooks` arms
every hook, the enable loop produces complementary views (`TraceLoop`).  One
lemma per action then preserves `IInv`, and `Invariance` combines them.

`NmiQueueProofs` proves that the count never underflows and that the window is
open exactly while NMIs wait, however the decrement is compiled: `WindowInv` says
at each step of the handler what the control and the count can be; the second
test in `handle_nmi_window` is what restores it after an NMI in the gap.  With a
one-instruction decrement `NoNmiLost` adds conservation.

`TraceRingProofs` (any ring of two slots or more, any flush limit and batch
capacity of one or more) proves the ring's invariants at the grain of single
loads and stores, and that it implements `TraceLog`.  None of the properties is
inductive: `RingInv` adds where the cursors are at each step (`CursorInv`: emit
found room and only the consumer can change that; what drain has copied is the
oldest part of the window), that records are older the further they have come
(`OrderInv`) and that the ones that never arrive are older than those on the way
(`AccountInv`), which makes the counts of `NothingVanishes` add up.  Four lemmas
say what publishing, releasing, storing into the open slot and resetting do to the
window, wrapped or not.

`TraceSessionProofs`: the session's steps are steps of the ring
(`SessionStepsAreRingSteps`), so `RingInv` and the refinement carry over
(`SessionKeepsRing`).  `WorkerInv` says whose turn it is, `FileInv` that the file
is the end of what the flushes returned, `OwedInv` where the records are that
`stop()` must save: a final drain that comes back empty-handed has seen the ring
empty after `stop()`.

`CrashProtocolProofs` (any finite set of cores, any number of errors): the count
of acknowledgements is the number of cores past theirs, so a raiser that sees the
full count knows that all have left VMX operation with Windows' IDT, though not that
the last has unblocked its NMIs.  `OneErrorOneVmxoff` complements finding 5:
with `MaxErrors <= 1` no core executes VMXOFF twice and no raiser's NMI reaches
Windows, because every core that gives control does so inside the one NMI that told
it to.

`VcpuProofs`: for every set of fixed bits and every set of instructions VM-entry
succeeds and emulation implements `BareCpu` with its named deviations.  The invariant relates the three
places a bit may be in: the real registers keep what VMX fixes at every step of
an exit (`RealInv`), the masked bits of the shadow are such as a MOV to CR0
leaves (`ShadowInv`), and `exception_info` is empty except while the wrapped
instruction that filled it is being handled (`InsnInv`).  Assumptions are what the
capability MSRs report on every processor with VMX (PE and VMXE fixed to 1, ET
and WP not fixed to 0, no reserved bit fixed, no CR4 bit allowed that the processor
lacks) and that the system loads the driver
with registers the processor takes.  For the TSC, `TscInv` bounds the measured
overheads by the least costs, for every set of costs.  `NeverWeaker` holds for
any number of variable ranges and pages: the loop over the ranges and the walk over
the pages are recursive functions, so the proofs first show that such a function
exists (`LoopExists`, `WalkExists`) and then that no turn of it is the first to
break the claim.

`HostProofs`: a copy of guest memory is exact for all page tables, page sizes and
chunk sizes.  Its loop is treated in the same way, from its end
(`CopyExists`, `TouchesInOrder`).  `CopyInv` adds that what was counted is mapped, so
that a later chunk goes to other frames.  Assumptions: an address has one
translation, no two pages share a frame, and the memory read or written is not the
caller's own; with overlapping source and destination the promise would not hold.
A launched core is whole for any number of cores, capabilities and
failures (`LaunchInv`: at each step of `virtualize` the fields written so far);
the host's tables agree with the system's for every layout whose levels divide
each other (`TablesInv`: an entry is empty or the system's, and the walk has left
nothing behind it but what the leap skips); a flush of the log is exact for any
number of cores and any ring length (`LogInv`: without nesting the reentrant lock
is a plain one, the waiting messages lie behind the cursor, and a flush in
progress has planned for the oldest of them).

`ParserProofs`: the snapshot, for any number of commands, batches and unloads
(`SnapshotInv`: a writer that is not excused has the target in the list it is about
to copy or to write); the merge,
for every directory and module list (`MergeInv`: the heap holds the next record of
each stream that has one, the lines are the records before the cursors, and a
module once tried stays as loaded or missing as it was); the transition maps, for
every table size and number of cores.  Their invariant `CfgInv` has two halves.
`MirrorInv`: no address is in two slots, every occupied slot is reached from its
hash without passing an empty one, and each table agrees with the engine's mirror
but for `unmirrored` and the map on its way.  `FileInv`: the exported file agrees
with each table but for `differs`; the export establishes it from the first half
(`ExportKeeps`), and a turn of the hypercall keeps it because what it changes joins
`differs` (`TurnKeepsFile`).  `LeastNat`, the least element of a set of numbers, stands in for induction:
the library's induction theorems are parameterised by an operator, its
well-foundedness of the natural numbers is not.

Only model-checked: the liveness properties (`GuestProgress`, `FlushReturns`,
`RecordsLeave`, `StopReturns`, `NmisDelivered`, `CrashCompletes`,
`InstructionEnds`), since fairness and ENABLED are outside the prover's reach; and, of
the findings, the counterexamples.

## 6. Not modelled

Text, files and formatting, serial output, PE and PDB parsing, the values of
descriptors, gates and segments have no state a model checker would explore.

- Views: memory types, the large-page geometry, addresses outside the EPT's
  512 GB, and instructions whose code or operands lie on pages with opposite
  permissions in both views (code straddling the border of the traced range, a
  hooked page that reads itself), which fault for ever by design of the two-view
  scheme; see the hazard at `vmexit.cpp:789`.
- Crash protocol: platform NMIs and the log's lock.
- Onload: the spin lock between preemptible guest code and VMX root.
- Emulation: what CPUID and RDMSR return, 32-bit and compatibility-mode guests
  apart from the cut of the RIP, a VMWRITE that fails (an unrecoverable error).
- Log: messages logged inside their own core's flush (the source's TODO) have no
  property; the write to the caller's buffer after a flush is not a step.
- Maps: a format is the set of its fields; trace_cfg.bin is written whole or not at
  all, in one output directory.
- Module list: two threads that write modules.bin at the same time (each write is
  one step), and output directories other than one; the cache of parsed PEs, whose
  entries a command uses after the lock is released while the snapshot thread's
  refresh may evict them.

## 7. Plan

Done: views, ring, session, NMI queue and crash protocol first, because the
tracing promise rests on them; then the other subsystems; then the proofs of all
safety properties and of the two refinements.  Next, in this order:

1. State as theorems under which discipline of the operator the violated
   properties hold (`at disable` when the target rests; a log without nesting).
2. Compose `LogRing` with `CrashProtocol` on two cores, with platform NMIs.
3. The onload lock, with preemption of the load hook.
