--------------------------- MODULE ModuleSnapshot ---------------------------
(***************************************************************************)
(* The module snapshot of `at onload`: the command thread arms a target,   *)
(* starts the poller, a snapshot thread and, last, the first-data callback *)
(* that wakes it; the snapshot thread refreshes the module list until the  *)
(* target is in it and exports the list to modules.bin for the parser.     *)
(* Meanwhile the command thread goes on to other commands: most of them    *)
(* refresh the same list, and `at enable` and `lm export` write the file.  *)
(*                                                                         *)
(* kmodule_context::refresh queries the system without a lock and swaps    *)
(* the list in under it; every reader takes a snapshot of its own.  All    *)
(* commands name one output directory, and a file is written in one step.  *)
(***************************************************************************)
EXTENDS Integers

CONSTANTS
  Target,        \* the driver
  OtherModule,   \* the modules that are always loaded
  MaxBatches, MaxCommands, MaxUnloads   \* bounds

ASSUME ModuleSnapshotAssumption ==
  Target \notin OtherModule /\ {MaxBatches, MaxCommands, MaxUnloads} \subseteq Nat

VARIABLES
  os_modules,    \* the loaded modules
  m_modules,     \* kmodule_context's list
  cmd_pc,        \* the command thread: "idle", "start", "thread", "callback" (at onload),
                 \* "swap", "export", "write", "enable", "query again", "swap again", "join"
  cmd_list,      \* the list it has queried, or is about to write
  m_running, m_first_data_fired, callback,    \* the poller
  triggered,     \* m_snapshot_triggered
  snap_pc,       \* the snapshot thread: "none", "wait", "query", "swap", "check", "export",
                 \* "write", "done"
  snap_list,     \* the list it has queried, or is about to write
  modules_bin,   \* the file: [list, by, excused]; by "nobody" while there is none
  batches, commands, unloads,
  excused        \* per exporting thread, "snapshot" and "command": its list may lack the target,
                 \* because the other thread's came in between its check or swap and its export, or
                 \* because the command's own query failed or found the driver not loaded

cmdVars == <<cmd_pc, cmd_list, commands>>
pollVars == <<m_running, m_first_data_fired, callback, triggered, batches>>
snapVars == <<snap_pc, snap_list, modules_bin>>
moduleVars == <<os_modules, m_modules, cmdVars, pollVars, snapVars, unloads, excused>>

ModuleInit ==
  /\ os_modules = OtherModule /\ m_modules = OtherModule
  /\ cmd_pc = "idle" /\ cmd_list = {} /\ commands = 0
  /\ m_running = FALSE /\ m_first_data_fired = FALSE /\ callback = FALSE
  /\ triggered = FALSE /\ batches = 0
  /\ snap_pc = "none" /\ snap_list = {}
  /\ modules_bin = [list |-> {}, by |-> "nobody", excused |-> FALSE]
  /\ unloads = 0 /\ excused = [t \in {"snapshot", "command"} |-> FALSE]

-----------------------------------------------------------------------------
(* handle_at_onload, one step per call another thread can get between:     *)
(* onload_target_set, start, the snapshot thread, set_on_first_data.       *)
OnloadArm ==
  /\ cmd_pc = "idle" /\ ~m_running /\ snap_pc = "none" /\ commands < MaxCommands
  /\ cmd_pc' = "start" /\ commands' = commands + 1
  /\ UNCHANGED <<os_modules, m_modules, cmd_list, pollVars, snapVars, unloads, excused>>

(* poller::start, called by at onload and by at enable: a running poller   *)
(* goes on in its own directory.                                           *)
start ==
  /\ cmd_pc \in {"start", "enable"}
  /\ m_running' = TRUE
  /\ m_first_data_fired' = (m_first_data_fired /\ m_running)
  /\ cmd_pc' = IF cmd_pc = "start" THEN "thread" ELSE "query again"
  /\ UNCHANGED <<os_modules, m_modules, cmd_list, commands, callback, triggered, batches, snapVars,
                 unloads, excused>>

OnloadThread ==
  /\ cmd_pc = "thread"
  /\ triggered' = FALSE /\ snap_pc' = "wait" /\ cmd_pc' = "callback"
  /\ UNCHANGED <<os_modules, m_modules, cmd_list, commands, m_running, m_first_data_fired, callback,
                 batches, snap_list, modules_bin, unloads, excused>>

set_on_first_data ==
  /\ cmd_pc = "callback"
  /\ callback' = TRUE /\ m_first_data_fired' = FALSE
  /\ cmd_pc' = "idle"
  /\ UNCHANGED <<os_modules, m_modules, cmd_list, commands, m_running, triggered, batches, snapVars,
                 unloads, excused>>

(* A worker drains a non-empty batch: the callback fires once. *)
worker ==
  /\ m_running /\ batches < MaxBatches
  /\ m_first_data_fired' = TRUE
  /\ triggered' = (triggered \/ (~m_first_data_fired /\ callback))
  /\ batches' = batches + 1
  /\ UNCHANGED <<os_modules, m_modules, cmdVars, m_running, callback, snapVars, unloads, excused>>

(* stop_trace_poller: m_running goes down, then the thread is joined. *)
stop_trace_poller ==
  \/ /\ cmd_pc = "idle" /\ m_running
     /\ m_running' = FALSE /\ cmd_pc' = "join"
     /\ UNCHANGED <<os_modules, m_modules, cmd_list, commands, m_first_data_fired, callback, triggered,
                    batches, snapVars, unloads, excused>>
  \/ /\ cmd_pc = "join" /\ snap_pc \in {"none", "done"}
     /\ snap_pc' = "none" /\ cmd_pc' = "idle"
     /\ UNCHANGED <<os_modules, m_modules, cmd_list, commands, pollVars, snap_list, modules_bin, unloads,
                    excused>>

-----------------------------------------------------------------------------
(* refresh on the command thread: the query, which may fail and then       *)
(* leaves the list, and the swap.  The commands differ in what follows the *)
(* refresh: nothing (d*, ln, lm, an at enable that fails), the export of   *)
(* the list (lm export), or the rest of at enable, which refreshes again.  *)
Afterwards == IF cmd_pc \in {"idle", "swap"} THEN {"idle", "export", "enable"} ELSE {"export"}

CommandQuery(got) ==
  /\ \/ cmd_pc = "idle" /\ commands < MaxCommands /\ commands' = commands + 1
     \/ cmd_pc = "query again" /\ UNCHANGED commands
  /\ IF got THEN cmd_list' = os_modules /\ cmd_pc' = IF cmd_pc = "idle" THEN "swap" ELSE "swap again"
     ELSE cmd_list' = {} /\ cmd_pc' \in Afterwards
  /\ excused' = [excused EXCEPT !["command"] = ~got \/ Target \notin os_modules]
  /\ UNCHANGED <<os_modules, m_modules, pollVars, snapVars, unloads>>

CommandSwap ==
  /\ cmd_pc \in {"swap", "swap again"}
  /\ m_modules' = cmd_list /\ cmd_list' = {} /\ cmd_pc' \in Afterwards
  /\ excused' = [excused EXCEPT !["snapshot"] = @ \/ (snap_pc = "export" /\ Target \notin cmd_list)]
  /\ UNCHANGED <<os_modules, commands, pollVars, snapVars, unloads>>

(* export_modules on either thread: it takes a snapshot of the list, then  *)
(* writes the file, which may not open.                                    *)
CommandExport ==
  /\ cmd_pc = "export"
  /\ cmd_list' = m_modules /\ cmd_pc' = "write"
  /\ UNCHANGED <<os_modules, m_modules, commands, pollVars, snapVars, unloads, excused>>

CommandWrite(opens) ==
  /\ cmd_pc = "write"
  /\ modules_bin' = IF opens THEN [list |-> cmd_list, by |-> "command", excused |-> excused["command"]]
                    ELSE modules_bin
  /\ cmd_list' = {} /\ cmd_pc' = "idle"
  /\ UNCHANGED <<os_modules, m_modules, commands, pollVars, snap_pc, snap_list, unloads, excused>>

(* The snapshot thread waits for the first data or the end of the poller. *)
SnapshotWait ==
  /\ snap_pc = "wait" /\ (triggered \/ ~m_running)
  /\ snap_pc' = IF m_running THEN "query" ELSE "done"
  /\ UNCHANGED <<os_modules, m_modules, cmdVars, pollVars, snap_list, modules_bin, unloads, excused>>

(* Its loop: refresh, look for the target in a snapshot of the list, and   *)
(* go on until it is there or the poller has stopped.                      *)
SnapshotQuery(got) ==
  /\ snap_pc = "query"
  /\ IF ~m_running THEN snap_pc' = "done" /\ UNCHANGED snap_list
     ELSE IF got THEN snap_pc' = "swap" /\ snap_list' = os_modules
     ELSE snap_pc' = "check" /\ UNCHANGED snap_list
  /\ UNCHANGED <<os_modules, m_modules, cmdVars, pollVars, modules_bin, unloads, excused>>

SnapshotSwap ==
  /\ snap_pc = "swap"
  /\ m_modules' = snap_list /\ snap_pc' = "check"
  /\ excused' = [excused EXCEPT !["command"] = @ \/ (cmd_pc = "export" /\ Target \notin snap_list)]
  /\ UNCHANGED <<os_modules, cmdVars, pollVars, snap_list, modules_bin, unloads>>

SnapshotCheck_any ==
  /\ snap_pc = "check"
  /\ snap_pc' = "export" /\ excused' = [excused EXCEPT !["snapshot"] = FALSE]
  /\ UNCHANGED <<os_modules, m_modules, cmdVars, pollVars, snap_list, modules_bin, unloads>>

SnapshotCheck ==
  /\ snap_pc = "check"
  /\ snap_pc' = IF Target \in m_modules THEN "export" ELSE "query"
  /\ excused' = [excused EXCEPT !["snapshot"] = FALSE]
  /\ UNCHANGED <<os_modules, m_modules, cmdVars, pollVars, snap_list, modules_bin, unloads>>

SnapshotExport ==
  /\ snap_pc = "export"
  /\ snap_list' = m_modules /\ snap_pc' = "write"
  /\ UNCHANGED <<os_modules, m_modules, cmdVars, pollVars, modules_bin, unloads, excused>>

SnapshotWrite(opens) ==
  /\ snap_pc = "write"
  /\ modules_bin' = IF opens THEN [list |-> snap_list, by |-> "snapshot", excused |-> excused["snapshot"]]
                    ELSE modules_bin
  /\ snap_pc' = "done"
  /\ UNCHANGED <<os_modules, m_modules, cmdVars, pollVars, snap_list, unloads, excused>>

(* The driver is loaded and unloaded; external. *)
DriverLoads ==
  /\ Target \notin os_modules
  /\ os_modules' = os_modules \cup {Target}
  /\ UNCHANGED <<m_modules, cmdVars, pollVars, snapVars, unloads, excused>>

DriverUnloads ==
  /\ Target \in os_modules /\ unloads < MaxUnloads
  /\ os_modules' = os_modules \ {Target}
  /\ unloads' = unloads + 1
  /\ UNCHANGED <<m_modules, cmdVars, pollVars, snapVars, excused>>

ModuleNext ==
  \/ OnloadArm \/ start \/ OnloadThread \/ set_on_first_data \/ worker \/ stop_trace_poller
  \/ CommandSwap \/ CommandExport \/ SnapshotWait \/ SnapshotSwap \/ SnapshotCheck \/ SnapshotExport
  \/ \E got \in BOOLEAN : CommandQuery(got) \/ SnapshotQuery(got)
  \/ \E opens \in BOOLEAN : CommandWrite(opens) \/ SnapshotWrite(opens)
  \/ DriverLoads \/ DriverUnloads

-----------------------------------------------------------------------------
(* modules.bin includes the target driver, whichever thread wrote it and   *)
(* whatever the driver, the poller and the commands do meanwhile, but for  *)
(* one race and its mirror image: after the snapshot thread has seen the   *)
(* target, and before export_modules takes a snapshot of the list, the     *)
(* refresh of a command swaps in a list it queried before the driver was   *)
(* loaded; or the snapshot thread does this to at enable or lm export.  A  *)
(* command whose query failed or found no driver promises nothing.         *)
SnapshotHasTarget ==
  modules_bin.by # "nobody" /\ ~modules_bin.excused => Target \in modules_bin.list

(* README.md:360, "so that the target is guaranteed to be present in the   *)
(* snapshot", and the log line of commands.cpp:985, "(includes target      *)
(* driver)": what the snapshot thread wrote includes the target.           *)
TargetGuaranteed == modules_bin.by = "snapshot" => Target \in modules_bin.list
=============================================================================
