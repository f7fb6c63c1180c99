---------------------------- MODULE MCSubsystems ----------------------------
(***************************************************************************)
(* The subsystems that share no state, in one run: a behaviour is about    *)
(* one of them, `subject`, and the others stay where they start.           *)
(***************************************************************************)
EXTENDS LogRing, TscHiding, HostTables, MemoryTypes, GuestMemory,
        TransitionCfg, TraceMerge, ModuleSnapshot, Launch, TLC

VARIABLE subject

(* LogRing and TscHiding have numeric bounds only: see the cfg.            *)

(* HostTables: entries of every kind at every level (-1 not present, -2 a   *)
(* table), ranges that cross them.                                          *)
MCSystemPtr == (0 :> -2) @@ (1 :> 100) @@ (2 :> -2) @@ (3 :> -1) @@ (4 :> -2)
MCSystemDir == (0 :> -2) @@ (1 :> 50) @@ (2 :> -1) @@ (3 :> -1) @@ (4 :> -2) @@ (5 :> -2)
                @@ (6 :> -1) @@ (7 :> -1) @@ (8 :> 60) @@ (9 :> -2)
MCSystemPte == [p \in 0 .. 19 |-> IF p \in {0, 1, 8, 10, 11, 18} THEN 30 - p ELSE -1]
MCMapRange == {<<0, 3>>, <<1, 5>>, <<5, 6>>, <<6, 16>>, <<8, 11>>, <<10, 10>>, <<16, 18>>,
               <<17, 17>>, <<11, 12>>}

(* MemoryTypes: ranges that overlap, nest and miss each other.             *)
MCPhysBase == {[base |-> 0, type |-> "WB"], [base |-> 2, type |-> "WT"]}
MCPhysMask == {[valid |-> TRUE, size |-> 4], [valid |-> TRUE, size |-> 2]}

(* GuestMemory: pages of two sizes in three address spaces, none of them    *)
(* physically contiguous, one at physical 0, two that fault.                *)
P(space, first, size, frame) == [space |-> space, first |-> first, size |-> size, frame |-> frame]
MCGuestPage ==
  {P("system", 1, 2, 14), P("system", 3, 4, 4), P("system", 7, 2, 2),
   P("process", 3, 2, 20), P("process", 5, 2, 0),
   P("caller", 2, 2, 12), P("caller", 4, 4, 8), P("caller", 8, 2, 18)}
MCCopyRequest ==
  {[va |-> va, buffer |-> buffer, size |-> size] : va \in {0, 2, 4}, buffer \in {0, 3}, size \in {0, 1, 5}}

(* TransitionCfg: 8 and 24 hash to the same slot and fill the table; 0 is   *)
(* also the mark of a free slot; RAX holds an address.                     *)
MCRegValue == ("retaddr" :> 99) @@ ("rax" :> 24)
MCCfgMap == {<<"rip", "retaddr">>, <<"rip", "rax">>, <<"rax", "rip">>}
MCDefaultGeneric == <<"rip", "retaddr">>

(* TraceMerge: ties, files cut off inside a record, empty and bad files.   *)
Rec(timestamp, addr) == [timestamp |-> timestamp, addr |-> addr]
TFile(header, records, tail) ==
  [header |-> header, records |-> records, payload |-> 2 * Len(records) + tail]
MCTraceDir ==
  {<<TFile("ok", <<Rec(1, 12), Rec(3, 21)>>, 1), TFile("ok", <<Rec(1, 21), Rec(2, 12), Rec(4, 5)>>, 0),
     TFile("bad", <<Rec(1, 12)>>, 0)>>,
   <<TFile("ok", <<>>, 1), TFile("short", <<>>, 0)>>,
   <<TFile("ok", <<Rec(2, 10), Rec(2, 21)>>, 0), TFile("ok", <<>>, 0),
     TFile("ok", <<Rec(1, 21), Rec(3, 12)>>, 1)>>}
MCModuleList == <<[name |-> "a", base |-> 10, size |-> 10], [name |-> "b", base |-> 20, size |-> 5]>>
MCSymbolRva == ("a" :> {4, 5}) @@ ("b" :> {0, 3})

(* Launch: every control, no preemption timer, no optional control.        *)
MCControlCaps ==
  LET all == [g \in ControlGroup |->
                [allowed0 |-> {"reserved"}, allowed1 |-> Desired(g) \cup {"reserved", "other"}]]
  IN  {all, [all EXCEPT !["pin"].allowed1 = @ \ {"activate_vmx_preemption_timer"}],
       [all EXCEPT !["proc2"].allowed1 = @ \ {"conceal_vmx_from_pt"}]}

-----------------------------------------------------------------------------
Subjects == {"log", "tsc", "tables", "mtrr", "memory", "config", "merge", "modules", "launch"}

Init ==
  /\ subject \in Subjects
  /\ LogInit /\ TscInit /\ TablesInit /\ MtrrInit /\ CfgInit /\ ModuleInit
  /\ MemoryInit /\ (subject # "memory" => present = GuestPage)
  /\ MergeInit /\ (subject # "merge" => trace_dir = (CHOOSE d \in TraceDir : TRUE) /\ on_disk = {})
  /\ LaunchInit /\ (subject # "launch" => caps = CHOOSE k \in ControlCaps : TRUE)

LogRuns ==
  /\ subject = "log" /\ LogNext
  /\ UNCHANGED <<subject, tscVars, tableVars, mtrrVars, memVars, cfgVars, mergeVars, moduleVars,
                 launchVars>>
TscRuns ==
  /\ subject = "tsc" /\ TscNext
  /\ UNCHANGED <<subject, logVars, tableVars, mtrrVars, memVars, cfgVars, mergeVars, moduleVars,
                 launchVars>>
TablesRun ==
  /\ subject = "tables" /\ TablesNext
  /\ UNCHANGED <<subject, logVars, tscVars, mtrrVars, memVars, cfgVars, mergeVars, moduleVars,
                 launchVars>>
MtrrsRun ==
  /\ subject = "mtrr" /\ MtrrNext
  /\ UNCHANGED <<subject, logVars, tscVars, tableVars, memVars, cfgVars, mergeVars, moduleVars,
                 launchVars>>
MemoryRuns ==
  /\ subject = "memory" /\ MemoryNext
  /\ UNCHANGED <<subject, logVars, tscVars, tableVars, mtrrVars, cfgVars, mergeVars, moduleVars,
                 launchVars>>
ConfigRuns ==
  /\ subject = "config" /\ CfgNext
  /\ UNCHANGED <<subject, logVars, tscVars, tableVars, mtrrVars, memVars, mergeVars, moduleVars,
                 launchVars>>
MergeRuns ==
  /\ subject = "merge" /\ MergeNext
  /\ UNCHANGED <<subject, logVars, tscVars, tableVars, mtrrVars, memVars, cfgVars, moduleVars,
                 launchVars>>
ModulesRun ==
  /\ subject = "modules" /\ ModuleNext
  /\ UNCHANGED <<subject, logVars, tscVars, tableVars, mtrrVars, memVars, cfgVars, mergeVars,
                 launchVars>>
LaunchRuns ==
  /\ subject = "launch" /\ LaunchNext
  /\ UNCHANGED <<subject, logVars, tscVars, tableVars, mtrrVars, memVars, cfgVars, mergeVars,
                 moduleVars>>

Next ==
  \/ LogRuns \/ TscRuns \/ TablesRun \/ MtrrsRun
  \/ MemoryRuns \/ ConfigRuns \/ MergeRuns \/ ModulesRun \/ LaunchRuns

Spec == Init /\ [][Next]_<<subject, logVars, tscVars, tableVars, mtrrVars, memVars, cfgVars, mergeVars,
                           moduleVars, launchVars>>
=============================================================================
