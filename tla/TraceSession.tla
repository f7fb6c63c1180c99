---------------------------- MODULE TraceSession ----------------------------
(***************************************************************************)
(* A tracing session on one core: the ring of TraceRing, the poller's      *)
(* worker thread that drains it into trace_core_<N>.bin                    *)
(* (revhv-um/trace_poller.hpp) and the operator's commands that start and  *)
(* stop both (handle_at and handle_at_onload in revhv-um/commands.cpp, the *)
(* end of revhv-um/main.cpp).  The worker is pinned to the ring's core.    *)
(***************************************************************************)
EXTENDS TraceRing

VARIABLES
  running,  \* poller::m_running
  wpc,      \* the worker thread: in its loop, in its final drain, done with it,
            \* or off (never started, or unable to open its file)
  file,     \* the records in the worker's file
  opc,      \* what the command in progress does next
  armed,    \* an onload target is set
  loading,  \* the load hook has met the target and not yet called this core
  owed      \* history: the records in the ring or in a flush when stop() was called

ringVars == vars
session == <<running, wpc, file, opc, armed, loading, owed>>
sessionVars == <<ringVars, session>>

-----------------------------------------------------------------------------
(* poller::worker.                                                         *)

(* One turn of the loop that finds m_running set, or of the final drain. *)
WorkerCall ==
  /\ wpc = "final" \/ (wpc = "loop" /\ running)
  /\ FlushCall(MaxFlush)
  /\ UNCHANGED session

WorkerStopsAtOnce ==
  /\ wpc = "loop" /\ fpc = "idle" /\ ~running
  /\ wpc' = "done"
  /\ UNCHANGED <<ringVars, running, file, opc, armed, loading, owed>>

WorkerStops ==
  /\ wpc = "loop" /\ fpc = "idle" /\ ~running
  /\ wpc' = "final"
  /\ UNCHANGED <<ringVars, running, file, opc, armed, loading, owed>>

WorkerReturnSkips ==
  /\ FlushReturn
  /\ file' = file \o out
  /\ wpc' = IF wpc = "final" THEN "done" ELSE wpc
  /\ UNCHANGED <<running, opc, armed, loading, owed>>

WorkerReturnWholeBuffer ==
  /\ FlushReturn
  /\ file' = IF out = <<>> /\ file # <<>> THEN Append(file, file[Len(file)]) ELSE file \o out
  /\ wpc' = IF wpc = "final" /\ out = <<>> THEN "done" ELSE wpc
  /\ UNCHANGED <<running, opc, armed, loading, owed>>

WorkerReturn ==
  /\ FlushReturn
  /\ file' = file \o out
  /\ wpc' = IF wpc = "final" /\ out = <<>> THEN "done" ELSE wpc
  /\ UNCHANGED <<running, opc, armed, loading, owed>>

InHypercall == FlushLoop \/ DrainTest \/ DrainCopy \/ DrainPublish \/ GuestWrite

Worker == WorkerCall \/ WorkerStops \/ (InHypercall /\ UNCHANGED session) \/ WorkerReturn

-----------------------------------------------------------------------------
(* poller::start and poller::stop.                                         *)

(* start() does nothing if the poller runs; the new worker truncates its    *)
(* file, and ends at once if it cannot open it.                             *)
PollerStart ==
  /\ opc = "start"
  /\ opc' = "ready"
  /\ running' = TRUE
  /\ \/ running /\ UNCHANGED <<wpc, file, owed>>
     \/ ~running /\ wpc' = "loop" /\ file' = <<>> /\ owed' = {}
     \/ ~running /\ wpc' = "off" /\ UNCHANGED <<file, owed>>
  /\ UNCHANGED <<ringVars, armed, loading>>

Joined == wpc \in {"off", "done"}

(* The part of stop() before the join; the command goes on at next. *)
PollerStopUnsignalled(next) ==
  /\ opc = "ready"
  /\ opc' = next
  /\ owed' = {}
  /\ UNCHANGED <<ringVars, running, wpc, file, armed, loading>>

PollerStop(next) ==
  /\ opc = "ready"
  /\ opc' = next
  /\ running' = FALSE
  /\ owed' = IF Joined THEN {}
             ELSE Set(Contents \o out) \cup IF fpc = "write" THEN Set(batch) ELSE {}
  /\ UNCHANGED <<ringVars, wpc, file, armed, loading>>

-----------------------------------------------------------------------------
(* The operator's commands: each is followed to its end before the next.    *)

(* at enable: the hypercall, then poller::start unless the hypercall failed *)
(* on another core.                                                         *)
AtEnable ==
  /\ opc = "ready" /\ fpc = "idle"
  /\ handle_enable_auto_trace
  /\ opc' \in {"start", "ready"}
  /\ UNCHANGED <<running, wpc, file, armed, loading, owed>>

(* at disable: stop_trace_poller, then the hypercall. *)
AtDisable == PollerStop("disable")
Disable ==
  /\ opc = "disable" /\ Joined
  /\ handle_disable_auto_trace
  /\ opc' = "ready"
  /\ UNCHANGED <<running, wpc, file, armed, loading, owed>>

(* at onload: stop a running poller, set the target (the hypercall may      *)
(* refuse it), start the poller.                                            *)
AtOnload == PollerStop("arm")
ArmUnjoined ==
  /\ opc = "arm"
  /\ \/ armed' = TRUE /\ opc' = "start"
     \/ armed' = armed /\ opc' = "ready"
  /\ UNCHANGED <<ringVars, running, wpc, file, loading, owed>>
Arm ==
  /\ opc = "arm" /\ Joined
  /\ \/ armed' = TRUE /\ opc' = "start"
     \/ armed' = armed /\ opc' = "ready"
  /\ UNCHANGED <<ringVars, running, wpc, file, loading, owed>>

(* at onload clear; leaving the program stops the poller too. *)
AtOnloadClear == PollerStop("clear")
Clear ==
  /\ opc = "clear" /\ Joined
  /\ armed' \in {FALSE, armed}
  /\ opc' = "ready"
  /\ UNCHANGED <<ringVars, running, wpc, file, loading, owed>>

(* The driver loads, one at a time: the load hook consumes the target, then  *)
(* makes the enable hypercall on each core.  It skips them if the image's   *)
(* size is unknown, and the call may fail.                                  *)
DriverLoads ==
  /\ armed /\ ~loading
  /\ armed' = FALSE /\ loading' = TRUE
  /\ UNCHANGED <<ringVars, running, wpc, file, opc, owed>>

OnloadEnable ==
  /\ loading /\ fpc = "idle"
  /\ handle_enable_auto_trace \/ UNCHANGED ringVars
  /\ loading' = FALSE
  /\ UNCHANGED <<running, wpc, file, opc, armed, owed>>

Operator ==
  \/ AtEnable \/ PollerStart
  \/ AtDisable \/ Disable
  \/ AtOnload \/ Arm \/ AtOnloadClear \/ Clear

-----------------------------------------------------------------------------
SInit ==
  /\ Init
  /\ running = FALSE /\ wpc = "off" /\ file = <<>> /\ opc = "ready"
  /\ armed = FALSE /\ loading = FALSE /\ owed = {}

SNext == (Emit /\ UNCHANGED session) \/ Worker \/ Operator
         \/ DriverLoads \/ OnloadEnable

(* Threads are scheduled, VM-exits end and a command that started goes on;  *)
(* the operator may stay idle, and drivers need not load.                   *)
SSpec ==
  /\ SInit /\ [][SNext]_sessionVars
  /\ WF_sessionVars((EmitStore \/ EmitStamp \/ EmitPublish) /\ UNCHANGED session)
  /\ WF_sessionVars(Worker)
  /\ WF_sessionVars(PollerStart \/ Disable \/ Arm \/ Clear)

-----------------------------------------------------------------------------
(* Properties.                                                             *)

(* The ring has one consumer: a worker is started only when none is alive,  *)
(* and only a live worker is inside a flush.                                *)
OneConsumer ==
  /\ opc = "start" /\ ~running => Joined
  /\ Joined => fpc = "idle"

(* The worker's file holds whole records in emission order, each once: the  *)
(* offline parser merges the files of the cores by time stamp.              *)
FileSorted == Increasing(file \o out) /\ \A r \in Set(file) : r \in 1 .. tsc

(* When the worker ends after stop(), every record that the ring or a flush *)
(* held at the time of stop() is in the file, unless an enable reset the    *)
(* ring or a write to the worker's buffer failed ("Final drain: pick up any *)
(* remaining entries after stop() was requested").                          *)
FinalDrainComplete ==
  [][(wpc = "final" /\ wpc' = "done" /\ lost = {}) => owed \subseteq Set(file') \cup discarded]_sessionVars

(* A record emitted before stop() is called leaves the ring, in the loop or *)
(* in the final drain; a failed write may end the final drain early.        *)
RecordsLeave ==
  \A r \in 1 .. MaxTsc :
    (r \in Set(Contents) /\ running /\ wpc = "loop") ~> (r \notin Set(Contents) \/ lost # {})

(* stop() returns once the guest's target code rests. *)
StopReturns == opc \in {"disable", "arm", "clear"} ~> opc = "ready"

(* README, "at disable": "Stop polling, flush remaining entries, and        *)
(* restore normal EPT state."  After the command nothing is left behind.    *)
DisableFlushesAll ==
  [][(opc = "disable" /\ opc' = "ready" /\ wpc = "done" /\ lost = {}) => Set(Contents) = {}]_sessionVars
=============================================================================
