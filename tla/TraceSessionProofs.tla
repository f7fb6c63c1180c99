-------------------------- MODULE TraceSessionProofs ------------------------
(***************************************************************************)
(* The tracing session, for every ring size and flush limit: the ring's    *)
(* invariant carries over to the session, whose worker is its consumer.    *)
(***************************************************************************)
EXTENDS TraceSession, TraceRingProofs

(* Whose turn it is: stop() is followed to its join before anything else is *)
(* done, so a worker that has been told to end is never asked to end twice. *)
WorkerInv ==
  /\ opc \in {"ready", "start", "disable", "arm", "clear"}
  /\ wpc \in {"off", "loop", "final", "done"}
  /\ running \in BOOLEAN
  /\ opc \in {"ready", "start"} /\ ~running => Joined
  /\ wpc = "final" => ~running
  /\ Joined => fpc = "idle"
  /\ fpc # "idle" => limit = MaxFlush

(* The file is the end of what the flushes returned. *)
FileInv ==
  file \in Seq(Record) /\ Increasing(file) /\ Set(file) \subseteq Set(received)

(* Where the records are that stop() must save.  A final drain that comes   *)
(* back empty-handed has seen the ring empty after stop().                  *)
OwedInv ==
  /\ owed \subseteq 1 .. Published
  /\ owed \subseteq Set(Contents) \cup Set(InHand) \cup Set(out) \cup Set(file) \cup lost \cup discarded
  /\ Draining => Len(out) < limit
  /\ fpc = "write" => batch # <<>>
  /\ wpc = "final" =>
       /\ fpc = "publish" /\ batch = <<>> => owed \cap Set(Contents) = {}
       /\ fpc = "return" /\ out = <<>> /\ lost = {} => owed \cap Set(Contents) = {}

SessionInv == RingInv /\ WorkerInv /\ FileInv /\ OwedInv

-----------------------------------------------------------------------------
(* The session uses the ring only through the ring's own steps: the worker  *)
(* is its consumer, and no enable falls inside a flush.                     *)
LEMMA SessionStepsAreRingSteps == [SNext]_sessionVars => [Next]_vars
<1> SUFFICES ASSUME [SNext]_sessionVars PROVE [Next]_vars
  OBVIOUS
<1> USE FlushAssumption
<1>1. CASE Emit
  BY <1>1 DEF Next, Background
<1>2. CASE WorkerCall
  <2>1. MaxFlush \in 0 .. (MaxFlush + 1)
    OBVIOUS
  <2>2. QED
    BY <1>2, <2>1 DEF WorkerCall, Next, Background
<1>3. CASE InHypercall \/ WorkerReturn
  BY <1>3 DEF InHypercall, WorkerReturn, Next, Background, Flush
<1>4. CASE AtEnable \/ OnloadEnable
  BY <1>4 DEF AtEnable, OnloadEnable, Next, ringVars
<1>5. CASE Disable
  BY <1>5 DEF Disable, Next, Background
<1>6. CASE WorkerStops \/ PollerStart \/ AtDisable \/ AtOnload \/ Arm \/ AtOnloadClear \/ Clear
             \/ DriverLoads
  BY <1>6 DEF WorkerStops, PollerStart, AtDisable, AtOnload, Arm, AtOnloadClear, Clear, DriverLoads,
              PollerStop, ringVars
<1>7. CASE UNCHANGED sessionVars
  BY <1>7 DEF sessionVars, ringVars
<1>8. QED
  BY <1>1, <1>2, <1>3, <1>4, <1>5, <1>6, <1>7 DEF SNext, Worker, Operator

(* Every step of the ring inside a session, by what it does to the session. *)
LEMMA SessionSteps ==
  ASSUME [SNext]_sessionVars
  PROVE  \/ (Emit \/ InHypercall) /\ UNCHANGED session
         \/ WorkerCall \/ WorkerStops \/ WorkerReturn
         \/ PollerStart
         \/ \E next \in {"disable", "arm", "clear"} : PollerStop(next)
         \/ AtEnable \/ OnloadEnable \/ Disable
         \/ Arm \/ Clear \/ DriverLoads
         \/ UNCHANGED sessionVars
BY DEF SNext, Worker, Operator, AtDisable, AtOnload, AtOnloadClear

(* One worker at a time, and only a live one is inside a flush. *)
LEMMA WorkerInductive == WorkerInv /\ [SNext]_sessionVars => WorkerInv'
<1> SUFFICES ASSUME WorkerInv, [SNext]_sessionVars PROVE WorkerInv'
  OBVIOUS
<1> USE FlushAssumption
<1>1. CASE Emit /\ UNCHANGED session
  BY <1>1 DEF Emit, EmitBegin, EmitStore, EmitStamp, EmitPublish, flush, session, WorkerInv, Joined
<1>2. CASE InHypercall /\ UNCHANGED session
  <2>1. fpc # "idle" /\ fpc' # "idle" /\ limit' = limit
    BY <1>2 DEF InHypercall, FlushLoop, DrainTest, DrainCopy, DrainPublish, GuestWrite
  <2>2. QED
    BY <1>2, <2>1 DEF session, WorkerInv, Joined
<1>3. CASE WorkerCall
  <2>1. fpc' = "loop" /\ limit' = MaxFlush /\ UNCHANGED session /\ wpc \in {"final", "loop"}
    BY <1>3 DEF WorkerCall, FlushCall
  <2>2. QED
    BY <2>1 DEF session, WorkerInv, Joined
<1>4. CASE WorkerStops
  BY <1>4 DEF WorkerStops, WorkerInv, Joined, ringVars, vars
<1>5. CASE WorkerReturn
  <2>1. fpc' = "idle" /\ UNCHANGED <<running, opc>>
        /\ wpc' = IF wpc = "final" /\ out = <<>> THEN "done" ELSE wpc
    BY <1>5 DEF WorkerReturn, FlushReturn
  <2>2. QED
    BY <2>1 DEF WorkerInv, Joined
<1>6. CASE PollerStart
  <2>1. opc = "start" /\ opc' = "ready" /\ running' = TRUE /\ UNCHANGED <<fpc, limit>>
    BY <1>6 DEF PollerStart, ringVars, vars
  <2>2. CASE running /\ wpc' = wpc
    BY <2>1, <2>2 DEF WorkerInv, Joined
  <2>3. CASE ~running /\ wpc' \in {"loop", "off"}
    BY <2>1, <2>3 DEF WorkerInv, Joined
  <2>4. QED
    BY <1>6, <2>2, <2>3 DEF PollerStart
<1>7. CASE \E next \in {"disable", "arm", "clear"} : PollerStop(next)
  BY <1>7 DEF PollerStop, WorkerInv, Joined, ringVars, vars
<1>8. CASE AtEnable
  BY <1>8 DEF AtEnable, handle_enable_auto_trace, flush, WorkerInv, Joined
<1>9. CASE OnloadEnable
  BY <1>9 DEF OnloadEnable, handle_enable_auto_trace, flush, WorkerInv, Joined, ringVars, vars
<1>10. CASE Disable
  BY <1>10 DEF Disable, handle_disable_auto_trace, flush, WorkerInv, Joined
<1>11. CASE Arm
  BY <1>11 DEF Arm, WorkerInv, Joined, ringVars, vars
<1>12. CASE Clear \/ DriverLoads
  <2>1. UNCHANGED <<running, wpc, fpc, limit>> /\ opc' \in {opc, "ready"}
    BY <1>12 DEF Clear, DriverLoads, ringVars, vars
  <2>2. opc' = opc \/ Joined
    BY <1>12 DEF Clear, DriverLoads
  <2>3. QED
    BY <2>1, <2>2 DEF WorkerInv, Joined
<1>13. CASE UNCHANGED sessionVars
  BY <1>13 DEF sessionVars, session, ringVars, vars, WorkerInv, Joined
<1>14. QED
  BY <1>1, <1>2, <1>3, <1>4, <1>5, <1>6, <1>7, <1>8, <1>9, <1>10, <1>11, <1>12, <1>13, SessionSteps

(* Only a flush that returns adds to the file, and only records it has just *)
(* handed over; a new worker starts an empty file.                          *)
LEMMA FileInductive == RingInv /\ FileInv /\ [SNext]_sessionVars => FileInv'
<1> SUFFICES ASSUME RingInv, FileInv, [SNext]_sessionVars PROVE FileInv'
  OBVIOUS
<1>1. CASE WorkerReturn
  <2>1. file' = file \o out /\ received' = received \o out
    BY <1>1 DEF WorkerReturn, FlushReturn
  <2>2. file \in Seq(Record) /\ out \in Seq(Record) /\ received \in Seq(Record)
    BY DEF RingInv, TypeOK, FileInv, Record
  <2>3. file' \in Seq(Record)
    BY <2>1, <2>2, ConcatProperties
  <2>4. Set(file') = Set(file) \cup Set(out) /\ Set(received') = Set(received) \cup Set(out)
    BY <2>1, <2>2, ConcatMembers
  <2>5. Increasing(file) /\ Increasing(out) /\ Below(Set(file), Set(out))
    BY DEF FileInv, RingInv, OrderInv, Below
  <2>6. Increasing(file')
    BY <2>1, <2>2, <2>5, ConcatIncreasing
  <2>7. QED
    BY <2>3, <2>4, <2>6 DEF FileInv
<1>2. CASE PollerStart
  <2>1. received' = received
    BY <1>2 DEF PollerStart, ringVars, vars
  <2>2. CASE file' = file
    BY <2>1, <2>2 DEF FileInv
  <2>3. CASE file' = <<>>
    <3>1. <<>> \in Seq(Record)
      BY EmptySeq
    <3>2. QED
      BY <2>3, <3>1, EmptyIsIncreasing DEF FileInv
  <2>4. QED
    BY <1>2, <2>2, <2>3 DEF PollerStart
<1>3. CASE UNCHANGED <<file, received>>
  BY <1>3 DEF FileInv
<1>4. (Emit \/ InHypercall) /\ UNCHANGED session => UNCHANGED <<file, received>>
  BY DEF Emit, EmitBegin, EmitStore, EmitStamp, EmitPublish, InHypercall, FlushLoop, DrainTest,
         DrainCopy, DrainPublish, GuestWrite, session, flush
<1>5. WorkerCall \/ WorkerStops => UNCHANGED <<file, received>>
  BY DEF WorkerCall, FlushCall, WorkerStops, session, ringVars, vars
<1>6. (\E next \in {"disable", "arm", "clear"} : PollerStop(next)) => UNCHANGED <<file, received>>
  BY DEF PollerStop, ringVars, vars
<1>7. AtEnable \/ OnloadEnable \/ Disable => UNCHANGED <<file, received>>
  BY DEF AtEnable, OnloadEnable, Disable, handle_enable_auto_trace, handle_disable_auto_trace, flush,
         ringVars, vars
<1>8. Arm \/ Clear \/ DriverLoads \/ UNCHANGED sessionVars => UNCHANGED <<file, received>>
  BY DEF Arm, Clear, DriverLoads, sessionVars, session, ringVars, vars
<1>9. QED
  BY <1>1, <1>2, <1>3, <1>4, <1>5, <1>6, <1>7, <1>8, SessionSteps

(* The records owed at stop() are followed from the ring to the file.  The  *)
(* emptiness that ends the final drain is seen after stop(), and a record   *)
(* published later was not owed.                                            *)
LEMMA OwedInductive == SessionInv /\ [SNext]_sessionVars => OwedInv'
<1> SUFFICES ASSUME SessionInv, [SNext]_sessionVars PROVE OwedInv'
  OBVIOUS
<1> USE RingAssumption, FlushAssumption
<1>1. /\ TypeOK /\ CursorInv /\ OrderInv /\ AccountInv /\ WorkerInv /\ FileInv /\ OwedInv
      /\ ContentsOK /\ TypeOK'
  BY SessionStepsAreRingSteps, TypeInductive, WindowType DEF SessionInv, RingInv
<1>2. /\ received \in Seq(Record) /\ out \in Seq(Record) /\ batch \in Seq(Record)
      /\ file \in Seq(Record) /\ Contents \in Seq(Record) /\ Len(Contents) = Size /\ tsc \in Nat
      /\ Len(out) \in Nat /\ Len(batch) \in Nat /\ limit \in Nat
  BY <1>1, LenProperties DEF TypeOK, ContentsOK, FileInv, Record
<1>3. UNCHANGED <<write_head, read_tail, entries>> => Contents' = Contents
  BY WindowFrame
<1>4. Set(<<>>) = {}
  BY EmptyIsIncreasing
<1>5. ASSUME UNCHANGED <<Contents, InHand, Published, fpc, limit, batch, out, file, lost, discarded, owed>>,
             wpc' = "final" => wpc = "final" \/ fpc = "idle"
      PROVE  OwedInv'
  BY <1>1, <1>5 DEF OwedInv, Draining
<1>6. CASE (EmitBegin \/ EmitStore \/ EmitStamp) /\ UNCHANGED session
  <2>1. Contents' = Contents
    BY <1>1, <1>3, <1>6, EmitKeepsWindow DEF EmitBegin
  <2>2. Published' = Published
    BY <1>2, <1>6 DEF EmitBegin, EmitStore, EmitStamp, Published
  <2>3. UNCHANGED <<InHand, fpc, limit, batch, out, file, lost, discarded, owed, wpc>>
    BY <1>6 DEF EmitBegin, EmitStore, EmitStamp, flush, history, session, InHand
  <2>4. QED
    BY <1>5, <2>1, <2>2, <2>3
<1>7. CASE EmitPublish /\ UNCHANGED session
  <2>1. Contents' = Append(Contents, tsc)
    BY <1>1, <1>7, PublishAppends
  <2>2. Published = tsc - 1 /\ Published' = tsc /\ tsc > 0
    BY <1>1, <1>7 DEF EmitPublish, Published, CursorInv
  <2>3. Below(Set(Contents), {tsc}) /\ Increasing(Contents) /\ tsc \in Record
    BY <1>1, <1>2, <2>2 DEF AccountInv, OrderInv, Below, Record
  <2>4. Set(Contents') = Set(Contents) \cup {tsc}
    BY <1>2, <2>1, <2>3, AppendRecord
  <2>5. owed \subseteq 1 .. tsc /\ tsc \notin owed
    BY <1>1, <1>2, <2>2 DEF OwedInv
  <2>6. UNCHANGED <<InHand, fpc, limit, batch, out, file, lost, discarded, owed, wpc>>
    BY <1>7 DEF EmitPublish, flush, history, session, InHand
  <2>7. owed' \subseteq Set(Contents') \cup Set(InHand') \cup Set(out') \cup Set(file')
                         \cup lost' \cup discarded'
    BY <1>1, <2>4, <2>6 DEF OwedInv
  <2>8. owed \cap Set(Contents) = {} => owed' \cap Set(Contents') = {}
    BY <2>4, <2>5, <2>6
  <2>9. owed' \subseteq 1 .. Published'
    BY <2>2, <2>5, <2>6
  <2>10. QED
    BY <1>1, <2>6, <2>7, <2>8, <2>9 DEF OwedInv, Draining
<1>8. CASE (FlushLoop \/ DrainTest \/ DrainCopy) /\ UNCHANGED session
  <2>1. /\ UNCHANGED <<write_head, read_tail, entries, out, limit, lost, discarded, tsc, epc>>
        /\ UNCHANGED <<file, owed, wpc>>
        /\ fpc # "write" /\ fpc' # "write"
    BY <1>8 DEF FlushLoop, DrainTest, DrainCopy, history, session
  <2>2. UNCHANGED <<Contents, InHand, Published>>
    BY <1>3, <2>1 DEF InHand, Published
  <2>3. Draining' => Len(out') < limit'
    BY <1>1, <1>8, <2>1 DEF OwedInv, Draining, FlushLoop, DrainTest, DrainCopy
  <2>4. fpc' = "publish" /\ batch' = <<>> => Contents = <<>>
    <3> SUFFICES ASSUME fpc' = "publish", batch' = <<>> PROVE Contents = <<>>
      OBVIOUS
    <3>1. DrainTest /\ batch = <<>>
      BY <1>8 DEF FlushLoop, DrainTest, DrainCopy
    <3>2. Len(batch) = 0 /\ Len(out) < limit /\ tail = Wrap(read_tail + 0)
      BY <1>1, <3>1 DEF DrainTest, OwedInv, CursorInv, Draining
    <3>3. ToDrain > 0
      BY <1>2, <3>2 DEF ToDrain
    <3>4. tail = write_head
      BY <3>1, <3>2, <3>3 DEF DrainTest
    <3>5. Size = 0
      BY <1>1, <3>2, <3>4 DEF Size, Wrap, TypeOK, Index
    <3>6. QED
      BY <1>2, <3>5, EmptySeq
  <2>5. fpc' = "return" => out' # <<>>
    <3> SUFFICES ASSUME fpc' = "return" PROVE Len(out) > 0
      BY <1>2, <2>1
    <3>1. FlushLoop /\ ~(Len(out) < limit)
      BY <1>8 DEF FlushLoop, DrainTest, DrainCopy
    <3>2. limit = MaxFlush
      BY <1>1, <3>1 DEF WorkerInv, FlushLoop
    <3>3. QED
      BY <1>2, <3>1, <3>2
  <2>6. QED
    BY <1>1, <1>4, <2>1, <2>2, <2>3, <2>4, <2>5 DEF OwedInv
<1>9. CASE DrainPublish /\ UNCHANGED session
  <2> DEFINE n == Len(batch)
             new == SubSeq(Contents, n + 1, Len(Contents))
  <2>1. n \in 0 .. Len(Contents) /\ batch = SubSeq(Contents, 1, n) /\ Contents' = new
    BY <1>1, <1>2, <1>9, DrainSplits
  <2>2. Increasing(Contents)
    BY <1>1 DEF OrderInv
  <2>3. Set(Contents) = Set(batch) \cup Set(new)
    BY <1>2, <2>1, <2>2, SplitIncreasing
  <2> HIDE DEF n, new
  <2>4. /\ InHand = <<>> /\ InHand' = batch /\ fpc = "publish"
        /\ fpc' = IF batch = <<>> THEN "return" ELSE "write"
        /\ UNCHANGED <<out, file, lost, discarded, owed, wpc, Published, batch>>
    BY <1>9 DEF DrainPublish, InHand, Published, session
  <2>5. wpc = "final" /\ batch = <<>> => owed \cap Set(Contents') = {}
    BY <1>1, <2>1, <2>3, <2>4 DEF OwedInv
  <2>6. owed' \subseteq Set(Contents') \cup Set(InHand') \cup Set(out') \cup Set(file')
                         \cup lost' \cup discarded'
    BY <1>1, <1>4, <2>1, <2>3, <2>4 DEF OwedInv
  <2>7. QED
    BY <1>1, <2>4, <2>5, <2>6 DEF OwedInv, Draining
<1>10. CASE GuestWrite /\ UNCHANGED session
  <2>1. /\ UNCHANGED <<Contents, discarded, Published, file, owed, wpc>>
        /\ InHand = batch /\ InHand' = <<>> /\ fpc = "write" /\ fpc' \in {"loop", "return"}
    BY <1>3, <1>10 DEF GuestWrite, Published, InHand, session
  <2>2. CASE out' = out \o batch /\ fpc' = "loop" /\ UNCHANGED lost
    <3>1. Set(out') = Set(out) \cup Set(batch)
      BY <1>2, <2>2, ConcatMembers
    <3>2. QED
      BY <1>1, <1>4, <2>1, <2>2, <3>1 DEF OwedInv, Draining
  <2>3. CASE lost' = lost \cup Set(batch) /\ fpc' = "return" /\ UNCHANGED out
    <3>1. batch # <<>>
      BY <1>1, <2>1 DEF OwedInv
    <3>2. Len(batch) > 0
      BY <1>2, <3>1, EmptySeq
    <3>3. batch[1] \in Set(batch)
      BY <1>2, <3>2, SetMembers
    <3>4. lost' # {}
      BY <2>3, <3>3
    <3>5. QED
      BY <1>1, <1>4, <2>1, <2>3, <3>4 DEF OwedInv, Draining
  <2>4. QED
    BY <1>10, <2>2, <2>3 DEF GuestWrite
<1>11. CASE WorkerCall
  <2>1. /\ UNCHANGED <<Contents, InHand, Published, batch, out, file, lost, discarded, owed, wpc>>
        /\ fpc' = "loop"
    BY <1>1, <1>3, <1>11 DEF WorkerCall, FlushCall, history, session, InHand, Published, AccountInv
  <2>2. QED
    BY <1>1, <2>1 DEF OwedInv, Draining
<1>12. CASE WorkerStops
  <2>1. /\ UNCHANGED <<Contents, InHand, Published, fpc, limit, batch, out, file, lost, discarded, owed>>
        /\ fpc = "idle"
    BY <1>3, <1>12 DEF WorkerStops, ringVars, vars, InHand, Published
  <2>2. QED
    BY <1>5, <2>1
<1>13. CASE WorkerReturn
  <2>1. /\ UNCHANGED <<Contents, Published, lost, discarded, owed>>
        /\ InHand = <<>> /\ InHand' = <<>> /\ out' = <<>> /\ fpc' = "idle" /\ file' = file \o out
    BY <1>3, <1>13 DEF WorkerReturn, FlushReturn, history, InHand, Published
  <2>2. Set(file') = Set(file) \cup Set(out)
    BY <1>2, <2>1, ConcatMembers
  <2>3. QED
    BY <1>1, <1>4, <2>1, <2>2 DEF OwedInv, Draining
<1>14. CASE PollerStart
  <2>1. UNCHANGED <<Contents, InHand, Published, fpc, limit, batch, out, lost, discarded>>
    BY <1>3, <1>14 DEF PollerStart, ringVars, vars, InHand, Published
  <2>2. CASE UNCHANGED <<file, owed>> /\ (wpc' = "final" => wpc = "final")
    BY <1>5, <2>1, <2>2
  <2>3. CASE owed' = {}
    BY <1>1, <2>1, <2>3 DEF OwedInv, Draining
  <2>4. QED
    BY <1>14, <2>2, <2>3 DEF PollerStart
<1>15. CASE \E next \in {"disable", "arm", "clear"} : PollerStop(next)
  <2>1. /\ UNCHANGED <<Contents, InHand, Published, fpc, limit, batch, out, file, lost, discarded, wpc>>
        /\ opc = "ready"
        /\ owed' = IF Joined THEN {}
                   ELSE Set(Contents \o out) \cup IF fpc = "write" THEN Set(batch) ELSE {}
    BY <1>3, <1>15 DEF PollerStop, ringVars, vars, InHand, Published
  <2>2. Set(Contents \o out) = Set(Contents) \cup Set(out)
    BY <1>2, ConcatMembers
  <2>3. owed' \subseteq Set(Contents) \cup Set(InHand) \cup Set(out)
    BY <2>1, <2>2 DEF InHand
  <2>4. Set(Contents) \cup Set(InHand) \cup Set(out) \subseteq 1 .. Published
    BY <1>1 DEF AccountInv
  <2>5. wpc # "final"
    BY <1>1, <2>1 DEF WorkerInv, Joined
  <2>6. QED
    BY <1>1, <2>1, <2>3, <2>4, <2>5 DEF OwedInv, Draining
<1>16. CASE (AtEnable \/ OnloadEnable) /\ handle_enable_auto_trace
  <2>1. /\ Contents' = <<>> /\ discarded' = discarded \cup Set(Contents)
        /\ UNCHANGED <<InHand, Published, fpc, limit, batch, out, file, lost, owed, wpc>> /\ fpc = "idle"
    BY <1>16, EnableEmpties
       DEF AtEnable, OnloadEnable, handle_enable_auto_trace, flush, InHand, Published
  <2>2. QED
    BY <1>1, <1>4, <2>1 DEF OwedInv, Draining
<1>17. CASE Disable
  <2>1. UNCHANGED <<Contents, InHand, Published, fpc, limit, batch, out, file, lost, discarded, owed, wpc>>
    BY <1>3, <1>17 DEF Disable, handle_disable_auto_trace, flush, history, InHand, Published
  <2>2. QED
    BY <1>5, <2>1
<1>18. CASE Arm \/ Clear \/ DriverLoads \/ (OnloadEnable /\ UNCHANGED ringVars) \/ UNCHANGED sessionVars
  <2>1. UNCHANGED <<Contents, InHand, Published, fpc, limit, batch, out, file, lost, discarded, owed, wpc>>
    BY <1>3, <1>18 DEF Arm, Clear, DriverLoads, OnloadEnable, sessionVars, session, ringVars, vars,
                       InHand, Published
  <2>2. QED
    BY <1>5, <2>1
<1>19. QED
  <2>1. AtEnable => handle_enable_auto_trace
    BY DEF AtEnable
  <2>2. OnloadEnable => handle_enable_auto_trace \/ UNCHANGED ringVars
    BY DEF OnloadEnable
  <2>3. (Emit \/ InHypercall) /\ UNCHANGED session => OwedInv'
    BY <1>6, <1>7, <1>8, <1>9, <1>10 DEF Emit, InHypercall
  <2>4. QED
    BY <1>11, <1>12, <1>13, <1>14, <1>15, <1>16, <1>17, <1>18, <2>1, <2>2, <2>3, SessionSteps

-----------------------------------------------------------------------------
(* The invariant holds in every reachable state of a session. *)
LEMMA SessionInvariant == SSpec => []SessionInv
<1>1. SInit => SessionInv
  <2> SUFFICES ASSUME SInit PROVE SessionInv
    OBVIOUS
  <2>1. RingInv
    BY RingInitially DEF SInit
  <2>2. WorkerInv
    BY DEF SInit, Init, WorkerInv, Joined
  <2>3. FileInv
    <3>1. <<>> \in Seq(Record)
      BY EmptySeq
    <3>2. QED
      BY <3>1, EmptyIsIncreasing DEF SInit, FileInv
  <2>4. OwedInv
    BY DEF SInit, Init, OwedInv, Draining
  <2>5. QED
    BY <2>1, <2>2, <2>3, <2>4 DEF SessionInv
<1>2. SessionInv /\ [SNext]_sessionVars => SessionInv'
  BY RingInductive, SessionStepsAreRingSteps, WorkerInductive, FileInductive, OwedInductive DEF SessionInv
<1>3. QED
  BY <1>1, <1>2, PTL DEF SSpec

(* The poller and the commands never put two consumers on a ring, nor a     *)
(* consumer inside a flush when its thread has been joined.                 *)
THEOREM SessionOneConsumer == SSpec => []OneConsumer
<1>1. SessionInv => OneConsumer
  BY DEF SessionInv, WorkerInv, OneConsumer
<1>2. QED
  BY <1>1, SessionInvariant, PTL

(* A trace file is sorted and has no duplicates, over any number of enable, *)
(* disable and onload commands: what the offline merge relies on.           *)
THEOREM SessionFileSorted == SSpec => []FileSorted
<1>1. SessionInv => FileSorted
  <2> SUFFICES ASSUME SessionInv PROVE FileSorted
    OBVIOUS
  <2>1. file \in Seq(Record) /\ out \in Seq(Record) /\ Increasing(file) /\ Increasing(out)
    BY DEF SessionInv, RingInv, OrderInv, FileInv, TypeOK, Record
  <2>2. Below(Set(file), Set(out))
    BY DEF SessionInv, RingInv, OrderInv, FileInv, Below
  <2>3. Increasing(file \o out)
    BY <2>1, <2>2, ConcatIncreasing
  <2>4. Set(file) \subseteq 1 .. Published
    BY DEF SessionInv, RingInv, AccountInv, FileInv
  <2>5. 1 .. Published \subseteq 1 .. tsc
    BY DEF SessionInv, RingInv, TypeOK, Published
  <2>6. QED
    BY <2>3, <2>4, <2>5 DEF FileSorted
<1>2. QED
  BY <1>1, SessionInvariant, PTL

(* The final drain saves every record that stop() found in the ring or in   *)
(* a flush, unless a write to the worker's buffer failed or an enable reset *)
(* the ring meanwhile.                                                      *)
THEOREM SessionFinalDrain == SSpec => FinalDrainComplete
<1> DEFINE Ends == (wpc = "final" /\ wpc' = "done" /\ lost = {}) => owed \subseteq Set(file') \cup discarded
<1>1. SessionInv /\ [SNext]_sessionVars => [Ends]_sessionVars
  <2> SUFFICES ASSUME SessionInv, [SNext]_sessionVars, wpc = "final", wpc' = "done", lost = {}
               PROVE  owed \subseteq Set(file') \cup discarded
    OBVIOUS
  <2>1. WorkerReturn /\ out = <<>>
    <3>1. ~(UNCHANGED wpc)
      OBVIOUS
    <3>2. ~PollerStart
      BY DEF PollerStart, SessionInv, WorkerInv, Joined
    <3>3. WorkerReturn \/ UNCHANGED wpc \/ WorkerStops \/ PollerStart
      BY SessionSteps DEF session, WorkerCall, PollerStop, AtEnable, OnloadEnable, Disable, Arm, Clear,
                          DriverLoads, sessionVars
    <3>4. WorkerReturn
      BY <3>1, <3>2, <3>3 DEF WorkerStops
    <3>5. QED
      BY <3>4 DEF WorkerReturn
  <2>2. fpc = "return" /\ file' = file \o out /\ InHand = <<>>
    BY <2>1 DEF WorkerReturn, FlushReturn, InHand
  <2>3. file \in Seq(Record) /\ out \in Seq(Record)
    BY DEF SessionInv, RingInv, FileInv, TypeOK, Record
  <2>4. Set(file') = Set(file) \cup Set(out)
    BY <2>2, <2>3, ConcatMembers
  <2>5. owed \cap Set(Contents) = {}
    BY <2>1, <2>2 DEF SessionInv, OwedInv
  <2>6. owed \subseteq Set(Contents) \cup Set(InHand) \cup Set(out) \cup Set(file) \cup lost \cup discarded
    BY DEF SessionInv, OwedInv
  <2>7. QED
    BY <2>1, <2>2, <2>4, <2>5, <2>6, EmptyIsIncreasing
<1>2. QED
  BY <1>1, SessionInvariant, PTL DEF SSpec, FinalDrainComplete

(* In a session the ring keeps all it promises: the window is intact, the   *)
(* answers are in order, nothing vanishes, and it implements the log.       *)
THEOREM SessionKeepsRing ==
  SSpec => [](TypeOK /\ WindowIntact /\ DeliveredInOrder /\ NothingVanishes) /\ LogSpec
<1>1. SessionInv => TypeOK /\ WindowIntact /\ DeliveredInOrder /\ NothingVanishes
  BY WindowFollows, OrderFollows, AccountFollows DEF SessionInv, RingInv
<1>2. SInit => Log!Init
  BY LogInitially DEF SInit
<1>3. SessionInv /\ [SNext]_sessionVars => [Log!Next]_(Log!logVars)
  BY SessionStepsAreRingSteps, RingStepsAreLogSteps DEF SessionInv
<1>4. QED
  BY <1>1, <1>2, <1>3, SessionInvariant, PTL DEF SSpec, LogSpec, Log!Spec
=============================================================================
