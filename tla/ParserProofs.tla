---------------------------- MODULE ParserProofs ----------------------------
(***************************************************************************)
(* The offline parser and what it relies on: modules.bin, the module       *)
(* snapshot (ModuleSnapshot), whatever the bounds on commands, batches and *)
(* unloads; the merge of the trace files (TraceMerge), for every           *)
(* directory, module list and record size; and trace_cfg.bin               *)
(* (TransitionCfg), for every set of maps and number of commands.          *)
(***************************************************************************)
EXTENDS ModuleSnapshot, TraceMerge, TransitionCfg, WellFoundedInduction, TLAPS

-----------------------------------------------------------------------------
(* ModuleSnapshot.                                                         *)

SnapshotSpec == ModuleInit /\ [][ModuleNext]_moduleVars

(* From what a thread has seen to what it writes: the list still has the   *)
(* target, unless the thread is excused.                                   *)
SnapshotInv ==
  /\ excused \in [{"snapshot", "command"} -> BOOLEAN]
  /\ snap_pc = "export" /\ Target \notin m_modules => excused["snapshot"]
  /\ snap_pc = "write" /\ Target \notin snap_list => excused["snapshot"]
  /\ cmd_pc \in {"swap", "swap again", "write"} /\ Target \notin cmd_list => excused["command"]
  /\ cmd_pc = "export" /\ Target \notin m_modules => excused["command"]
  /\ SnapshotHasTarget

(* modules.bin has the target but for the races the property names,        *)
(* however many commands refresh and export the list and however often the *)
(* driver unloads.                                                         *)
THEOREM SnapshotKeepsTarget == SnapshotSpec => []SnapshotHasTarget
<1>1. ModuleInit => SnapshotInv
  BY DEF ModuleInit, SnapshotInv, SnapshotHasTarget
<1>2. SnapshotInv /\ [ModuleNext]_moduleVars => SnapshotInv'
  <2> SUFFICES ASSUME SnapshotInv, [ModuleNext]_moduleVars PROVE SnapshotInv'
    OBVIOUS
  <2> USE DEF SnapshotInv, SnapshotHasTarget
  <2>1. CASE OnloadArm \/ start \/ OnloadThread \/ set_on_first_data
    BY <2>1 DEF OnloadArm, start, OnloadThread, set_on_first_data, snapVars
  <2>2. CASE worker \/ stop_trace_poller
    BY <2>2 DEF worker, stop_trace_poller, snapVars, cmdVars
  <2>3. CASE \E got \in BOOLEAN : CommandQuery(got)
    BY <2>3 DEF CommandQuery, Afterwards, snapVars
  <2>4. CASE CommandSwap
    BY <2>4 DEF CommandSwap, Afterwards, snapVars
  <2>5. CASE CommandExport
    BY <2>5 DEF CommandExport, snapVars
  <2>6. CASE \E opens \in BOOLEAN : CommandWrite(opens)
    BY <2>6 DEF CommandWrite
  <2>7. CASE SnapshotWait \/ \E got \in BOOLEAN : SnapshotQuery(got)
    BY <2>7 DEF SnapshotWait, SnapshotQuery, cmdVars
  <2>8. CASE SnapshotSwap
    BY <2>8 DEF SnapshotSwap, cmdVars
  <2>9. CASE SnapshotCheck
    BY <2>9 DEF SnapshotCheck, cmdVars
  <2>10. CASE SnapshotExport
    BY <2>10 DEF SnapshotExport, cmdVars
  <2>11. CASE \E opens \in BOOLEAN : SnapshotWrite(opens)
    <3>1. PICK opens \in BOOLEAN : SnapshotWrite(opens)
      BY <2>11
    <3>2. SnapshotHasTarget'
      BY <3>1 DEF SnapshotWrite
    <3> QED
      BY <3>1, <3>2 DEF SnapshotWrite, cmdVars
  <2>12. CASE DriverLoads \/ DriverUnloads
    BY <2>12 DEF DriverLoads, DriverUnloads, snapVars, cmdVars
  <2>13. CASE UNCHANGED moduleVars
    BY <2>13 DEF moduleVars, snapVars, cmdVars
  <2> QED
    BY <2>1, <2>2, <2>3, <2>4, <2>5, <2>6, <2>7, <2>8, <2>9, <2>10, <2>11, <2>12, <2>13 DEF ModuleNext
<1>3. SnapshotInv => SnapshotHasTarget
  BY DEF SnapshotInv
<1> QED
  BY <1>1, <1>2, <1>3, PTL DEF SnapshotSpec

-----------------------------------------------------------------------------
(* A set of naturals has a least element, so that "the first that ..." of   *)
(* the searches below is one of them.                                       *)
LEMMA LeastNat ==
  ASSUME NEW T \in SUBSET Nat, T # {}
  PROVE  \E x \in T : \A y \in T : x <= y
<1>1. PICK x \in T : \A y \in T : ~ (<<y, x>> \in OpToRel(<, Nat))
  BY NatLessThanWellFounded, WFMin, Zenon
<1>2. \A y \in T : ~ (y < x)
  BY <1>1 DEF OpToRel
<1> QED
  BY <1>2

-----------------------------------------------------------------------------
(* TraceMerge.                                                             *)

MergeSpec == MergeInit /\ [][MergeNext]_mergeVars

(* The text of an address as a function of the loaded modules: what         *)
(* resolve_address says, apart from what it loads.                          *)
ModulesAt(a) ==
  {i \in 1 .. Len(ModuleList) : a \in ModuleList[i].base .. (ModuleList[i].base + ModuleList[i].size - 1)}
ModuleOf(a) == ModuleList[CHOOSE i \in ModulesAt(a) : \A j \in ModulesAt(a) : i <= j]
NeedsPe(a) == ModulesAt(a) # {} /\ a - ModuleOf(a).base # 0
Text(a, cache) ==
  LET m == ModuleOf(a)
      rva == a - m.base
      sym == get_closest_symbol(m.name, rva)
  IN  IF ModulesAt(a) = {} THEN <<"raw", -1, a>>
      ELSE IF rva = 0 THEN <<m.name, -1, 0>>
      ELSE IF m.name \notin cache THEN <<m.name, -1, rva>>
      ELSE IF sym >= 0 THEN <<m.name, sym, rva - sym>> ELSE <<m.name, -2, rva>>

PeName == DOMAIN SymbolRva
MergedLine ==
  [file : Nat, index : Nat, timestamp : Nat, addr : Nat,
   text : {Text(p[1], p[2]) : p \in Nat \X SUBSET PeName}]

Records(f) == trace_dir[f].records
Readable == {f \in 1 .. Len(trace_dir) : Opens(trace_dir[f])}
TimeSorted(q) == \A i \in 1 .. Len(q), j \in 1 .. Len(q) : i < j => q[i].timestamp <= q[j].timestamp

(* A stream's cursor stays within the records of its file.                 *)
StreamInv ==
  /\ trace_dir \in TraceDir /\ merged \in Seq(MergedLine)
  /\ \/ parser_pc \in {"start", "failed"} /\ streams = <<>> /\ merged = <<>> /\ min_heap = {}
     \/ /\ parser_pc \in {"merge", "done", "failed"} /\ Readable # {}
        /\ streams \in [Readable -> [entry_count : Nat, cursor : Nat]]
        /\ \A f \in Readable :
             streams[f].entry_count = Len(Records(f)) /\ streams[f].cursor <= streams[f].entry_count
        /\ parser_pc = "done" => min_heap = {}

(* The heap holds the next record of each stream that has one.             *)
HeapInv ==
  /\ \A e \in min_heap : \E f \in DOMAIN streams :
       ~stream_done(streams[f]) /\ e = <<current(f, streams[f]).timestamp, f>>
  /\ \A f \in DOMAIN streams :
       ~stream_done(streams[f]) => <<current(f, streams[f]).timestamp, f>> \in min_heap

(* The lines are the records before the cursors, each once.                *)
LinesInv ==
  /\ \A i \in 1 .. Len(merged) :
       /\ merged[i].file \in DOMAIN streams
       /\ merged[i].index \in 1 .. streams[merged[i].file].cursor
       /\ merged[i].timestamp = Records(merged[i].file)[merged[i].index].timestamp
  /\ \A i \in 1 .. Len(merged), j \in 1 .. Len(merged) :
       i # j => merged[i].file # merged[j].file \/ merged[i].index # merged[j].index
  /\ \A f \in DOMAIN streams : \A k \in 1 .. streams[f].cursor :
       \E i \in 1 .. Len(merged) : merged[i].file = f /\ merged[i].index = k

(* What is in the heap is not earlier than what is written.                *)
TimeInv ==
  (\A f \in 1 .. Len(trace_dir) : TimeSorted(Records(f))) =>
    /\ TimeSorted(merged)
    /\ \A i \in 1 .. Len(merged) : \A e \in min_heap : merged[i].timestamp <= e[1]

(* A module whose file was tried for a line stays as loaded or missing as   *)
(* it was then.                                                             *)
NamesInv ==
  /\ m_pe_cache \subseteq m_pe_attempted /\ m_pe_cache \subseteq PeName
  /\ \A i \in 1 .. Len(merged) :
       /\ merged[i].text = Text(merged[i].addr, m_pe_cache)
       /\ NeedsPe(merged[i].addr) => ModuleOf(merged[i].addr).name \in m_pe_attempted

MergeInv == StreamInv /\ HeapInv /\ LinesInv /\ TimeInv /\ NamesInv

(* resolve_address gives the text for the modules it leaves loaded, and     *)
(* loads no module that was tried before.                                   *)
LEMMA ResolveText ==
  ASSUME NamesInv, NEW a \in Nat
  PROVE  LET r == resolve_address(a)
         IN  /\ r.text = Text(a, r.cache)
             /\ r.cache \subseteq r.attempted /\ r.cache \subseteq PeName
             /\ m_pe_cache \subseteq r.cache /\ m_pe_attempted \subseteq r.attempted
             /\ \A n \in m_pe_attempted : n \in r.cache => n \in m_pe_cache
             /\ NeedsPe(a) => ModuleOf(a).name \in r.attempted
<1> DEFINE m == ModuleOf(a)
           rva == a - m.base
           g == get_or_load_pe(m.name)
           sym == get_closest_symbol(m.name, rva)
           r == resolve_address(a)
<1>1. CASE ModulesAt(a) = {}
  <2>1. r = [text |-> <<"raw", -1, a>>, cache |-> m_pe_cache, attempted |-> m_pe_attempted]
    BY <1>1 DEF resolve_address, ModulesAt
  <2>2. r.text = <<"raw", -1, a>> /\ r.cache = m_pe_cache /\ r.attempted = m_pe_attempted
    BY <2>1
  <2> QED
    BY <1>1, <2>2 DEF Text, NeedsPe, NamesInv
<1>2. CASE ModulesAt(a) # {} /\ rva = 0
  <2>1. r = [text |-> <<m.name, -1, 0>>, cache |-> m_pe_cache, attempted |-> m_pe_attempted]
    BY <1>2, Zenon DEF resolve_address, ModulesAt, ModuleOf
  <2>2. r.text = <<m.name, -1, 0>> /\ r.cache = m_pe_cache /\ r.attempted = m_pe_attempted
    BY <2>1
  <2> QED
    BY <1>2, <2>2, Zenon DEF Text, NeedsPe, NamesInv
<1>3. CASE ModulesAt(a) # {} /\ rva # 0
  <2> DEFINE text == CASE ~g.pe -> <<m.name, -1, rva>>
                       [] g.pe /\ sym >= 0 -> <<m.name, sym, rva - sym>>
                       [] OTHER -> <<m.name, -2, rva>>
  <2>1. r = [text |-> text, cache |-> g.cache, attempted |-> g.attempted]
    BY <1>3, Zenon DEF resolve_address, ModulesAt, ModuleOf
  <2>2. m.name \in PeName
    <3> DEFINE i == CHOOSE k \in ModulesAt(a) : \A j \in ModulesAt(a) : k <= j
    <3>1. ModulesAt(a) \in SUBSET Nat
      BY DEF ModulesAt
    <3>2. \E k \in ModulesAt(a) : \A j \in ModulesAt(a) : k <= j
      BY <1>3, <3>1, LeastNat
    <3>3. i \in ModulesAt(a)
      BY <3>2, Zenon
    <3>4. i \in 1 .. Len(ModuleList) /\ m = ModuleList[i]
      BY <3>3, Zenon DEF ModulesAt, ModuleOf
    <3> HIDE DEF i
    <3> QED
      BY <3>4, TraceMergeAssumption, Zenon DEF PeName
  <2>3. r.text = text /\ r.cache = g.cache /\ r.attempted = g.attempted
    <3> HIDE DEF r, text, g
    <3> QED
      BY <2>1
  <2> HIDE DEF m, sym
  <2>4. /\ g.pe <=> m.name \in g.cache
        /\ m_pe_cache \subseteq g.cache /\ g.cache \subseteq m_pe_cache \cup {m.name}
        /\ g.attempted = m_pe_attempted \cup {m.name}
        /\ m.name \in m_pe_attempted => g.cache = m_pe_cache
    BY DEF get_or_load_pe, NamesInv
  <2>5. text = Text(a, g.cache)
    BY <1>3, <2>4, Zenon DEF Text, m, sym
  <2>6. m = ModuleOf(a)
    BY DEF m
  <2> HIDE DEF g, text, r
  <2> QED
    BY <2>2, <2>3, <2>4, <2>5, <2>6 DEF NamesInv, r
<1> QED
  BY <1>1, <1>2, <1>3, Zenon

(* The elements of a sequence.                                             *)
LEMMA Element ==
  ASSUME NEW S, NEW q \in Seq(S), NEW i \in 1 .. Len(q)
  PROVE  q[i] \in S
OBVIOUS

(* A file of the directory: its records, and how many whole ones there are. *)
LEMMA FileRecords ==
  ASSUME trace_dir \in TraceDir, NEW f \in 1 .. Len(trace_dir)
  PROVE  /\ Records(f) \in Seq([timestamp : Nat, addr : Nat])
         /\ entry_count(trace_dir[f]) = Len(Records(f))
  BY TraceMergeAssumption DEF Records, entry_count

(* run opens the readable files and puts the first record of each in the    *)
(* heap.                                                                    *)
LEMMA RunKeeps ==
  ASSUME MergeInv, NEW modules_ok \in BOOLEAN, NEW output_ok \in BOOLEAN, run(modules_ok, output_ok)
  PROVE  MergeInv'
<1> DEFINE opened == open_trace_streams(trace_dir)
<1>1. parser_pc = "start" /\ streams = <<>> /\ merged = <<>> /\ min_heap = {} /\ trace_dir \in TraceDir
  BY DEF run, MergeInv, StreamInv
<1>2. UNCHANGED <<trace_dir, merged, m_pe_cache, m_pe_attempted>>
  BY DEF run
<1>3. merged' = <<>> /\ Len(merged') = 0
  BY <1>1, <1>2
<1>4. NamesInv'
  BY <1>2, <1>3 DEF MergeInv, NamesInv
<1>5. CASE parser_pc' = "failed" /\ UNCHANGED <<streams, min_heap>>
  <2>1. StreamInv'
    BY <1>1, <1>2, <1>3, <1>5 DEF MergeInv, StreamInv
  <2>2. streams' = <<>> /\ min_heap' = {}
    BY <1>1, <1>5
  <2>3. DOMAIN streams' = {}
    BY <2>2
  <2>4. HeapInv' /\ LinesInv' /\ TimeInv'
    BY <1>3, <2>2, <2>3 DEF HeapInv, LinesInv, TimeInv, TimeSorted
  <2> QED
    BY <1>4, <2>1, <2>4 DEF MergeInv
<1>6. CASE /\ DOMAIN opened # {} /\ parser_pc' = "merge" /\ streams' = opened
           /\ min_heap' = {<<current(f, opened[f]).timestamp, f>> : f \in DOMAIN opened}
  <2>1. DOMAIN opened = Readable /\ Readable' = Readable
    BY <1>2 DEF open_trace_streams, Readable
  <2>2. ASSUME NEW f \in Readable
        PROVE  /\ opened[f] = [entry_count |-> Len(Records(f)), cursor |-> 0]
               /\ Len(Records(f)) \in Nat \ {0} /\ Records(f)' = Records(f)
    <3>1. f \in 1 .. Len(trace_dir) /\ Opens(trace_dir[f])
      BY DEF Readable
    <3>2. Records(f) \in Seq([timestamp : Nat, addr : Nat]) /\ entry_count(trace_dir[f]) = Len(Records(f))
      BY <1>1, <3>1, FileRecords
    <3>3. opened[f] = [entry_count |-> entry_count(trace_dir[f]), cursor |-> 0]
      BY <3>1 DEF open_trace_streams
    <3>4. entry_count(trace_dir[f]) > 0
      BY <3>1 DEF Opens
    <3>5. Len(Records(f)) \in Nat
      BY <3>2
    <3> QED
      BY <1>2, <3>2, <3>3, <3>4, <3>5 DEF Records
  <2>3. \A f \in Readable : /\ opened[f].entry_count = Len(Records(f)) /\ opened[f].cursor = 0
                            /\ opened[f] \in [entry_count : Nat, cursor : Nat]
                            /\ ~stream_done(opened[f])
    <3> HIDE DEF opened
    <3> TAKE f \in Readable
    <3>1. opened[f] = [entry_count |-> Len(Records(f)), cursor |-> 0] /\ Len(Records(f)) \in Nat \ {0}
      BY <2>2
    <3> QED
      BY <3>1 DEF stream_done
  <2>4. opened = [f \in Readable |-> opened[f]]
    BY DEF open_trace_streams, Readable
  <2> HIDE DEF opened
  <2>5. streams' \in [Readable' -> [entry_count : Nat, cursor : Nat]]
    BY <1>6, <2>1, <2>3, <2>4
  <2>6. StreamInv'
    BY <1>1, <1>2, <1>3, <1>6, <2>1, <2>2, <2>3, <2>5 DEF MergeInv, StreamInv
  <2>9. HeapInv'
    <3>1. \A f \in Readable :
            trace_dir'[f].records[streams'[f].cursor + 1] = current(f, opened[f])
      BY <1>2, <1>6 DEF current
    <3> QED
      BY <1>6, <2>1, <2>3, <3>1 DEF HeapInv, current
  <2>10. LinesInv'
    BY <1>3, <1>6, <2>1, <2>3 DEF LinesInv
  <2>11. TimeInv'
    BY <1>3 DEF TimeInv, TimeSorted
  <2> QED
    BY <1>4, <2>6, <2>9, <2>10, <2>11 DEF MergeInv
<1> QED
  BY <1>5, <1>6 DEF run

(* A turn of the merge: the record at a cursor gets its line, the cursor    *)
(* moves past it, and the next record of the stream takes its place in the  *)
(* heap.                                                                    *)
LEMMA TurnKeeps ==
  ASSUME MergeInv, NEW top \in min_heap, merge_format_write(top)
  PROVE  MergeInv'
<1> DEFINE f == top[2]
           s == streams[f]
           n == s.cursor + 1
           r == current(f, s)
           name == resolve_address(r.addr)
           line == [file |-> f, index |-> n, timestamp |-> r.timestamp, addr |-> r.addr, text |-> name.text]
           next == [s EXCEPT !.cursor = n]
           later == IF stream_done(next) THEN {} ELSE {<<current(f, next).timestamp, f>>}
<1>1. /\ parser_pc = "merge" /\ \A e \in min_heap : top[1] <= e[1]
      /\ merged' = Append(merged, line) /\ streams' = [streams EXCEPT ![f] = next]
      /\ min_heap' = (min_heap \ {top}) \cup later
      /\ m_pe_cache' = name.cache /\ m_pe_attempted' = name.attempted
      /\ UNCHANGED <<trace_dir, parser_pc>>
  BY DEF merge_format_write
<1>2. /\ trace_dir \in TraceDir /\ merged \in Seq(MergedLine) /\ Readable # {}
      /\ streams \in [Readable -> [entry_count : Nat, cursor : Nat]]
      /\ \A g \in Readable :
           streams[g].entry_count = Len(Records(g)) /\ streams[g].cursor <= streams[g].entry_count
  BY <1>1 DEF MergeInv, StreamInv
<1>3. f \in Readable /\ ~stream_done(s) /\ top = <<r.timestamp, f>>
  BY <1>2 DEF MergeInv, HeapInv
<1>4. f \in 1 .. Len(trace_dir) /\ f \in Nat /\ s \in [entry_count : Nat, cursor : Nat]
  BY <1>2, <1>3 DEF Readable
<1>5. /\ n \in 1 .. Len(Records(f)) /\ s.entry_count = Len(Records(f)) /\ n \in Nat
      /\ Len(Records(f)) \in Nat
  BY <1>2, <1>3, <1>4 DEF stream_done
<1>6. Records(f) \in Seq([timestamp : Nat, addr : Nat])
  BY <1>2, <1>4, FileRecords
<1>7. r = Records(f)[n] /\ r \in [timestamp : Nat, addr : Nat]
  <2>1. r = Records(f)[n]
    BY DEF current, Records
  <2> HIDE DEF r, n, f
  <2>2. Records(f)[n] \in [timestamp : Nat, addr : Nat]
    BY <1>5, <1>6, Element
  <2> QED
    BY <2>1, <2>2
<1>8. /\ name.text = Text(r.addr, name.cache)
      /\ name.cache \subseteq name.attempted /\ name.cache \subseteq PeName
      /\ m_pe_cache \subseteq name.cache /\ m_pe_attempted \subseteq name.attempted
      /\ \A k \in m_pe_attempted : k \in name.cache => k \in m_pe_cache
      /\ NeedsPe(r.addr) => ModuleOf(r.addr).name \in name.attempted
  <2>1. r.addr \in Nat /\ NamesInv
    BY <1>7 DEF MergeInv
  <2> HIDE DEF r
  <2> QED
    BY <2>1, ResolveText, Zenon
<1>9. next \in [entry_count : Nat, cursor : Nat] /\ next.entry_count = Len(Records(f)) /\ next.cursor = n
  BY <1>4, <1>5
<1>10. line \in MergedLine
  <2>1. name.text \in {Text(p[1], p[2]) : p \in Nat \X SUBSET PeName}
    <3> DEFINE p == <<r.addr, name.cache>>
    <3>1. p \in Nat \X SUBSET PeName /\ p[1] = r.addr /\ p[2] = name.cache
      BY <1>7, <1>8
    <3> HIDE DEF p
    <3>2. name.text = Text(p[1], p[2])
      BY <1>8, <3>1, Zenon
    <3> QED
      BY <3>1, <3>2, Zenon
  <2>2. r.timestamp \in Nat /\ r.addr \in Nat
    BY <1>7
  <2> HIDE DEF r, name, n, f
  <2> QED
    BY <1>4, <1>5, <2>1, <2>2 DEF MergedLine
<1>11. /\ line.file = f /\ line.index = n /\ line.timestamp = r.timestamp /\ line.addr = r.addr
       /\ line.text = name.text
  OBVIOUS
<1>12. /\ Readable' = Readable /\ \A g : Records(g)' = Records(g)
  BY <1>1 DEF Readable, Records
<1> HIDE DEF f, s, n, r, name, line, next, later
<1>13. /\ merged' \in Seq(MergedLine) /\ Len(merged') = Len(merged) + 1 /\ Len(merged) \in Nat
       /\ \A i \in 1 .. Len(merged) : merged'[i] = merged[i]
       /\ merged'[Len(merged) + 1] = line
  BY <1>1, <1>2, <1>10
<1>14. /\ streams' \in [Readable -> [entry_count : Nat, cursor : Nat]]
       /\ streams'[f] = next /\ \A g \in Readable : g # f => streams'[g] = streams[g]
  BY <1>1, <1>2, <1>3, <1>9
<1>15. StreamInv'
  BY <1>1, <1>2, <1>5, <1>9, <1>12, <1>13, <1>14 DEF StreamInv
<1>16. DOMAIN streams = Readable /\ DOMAIN streams' = Readable
  BY <1>2, <1>14
<1>17. \A g \in Readable : /\ current(g, streams[g]) = Records(g)[streams[g].cursor + 1]
                           /\ current(g, streams[g])' = Records(g)[streams'[g].cursor + 1]
  BY <1>12 DEF current, Records
<1>18. later = IF stream_done(next) THEN {} ELSE {<<Records(f)[n + 1].timestamp, f>>}
  BY <1>9 DEF later, current, Records
<1>19. HeapInv'
  <2>1. ASSUME NEW e \in min_heap'
        PROVE  \E g \in DOMAIN streams' :
                 ~stream_done(streams'[g]) /\ e = <<current(g, streams[g])'.timestamp, g>>
    <3>1. CASE e \in later
      BY <1>3, <1>9, <1>14, <1>16, <1>17, <1>18, <3>1
    <3>2. CASE e \in min_heap /\ e # top
      <4>1. PICK g \in Readable : ~stream_done(streams[g]) /\ e = <<current(g, streams[g]).timestamp, g>>
        BY <1>16, <3>2 DEF MergeInv, HeapInv
      <4>2. g # f
        BY <1>3, <3>2, <4>1 DEF r, s
      <4> QED
        BY <1>14, <1>16, <1>17, <4>1, <4>2
    <3> QED
      BY <1>1, <2>1, <3>1, <3>2
  <2>2. ASSUME NEW g \in DOMAIN streams', ~stream_done(streams'[g])
        PROVE  <<current(g, streams[g])'.timestamp, g>> \in min_heap'
    <3>1. CASE g = f
      BY <1>1, <1>9, <1>14, <1>16, <1>17, <1>18, <2>2, <3>1
    <3>2. CASE g # f
      <4>1. g \in Readable /\ streams'[g] = streams[g]
        BY <1>14, <1>16, <3>2
      <4>2. <<current(g, streams[g]).timestamp, g>> \in min_heap
        BY <1>16, <2>2, <4>1 DEF MergeInv, HeapInv
      <4>3. <<current(g, streams[g]).timestamp, g>> # top
        BY <1>3, <3>2
      <4> QED
        BY <1>1, <1>17, <4>1, <4>2, <4>3
    <3> QED
      BY <3>1, <3>2
  <2> QED
    BY <2>1, <2>2 DEF HeapInv
<1>20. \A g \in Readable : streams[g].cursor \in Nat /\ streams[g].cursor <= streams'[g].cursor
  <2>1. s.cursor \in Nat /\ n = s.cursor + 1 /\ s = streams[f]
    BY <1>4 DEF s, n
  <2>2. \A g \in Readable : streams[g] \in [entry_count : Nat, cursor : Nat]
    BY <1>2
  <2>3. \A g \in Readable : streams[g].cursor \in Nat
    BY <2>2
  <2>4. streams[f].cursor <= streams'[f].cursor
    BY <1>9, <1>14, <2>1
  <2> QED
    BY <1>14, <2>3, <2>4
<1>21. LinesInv'
  <2>1. ASSUME NEW i \in 1 .. Len(merged')
        PROVE  /\ merged'[i].file \in DOMAIN streams'
               /\ merged'[i].index \in 1 .. streams'[merged'[i].file].cursor
               /\ merged'[i].timestamp = Records(merged'[i].file)[merged'[i].index].timestamp
    <3>1. CASE i \in 1 .. Len(merged)
      <4>1. merged'[i] = merged[i] /\ merged[i].file \in Readable
        BY <1>13, <1>16, <3>1 DEF MergeInv, LinesInv
      <4>2. merged[i].index \in 1 .. streams[merged[i].file].cursor
        BY <3>1 DEF MergeInv, LinesInv
      <4>3. merged[i].timestamp = Records(merged[i].file)[merged[i].index].timestamp
        BY <3>1 DEF MergeInv, LinesInv
      <4>4. streams'[merged[i].file] \in [entry_count : Nat, cursor : Nat]
        BY <1>14, <4>1
      <4> QED
        BY <1>16, <1>20, <4>1, <4>2, <4>3, <4>4
    <3>2. CASE i = Len(merged) + 1
      BY <1>3, <1>5, <1>7, <1>9, <1>11, <1>13, <1>14, <1>16, <3>2
    <3> QED
      BY <1>13, <3>1, <3>2
  <2>2. ASSUME NEW i \in 1 .. Len(merged)
        PROVE  merged[i].file # f \/ merged[i].index # n
    <3>1. merged[i].index \in 1 .. streams[merged[i].file].cursor
      BY DEF MergeInv, LinesInv
    <3>2. n = streams[f].cursor + 1 /\ streams[f].cursor \in Nat
      BY <1>3, <1>20 DEF n, s
    <3> QED
      BY <3>1, <3>2
  <2>3. ASSUME NEW i \in 1 .. Len(merged'), NEW j \in 1 .. Len(merged'), i # j
        PROVE  merged'[i].file # merged'[j].file \/ merged'[i].index # merged'[j].index
    <3>1. CASE i \in 1 .. Len(merged) /\ j \in 1 .. Len(merged)
      BY <1>13, <2>3, <3>1 DEF MergeInv, LinesInv
    <3>2. CASE i \in 1 .. Len(merged) /\ j = Len(merged) + 1
      BY <1>11, <1>13, <2>2, <3>2
    <3>3. CASE j \in 1 .. Len(merged) /\ i = Len(merged) + 1
      BY <1>11, <1>13, <2>2, <3>3
    <3> QED
      BY <1>13, <2>3, <3>1, <3>2, <3>3
  <2>4. ASSUME NEW g \in DOMAIN streams', NEW k \in 1 .. streams'[g].cursor
        PROVE  \E i \in 1 .. Len(merged') : merged'[i].file = g /\ merged'[i].index = k
    <3>1. CASE g = f /\ k = n
      <4>1. Len(merged) + 1 \in 1 .. Len(merged')
        BY <1>13
      <4> QED
        BY <1>11, <1>13, <3>1, <4>1
    <3>2. CASE k \in 1 .. streams[g].cursor
      <4>1. PICK i \in 1 .. Len(merged) : merged[i].file = g /\ merged[i].index = k
        BY <1>16, <3>2 DEF MergeInv, LinesInv
      <4>2. i \in 1 .. Len(merged') /\ merged'[i] = merged[i]
        BY <1>13
      <4> QED
        BY <4>1, <4>2
    <3>3. g = f => streams'[g].cursor = streams[g].cursor + 1 /\ n = streams[g].cursor + 1
      BY <1>9, <1>14 DEF n, s
    <3>4. streams[g].cursor \in Nat /\ (g # f => streams'[g] = streams[g])
      BY <1>14, <1>16, <1>20
    <3> QED
      BY <3>1, <3>2, <3>3, <3>4
  <2>5. \A g : Records(g)' = Records(g)
    BY <1>12
  <2> QED
    BY <2>1, <2>3, <2>4, <2>5 DEF LinesInv
<1>22. TimeInv'
  <2> SUFFICES ASSUME \A g \in 1 .. Len(trace_dir) : TimeSorted(Records(g))
               PROVE  /\ TimeSorted(merged')
                      /\ \A i \in 1 .. Len(merged') : \A e \in min_heap' : merged'[i].timestamp <= e[1]
    BY <1>1, <1>12 DEF TimeInv
  <2>1. /\ TimeSorted(merged)
        /\ \A i \in 1 .. Len(merged) : \A e \in min_heap : merged[i].timestamp <= e[1]
    BY DEF MergeInv, TimeInv
  <2>2. top[1] = r.timestamp /\ r.timestamp \in Nat
    BY <1>3, <1>7
  <2>3. \A i \in 1 .. Len(merged) : merged[i].timestamp \in Nat
    <3> TAKE i \in 1 .. Len(merged)
    <3>1. merged[i] \in MergedLine
      BY <1>2, Element
    <3> QED
      BY <3>1 DEF MergedLine
  <2>4. \A e \in min_heap' : e[1] \in Nat /\ r.timestamp <= e[1]
    <3> SUFFICES ASSUME NEW e \in min_heap' PROVE e[1] \in Nat /\ r.timestamp <= e[1]
      OBVIOUS
    <3>1. CASE e \in later
      <4>1. ~stream_done(next) /\ e = <<Records(f)[n + 1].timestamp, f>>
        BY <1>18, <3>1
      <4>2. n + 1 \in 1 .. Len(Records(f))
        BY <1>5, <1>9, <4>1 DEF stream_done
      <4>3. Records(f)[n + 1].timestamp \in Nat
        <5>1. Records(f)[n + 1] \in [timestamp : Nat, addr : Nat]
          BY <1>6, <4>2, Element
        <5> QED
          BY <5>1
      <4>4. TimeSorted(Records(f)) /\ n < n + 1
        BY <1>4, <1>5
      <4>5. Records(f)[n].timestamp <= Records(f)[n + 1].timestamp
        BY <1>5, <4>2, <4>4 DEF TimeSorted
      <4> QED
        BY <1>7, <4>1, <4>3, <4>5
    <3>2. CASE e \in min_heap
      <4>1. PICK g \in Readable : ~stream_done(streams[g]) /\ e = <<current(g, streams[g]).timestamp, g>>
        BY <1>16, <3>2 DEF MergeInv, HeapInv
      <4>2. g \in 1 .. Len(trace_dir)
        BY DEF Readable
      <4>3. Records(g) \in Seq([timestamp : Nat, addr : Nat])
        BY <1>2, <4>2, FileRecords
      <4>4. streams[g].cursor + 1 \in 1 .. Len(Records(g))
        BY <1>2, <1>20, <4>1, <4>3 DEF stream_done
      <4>5. Records(g)[streams[g].cursor + 1].timestamp \in Nat
        <5>1. Records(g)[streams[g].cursor + 1] \in [timestamp : Nat, addr : Nat]
          BY <4>3, <4>4, Element
        <5> QED
          BY <5>1
      <4> QED
        BY <1>1, <1>17, <2>2, <3>2, <4>1, <4>5
    <3> QED
      BY <1>1, <3>1, <3>2
  <2>5. \A i \in 1 .. Len(merged) : merged[i].timestamp <= r.timestamp
    BY <2>1, <2>2
  <2>6. \A i \in 1 .. Len(merged') : merged'[i].timestamp \in Nat /\ merged'[i].timestamp <= r.timestamp
    BY <1>11, <1>13, <2>2, <2>3, <2>5
  <2>7. TimeSorted(merged')
    <3> SUFFICES ASSUME NEW i \in 1 .. Len(merged'), NEW j \in 1 .. Len(merged'), i < j
                 PROVE  merged'[i].timestamp <= merged'[j].timestamp
      BY DEF TimeSorted
    <3>1. CASE j \in 1 .. Len(merged)
      BY <1>13, <2>1, <3>1 DEF TimeSorted
    <3>2. CASE j = Len(merged) + 1
      BY <1>11, <1>13, <2>6, <3>2
    <3> QED
      BY <1>13, <3>1, <3>2
  <2>8. ASSUME NEW i \in 1 .. Len(merged'), NEW e \in min_heap' PROVE merged'[i].timestamp <= e[1]
    BY <2>2, <2>4, <2>6
  <2> QED
    BY <2>7, <2>8
<1>23. NamesInv'
  <2>1. ASSUME NEW i \in 1 .. Len(merged')
        PROVE  /\ merged'[i].text = Text(merged'[i].addr, m_pe_cache')
               /\ NeedsPe(merged'[i].addr) => ModuleOf(merged'[i].addr).name \in m_pe_attempted'
    <3>1. CASE i \in 1 .. Len(merged)
      <4>1. /\ merged[i].text = Text(merged[i].addr, m_pe_cache)
            /\ NeedsPe(merged[i].addr) => ModuleOf(merged[i].addr).name \in m_pe_attempted
        BY <3>1 DEF MergeInv, NamesInv
      <4> DEFINE a == merged[i].addr
      <4>2. NeedsPe(a) => (ModuleOf(a).name \in m_pe_cache' <=> ModuleOf(a).name \in m_pe_cache)
        BY <1>1, <1>8, <4>1
      <4>3. Text(a, m_pe_cache') = Text(a, m_pe_cache)
        <5> HIDE DEF a
        <5> QED
          BY <4>2, Zenon DEF Text, NeedsPe
      <4> QED
        BY <1>1, <1>8, <1>13, <3>1, <4>1, <4>3
    <3>2. CASE i = Len(merged) + 1
      BY <1>1, <1>8, <1>11, <1>13, <3>2
    <3> QED
      BY <1>13, <3>1, <3>2
  <2> QED
    BY <1>1, <1>8, <2>1 DEF NamesInv
<1> QED
  BY <1>15, <1>19, <1>21, <1>22, <1>23 DEF MergeInv

(* MergeInv is inductive.                                                  *)
LEMMA MergeInductive == MergeInv /\ [MergeNext]_mergeVars => MergeInv'
<1> SUFFICES ASSUME MergeInv, [MergeNext]_mergeVars PROVE MergeInv'
  OBVIOUS
<1>1. ASSUME NEW out_good \in BOOLEAN, MergeEnds(out_good) PROVE MergeInv'
  <2>1. /\ parser_pc = "merge" /\ min_heap = {} /\ parser_pc' \in {"done", "failed"}
        /\ UNCHANGED <<trace_dir, streams, min_heap, merged, m_pe_cache, m_pe_attempted>>
    BY <1>1 DEF MergeEnds
  <2>2. StreamInv'
    BY <2>1 DEF MergeInv, StreamInv, Readable, Records
  <2> QED
    BY <2>1, <2>2 DEF MergeInv, HeapInv, LinesInv, TimeInv, NamesInv, Records, current
<1>2. ASSUME UNCHANGED <<trace_dir, streams, min_heap, merged, m_pe_cache, m_pe_attempted, parser_pc>>
      PROVE  MergeInv'
  <2>1. StreamInv'
    BY <1>2 DEF MergeInv, StreamInv, Readable, Records
  <2> QED
    BY <1>2, <2>1 DEF MergeInv, HeapInv, LinesInv, TimeInv, NamesInv, Records, current
<1> QED
  BY <1>1, <1>2, RunKeeps, TurnKeeps DEF MergeNext, DiskChanges, mergeVars

(* MergeCorrect for every directory, record size and module list: the       *)
(* merged log is in time order, has each whole record once and names an     *)
(* address alike on every line (merge_format_write, resolve_address).       *)
THEOREM MergedLogCorrect == MergeSpec => []MergeCorrect
<1>1. MergeInit => MergeInv
  <2> SUFFICES ASSUME MergeInit PROVE MergeInv
    OBVIOUS
  <2>1. /\ trace_dir \in TraceDir /\ streams = <<>> /\ min_heap = {} /\ merged = <<>>
        /\ m_pe_cache = {} /\ m_pe_attempted = {} /\ parser_pc = "start"
    BY DEF MergeInit
  <2>2. DOMAIN streams = {} /\ Len(merged) = 0 /\ merged \in Seq(MergedLine)
    BY <2>1
  <2> QED
    BY <2>1, <2>2 DEF MergeInv, StreamInv, HeapInv, LinesInv, TimeInv, TimeSorted, NamesInv
<1>2. MergeInv => MergeCorrect
  <2> SUFFICES ASSUME MergeInv PROVE MergeCorrect
    OBVIOUS
  <2> DEFINE whole == UNION {{<<f, i>> : i \in 1 .. Len(trace_dir[f].records)} :
                               f \in {g \in 1 .. Len(trace_dir) : trace_dir[g].header = "ok"}}
  <2>1. (\A f \in 1 .. Len(trace_dir) : TimeSorted(trace_dir[f].records)) => TimeSorted(merged)
    BY DEF MergeInv, TimeInv, Records
  <2>2. \A i \in 1 .. Len(merged), j \in 1 .. Len(merged) :
          /\ i # j => <<merged[i].file, merged[i].index>> # <<merged[j].file, merged[j].index>>
          /\ merged[i].addr = merged[j].addr => merged[i].text = merged[j].text
    BY DEF MergeInv, LinesInv, NamesInv
  <2>3. ASSUME NEW i \in 1 .. Len(merged) PROVE <<merged[i].file, merged[i].index>> \in whole
    <3>1. merged # <<>>
      BY <2>3
    <3>2. /\ streams \in [Readable -> [entry_count : Nat, cursor : Nat]] /\ trace_dir \in TraceDir
          /\ \A f \in Readable :
               streams[f].entry_count = Len(Records(f)) /\ streams[f].cursor <= streams[f].entry_count
      BY <3>1 DEF MergeInv, StreamInv
    <3>3. merged[i].file \in Readable /\ merged[i].index \in 1 .. streams[merged[i].file].cursor
      BY <3>2 DEF MergeInv, LinesInv
    <3>4. /\ merged[i].file \in 1 .. Len(trace_dir) /\ trace_dir[merged[i].file].header = "ok"
          /\ merged[i].index \in 1 .. Len(Records(merged[i].file))
      <4>1. merged[i].file \in 1 .. Len(trace_dir) /\ trace_dir[merged[i].file].header = "ok"
        BY <3>3 DEF Readable, Opens
      <4>2. streams[merged[i].file] \in [entry_count : Nat, cursor : Nat]
        BY <3>2, <3>3
      <4>3. /\ streams[merged[i].file].cursor \in Nat
            /\ streams[merged[i].file].entry_count \in Nat
            /\ streams[merged[i].file].entry_count = Len(Records(merged[i].file))
            /\ streams[merged[i].file].cursor <= streams[merged[i].file].entry_count
        BY <3>2, <3>3, <4>2
      <4> QED
        BY <3>3, <4>1, <4>3
    <3> QED
      BY <3>4 DEF Records
  <2>4. ASSUME parser_pc = "done"
        PROVE  Len(merged) >= 1 /\ \A w \in whole : \E i \in 1 .. Len(merged) :
                                      <<merged[i].file, merged[i].index>> = w
    <3>1. /\ streams \in [Readable -> [entry_count : Nat, cursor : Nat]] /\ trace_dir \in TraceDir
          /\ Readable # {} /\ min_heap = {}
          /\ \A f \in Readable :
               streams[f].entry_count = Len(Records(f)) /\ streams[f].cursor <= streams[f].entry_count
      BY <2>4 DEF MergeInv, StreamInv
    <3>2. \A f \in Readable : stream_done(streams[f])
      BY <3>1 DEF MergeInv, HeapInv
    <3>3. \A f \in Readable : streams[f].cursor = Len(Records(f)) /\ Len(Records(f)) \in Nat
      BY <3>1, <3>2 DEF stream_done
    <3>4. ASSUME NEW f \in Readable, NEW k \in 1 .. Len(Records(f))
          PROVE  \E i \in 1 .. Len(merged) : merged[i].file = f /\ merged[i].index = k
      BY <3>1, <3>3 DEF MergeInv, LinesInv
    <3>5. ASSUME NEW w \in whole
          PROVE  \E i \in 1 .. Len(merged) : <<merged[i].file, merged[i].index>> = w
      <4>1. PICK f \in 1 .. Len(trace_dir) : /\ trace_dir[f].header = "ok"
                                             /\ w \in {<<f, k>> : k \in 1 .. Len(trace_dir[f].records)}
        BY <3>5
      <4>k. PICK k \in 1 .. Len(trace_dir[f].records) : w = <<f, k>>
        BY <4>1
      <4>2. entry_count(trace_dir[f]) = Len(Records(f)) /\ Len(Records(f)) \in Nat
        <5>1. Records(f) \in Seq([timestamp : Nat, addr : Nat]) /\ entry_count(trace_dir[f]) = Len(Records(f))
          BY <3>1, FileRecords
        <5> QED
          BY <5>1
      <4>3. f \in Readable /\ k \in 1 .. Len(Records(f))
        BY <4>1, <4>2 DEF Readable, Opens, Records
      <4> QED
        BY <3>4, <4>k, <4>3
    <3>6. PICK f \in Readable : TRUE
      BY <3>1
    <3>7. Len(Records(f)) >= 1
      BY <3>1, <3>3, FileRecords DEF Readable, Opens
    <3>8. PICK i \in 1 .. Len(merged) : merged[i].file = f /\ merged[i].index = 1
      BY <3>3, <3>4, <3>7
    <3>9. Len(merged) >= 1
      BY <3>8 DEF MergeInv, StreamInv
    <3> QED
      BY <3>5, <3>9
  <2> HIDE DEF whole
  <2>5. {<<merged[i].file, merged[i].index>> : i \in 1 .. Len(merged)} \subseteq whole
    BY <2>3
  <2> QED
    BY <2>1, <2>2, <2>4, <2>5, Zenon DEF MergeCorrect, whole, TimeSorted
<1> QED
  BY <1>1, <1>2, MergeInductive, PTL DEF MergeSpec

-----------------------------------------------------------------------------
(* TransitionCfg.                                                          *)

CfgSpec == CfgInit /\ [][CfgNext]_cfgVars

CoreMap == CfgMap \cup {AllNone}
TableEntry == [addr : Nat, cfg : CoreMap]
CallType ==
  [scope : {"idle", "startup", "generic", "exact"}, addr : Nat, cfg : CoreMap,
   core : 0 .. NCfgCores + 1, ok : BOOLEAN, some : BOOLEAN]

(* A hash table whose lookups end where they should: an address is in one   *)
(* slot at most, no slot on its way there is empty.                         *)
Table(t) ==
  /\ t \in [Slot -> TableEntry]
  /\ \A u, v \in Slot : t[u].addr # 0 /\ t[u].addr = t[v].addr => u = v
  /\ \A u \in Slot : t[u].addr # 0 =>
       \E i \in Slot : Probe(t[u].addr, i) = u /\ \A j \in 0 .. i : t[Probe(t[u].addr, j)].addr # 0

Keeps(t, a, cfg) == \E u \in Slot : t[u].addr = a /\ t[u].cfg = cfg

CoreInv ==
  /\ generic_transition_cfg \in [CfgCore -> CoreMap]
  /\ exact_transition_cfg_count \in [CfgCore -> Nat]
  /\ exact_transition_cfgs \in [CfgCore -> [Slot -> TableEntry]]
  /\ \A c \in CfgCore :
       /\ Table(exact_transition_cfgs[c])
       /\ (\E u \in Slot : exact_transition_cfgs[c][u].addr # 0) => exact_transition_cfg_count[c] > 0

EngineInv ==
  /\ m_generic \in [cfg : CfgMap, fmt : SUBSET CfgField]
  /\ \A a \in DOMAIN m_exact : m_exact[a] \in [cfg : CfgMap, fmt : SUBSET CfgField]
  /\ cfg_call \in CallType
  /\ cfg_call.scope # "idle" => cfg_call.core >= 1 /\ cfg_call.cfg \in CfgMap
  /\ cfg_call.scope = "idle" <=> cfg_call = Idle

(* A core's table has what the mirror has for an address.                  *)
Agrees(c, a) ==
  IF a \in DOMAIN m_exact THEN Keeps(exact_transition_cfgs[c], a, m_exact[a].cfg)
  ELSE \A u \in Slot : exact_transition_cfgs[c][u].addr # a

(* The same for the exported file.                                         *)
FileAgrees(c, a) ==
  IF a \in DOMAIN trace_cfg_bin.exact THEN Keeps(exact_transition_cfgs[c], a, trace_cfg_bin.exact[a].cfg)
  ELSE \A u \in Slot : exact_transition_cfgs[c][u].addr # a

(* But for the unmirrored maps, the cores agree with the mirror; for the    *)
(* map that is on its way they do until a core took it, and the cores that  *)
(* had their turn have it while each of them could take it.                 *)
ExactInv ==
  /\ \A a \in Nat \ {0} :
       \/ a \in unmirrored
       \/ cfg_call.scope = "exact" /\ cfg_call.addr = a /\ cfg_call.some
       \/ \A c \in CfgCore : Agrees(c, a)
  /\ cfg_call.scope = "exact" /\ cfg_call.ok /\ cfg_call.addr # 0 =>
       \A c \in CfgCore : c < cfg_call.core => Keeps(exact_transition_cfgs[c], cfg_call.addr, cfg_call.cfg)

GenericInv ==
  /\ \/ GenericKey \in unmirrored \/ cfg_call.scope = "startup"
     \/ cfg_call.scope = "generic" /\ cfg_call.some
     \/ \A c \in CfgCore : generic_transition_cfg[c] = m_generic.cfg
  /\ cfg_call.scope \in {"generic", "startup"} /\ cfg_call.ok =>
       \A c \in CfgCore : c < cfg_call.core => generic_transition_cfg[c] = cfg_call.cfg

(* And the cores agree with the exported file but for the maps that differ. *)
FileInv ==
  /\ GenericKey \in differs \/ \A c \in CfgCore : generic_transition_cfg[c] = trace_cfg_bin.generic.cfg
  /\ \A a \in Nat \ {0} : a \in differs \/ \A c \in CfgCore : FileAgrees(c, a)

MirrorInv == CoreInv /\ EngineInv /\ ExactInv /\ GenericInv
CfgInv == MirrorInv /\ FileInv

(* A probe is a slot.                                                      *)
LEMMA ProbeSlot ==
  ASSUME NEW a \in Nat, NEW i \in Nat
  PROVE  Probe(a, i) \in Slot
<1>1. TableSize \in Nat \ {0}
  BY TransitionCfgAssumption
<1>2. ASSUME NEW n \in Nat, NEW T \in Nat \ {0} PROVE n % T \in 0 .. T - 1
  BY <1>2
<1>3. a \div 8 + i \in Nat
  OBVIOUS
<1> DEFINE n == a \div 8 + i
<1>4. n % TableSize \in 0 .. TableSize - 1
  <2> HIDE DEF n
  <2> QED
    BY <1>1, <1>2, <1>3 DEF n
<1> QED
  BY <1>4 DEF Probe, Slot

(* InsertAt is the first probe that holds the address or nothing.          *)
LEMMA InsertPlace ==
  ASSUME NEW t, NEW a \in Nat, InsertAt(t, a) # TableSize
  PROVE  /\ InsertAt(t, a) \in Slot /\ t[Probe(a, InsertAt(t, a))].addr \in {a, 0}
         /\ \A j \in Slot : t[Probe(a, j)].addr \in {a, 0} => InsertAt(t, a) <= j
<1> DEFINE fits == {i \in Slot : t[Probe(a, i)].addr \in {a, 0}}
<1>1. InsertAt(t, a) = IF fits = {} THEN TableSize ELSE CHOOSE i \in fits : \A j \in fits : i <= j
  BY DEF InsertAt
<1>2. fits \in SUBSET Nat
  BY DEF Slot
<1> HIDE DEF fits
<1>3. fits # {} /\ InsertAt(t, a) = CHOOSE i \in fits : \A j \in fits : i <= j
  BY <1>1
<1>4. \E i \in fits : \A j \in fits : i <= j
  BY <1>2, <1>3, LeastNat
<1>5. InsertAt(t, a) \in fits /\ \A j \in fits : InsertAt(t, a) <= j
  BY <1>3, <1>4, Zenon
<1> QED
  BY <1>5, Zenon DEF fits

(* The table after an insertion, and what an insertion must do.            *)
Inserted(t, a, cfg) == [t EXCEPT ![Probe(a, InsertAt(t, a))] = [addr |-> a, cfg |-> cfg]]
InsertOk(t, a, cfg) ==
  LET w == Inserted(t, a, cfg)
  IN  /\ Table(w) /\ Keeps(w, a, cfg)
      /\ \A b \in Nat \ {0} : \A m : b # a => (Keeps(w, b, m) <=> Keeps(t, b, m))
      /\ \A b \in Nat \ {0} : b # a =>
           ((\A u \in Slot : w[u].addr # b) <=> (\A u \in Slot : t[u].addr # b))
      /\ t[Probe(a, InsertAt(t, a))].addr = a =>
           ((\E u \in Slot : w[u].addr # 0) => \E u \in Slot : t[u].addr # 0)

(* An insertion keeps the table a table, puts the map under its address and *)
(* leaves every other address as it was.                                    *)
LEMMA InsertKeeps ==
  ASSUME NEW t, Table(t), NEW a \in Nat, NEW cfg \in CoreMap, InsertAt(t, a) # TableSize
  PROVE  InsertOk(t, a, cfg)
<1> DEFINE w == Inserted(t, a, cfg)
<1>0. w = [t EXCEPT ![Probe(a, InsertAt(t, a))] = [addr |-> a, cfg |-> cfg]]
  BY DEF Inserted
<1> SUFFICES /\ Table(w) /\ Keeps(w, a, cfg)
             /\ \A b \in Nat \ {0} : \A m : b # a => (Keeps(w, b, m) <=> Keeps(t, b, m))
             /\ \A b \in Nat \ {0} : b # a =>
                  ((\A u \in Slot : w[u].addr # b) <=> (\A u \in Slot : t[u].addr # b))
             /\ t[Probe(a, InsertAt(t, a))].addr = a =>
                  ((\E u \in Slot : w[u].addr # 0) => \E u \in Slot : t[u].addr # 0)
  BY Zenon DEF InsertOk
<1> HIDE DEF w
<1> DEFINE i == InsertAt(t, a)
           s == Probe(a, i)
<1>1. /\ i \in Slot /\ t[s].addr \in {a, 0}
      /\ \A j \in Slot : t[Probe(a, j)].addr \in {a, 0} => i <= j
  BY InsertPlace
<1>2. s \in Slot
  BY <1>1, ProbeSlot DEF Slot
<1> HIDE DEF i, s
<1>3. t \in [Slot -> TableEntry]
  BY DEF Table
<1>4. w \in [Slot -> TableEntry] /\ w[s] = [addr |-> a, cfg |-> cfg]
      /\ \A u \in Slot : u # s => w[u] = t[u]
  BY <1>0, <1>2, <1>3 DEF TableEntry, i, s
<1>5. w[s].addr = a /\ w[s].cfg = cfg
  BY <1>4
<1>6. \A u \in Slot : t[u].addr # 0 => w[u].addr # 0 \/ a = 0
  BY <1>4, <1>5
<1>7. CASE t[s].addr = a
  <2>1. \A u \in Slot : w[u].addr = t[u].addr
    BY <1>4, <1>5, <1>7
  <2>2. Table(w)
    <3>1. \A u, v \in Slot : w[u].addr # 0 /\ w[u].addr = w[v].addr => u = v
      BY <2>1 DEF Table
    <3>2. ASSUME NEW u \in Slot, w[u].addr # 0
          PROVE  \E k \in Slot : Probe(w[u].addr, k) = u /\ \A j \in 0 .. k : w[Probe(w[u].addr, j)].addr # 0
      <4>1. PICK k \in Slot : Probe(t[u].addr, k) = u /\ \A j \in 0 .. k : t[Probe(t[u].addr, j)].addr # 0
        BY <2>1, <3>2 DEF Table
      <4>2. \A j \in 0 .. k : Probe(t[u].addr, j) \in Slot
        <5>1. t[u].addr \in Nat
          BY <1>3 DEF TableEntry
        <5> QED
          BY <5>1, ProbeSlot
      <4> QED
        BY <2>1, <4>1, <4>2
    <3> QED
      BY <1>4, <3>1, <3>2 DEF Table
  <2> QED
    BY <1>2, <1>4, <1>5, <1>7, <2>1, <2>2 DEF Keeps
<1>8. CASE t[s].addr = 0 /\ a # 0
  <2>1. \A u \in Slot : t[u].addr # a
    <3> SUFFICES ASSUME NEW u \in Slot, t[u].addr = a PROVE FALSE
      OBVIOUS
    <3>1. PICK k \in Slot : Probe(a, k) = u /\ \A j \in 0 .. k : t[Probe(a, j)].addr # 0
      BY <1>8 DEF Table
    <3>2. i <= k
      BY <1>1, <3>1
    <3>3. i \in 0 .. k
      BY <1>1, <3>2 DEF Slot
    <3> QED
      BY <1>8, <3>1, <3>3 DEF s
  <2>2. \A u \in Slot : t[u].addr # 0 => w[u].addr # 0
    BY <1>6, <1>8
  <2>3. \A u, v \in Slot : w[u].addr # 0 /\ w[u].addr = w[v].addr => u = v
    BY <1>4, <1>5, <2>1 DEF Table
  <2>4. ASSUME NEW u \in Slot, w[u].addr # 0
        PROVE  \E k \in Slot : Probe(w[u].addr, k) = u /\ \A j \in 0 .. k : w[Probe(w[u].addr, j)].addr # 0
    <3>1. CASE u = s
      <4>1. ASSUME NEW j \in 0 .. i PROVE w[Probe(a, j)].addr # 0
        <5>0. j \in Nat /\ i \in 0 .. TableSize - 1 /\ TableSize \in Nat
          BY <1>1, TransitionCfgAssumption DEF Slot
        <5>p. Probe(a, j) \in Slot
          BY <5>0, ProbeSlot
        <5>s. j \in Slot
          BY <5>0 DEF Slot
        <5>1. Probe(a, j) \in Slot /\ j \in Slot
          BY <5>p, <5>s
        <5>2. CASE j = i
          BY <1>5, <1>8, <5>2 DEF s
        <5>3. CASE j # i
          <6>1. ~(i <= j)
            BY <1>1, <5>3 DEF Slot
          <6>2. t[Probe(a, j)].addr # 0
            BY <1>1, <5>1, <6>1
          <6> QED
            BY <2>2, <5>1, <6>2
        <5> QED
          BY <5>2, <5>3
      <4> QED
        BY <1>1, <1>5, <3>1, <4>1 DEF s
    <3>2. CASE u # s
      <4>1. w[u] = t[u] /\ t[u].addr # 0 /\ t[u].addr \in Nat
        BY <1>3, <1>4, <2>4, <3>2 DEF TableEntry
      <4>2. PICK k \in Slot : Probe(t[u].addr, k) = u /\ \A j \in 0 .. k : t[Probe(t[u].addr, j)].addr # 0
        BY <4>1 DEF Table
      <4>3. \A j \in 0 .. k : Probe(t[u].addr, j) \in Slot
        BY <4>1, ProbeSlot
      <4> QED
        BY <2>2, <4>1, <4>2, <4>3
    <3> QED
      BY <3>1, <3>2
  <2>5. Table(w)
    BY <1>4, <2>3, <2>4 DEF Table
  <2> QED
    BY <1>2, <1>4, <1>5, <1>8, <2>5 DEF Keeps, s, i
<1> QED
  BY <1>1, <1>7, <1>8

(* find_data_slot finds a slot that holds the field, if there is one.       *)
LEMMA FindSlot ==
  ASSUME NEW cfg, NEW f
  PROVE  LET k == find_data_slot(cfg, f)
         IN  \/ k = 0 /\ \A i \in FieldIndex : cfg[i] # f
             \/ k \in FieldIndex /\ k > 0 /\ cfg[k] = f
<1> DEFINE at == {i \in FieldIndex : cfg[i] = f}
           k == find_data_slot(cfg, f)
<1>1. k = IF at = {} THEN 0 ELSE CHOOSE i \in at : \A j \in at : i <= j
  BY DEF find_data_slot
<1>2. at \in SUBSET Nat
  BY DEF FieldIndex
<1> HIDE DEF at, k
<1>3. CASE at = {}
  BY <1>1, <1>3 DEF at, k
<1>4. CASE at # {}
  <2>1. \E i \in at : \A j \in at : i <= j
    BY <1>2, <1>4, LeastNat
  <2>2. k \in at
    BY <1>1, <1>4, <2>1, Zenon
  <2> QED
    BY <2>2 DEF at, k, FieldIndex
<1> QED
  BY <1>3, <1>4

(* A core's lookup finds what the file has for an address.                 *)
LEMMA LookupAgrees ==
  ASSUME CoreInv, NEW c \in CfgCore, NEW rip \in Nat \ {0}, FileAgrees(c, rip),
         generic_transition_cfg[c] = trace_cfg_bin.generic.cfg
  PROVE  lookup_transition_cfg(c, rip) =
           IF rip \in DOMAIN trace_cfg_bin.exact THEN trace_cfg_bin.exact[rip].cfg ELSE trace_cfg_bin.generic.cfg
<1> DEFINE t == exact_transition_cfgs[c]
           hits == {i \in Slot : /\ t[Probe(rip, i)].addr = rip
                                 /\ \A j \in 0 .. i : t[Probe(rip, j)].addr # 0}
<1>1. lookup_transition_cfg(c, rip) =
        IF exact_transition_cfg_count[c] > 0 /\ hits # {}
        THEN t[Probe(rip, CHOOSE i \in hits : TRUE)].cfg ELSE generic_transition_cfg[c]
  BY DEF lookup_transition_cfg
<1>2. Table(t)
  BY DEF CoreInv
<1>3. \A i \in Slot : Probe(rip, i) \in Slot
  BY ProbeSlot DEF Slot
<1>4. CASE rip \in DOMAIN trace_cfg_bin.exact
  <2>1. PICK u \in Slot : t[u].addr = rip /\ t[u].cfg = trace_cfg_bin.exact[rip].cfg
    BY <1>4 DEF FileAgrees, Keeps
  <2>2. exact_transition_cfg_count[c] > 0
    BY <2>1 DEF CoreInv
  <2>3. PICK i \in Slot : Probe(rip, i) = u /\ \A j \in 0 .. i : t[Probe(rip, j)].addr # 0
    <3> HIDE DEF t
    <3> QED
      BY <1>2, <2>1 DEF Table
  <2>4. i \in hits
    BY <2>1, <2>3
  <2> DEFINE h == CHOOSE k \in hits : TRUE
  <2>5. h \in hits
    BY <2>4, Zenon
  <2>6. h \in Slot /\ t[Probe(rip, h)].addr = rip
    BY <2>5, Zenon
  <2> HIDE DEF h, hits, t
  <2>7. Probe(rip, h) = u
    BY <1>2, <1>3, <2>1, <2>6 DEF Table
  <2> QED
    BY <1>1, <1>4, <2>1, <2>2, <2>4, <2>7 DEF h
<1>5. CASE rip \notin DOMAIN trace_cfg_bin.exact
  <2>1. \A u \in Slot : t[u].addr # rip
    BY <1>5 DEF FileAgrees
  <2>2. hits = {}
    BY <1>3, <2>1
  <2> HIDE DEF hits, t
  <2> QED
    BY <1>1, <1>5, <2>2
<1> QED
  BY <1>4, <1>5

(* The parser reads back what the core wrote.                              *)
LEMMA ReadsBack == CfgInv => DecodedAsWritten
<1> DEFINE exact == trace_cfg_bin.exact
           generic == trace_cfg_bin.generic
<1> SUFFICES ASSUME CfgInv, NEW c \in CfgCore, NEW rip \in CfgRip,
                    {GenericKey, rip} \cap differs = {}, RipInPlace(rip)
             PROVE  LET cfg == lookup_transition_cfg(c, rip)
                        line == format_entry(resolve_data_fields(cfg, rip))
                        recorded == {cfg[i] : i \in FieldIndex} \ {"none"}
                    IN  /\ \A p \in line : p[2] = IF p[1] \in recorded THEN resolve_data_field(p[1], rip) ELSE 0
                        /\ \/ generic.fmt # {} \/ (rip \in DOMAIN exact /\ exact[rip].fmt # {})
                           \/ {p[1] : p \in line} = recorded
  BY Zenon DEF DecodedAsWritten
<1> DEFINE K == IF rip \in DOMAIN exact THEN exact[rip].cfg ELSE generic.cfg
           F == IF rip \in DOMAIN exact /\ exact[rip].fmt # {} THEN exact[rip].fmt ELSE generic.fmt
           data == resolve_data_fields(K, rip)
           recorded == {K[i] : i \in FieldIndex} \ {"none"}
           value(f) == LET i == find_data_slot(K, f) IN IF i > 0 THEN data[i] ELSE 0
           line == format_entry(data)
<1>1. rip \in Nat \ {0}
  BY TransitionCfgAssumption
<1>2. GenericKey \notin differs /\ rip \notin differs
  OBVIOUS
<1>3. FileAgrees(c, rip) /\ generic_transition_cfg[c] = generic.cfg
  BY <1>1, <1>2 DEF CfgInv, FileInv
<1>4. lookup_transition_cfg(c, rip) = K
  BY <1>1, <1>3, LookupAgrees DEF CfgInv, MirrorInv
<1>5. m_rip_slot > 0 => m_rip_slot \in FieldIndex /\ K[m_rip_slot] = "rip"
  <2> SUFFICES ASSUME m_rip_slot > 0 PROVE m_rip_slot \in FieldIndex /\ K[m_rip_slot] = "rip"
    OBVIOUS
  <2>1. m_rip_slot = find_data_slot(generic.cfg, "rip")
    BY DEF m_rip_slot
  <2>2. m_rip_slot \in FieldIndex /\ generic.cfg[m_rip_slot] = "rip"
    BY <2>1, FindSlot
  <2> QED
    BY <2>2, Zenon DEF RipInPlace
<1>6. \A i \in FieldIndex : data[i] = resolve_data_field(K[i], rip)
  BY Zenon DEF resolve_data_fields
<1>7. m_rip_slot > 0 => data[m_rip_slot] = rip
  BY <1>5, <1>6 DEF resolve_data_field
<1>8. rip \in DOMAIN exact => m_rip_slot > 0
  BY DEF RipInPlace
<1> HIDE DEF data
<1>9. line = IF F # {} THEN {<<f, value(f)>> : f \in F}
             ELSE {<<K[i], data[i]>> : i \in {j \in FieldIndex : K[j] # "none"}}
  <2> HIDE DEF m_rip_slot
  <2> QED
    BY <1>7, <1>8, Zenon DEF format_entry
<1>10. ASSUME NEW f PROVE value(f) = IF f \in recorded THEN resolve_data_field(f, rip) ELSE 0
  <2> DEFINE k == find_data_slot(K, f)
  <2>1. \/ k = 0 /\ \A i \in FieldIndex : K[i] # f
        \/ k \in FieldIndex /\ k > 0 /\ K[k] = f
    BY FindSlot, Zenon
  <2>2. value(f) = IF k > 0 THEN data[k] ELSE 0
    OBVIOUS
  <2> HIDE DEF k, K
  <2>3. CASE k = 0 /\ \A i \in FieldIndex : K[i] # f
    <3>1. f \notin recorded
      BY <2>3
    <3>2. value(f) = 0
      BY <2>2, <2>3
    <3> QED
      BY <3>1, <3>2
  <2>4. CASE k \in FieldIndex /\ k > 0 /\ K[k] = f
    <3>1. value(f) = resolve_data_field(f, rip)
      BY <1>6, <2>2, <2>4
    <3>2. f # "none" => f \in recorded
      BY <2>4
    <3>3. f = "none" => f \notin recorded /\ resolve_data_field(f, rip) = 0
      BY DEF resolve_data_field
    <3> QED
      BY <3>1, <3>2, <3>3, Zenon
  <2> QED
    BY <2>1, <2>3, <2>4
<1> HIDE DEF K, value, line, F
<1>11. \A p \in line : p[2] = IF p[1] \in recorded THEN resolve_data_field(p[1], rip) ELSE 0
  <2> SUFFICES ASSUME NEW p \in line
               PROVE  p[2] = IF p[1] \in recorded THEN resolve_data_field(p[1], rip) ELSE 0
    OBVIOUS
  <2>1. CASE F # {}
    <3>1. PICK f \in F : p = <<f, value(f)>>
      BY <1>9, <2>1
    <3>2. p[1] = f /\ p[2] = value(f)
      BY <3>1
    <3> HIDE DEF recorded
    <3> QED
      BY <1>10, <3>2, Zenon
  <2>2. CASE F = {}
    <3>1. PICK i \in FieldIndex : K[i] # "none" /\ p = <<K[i], data[i]>>
      BY <1>9, <2>2
    <3>2. p[1] = K[i] /\ p[2] = data[i] /\ K[i] \in recorded
      BY <3>1
    <3> HIDE DEF recorded
    <3> QED
      BY <1>6, <3>2, Zenon
  <2> QED
    BY <2>1, <2>2
<1>12. F = {} => {p[1] : p \in line} = recorded
  <2> SUFFICES ASSUME F = {} PROVE {p[1] : p \in line} = recorded
    OBVIOUS
  <2>1. line = {<<K[i], data[i]>> : i \in {j \in FieldIndex : K[j] # "none"}}
    BY <1>9
  <2>2. ASSUME NEW p \in line PROVE p[1] \in recorded
    BY <2>1
  <2>3. ASSUME NEW f \in recorded PROVE \E p \in line : p[1] = f
    <3>1. PICK i \in FieldIndex : K[i] = f /\ f # "none"
      OBVIOUS
    <3>2. <<K[i], data[i]>> \in line
      BY <2>1, <3>1
    <3> QED
      BY <3>1, <3>2
  <2> HIDE DEF recorded
  <2> QED
    BY <2>2, <2>3
<1>13. F # {} => generic.fmt # {} \/ (rip \in DOMAIN exact /\ exact[rip].fmt # {})
  BY DEF F
<1> QED
  BY <1>4, <1>11, <1>12, <1>13, Zenon DEF line, data

(* The constructor's call.                                                 *)
LEMMA StartupCall ==
  /\ PushDefault \in CallType /\ PushDefault # Idle
  /\ PushDefault.scope = "startup" /\ PushDefault.cfg = DefaultGeneric /\ PushDefault.core = 1
  /\ PushDefault.ok = TRUE
<1>1. Idle = [scope |-> "idle", addr |-> 0, cfg |-> AllNone, core |-> 0, ok |-> TRUE, some |-> FALSE]
  BY DEF Idle
<1>2. ASSUME NEW call, NEW idle, NEW none,
             idle = [scope |-> "idle", addr |-> 0, cfg |-> none, core |-> 0, ok |-> TRUE, some |-> FALSE],
             call = [idle EXCEPT !.scope = "startup", !.cfg = DefaultGeneric, !.core = 1]
      PROVE  call = [scope |-> "startup", addr |-> 0, cfg |-> DefaultGeneric, core |-> 1, ok |-> TRUE,
                     some |-> FALSE]
  BY <1>2
<1>3. PushDefault = [scope |-> "startup", addr |-> 0, cfg |-> DefaultGeneric, core |-> 1, ok |-> TRUE,
                     some |-> FALSE]
  BY <1>1, <1>2, Zenon DEF PushDefault
<1>4. 1 \in 0 .. NCfgCores + 1 /\ DefaultGeneric \in CoreMap
  BY TransitionCfgAssumption DEF CoreMap
<1> QED
  BY <1>1, <1>3, <1>4 DEF CallType

(* A command starts when none is under way: nothing is said yet of its map. *)
LEMMA CommandKeeps ==
  ASSUME MirrorInv, NEW scope \in {"generic", "exact"}, NEW addr \in Nat, NEW cfg \in CfgMap,
         handle_at_config(scope, addr, cfg)
  PROVE  MirrorInv'
<1>1. /\ cfg_call = Idle
      /\ cfg_call' = [Idle EXCEPT !.scope = scope, !.addr = addr, !.cfg = cfg, !.core = 1]
      /\ UNCHANGED <<coreCfgVars, m_generic, m_exact, unmirrored>>
  BY DEF handle_at_config
<1>2. /\ cfg_call'.scope = scope /\ cfg_call'.addr = addr /\ cfg_call'.cfg = cfg /\ cfg_call'.core = 1
      /\ cfg_call'.ok = TRUE /\ cfg_call'.some = FALSE
  BY <1>1 DEF Idle
<1>3. cfg_call' \in CallType
  <2>1. cfg_call' = [scope |-> scope, addr |-> addr, cfg |-> cfg, core |-> 1, ok |-> TRUE, some |-> FALSE]
    BY <1>1 DEF Idle
  <2>2. 1 \in 0 .. NCfgCores + 1
    BY TransitionCfgAssumption
  <2> QED
    BY <2>1, <2>2 DEF CallType, CoreMap
<1>4. CoreInv'
  BY <1>1 DEF MirrorInv, CoreInv, coreCfgVars
<1>5. cfg_call'.scope # "idle" /\ cfg_call' # Idle
  BY <1>2 DEF Idle
<1>6. EngineInv'
  BY <1>1, <1>2, <1>3, <1>5 DEF MirrorInv, EngineInv
<1>7. cfg_call.scope = "idle"
  BY <1>1 DEF MirrorInv, EngineInv
<1>8. \A c \in CfgCore : ~(c < 1)
  BY TransitionCfgAssumption DEF CfgCore
<1>9. ExactInv'
  <2>1. \A c, a : Agrees(c, a)' <=> Agrees(c, a)
    BY <1>1 DEF Agrees, Keeps, coreCfgVars
  <2> QED
    BY <1>1, <1>2, <1>7, <1>8, <2>1 DEF MirrorInv, ExactInv
<1>10. GenericInv'
  BY <1>1, <1>2, <1>7, <1>8 DEF MirrorInv, GenericInv, coreCfgVars
<1> QED
  BY <1>4, <1>6, <1>9, <1>10 DEF MirrorInv

(* A display format is no part of a map.                                   *)
LEMMA FormatKeeps ==
  ASSUME MirrorInv, NEW scope, NEW addr, NEW fmt \in CfgFormat, handle_at_config_fmt(scope, addr, fmt)
  PROVE  MirrorInv'
<1>1. /\ UNCHANGED <<coreCfgVars, cfg_call, unmirrored>>
      /\ \/ m_generic' = [m_generic EXCEPT !.fmt = fmt] /\ UNCHANGED m_exact
         \/ m_generic' = m_generic /\ addr \in DOMAIN m_exact /\ m_exact' = [m_exact EXCEPT ![addr].fmt = fmt]
         \/ m_generic' = m_generic /\ m_exact' = m_exact
  BY DEF handle_at_config_fmt
<1>2. fmt \in SUBSET CfgField
  BY TransitionCfgAssumption
<1>3. m_generic' \in [cfg : CfgMap, fmt : SUBSET CfgField] /\ m_generic'.cfg = m_generic.cfg
  BY <1>1, <1>2 DEF MirrorInv, EngineInv
<1>4. /\ DOMAIN m_exact' = DOMAIN m_exact
      /\ \A a \in DOMAIN m_exact :
           m_exact'[a] \in [cfg : CfgMap, fmt : SUBSET CfgField] /\ m_exact'[a].cfg = m_exact[a].cfg
  <2>1. \A a \in DOMAIN m_exact : m_exact[a] \in [cfg : CfgMap, fmt : SUBSET CfgField]
    BY DEF MirrorInv, EngineInv
  <2>2. CASE m_exact' = m_exact
    BY <2>1, <2>2
  <2>3. CASE addr \in DOMAIN m_exact /\ m_exact' = [m_exact EXCEPT ![addr].fmt = fmt]
    <3>1. DOMAIN m_exact' = DOMAIN m_exact
      BY <2>3
    <3>2. m_exact'[addr] = [m_exact[addr] EXCEPT !.fmt = fmt]
      BY <2>3
    <3>3. \A a \in DOMAIN m_exact : a # addr => m_exact'[a] = m_exact[a]
      BY <2>3
    <3>4. m_exact'[addr] \in [cfg : CfgMap, fmt : SUBSET CfgField] /\ m_exact'[addr].cfg = m_exact[addr].cfg
      BY <1>2, <2>1, <2>3, <3>2
    <3> QED
      BY <2>1, <3>1, <3>3, <3>4
  <2> QED
    BY <1>1, <2>2, <2>3
<1>5. CoreInv'
  BY <1>1 DEF MirrorInv, CoreInv, coreCfgVars
<1>6. EngineInv'
  BY <1>1, <1>3, <1>4 DEF MirrorInv, EngineInv
<1>7. ExactInv'
  <2>1. \A c, a : Agrees(c, a)' <=> Agrees(c, a)
    BY <1>1, <1>4 DEF Agrees, Keeps, coreCfgVars
  <2> QED
    BY <1>1, <2>1 DEF MirrorInv, ExactInv, coreCfgVars
<1>8. GenericInv'
  BY <1>1, <1>3 DEF MirrorInv, GenericInv, coreCfgVars
<1> QED
  BY <1>5, <1>6, <1>7, <1>8 DEF MirrorInv

(* One core's turn: it takes the map, or stays as it was.                  *)
LEMMA TurnOfCoreKeeps ==
  ASSUME MirrorInv, NEW got \in BOOLEAN, config_ept_transition(got)
  PROVE  MirrorInv'
<1> DEFINE c == cfg_call.core
           a == cfg_call.addr
           t == exact_transition_cfgs[c]
           ok == got /\ (cfg_call.scope = "exact" => InsertAt(t, a) < TableSize)
<1>1. /\ c \in CfgCore
      /\ cfg_call' = [cfg_call EXCEPT !.core = c + 1, !.ok = cfg_call.ok /\ ok, !.some = cfg_call.some \/ ok]
      /\ UNCHANGED <<m_generic, m_exact, unmirrored>>
  BY DEF config_ept_transition
<1>2. cfg_call \in CallType /\ cfg_call.scope # "idle" /\ cfg_call.cfg \in CfgMap
  <2>1. c # 0
    BY <1>1, TransitionCfgAssumption DEF CfgCore
  <2>2. cfg_call # Idle
    BY <2>1 DEF Idle
  <2> QED
    BY <2>2 DEF MirrorInv, EngineInv
<1>3. a \in Nat /\ cfg_call.cfg \in CoreMap
  BY <1>2 DEF CallType
<1> HIDE DEF c, a, t, ok
<1>4. /\ cfg_call'.scope = cfg_call.scope /\ cfg_call'.addr = a /\ cfg_call'.cfg = cfg_call.cfg
      /\ cfg_call'.core = c + 1 /\ (cfg_call'.ok <=> cfg_call.ok /\ ok)
      /\ (cfg_call'.some <=> cfg_call.some \/ ok)
  BY <1>1, <1>2 DEF CallType, a
<1>5. EngineInv'
  <2>1. c + 1 \in 0 .. NCfgCores + 1 /\ c + 1 >= 1
    BY <1>1, TransitionCfgAssumption DEF CfgCore
  <2>2. (cfg_call.ok /\ ok) \in BOOLEAN /\ (cfg_call.some \/ ok) \in BOOLEAN
    BY DEF ok
  <2>3. cfg_call' \in CallType
    BY <1>1, <1>2, <2>1, <2>2 DEF CallType
  <2>4. cfg_call' # Idle
    BY <1>2, <1>4 DEF Idle
  <2> QED
    BY <1>1, <1>2, <1>4, <2>1, <2>3, <2>4 DEF MirrorInv, EngineInv
<1>6. \A d \in CfgCore : d < c + 1 => d = c \/ d < c
  BY <1>1, TransitionCfgAssumption DEF CfgCore
<1>7. TableSize \in Nat
  BY TransitionCfgAssumption
<1>8. CASE ~ok /\ UNCHANGED coreCfgVars
  <2>1. CoreInv'
    BY <1>8 DEF MirrorInv, CoreInv, coreCfgVars
  <2>2. \A d, b : Agrees(d, b)' <=> Agrees(d, b)
    BY <1>1, <1>8 DEF Agrees, Keeps, coreCfgVars
  <2>3. ExactInv'
    BY <1>1, <1>4, <1>8, <2>2 DEF MirrorInv, ExactInv, a
  <2>4. GenericInv'
    BY <1>1, <1>4, <1>8 DEF MirrorInv, GenericInv, coreCfgVars
  <2> QED
    BY <1>5, <2>1, <2>3, <2>4 DEF MirrorInv
<1>9. CASE ok /\ cfg_call.scope # "exact"
  <2>1. /\ generic_transition_cfg' = [generic_transition_cfg EXCEPT ![c] = cfg_call.cfg]
        /\ UNCHANGED <<exact_transition_cfgs, exact_transition_cfg_count>>
    BY <1>9 DEF config_ept_transition, ok, c
  <2>2. CoreInv'
    BY <1>3, <2>1 DEF MirrorInv, CoreInv
  <2>3. \A d, b : Agrees(d, b)' <=> Agrees(d, b)
    BY <1>1, <2>1 DEF Agrees, Keeps
  <2>4. ExactInv'
    BY <1>1, <1>4, <1>9, <2>3 DEF MirrorInv, ExactInv
  <2>5. \A d \in CfgCore : generic_transition_cfg'[d] = IF d = c THEN cfg_call.cfg ELSE generic_transition_cfg[d]
    BY <2>1 DEF MirrorInv, CoreInv
  <2>6. cfg_call.scope \in {"startup", "generic"}
    BY <1>2, <1>9 DEF CallType
  <2>7. GenericInv'
    <3>1. cfg_call'.some /\ cfg_call'.scope \in {"startup", "generic"}
      BY <1>4, <1>9, <2>6
    <3>2. ASSUME cfg_call'.ok, NEW d \in CfgCore, d < c + 1
          PROVE  generic_transition_cfg'[d] = cfg_call.cfg
      <4>1. cfg_call.ok
        BY <1>4, <3>2
      <4>2. d < c => generic_transition_cfg[d] = cfg_call.cfg
        BY <2>6, <4>1 DEF MirrorInv, GenericInv, c
      <4> QED
        BY <1>6, <2>5, <3>2, <4>2
    <3> QED
      BY <1>4, <3>1, <3>2 DEF GenericInv
  <2> QED
    BY <1>5, <2>2, <2>4, <2>7 DEF MirrorInv
<1>10. CASE ok /\ cfg_call.scope = "exact"
  <2> DEFINE s == Probe(a, InsertAt(t, a))
             w == Inserted(t, a, cfg_call.cfg)
  <2>1. InsertAt(t, a) # TableSize
    BY <1>7, <1>10 DEF ok
  <2>2. /\ exact_transition_cfgs' = [exact_transition_cfgs EXCEPT ![c][s] = [addr |-> a, cfg |-> cfg_call.cfg]]
        /\ exact_transition_cfg_count' =
             [exact_transition_cfg_count EXCEPT ![c] = @ + (IF t[s].addr # a THEN 1 ELSE 0)]
        /\ generic_transition_cfg' = generic_transition_cfg
    BY <1>10, <2>1 DEF config_ept_transition, insert_exact_transition_cfg, ok, c, a, t
  <2>3. Table(t)
    BY <1>1 DEF MirrorInv, CoreInv, t
  <2> HIDE DEF w
  <2>4. /\ Table(w) /\ Keeps(w, a, cfg_call.cfg)
        /\ \A b \in Nat \ {0} : \A m : b # a => (Keeps(w, b, m) <=> Keeps(t, b, m))
        /\ \A b \in Nat \ {0} : b # a =>
             ((\A u \in Slot : w[u].addr # b) <=> (\A u \in Slot : t[u].addr # b))
        /\ t[s].addr = a => ((\E u \in Slot : w[u].addr # 0) => \E u \in Slot : t[u].addr # 0)
    <3>1. InsertOk(t, a, cfg_call.cfg)
      BY <1>3, <2>1, <2>3, InsertKeeps
    <3> QED
      BY <3>1, Zenon DEF InsertOk, w
  <2>5. exact_transition_cfgs' = [exact_transition_cfgs EXCEPT ![c] = w]
    BY <2>2 DEF t, w, Inserted
  <2> HIDE DEF s
  <2>6. exact_transition_cfgs \in [CfgCore -> [Slot -> TableEntry]] /\ exact_transition_cfg_count \in [CfgCore -> Nat]
    BY DEF MirrorInv, CoreInv
  <2>7. w \in [Slot -> TableEntry]
    BY <2>4 DEF Table
  <2>8. /\ exact_transition_cfgs' \in [CfgCore -> [Slot -> TableEntry]] /\ exact_transition_cfgs'[c] = w
        /\ \A d \in CfgCore : d # c => exact_transition_cfgs'[d] = exact_transition_cfgs[d]
    BY <1>1, <2>5, <2>6, <2>7
  <2>9. /\ exact_transition_cfg_count' \in [CfgCore -> Nat]
        /\ exact_transition_cfg_count'[c] = exact_transition_cfg_count[c] + (IF t[s].addr # a THEN 1 ELSE 0)
        /\ \A d \in CfgCore : d # c => exact_transition_cfg_count'[d] = exact_transition_cfg_count[d]
    BY <1>1, <2>2, <2>6
  <2>10. CoreInv'
    <3>1. (\E u \in Slot : w[u].addr # 0) => exact_transition_cfg_count'[c] > 0
      <4>1. exact_transition_cfg_count[c] \in Nat
        BY <1>1, <2>6
      <4>2. CASE t[s].addr # a
        BY <2>9, <4>1, <4>2
      <4>3. CASE t[s].addr = a
        <5>1. (\E u \in Slot : t[u].addr # 0) => exact_transition_cfg_count[c] > 0
          BY <1>1 DEF MirrorInv, CoreInv, t
        <5> QED
          BY <2>4, <2>9, <4>1, <4>3, <5>1
      <4> QED
        BY <4>2, <4>3
    <3>2. ASSUME NEW d \in CfgCore
          PROVE  /\ Table(exact_transition_cfgs'[d])
                 /\ (\E u \in Slot : exact_transition_cfgs'[d][u].addr # 0) =>
                      exact_transition_cfg_count'[d] > 0
      <4>1. CASE d = c
        BY <2>4, <2>8, <3>1, <4>1
      <4>2. CASE d # c
        BY <2>8, <2>9, <4>2 DEF MirrorInv, CoreInv
      <4> QED
        BY <4>1, <4>2
    <3> QED
      BY <2>2, <2>8, <2>9, <3>2 DEF MirrorInv, CoreInv, Table
  <2>11. ASSUME NEW d \in CfgCore, NEW b \in Nat \ {0}, b # a, Agrees(d, b) PROVE Agrees(d, b)'
    <3>1. CASE d = c
      <4>1. exact_transition_cfgs'[d] = w /\ exact_transition_cfgs[d] = t
        BY <2>8, <3>1 DEF t
      <4>2. CASE b \in DOMAIN m_exact
        <5>1. Keeps(t, b, m_exact[b].cfg)
          BY <2>11, <4>1, <4>2 DEF Agrees
        <5>2. Keeps(w, b, m_exact[b].cfg)
          BY <2>4, <2>11, <5>1
        <5> QED
          BY <1>1, <4>1, <4>2, <5>2 DEF Agrees, Keeps
      <4>3. CASE b \notin DOMAIN m_exact
        <5>1. \A u \in Slot : t[u].addr # b
          BY <2>11, <4>1, <4>3 DEF Agrees
        <5>2. \A u \in Slot : w[u].addr # b
          BY <2>4, <2>11, <5>1
        <5> QED
          BY <1>1, <4>1, <4>3, <5>2 DEF Agrees
      <4> QED
        BY <4>2, <4>3
    <3>2. CASE d # c
      BY <1>1, <2>8, <2>11, <3>2 DEF Agrees, Keeps
    <3> QED
      BY <3>1, <3>2
  <2>12. ExactInv'
    <3>1. cfg_call'.scope = "exact" /\ cfg_call'.addr = a /\ cfg_call'.some
      BY <1>4, <1>10
    <3>2. ASSUME NEW b \in Nat \ {0}
          PROVE  \/ b \in unmirrored'
                 \/ cfg_call'.scope = "exact" /\ cfg_call'.addr = b /\ cfg_call'.some
                 \/ \A d \in CfgCore : Agrees(d, b)'
      <4>1. CASE b = a
        BY <3>1, <4>1
      <4>2. CASE b # a
        BY <1>1, <2>11, <4>2 DEF MirrorInv, ExactInv, a
      <4> QED
        BY <4>1, <4>2
    <3>3. ASSUME cfg_call'.ok, a # 0, NEW d \in CfgCore, d < c + 1
          PROVE  Keeps(exact_transition_cfgs'[d], a, cfg_call.cfg)
      <4>1. CASE d = c
        BY <2>4, <2>8, <4>1
      <4>2. CASE d # c
        <5>1. cfg_call.ok /\ d < c
          BY <1>4, <1>6, <3>3, <4>2
        <5>2. Keeps(exact_transition_cfgs[d], a, cfg_call.cfg)
          BY <1>10, <3>3, <5>1 DEF MirrorInv, ExactInv, a, c
        <5> QED
          BY <2>8, <4>2, <5>2
      <4> QED
        BY <4>1, <4>2
    <3> QED
      BY <1>4, <3>2, <3>3 DEF ExactInv, Keeps
  <2>13. GenericInv'
    BY <1>1, <1>4, <1>10, <2>2 DEF MirrorInv, GenericInv
  <2> QED
    BY <1>5, <2>10, <2>12, <2>13 DEF MirrorInv
<1>11. ~ok => UNCHANGED coreCfgVars
  <2>1. CASE ~got
    BY <2>1 DEF config_ept_transition
  <2>2. CASE got /\ ~ok
    <3>1. cfg_call.scope = "exact" /\ ~(InsertAt(t, a) < TableSize)
      BY <2>2 DEF ok
    <3>2. InsertAt(t, a) = TableSize
      <4> SUFFICES ASSUME InsertAt(t, a) # TableSize PROVE FALSE
        OBVIOUS
      <4>1. InsertAt(t, a) \in Slot
        BY <1>3, InsertPlace
      <4> QED
        BY <1>7, <3>1, <4>1 DEF Slot
    <3> QED
      BY <2>2, <3>1, <3>2 DEF config_ept_transition, insert_exact_transition_cfg, coreCfgVars, c, a, t
  <2> QED
    BY <2>1, <2>2
<1> QED
  BY <1>8, <1>9, <1>10, <1>11

(* The end of a command: the mirror takes what every core took.            *)
LEMMA DoneKeeps ==
  ASSUME MirrorInv, ConfigDone
  PROVE  MirrorInv'
<1> DEFINE a == cfg_call.addr
<1>1. cfg_call.core = NCfgCores + 1 /\ cfg_call' = Idle /\ UNCHANGED coreCfgVars
  BY DEF ConfigDone
<1>2. cfg_call \in CallType /\ cfg_call.scope # "idle" /\ cfg_call.cfg \in CfgMap
  <2>1. NCfgCores + 1 # 0
    BY TransitionCfgAssumption
  <2>2. cfg_call # Idle
    BY <1>1, <2>1 DEF Idle
  <2> QED
    BY <2>2 DEF MirrorInv, EngineInv
<1>3. a \in Nat
  BY <1>2 DEF CallType
<1>4. CoreInv'
  BY <1>1 DEF MirrorInv, CoreInv, coreCfgVars
<1>5. Idle \in CallType /\ Idle.scope = "idle"
  BY TransitionCfgAssumption DEF Idle, CallType, CoreMap
<1>6. \A c \in CfgCore : c < cfg_call.core
  BY <1>1, TransitionCfgAssumption DEF CfgCore
<1>7. GenericKey \notin Nat
  BY DEF GenericKey
<1>8. CASE ~cfg_call.ok
  <2>1. /\ UNCHANGED <<m_generic, m_exact>>
        /\ unmirrored' = IF cfg_call.some \/ cfg_call.scope = "startup" THEN unmirrored \cup CallKey ELSE unmirrored
    BY <1>8 DEF ConfigDone
  <2>2. EngineInv'
    BY <1>1, <1>5, <2>1 DEF MirrorInv, EngineInv
  <2>3. \A c, b : Agrees(c, b)' <=> Agrees(c, b)
    BY <1>1, <2>1 DEF Agrees, Keeps, coreCfgVars
  <2>4. ExactInv'
    BY <1>1, <1>5, <2>1, <2>3 DEF MirrorInv, ExactInv, CallKey
  <2>5. GenericInv'
    BY <1>1, <1>2, <1>5, <2>1 DEF MirrorInv, GenericInv, CallKey, coreCfgVars
  <2> QED
    BY <1>4, <2>2, <2>4, <2>5 DEF MirrorInv
<1>9. CASE cfg_call.ok /\ cfg_call.scope = "exact"
  <2>1. /\ m_exact' = [b \in DOMAIN m_exact \cup {a} |->
                         IF b # a THEN m_exact[b]
                         ELSE [cfg |-> cfg_call.cfg, fmt |-> IF b \in DOMAIN m_exact THEN m_exact[b].fmt ELSE {}]]
        /\ m_generic' = m_generic /\ unmirrored' = unmirrored \ {a}
    BY <1>9 DEF ConfigDone, Mirror, CallKey
  <2>2. /\ DOMAIN m_exact' = DOMAIN m_exact \cup {a}
        /\ \A b \in DOMAIN m_exact : b # a => m_exact'[b] = m_exact[b]
        /\ m_exact'[a] = [cfg |-> cfg_call.cfg, fmt |-> IF a \in DOMAIN m_exact THEN m_exact[a].fmt ELSE {}]
    BY <2>1
  <2>3. m_exact'[a] \in [cfg : CfgMap, fmt : SUBSET CfgField] /\ m_exact'[a].cfg = cfg_call.cfg
    BY <1>2, <2>2 DEF MirrorInv, EngineInv
  <2>4. EngineInv'
    BY <1>1, <1>5, <2>1, <2>2, <2>3 DEF MirrorInv, EngineInv
  <2>5. ASSUME NEW b \in Nat \ {0}, b \notin unmirrored', NEW c \in CfgCore
        PROVE  Agrees(c, b)'
    <3>1. CASE b = a
      <4>1. Keeps(exact_transition_cfgs[c], a, cfg_call.cfg)
        BY <1>6, <1>9, <3>1 DEF MirrorInv, ExactInv
      <4> QED
        BY <1>1, <2>2, <2>3, <3>1, <4>1 DEF Agrees, Keeps, coreCfgVars
    <3>2. CASE b # a
      <4>1. Agrees(c, b)
        BY <2>1, <2>5, <3>2 DEF MirrorInv, ExactInv
      <4> QED
        BY <1>1, <2>2, <3>2, <4>1 DEF Agrees, Keeps, coreCfgVars
    <3> QED
      BY <3>1, <3>2
  <2>6. ExactInv'
    BY <1>1, <1>5, <2>5 DEF ExactInv
  <2>7. GenericInv'
    BY <1>1, <1>3, <1>5, <1>7, <1>9, <2>1 DEF MirrorInv, GenericInv, coreCfgVars
  <2> QED
    BY <1>4, <2>4, <2>6, <2>7 DEF MirrorInv
<1>10. CASE cfg_call.ok /\ cfg_call.scope # "exact"
  <2>1. /\ m_generic' = [m_generic EXCEPT !.cfg = cfg_call.cfg] /\ m_exact' = m_exact
        /\ unmirrored' = unmirrored \ {GenericKey}
    BY <1>10 DEF ConfigDone, Mirror, CallKey
  <2>2. m_generic' \in [cfg : CfgMap, fmt : SUBSET CfgField] /\ m_generic'.cfg = cfg_call.cfg
    BY <1>2, <2>1 DEF MirrorInv, EngineInv
  <2>3. EngineInv'
    BY <1>1, <1>5, <2>1, <2>2 DEF MirrorInv, EngineInv
  <2>4. \A c, b : Agrees(c, b)' <=> Agrees(c, b)
    BY <1>1, <2>1 DEF Agrees, Keeps, coreCfgVars
  <2>5. ExactInv'
    BY <1>1, <1>5, <1>7, <1>10, <2>1, <2>4 DEF MirrorInv, ExactInv
  <2>6. cfg_call.scope \in {"generic", "startup"}
    BY <1>2, <1>10 DEF CallType
  <2>7. GenericInv'
    BY <1>1, <1>5, <1>6, <1>10, <2>2, <2>6 DEF MirrorInv, GenericInv, coreCfgVars
  <2> QED
    BY <1>4, <2>3, <2>5, <2>7 DEF MirrorInv
<1> QED
  BY <1>8, <1>9, <1>10

(* A new revhv-um knows of no exact map: those of the cores are unmirrored. *)
LEMMA RestartKeeps ==
  ASSUME MirrorInv, Restart
  PROVE  MirrorInv'
<1>1. /\ cfg_call = Idle /\ m_generic' = [cfg |-> DefaultGeneric, fmt |-> {}] /\ m_exact' = <<>>
      /\ cfg_call' = PushDefault
      /\ unmirrored' = unmirrored \cup DOMAIN m_exact
      /\ UNCHANGED <<coreCfgVars>>
  BY DEF Restart
<1>2. DefaultGeneric \in CfgMap
  BY TransitionCfgAssumption
<1>3. /\ PushDefault.scope = "startup" /\ PushDefault.cfg = DefaultGeneric /\ PushDefault.core = 1
      /\ PushDefault.ok = TRUE
  BY StartupCall
<1>4. PushDefault \in CallType /\ PushDefault # Idle
  BY StartupCall
<1>5. DOMAIN m_exact' = {}
  BY <1>1
<1>6. CoreInv'
  BY <1>1 DEF MirrorInv, CoreInv, coreCfgVars
<1>7. EngineInv'
  BY <1>1, <1>2, <1>3, <1>4, <1>5 DEF EngineInv
<1>8. cfg_call.scope = "idle"
  BY <1>1 DEF MirrorInv, EngineInv
<1>9. ASSUME NEW b \in Nat \ {0}, b \notin unmirrored', NEW c \in CfgCore PROVE Agrees(c, b)'
  <2>1. b # GenericKey
    BY DEF GenericKey
  <2>2. b \notin unmirrored /\ b \notin DOMAIN m_exact
    BY <1>1, <1>9, <2>1
  <2>3. Agrees(c, b)
    BY <1>8, <2>2 DEF MirrorInv, ExactInv
  <2> QED
    BY <1>1, <1>5, <2>2, <2>3 DEF Agrees, coreCfgVars
<1>10. ExactInv'
  BY <1>1, <1>3, <1>9 DEF ExactInv
<1>11. \A c \in CfgCore : ~(c < 1)
  BY TransitionCfgAssumption DEF CfgCore
<1>12. GenericInv'
  BY <1>1, <1>3, <1>11 DEF GenericInv
<1> QED
  BY <1>6, <1>7, <1>10, <1>12 DEF MirrorInv

(* What touches neither the cores nor the file leaves them as they agree.   *)
LEMMA FileStays ==
  ASSUME FileInv, UNCHANGED <<coreCfgVars, trace_cfg_bin, differs>>
  PROVE  FileInv'
<1>1. \A c, b : FileAgrees(c, b)' <=> FileAgrees(c, b)
  BY DEF FileAgrees, Keeps, coreCfgVars
<1> QED
  BY <1>1 DEF FileInv, coreCfgVars

(* A core's turn makes the file differ in the map it sets and in no other.  *)
LEMMA TurnKeepsFile ==
  ASSUME MirrorInv, FileInv, NEW got \in BOOLEAN, config_ept_transition(got)
  PROVE  FileInv'
<1> DEFINE c == cfg_call.core
           a == cfg_call.addr
           t == exact_transition_cfgs[c]
           ok == got /\ (cfg_call.scope = "exact" => InsertAt(t, a) < TableSize)
<1>1. /\ c \in CfgCore /\ trace_cfg_bin' = trace_cfg_bin
      /\ differs' = IF ok THEN differs \cup CallKey ELSE differs
  BY DEF config_ept_transition
<1>2. cfg_call \in CallType /\ cfg_call.cfg \in CoreMap /\ a \in Nat
  BY DEF MirrorInv, EngineInv, CallType
<1>3. TableSize \in Nat
  BY TransitionCfgAssumption
<1>4. CASE ok /\ cfg_call.scope # "exact"
  <2>1. UNCHANGED exact_transition_cfgs
    BY <1>4 DEF config_ept_transition
  <2>2. GenericKey \in differs' /\ differs \subseteq differs'
    BY <1>1, <1>4 DEF CallKey
  <2>3. \A d, b : FileAgrees(d, b)' <=> FileAgrees(d, b)
    BY <1>1, <2>1 DEF FileAgrees, Keeps
  <2> QED
    BY <1>1, <2>2, <2>3 DEF FileInv
<1>5. CASE ok /\ cfg_call.scope = "exact"
  <2> DEFINE w == Inserted(t, a, cfg_call.cfg)
  <2>1. InsertAt(t, a) # TableSize
    BY <1>3, <1>5
  <2>2. exact_transition_cfgs' = [exact_transition_cfgs EXCEPT ![c] = w] /\ UNCHANGED generic_transition_cfg
    BY <1>5, <2>1 DEF config_ept_transition, insert_exact_transition_cfg, Inserted
  <2>3. a \in differs' /\ differs \subseteq differs'
    BY <1>1, <1>5 DEF CallKey
  <2>4. Table(t)
    BY <1>1 DEF MirrorInv, CoreInv
  <2>5. InsertOk(t, a, cfg_call.cfg)
    BY <1>2, <2>1, <2>4, InsertKeeps
  <2>6. /\ \A b \in Nat \ {0} : \A m : b # a => (Keeps(w, b, m) <=> Keeps(t, b, m))
        /\ \A b \in Nat \ {0} : b # a =>
             ((\A u \in Slot : w[u].addr # b) <=> (\A u \in Slot : t[u].addr # b))
    BY <2>5, Zenon DEF InsertOk
  <2> HIDE DEF w, t, c, a, ok
  <2>7. exact_transition_cfgs'[c] = w /\ \A d \in CfgCore : d # c => exact_transition_cfgs'[d] = exact_transition_cfgs[d]
    BY <1>1, <2>2 DEF MirrorInv, CoreInv
  <2>8. ASSUME NEW d \in CfgCore, NEW b \in Nat \ {0}, b # a, FileAgrees(d, b) PROVE FileAgrees(d, b)'
    <3>1. CASE d = c
      <4>1. exact_transition_cfgs'[d] = w /\ exact_transition_cfgs[d] = t
        BY <2>7, <3>1 DEF t
      <4>2. CASE b \in DOMAIN trace_cfg_bin.exact
        <5>1. Keeps(t, b, trace_cfg_bin.exact[b].cfg)
          BY <2>8, <4>1, <4>2 DEF FileAgrees
        <5>2. Keeps(w, b, trace_cfg_bin.exact[b].cfg)
          BY <2>6, <2>8, <5>1
        <5> QED
          BY <1>1, <4>1, <4>2, <5>2 DEF FileAgrees, Keeps
      <4>3. CASE b \notin DOMAIN trace_cfg_bin.exact
        <5>1. \A u \in Slot : t[u].addr # b
          BY <2>8, <4>1, <4>3 DEF FileAgrees
        <5>2. \A u \in Slot : w[u].addr # b
          BY <2>6, <2>8, <5>1
        <5> QED
          BY <1>1, <4>1, <4>3, <5>2 DEF FileAgrees
      <4> QED
        BY <4>2, <4>3
    <3>2. CASE d # c
      BY <1>1, <2>7, <2>8, <3>2 DEF FileAgrees, Keeps
    <3> QED
      BY <3>1, <3>2
  <2> QED
    BY <1>1, <2>2, <2>3, <2>8 DEF FileInv
<1>6. CASE ~ok
  <2>1. UNCHANGED coreCfgVars
    <3>1. CASE ~got
      BY <3>1 DEF config_ept_transition
    <3>2. CASE got
      <4>1. cfg_call.scope = "exact" /\ ~(InsertAt(t, a) < TableSize)
        BY <1>6, <3>2
      <4>2. InsertAt(t, a) = TableSize
        <5> SUFFICES ASSUME InsertAt(t, a) # TableSize PROVE FALSE
          OBVIOUS
        <5>1. InsertAt(t, a) \in Slot
          BY <1>2, InsertPlace
        <5> QED
          BY <1>3, <4>1, <5>1 DEF Slot
      <4> QED
        BY <3>2, <4>1, <4>2 DEF config_ept_transition, insert_exact_transition_cfg, coreCfgVars
    <3> QED
      BY <3>1, <3>2
  <2> QED
    BY <1>1, <1>6, <2>1, FileStays
<1> QED
  BY <1>4, <1>5, <1>6

(* An export takes over what the mirror has, and what it does not.         *)
LEMMA ExportKeeps ==
  ASSUME MirrorInv, FileInv, export_trace_config
  PROVE  CfgInv'
<1>1. /\ cfg_call = Idle /\ differs' = unmirrored
      /\ trace_cfg_bin' = [saved |-> TRUE, generic |-> m_generic, exact |-> m_exact]
      /\ UNCHANGED <<coreCfgVars, m_generic, m_exact, cfg_call, unmirrored>>
  BY DEF export_trace_config
<1>2. cfg_call.scope = "idle"
  BY <1>1 DEF MirrorInv, EngineInv
<1>3. \A c, b : Agrees(c, b)' <=> Agrees(c, b)
  BY <1>1 DEF Agrees, Keeps, coreCfgVars
<1>4. \A c, b : FileAgrees(c, b)' <=> Agrees(c, b)
  BY <1>1 DEF FileAgrees, Agrees, Keeps, coreCfgVars
<1>5. MirrorInv'
  <2>1. CoreInv' /\ EngineInv'
    BY <1>1 DEF MirrorInv, CoreInv, EngineInv, coreCfgVars
  <2>2. ExactInv' /\ GenericInv'
    BY <1>1, <1>3 DEF MirrorInv, ExactInv, GenericInv, coreCfgVars
  <2> QED
    BY <2>1, <2>2 DEF MirrorInv
<1>6. GenericKey \in unmirrored \/ \A c \in CfgCore : generic_transition_cfg[c] = m_generic.cfg
  BY <1>2 DEF MirrorInv, GenericInv
<1>7. \A a \in Nat \ {0} : a \in unmirrored \/ \A c \in CfgCore : Agrees(c, a)
  BY <1>2 DEF MirrorInv, ExactInv
<1>8. FileInv'
  BY <1>1, <1>4, <1>6, <1>7 DEF FileInv, coreCfgVars
<1> QED
  BY <1>5, <1>8 DEF CfgInv

(* CfgInv is inductive.                                                    *)
LEMMA CfgInductive == CfgInv /\ [CfgNext]_cfgVars => CfgInv'
<1> SUFFICES ASSUME MirrorInv, FileInv, [CfgNext]_cfgVars PROVE CfgInv'
  BY DEF CfgInv
<1>1. ASSUME NEW cfg \in CfgMap,
             handle_at_config("generic", 0, cfg) \/ \E a \in CfgAddr : handle_at_config("exact", a, cfg)
      PROVE  CfgInv'
  <2>1. CfgAddr \subseteq Nat
    BY TransitionCfgAssumption
  <2>2. MirrorInv'
    BY <1>1, <2>1, CommandKeeps
  <2>3. FileInv'
    BY <1>1, FileStays DEF handle_at_config
  <2> QED
    BY <2>2, <2>3 DEF CfgInv
<1>2. ASSUME NEW fmt \in CfgFormat, NEW scope, NEW addr, handle_at_config_fmt(scope, addr, fmt)
      PROVE  CfgInv'
  <2>1. FileInv'
    BY <1>2, FileStays DEF handle_at_config_fmt
  <2> QED
    BY <1>2, <2>1, FormatKeeps DEF CfgInv
<1>3. ASSUME NEW got \in BOOLEAN, config_ept_transition(got)
      PROVE  CfgInv'
  BY <1>3, TurnOfCoreKeeps, TurnKeepsFile DEF CfgInv
<1>4. CASE ConfigDone
  <2>1. FileInv'
    BY <1>4, FileStays DEF ConfigDone
  <2> QED
    BY <1>4, <2>1, DoneKeeps DEF CfgInv
<1>5. CASE Restart
  <2>1. FileInv'
    BY <1>5, FileStays DEF Restart
  <2> QED
    BY <1>5, <2>1, RestartKeeps DEF CfgInv
<1>6. CASE UNCHANGED cfgVars
  <2>1. \A c, b : Agrees(c, b)' <=> Agrees(c, b)
    BY <1>6 DEF Agrees, Keeps, cfgVars, coreCfgVars
  <2>2. CoreInv' /\ EngineInv'
    BY <1>6 DEF MirrorInv, CoreInv, EngineInv, cfgVars, coreCfgVars
  <2>3. ExactInv' /\ GenericInv'
    BY <1>6, <2>1 DEF MirrorInv, ExactInv, GenericInv, cfgVars, coreCfgVars
  <2>4. FileInv'
    BY <1>6, FileStays DEF cfgVars
  <2> QED
    BY <2>2, <2>3, <2>4 DEF CfgInv, MirrorInv
<1> QED
  BY <1>1, <1>2, <1>3, <1>4, <1>5, <1>6, ExportKeeps DEF CfgNext

(* DecodedAsWritten for every number of cores, table size, set of addresses *)
(* and maps, and however many commands, exports, unreadable requests and    *)
(* restarts: the linear probing of insert_exact_transition_cfg and          *)
(* lookup_transition_cfg, the engine's mirror and its export keep writer    *)
(* and parser together on every map that has not been set since the export. *)
THEOREM RecordsReadBack == CfgSpec => []DecodedAsWritten
<1>1. CfgInit => CfgInv
  <2> SUFFICES ASSUME CfgInit PROVE CfgInv
    OBVIOUS
  <2> DEFINE empty == [u \in Slot |-> [addr |-> 0, cfg |-> AllNone]]
  <2>1. empty \in [Slot -> TableEntry] /\ \A u \in Slot : empty[u].addr = 0
    BY DEF TableEntry, CoreMap
  <2>2. exact_transition_cfgs = [c \in CfgCore |-> empty]
    BY DEF CfgInit
  <2>3. Table(empty)
    BY <2>1 DEF Table
  <2> HIDE DEF empty
  <2>4. CoreInv
    BY <2>1, <2>2, <2>3 DEF CfgInit, CoreInv, CoreMap
  <2>5. /\ PushDefault.scope = "startup" /\ PushDefault.cfg = DefaultGeneric /\ PushDefault.core = 1
        /\ PushDefault.ok = TRUE
    BY StartupCall
  <2>6. PushDefault \in CallType /\ PushDefault # Idle /\ DefaultGeneric \in CfgMap
    BY StartupCall, TransitionCfgAssumption
  <2>7. DOMAIN m_exact = {}
    BY DEF CfgInit
  <2>8. EngineInv
    BY <2>5, <2>6, <2>7 DEF CfgInit, EngineInv
  <2>9. ExactInv
    BY <2>1, <2>2, <2>5, <2>7 DEF CfgInit, ExactInv, Agrees
  <2>10. \A c \in CfgCore : ~(c < 1)
    BY TransitionCfgAssumption DEF CfgCore
  <2>11. GenericInv
    BY <2>5, <2>10 DEF CfgInit, GenericInv
  <2>12. GenericKey \in differs /\ trace_cfg_bin.exact = m_exact
    BY DEF CfgInit
  <2>13. FileInv
    BY <2>1, <2>2, <2>7, <2>12 DEF FileInv, FileAgrees
  <2> QED
    BY <2>4, <2>8, <2>9, <2>11, <2>13 DEF CfgInv, MirrorInv
<1> QED
  BY <1>1, CfgInductive, ReadsBack, PTL DEF CfgSpec
=============================================================================
