----------------------------- MODULE TraceMerge -----------------------------
(***************************************************************************)
(* The offline parser of revhv-um/trace_parser.hpp: it maps the per-core   *)
(* trace files of a directory, merges their records by time stamp through  *)
(* a min-heap and writes one line per record, naming addresses from the    *)
(* exported module list and the PE files it loads on demand.               *)
(*                                                                         *)
(* A record takes EntrySize units of a file's payload; what is left of a   *)
(* payload is a record the trace was cut off in.  Symbol names come from   *)
(* a module's file while it is on disk: the files come and go.             *)
(***************************************************************************)
EXTENDS Integers, Sequences

CONSTANTS
  TraceDir,      \* contents of the directory: sequences of [header, records, payload]
  EntrySize,     \* sizeof(trace::entry)
  ModuleList,    \* the exported modules: sequence of [name, base, size]
  SymbolRva,     \* per module name: the RVAs of its symbols
  MaxDiskChanges \* bound on module files appearing and disappearing

ASSUME TraceMergeAssumption ==
  /\ EntrySize \in Nat \ {0} /\ MaxDiskChanges \in Nat
  /\ \A d \in TraceDir : \A i \in 1 .. Len(d) :
       /\ d[i].records \in Seq([timestamp : Nat, addr : Nat])
       /\ d[i].payload \div EntrySize = Len(d[i].records)
  /\ \A i \in 1 .. Len(ModuleList) : ModuleList[i].name \in DOMAIN SymbolRva

VARIABLES
  trace_dir,     \* the directory
  streams,       \* opened files, by their place in the directory: [entry_count, cursor]
  min_heap,      \* heap_elem: <<timestamp, stream>>
  merged,        \* lines written: [file, index, timestamp, addr, text]
  m_pe_cache,    \* names of the modules whose PE is loaded
  m_pe_attempted,
  on_disk,       \* names of the modules whose file is there and parses
  disk_changes,
  parser_pc      \* "start", "merge", "done", "failed"

mergeVars == <<trace_dir, streams, min_heap, merged, m_pe_cache, m_pe_attempted, on_disk,
               disk_changes, parser_pc>>

-----------------------------------------------------------------------------
(* open_trace_streams skips what has no valid header or no whole record. *)
entry_count(f) == f.payload \div EntrySize

Opens(f) == f.header = "ok" /\ entry_count(f) > 0

open_trace_streams(dir) ==
  [f \in {i \in 1 .. Len(dir) : Opens(dir[i])} |-> [entry_count |-> entry_count(dir[f]), cursor |-> 0]]

stream_done(s) == s.cursor >= s.entry_count
current(f, s) == trace_dir[f].records[s.cursor + 1]

(* get_or_load_pe: whether the module's PE is available, and the cache and *)
(* the attempts it leaves.                                                 *)
get_or_load_pe_again(name) ==
  LET load == name \in on_disk
  IN  [pe |-> name \in m_pe_cache \/ load,
       cache |-> IF load THEN m_pe_cache \cup {name} ELSE m_pe_cache,
       attempted |-> m_pe_attempted \cup {name}]

get_or_load_pe(name) ==
  LET load == name \notin m_pe_cache /\ name \notin m_pe_attempted /\ name \in on_disk
  IN  [pe |-> name \in m_pe_cache \/ load,
       cache |-> IF load THEN m_pe_cache \cup {name} ELSE m_pe_cache,
       attempted |-> IF name \in m_pe_cache THEN m_pe_attempted ELSE m_pe_attempted \cup {name}]

(* get_closest_symbol: the last symbol at or below the RVA, -1 if none. *)
get_closest_symbol(name, rva) ==
  LET below == {s \in SymbolRva[name] : s <= rva}
  IN  IF below = {} THEN -1 ELSE CHOOSE s \in below : \A t \in below : t <= s

(* resolve_address: [text, cache, attempted].  The text is the module with *)
(* a symbol, a section (-2) or nothing (-1), and the offset from it.       *)
resolve_address(addr) ==
  LET in == {i \in 1 .. Len(ModuleList) :
               addr \in ModuleList[i].base .. (ModuleList[i].base + ModuleList[i].size - 1)}
      m == ModuleList[CHOOSE i \in in : \A j \in in : i <= j]
      rva == addr - m.base
      r == get_or_load_pe(m.name)
      sym == get_closest_symbol(m.name, rva)
      text == CASE ~r.pe -> <<m.name, -1, rva>>
                [] r.pe /\ sym >= 0 -> <<m.name, sym, rva - sym>>
                [] OTHER -> <<m.name, -2, rva>>
  IN  IF in = {} THEN [text |-> <<"raw", -1, addr>>, cache |-> m_pe_cache, attempted |-> m_pe_attempted]
      ELSE IF rva = 0 THEN [text |-> <<m.name, -1, 0>>, cache |-> m_pe_cache, attempted |-> m_pe_attempted]
      ELSE [text |-> text, cache |-> r.cache, attempted |-> r.attempted]

-----------------------------------------------------------------------------
MergeInit ==
  /\ trace_dir \in TraceDir
  /\ streams = <<>> /\ min_heap = {} /\ merged = <<>>
  /\ m_pe_cache = {} /\ m_pe_attempted = {}
  /\ on_disk \in SUBSET {ModuleList[i].name : i \in 1 .. Len(ModuleList)}
  /\ disk_changes = 0
  /\ parser_pc = "start"

(* run: the module list, the configuration and the streams; then the first *)
(* record of each stream enters the heap.                                  *)
run(modules_ok, output_ok) ==
  /\ parser_pc = "start"
  /\ LET opened == open_trace_streams(trace_dir)
     IN  IF ~modules_ok \/ DOMAIN opened = {} \/ ~output_ok
         THEN parser_pc' = "failed" /\ UNCHANGED <<streams, min_heap>>
         ELSE /\ parser_pc' = "merge"
              /\ streams' = opened
              /\ min_heap' = {<<current(f, opened[f]).timestamp, f>> : f \in DOMAIN opened}
  /\ UNCHANGED <<trace_dir, merged, m_pe_cache, m_pe_attempted, on_disk, disk_changes>>

(* One turn of merge_format_write; the heap leaves ties open. *)
merge_format_write(top) ==
  /\ parser_pc = "merge"
  /\ top \in min_heap /\ \A e \in min_heap : top[1] <= e[1]
  /\ LET f == top[2]
         s == streams[f]
         r == current(f, s)
         name == resolve_address(r.addr)
         next == [s EXCEPT !.cursor = @ + 1]
     IN  /\ merged' = Append(merged, [file |-> f, index |-> s.cursor + 1, timestamp |-> r.timestamp,
                                      addr |-> r.addr, text |-> name.text])
         /\ streams' = [streams EXCEPT ![f] = next]
         /\ min_heap' = (min_heap \ {top}) \cup
                          (IF stream_done(next) THEN {} ELSE {<<current(f, next).timestamp, f>>})
         /\ m_pe_cache' = name.cache /\ m_pe_attempted' = name.attempted
  /\ UNCHANGED <<trace_dir, on_disk, disk_changes, parser_pc>>

(* The heap is empty; the last write may have failed. *)
MergeEnds(out_good) ==
  /\ parser_pc = "merge" /\ min_heap = {}
  /\ parser_pc' = IF out_good THEN "done" ELSE "failed"
  /\ UNCHANGED <<trace_dir, streams, min_heap, merged, m_pe_cache, m_pe_attempted, on_disk, disk_changes>>

(* A module's file appears on the disk or goes away; external. *)
DiskChanges(name) ==
  /\ parser_pc = "merge" /\ disk_changes < MaxDiskChanges
  /\ on_disk' = IF name \in on_disk THEN on_disk \ {name} ELSE on_disk \cup {name}
  /\ disk_changes' = disk_changes + 1
  /\ UNCHANGED <<trace_dir, streams, min_heap, merged, m_pe_cache, m_pe_attempted, parser_pc>>

MergeNext ==
  \/ \E modules_ok \in BOOLEAN, output_ok \in BOOLEAN : run(modules_ok, output_ok)
  \/ \E top \in min_heap : merge_format_write(top)
  \/ \E out_good \in BOOLEAN : MergeEnds(out_good)
  \/ \E name \in {ModuleList[i].name : i \in 1 .. Len(ModuleList)} : DiskChanges(name)

-----------------------------------------------------------------------------
(* The merged log of files that are each in time order (what TraceSession  *)
(* writes): its lines are in time order across the cores, each record of a *)
(* readable file has at most one line and, when the parser reports success,*)
(* exactly one, a record the trace was cut off in none; and an address is  *)
(* named alike on every line, though its module's file may come or go.     *)
MergeCorrect ==
  LET sorted(q) == \A i \in 1 .. Len(q), j \in 1 .. Len(q) : i < j => q[i].timestamp <= q[j].timestamp
      whole == UNION {{<<f, i>> : i \in 1 .. Len(trace_dir[f].records)} :
                        f \in {g \in 1 .. Len(trace_dir) : trace_dir[g].header = "ok"}}
  IN  /\ (\A f \in 1 .. Len(trace_dir) : sorted(trace_dir[f].records)) => sorted(merged)
      /\ \A i \in 1 .. Len(merged), j \in 1 .. Len(merged) :
           /\ i # j => <<merged[i].file, merged[i].index>> # <<merged[j].file, merged[j].index>>
           /\ merged[i].addr = merged[j].addr => merged[i].text = merged[j].text
      /\ {<<merged[i].file, merged[i].index>> : i \in 1 .. Len(merged)} \subseteq whole
      /\ parser_pc = "done" => Len(merged) >= 1 /\ \A w \in whole : \E i \in 1 .. Len(merged) :
                                  <<merged[i].file, merged[i].index>> = w
=============================================================================
