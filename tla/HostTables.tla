----------------------------- MODULE HostTables -----------------------------
(***************************************************************************)
(* The host's page tables of revhv-km/memory.cpp: map_va_range_to_host     *)
(* copies the system's entries for the driver's image and for each pool it *)
(* allocates, entry by entry, allocating tables as it goes.                *)
(*                                                                         *)
(* An address is a page number.  A directory entry covers DirPages pages,  *)
(* a pointer-table entry PtrPages, and the step after a large pointer      *)
(* entry SkipPages (4 GB in the code).                                     *)
(***************************************************************************)
EXTENDS Integers

CONSTANTS
  VaPages,                        \* number of pages of the address range
  DirPages, PtrPages, SkipPages,  \* 2 MB, 1 GB and 4 GB, in pages
  SystemPtr,     \* pointer-table index -> frame of a 1 GB page, or -1 (none), -2 (table)
  SystemDir,     \* directory index -> frame of a 2 MB page, or -1, -2
  SystemPte,     \* page -> frame, or -1
  MapRange,      \* the ranges mapped: <<first, last>>
  MaxMaps        \* bound: ranges mapped in a behaviour

ASSUME TableAssumption ==
  /\ {DirPages, PtrPages, SkipPages} \subseteq Nat \ {0}
  /\ PtrPages % DirPages = 0 /\ SkipPages % PtrPages = 0
  /\ VaPages \in Nat
  /\ SystemPtr \in [DOMAIN SystemPtr -> Int] /\ SystemDir \in [DOMAIN SystemDir -> Int]
  /\ SystemPte \in [0 .. VaPages - 1 -> Int]
  /\ \A p \in 0 .. VaPages - 1 : p \div PtrPages \in DOMAIN SystemPtr /\ p \div DirPages \in DOMAIN SystemDir
  /\ MapRange \subseteq (0 .. VaPages - 1) \X (0 .. VaPages - 1)
  /\ MaxMaps \in Nat

NONE == -1
TABLE == -2

VARIABLES
  host_ptr, host_dir, host_pte, \* the host's entries, as the system's
  map_range, map_at,            \* the range being mapped, and current_address
  map_done,                     \* ranges map_va_range_to_host reported as mapped
  maps                          \* counter for the bound

tableVars == <<host_ptr, host_dir, host_pte, map_range, map_at, map_done, maps>>

Ptr(p) == p \div PtrPages
Dir(p) == p \div DirPages
NoRange == <<>>
Large(e) == e >= 0

TablesInit ==
  /\ host_ptr = [i \in DOMAIN SystemPtr |-> NONE]
  /\ host_dir = [i \in DOMAIN SystemDir |-> NONE]
  /\ host_pte = [p \in 0 .. VaPages - 1 |-> NONE]
  /\ map_range = NoRange /\ map_at = 0 /\ map_done = {} /\ maps = 0

(* get_system_pte_for_va: the level of the entry that maps the page. *)
get_system_pte_for_va(p) ==
  CASE Large(SystemPtr[Ptr(p)]) -> "pdpte"
    [] SystemPtr[Ptr(p)] = TABLE /\ Large(SystemDir[Dir(p)]) -> "pde"
    [] SystemPtr[Ptr(p)] = TABLE /\ SystemDir[Dir(p)] = TABLE /\ SystemPte[p] # NONE -> "pte"
    [] OTHER -> "none"

-----------------------------------------------------------------------------
MapBegin ==
  /\ map_range = NoRange /\ maps < MaxMaps
  /\ \E r \in MapRange : map_range' = r /\ map_at' = r[1]
  /\ maps' = maps + 1
  /\ UNCHANGED <<host_ptr, host_dir, host_pte, map_done>>

MapIn(level) ==
  map_range # NoRange /\ map_at <= map_range[2] /\ get_system_pte_for_va(map_at) = level

Advance(size) == map_at' = (map_at \div size) * size + size
Allocated(e) == IF e = NONE THEN TABLE ELSE e

map_1gb_page ==
  /\ MapIn("pdpte")
  /\ host_ptr' = [host_ptr EXCEPT ![Ptr(map_at)] = SystemPtr[Ptr(map_at)]]
  /\ Advance(SkipPages)
  /\ UNCHANGED <<host_dir, host_pte, map_range, map_done, maps>>

map_2mb_page ==
  /\ MapIn("pde")
  /\ host_ptr' = [host_ptr EXCEPT ![Ptr(map_at)] = Allocated(@)]
  /\ host_dir' = [host_dir EXCEPT ![Dir(map_at)] = SystemDir[Dir(map_at)]]
  /\ Advance(DirPages)
  /\ UNCHANGED <<host_pte, map_range, map_done, maps>>

map_4kb_page_overstep ==
  /\ MapIn("pte")
  /\ host_ptr' = [host_ptr EXCEPT ![Ptr(map_at)] = Allocated(@)]
  /\ host_dir' = [host_dir EXCEPT ![Dir(map_at)] = Allocated(@)]
  /\ host_pte' = [host_pte EXCEPT ![map_at] = SystemPte[map_at]]
  /\ Advance(DirPages)
  /\ UNCHANGED <<map_range, map_done, maps>>
map_4kb_page ==
  /\ MapIn("pte")
  /\ host_ptr' = [host_ptr EXCEPT ![Ptr(map_at)] = Allocated(@)]
  /\ host_dir' = [host_dir EXCEPT ![Dir(map_at)] = Allocated(@)]
  /\ host_pte' = [host_pte EXCEPT ![map_at] = SystemPte[map_at]]
  /\ Advance(1)
  /\ UNCHANGED <<map_range, map_done, maps>>

(* The system does not map the address, or a table cannot be allocated or  *)
(* found: what was mapped stays, and allocate_map_nx_pool frees the pool.  *)
MapFails ==
  /\ map_range # NoRange /\ map_at <= map_range[2]
  /\ map_range' = NoRange /\ map_at' = 0
  /\ UNCHANGED <<host_ptr, host_dir, host_pte, map_done, maps>>

MapEnd ==
  /\ map_range # NoRange /\ map_at > map_range[2]
  /\ map_done' = map_done \cup {map_range}
  /\ map_range' = NoRange /\ map_at' = 0
  /\ UNCHANGED <<host_ptr, host_dir, host_pte, maps>>

TablesNext == MapBegin \/ map_1gb_page \/ map_2mb_page \/ map_4kb_page \/ MapFails \/ MapEnd

-----------------------------------------------------------------------------
(* Properties.                                                             *)

(* The frame a page translates to, through the processor's walk. *)
Translate(ptr, dir, pte, p) ==
  CASE Large(ptr[Ptr(p)]) -> ptr[Ptr(p)] + (p % PtrPages)
    [] ptr[Ptr(p)] = TABLE /\ Large(dir[Dir(p)]) -> dir[Dir(p)] + (p % DirPages)
    [] ptr[Ptr(p)] = TABLE /\ dir[Dir(p)] = TABLE -> pte[p]
    [] OTHER -> NONE

HostTranslate(p) == Translate(host_ptr, host_dir, host_pte, p)
SystemTranslate(p) == Translate(SystemPtr, SystemDir, SystemPte, p)

(* The host never translates an address otherwise than the system does, at  *)
(* any point of a mapping and after one that failed half-way; and a range   *)
(* reported as mapped is mapped throughout (map_va_range_to_host), except   *)
(* for what follows a 1 GB page, where the walk advances by 4 GB.           *)
HostMapAgrees ==
  /\ \A p \in 0 .. VaPages - 1 : HostTranslate(p) \in {NONE, SystemTranslate(p)}
  /\ \A r \in map_done : \A p \in r[1] .. r[2] :
       \/ HostTranslate(p) # NONE
       \/ \E q \in r[1] .. p - 1 : Large(SystemPtr[Ptr(q)]) /\ Ptr(q) # Ptr(p)
=============================================================================
