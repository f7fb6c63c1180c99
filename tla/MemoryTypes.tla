---------------------------- MODULE MemoryTypes -----------------------------
(***************************************************************************)
(* The memory types of revhv-km/memory.cpp: the MTRRs as read_mtrrs caches *)
(* them on one vCPU, and the type get_mtrr_range_memory_type gives a range *)
(* of pages that ept.cpp maps with one entry.                              *)
(*                                                                         *)
(* An address is a page number.  A variable range is its base and its size *)
(* (a power of two): its mask keeps the bits above the size.               *)
(***************************************************************************)
EXTENDS Integers, FiniteSets

CONSTANTS
  MtrrPages,     \* number of pages
  FixedPages,    \* number of pages below 1 MB, each with a fixed-range type of its own
  MemType,       \* memory types, with "UC", "WT" and "WB"
  PhysBase,      \* values of a PHYSBASE register: [base, type]
  PhysMask,      \* values of a PHYSMASK register: [valid, size]
  VariableCount  \* number of variable ranges

ASSUME MtrrAssumption ==
  /\ MtrrPages \in Nat \ {0} /\ FixedPages \in 0 .. MtrrPages
  /\ {"UC", "WT", "WB"} \subseteq MemType /\ "invalid" \notin MemType
  /\ \A b \in PhysBase : b.base \in Nat /\ b.type \in MemType
  /\ \A k \in PhysMask : k.valid \in BOOLEAN /\ k.size \in Nat \ {0}
  /\ VariableCount \in Nat

VARIABLES
  mtrr_msrs,     \* the processor's registers: [enable, fixed_enable, def, fixed, base, mask]
  mtrr_state,    \* vcpu->mtrr_state
  range_query    \* the range asked for: [first, pages, type, uniform]

mtrrVars == <<mtrr_msrs, mtrr_state, range_query>>

NoQuery == [first |-> 0, pages |-> 0, type |-> "UC", uniform |-> TRUE]

-----------------------------------------------------------------------------
(* read_mtrrs reads nothing but the default register when MTRRs are off,   *)
(* and the fixed ranges only when they are on.                             *)
ClearBase == [base |-> 0, type |-> "UC"]
ClearMask == [valid |-> FALSE, size |-> 1]

read_mtrrs(m) ==
  [m EXCEPT !.fixed = IF m.enable /\ m.fixed_enable THEN @ ELSE [p \in DOMAIN @ |-> "UC"],
            !.base = IF m.enable THEN @ ELSE [k \in DOMAIN @ |-> ClearBase],
            !.mask = IF m.enable THEN @ ELSE [k \in DOMAIN @ |-> ClearMask]]

Matches(s, k, p) ==
  s.mask[k].valid /\ p \div s.mask[k].size = s.base[k].base \div s.mask[k].size

(* The overlap rules of 13.11.4.1, as both loops apply them. *)
Combine(t, u) ==
  CASE t = "UC" \/ u = "UC" -> "UC"
    [] {t, u} = {"WT", "WB"} -> "WT"
    [] OTHER -> "UC"

(* The loop over the variable ranges. *)
VariableType(s, p) ==
  LET upto[k \in 0 .. VariableCount] ==
        CASE k = 0 -> "invalid"
          [] k > 0 /\ ~Matches(s, k, p) -> upto[k - 1]
          [] OTHER -> IF upto[k - 1] = "invalid" THEN s.base[k].type
                      ELSE Combine(s.base[k].type, upto[k - 1])
  IN upto[VariableCount]

get_mtrr_memory_type_single(s, p) ==
  IF ~s.enable THEN "UC"
  ELSE IF p < FixedPages /\ s.fixed_enable THEN s.fixed[p]
  ELSE LET t == VariableType(s, p) IN IF t # "invalid" THEN t ELSE s.def

(* The walk over the pages of the range; a page whose type differs from the *)
(* result so far makes the range mixed.                                     *)
get_mtrr_range_memory_type_last(s, first, pages) ==
  [first |-> first, pages |-> pages,
   type |-> get_mtrr_memory_type_single(s, first + pages - 1), uniform |-> TRUE]
get_mtrr_range_memory_type(s, first, pages) ==
  LET walk[n \in 1 .. pages] ==
        LET t == get_mtrr_memory_type_single(s, first + n - 1)
        IN IF n = 1 THEN [type |-> t, uniform |-> TRUE]
           ELSE IF t = walk[n - 1].type THEN walk[n - 1]
           ELSE [type |-> Combine(t, walk[n - 1].type), uniform |-> FALSE]
  IN [first |-> first, pages |-> pages, type |-> walk[pages].type, uniform |-> walk[pages].uniform]

-----------------------------------------------------------------------------
MtrrInit ==
  /\ mtrr_msrs = [enable |-> FALSE, fixed_enable |-> FALSE, def |-> "UC",
                  fixed |-> [p \in 0 .. FixedPages - 1 |-> "UC"],
                  base |-> [k \in 1 .. VariableCount |-> ClearBase],
                  mask |-> [k \in 1 .. VariableCount |-> ClearMask]]
  /\ mtrr_state = read_mtrrs(mtrr_msrs)
  /\ range_query = NoQuery

(* A guest's write to one MTRR: handle_wrmsr executes it and reads all again. *)
handle_wrmsr ==
  /\ range_query = NoQuery
  /\ \/ \E e, f \in BOOLEAN, t \in MemType :
          mtrr_msrs' = [mtrr_msrs EXCEPT !.enable = e, !.fixed_enable = f, !.def = t]
     \/ \E p \in 0 .. FixedPages - 1, t \in MemType :
          mtrr_msrs' = [mtrr_msrs EXCEPT !.fixed[p] = t]
     \/ \E k \in 1 .. VariableCount :
          \/ \E b \in PhysBase : mtrr_msrs' = [mtrr_msrs EXCEPT !.base[k] = b]
          \/ \E m \in PhysMask : mtrr_msrs' = [mtrr_msrs EXCEPT !.mask[k] = m]
  /\ mtrr_state' = read_mtrrs(mtrr_msrs')
  /\ UNCHANGED range_query

QueryRange ==
  /\ range_query = NoQuery
  /\ \E first \in 0 .. MtrrPages - 1 : \E pages \in 1 .. MtrrPages - first :
       range_query' = get_mtrr_range_memory_type(mtrr_state, first, pages)
  /\ UNCHANGED <<mtrr_msrs, mtrr_state>>

(* The caller in ept.cpp has used the type. *)
QueryDone ==
  /\ range_query # NoQuery
  /\ range_query' = NoQuery
  /\ UNCHANGED <<mtrr_msrs, mtrr_state>>

MtrrNext == handle_wrmsr \/ QueryRange \/ QueryDone

-----------------------------------------------------------------------------
(* Properties.                                                             *)

(* The types the architecture may use for a page: all of them where the     *)
(* overlap of variable ranges is undefined.                                 *)
ArchTypes(m, p) ==
  LET overlap == {m.base[k].type : k \in {j \in 1 .. VariableCount : Matches(m, j, p)}}
  IN IF ~m.enable THEN {"UC"}
     ELSE IF p < FixedPages /\ m.fixed_enable THEN {m.fixed[p]}
     ELSE IF overlap = {} THEN {m.def}
     ELSE IF Cardinality(overlap) = 1 THEN overlap
     ELSE IF "UC" \in overlap THEN {"UC"}
     ELSE IF overlap = {"WT", "WB"} THEN {"WT"}
     ELSE MemType

(* The type a range gets in the EPT never caches a page more than its MTRRs *)
(* allow: it is UC, or every page's own type, or WT over pages that are WT  *)
(* or WB; and a range reported uniform has one type throughout              *)
(* (get_mtrr_range_memory_type, get_mtrr_memory_type_single).               *)
NeverWeaker ==
  LET q == range_query
      types(p) == ArchTypes(mtrr_msrs, p)
      range == q.first .. q.first + q.pages - 1
  IN /\ \/ q.type = "UC"
        \/ \A p \in range : q.type \in types(p)
        \/ q.type = "WT" /\ \A p \in range : types(p) \cap {"WT", "WB"} # {}
     /\ q.uniform /\ q.type # "UC" => \A p \in range : q.type \in types(p)
=============================================================================
