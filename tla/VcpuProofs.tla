----------------------------- MODULE VcpuProofs -----------------------------
(***************************************************************************)
(* What a guest can observe of one vCPU, for every set of instructions,    *)
(* every choice of the bits VMX fixes and every cost of an exit: VM-entry  *)
(* never fails and the instructions behave as on a bare processor          *)
(* (GuestCpu), the time-stamp counter never runs backwards (TscHiding),    *)
(* and memory is never cached more than the MTRRs allow (MemoryTypes).     *)
(***************************************************************************)
EXTENDS GuestCpu, TscHiding, MemoryTypes, FiniteSetTheorems, WellFoundedInduction, TLAPS

-----------------------------------------------------------------------------
(* MemoryTypes.                                                            *)

(* A set of naturals has a least element: of the turns of a loop that break *)
(* a claim, one is the first.                                               *)
LEMMA LeastNat ==
  ASSUME NEW T \in SUBSET Nat, T # {}
  PROVE  \E x \in T : \A y \in T : x <= y
<1>1. PICK x \in T : \A y \in T : ~ (<<y, x>> \in OpToRel(<, Nat))
  BY NatLessThanWellFounded, WFMin, Zenon
<1>2. \A y \in T : ~ (y < x)
  BY <1>1 DEF OpToRel
<1> QED
  BY <1>2

(* One turn of the loop over the variable ranges. *)
LoopTurn(s, p, upto, k) ==
  CASE k = 0 -> "invalid"
    [] k > 0 /\ ~Matches(s, k, p) -> upto[k - 1]
    [] OTHER -> IF upto[k - 1] = "invalid" THEN s.base[k].type
                ELSE Combine(s.base[k].type, upto[k - 1])

IsLoop(s, p, n, upto) == upto = [k \in 0 .. n |-> LoopTurn(s, p, upto, k)]

(* The loop has a run of every length: a run that is one turn shorter can be *)
(* continued.                                                               *)
LEMMA LoopExists ==
  ASSUME NEW s, NEW p, NEW n \in Nat
  PROVE  \E upto : IsLoop(s, p, n, upto)
<1> DEFINE T == {k \in Nat : ~ \E upto : IsLoop(s, p, k, upto)}
<1> SUFFICES ASSUME T # {} PROVE FALSE
  OBVIOUS
<1>1. PICK k \in T : \A j \in T : k <= j
  BY LeastNat
<1>2. CASE k = 0
  <2> DEFINE g == [j \in 0 .. 0 |-> "invalid"]
  <2>1. \A j \in 0 .. 0 : LoopTurn(s, p, g, j) = "invalid"
    BY DEF LoopTurn
  <2>2. IsLoop(s, p, 0, g)
    BY <2>1 DEF IsLoop
  <2> QED BY <1>1, <1>2, <2>2
<1>3. CASE k > 0
  <2>1. k - 1 \in Nat /\ k - 1 \notin T
    BY <1>1, <1>3
  <2>2. PICK f : IsLoop(s, p, k - 1, f)
    BY <2>1
  <2> DEFINE g == [j \in 0 .. k |-> IF j = k THEN LoopTurn(s, p, f, k) ELSE f[j]]
  <2>3. ASSUME NEW j \in 0 .. k, j > 0 PROVE g[j - 1] = f[j - 1]
    BY <2>3
  <2>4. ASSUME NEW j \in 0 .. k PROVE LoopTurn(s, p, g, j) = LoopTurn(s, p, f, j)
    <3> HIDE DEF g
    <3>1. CASE j = 0 BY <3>1 DEF LoopTurn
    <3>2. CASE j > 0
      <4>1. g[j - 1] = f[j - 1] BY <2>3, <3>2
      <4> QED BY <4>1, <3>2 DEF LoopTurn
    <3> QED BY <3>1, <3>2
  <2>5. ASSUME NEW j \in 0 .. k PROVE g[j] = LoopTurn(s, p, g, j)
    <3>1. CASE j = k BY <3>1, <2>4
    <3>2. CASE j # k
      <4>1. g[j] = f[j] /\ j \in 0 .. k - 1 BY <3>2
      <4>2. f[j] = LoopTurn(s, p, f, j)
        <5> HIDE DEF g
        <5> QED BY <4>1, <2>2 DEF IsLoop
      <4> QED BY <4>1, <4>2, <2>4
    <3> QED BY <3>1, <3>2
  <2>6. g = [j \in 0 .. k |-> LoopTurn(s, p, g, j)]
    <3>1. g = [j \in 0 .. k |-> g[j]] OBVIOUS
    <3> HIDE DEF g
    <3> QED BY <3>1, <2>5
  <2> QED BY <2>6, <1>1 DEF IsLoop
<1> QED BY <1>1, <1>2, <1>3

(* VariableType is the last value of that run. *)
LEMMA LoopIs ==
  ASSUME NEW s, NEW p
  PROVE  \E upto : IsLoop(s, p, VariableCount, upto) /\ VariableType(s, p) = upto[VariableCount]
<1>1. \E upto : IsLoop(s, p, VariableCount, upto)
  BY LoopExists, MtrrAssumption
<1> DEFINE u == CHOOSE upto : IsLoop(s, p, VariableCount, upto)
<1>2. IsLoop(s, p, VariableCount, u)
  BY <1>1
<1>3. VariableType(s, p) = u[VariableCount]
  BY DEF VariableType, IsLoop, LoopTurn
<1> QED BY <1>2, <1>3

(* The types of the variable ranges up to k that match a page. *)
Overlap(s, p, k) == {s.base[j].type : j \in {i \in 1 .. k : Matches(s, i, p)}}

(* What the loop may say of a set of overlapping types. *)
Combined(t, O) == t = "UC" \/ O = {t} \/ (t = "WT" /\ O = {"WT", "WB"})

(* Combine keeps to these when one more range matches. *)
LEMMA CombineTypes ==
  ASSUME NEW t \in MemType, NEW u \in MemType, NEW O, Combined(u, O)
  PROVE  Combine(t, u) \in MemType /\ Combined(Combine(t, u), O \cup {t})
<1>1. Combine(t, u) = IF {t, u} = {"WT", "WB"} THEN "WT" ELSE "UC"
  BY DEF Combine
<1>2. CASE {t, u} = {"WT", "WB"}
  BY <1>1, <1>2, MtrrAssumption DEF Combined
<1> QED BY <1>1, <1>2, MtrrAssumption DEF Combined

(* What the registers hold. *)
Msrs ==
  [enable : BOOLEAN, fixed_enable : BOOLEAN, def : MemType,
   fixed : [0 .. FixedPages - 1 -> MemType],
   base : [1 .. VariableCount -> PhysBase \cup {ClearBase}],
   mask : [1 .. VariableCount -> PhysMask \cup {ClearMask}]]

(* The loop over the variable ranges: "invalid" when none matches, and      *)
(* otherwise what the overlap rules allow or UC.                            *)
LEMMA VariableTypeIs ==
  ASSUME NEW s, NEW p, \A k \in 1 .. VariableCount : s.base[k].type \in MemType
  PROVE  LET O == Overlap(s, p, VariableCount)
             t == VariableType(s, p)
         IN  IF O = {} THEN t = "invalid" ELSE t \in MemType /\ Combined(t, O)
<1>1. PICK upto : IsLoop(s, p, VariableCount, upto) /\ VariableType(s, p) = upto[VariableCount]
  BY LoopIs
<1> DEFINE Good(k) == IF Overlap(s, p, k) = {} THEN upto[k] = "invalid"
                      ELSE upto[k] \in MemType /\ Combined(upto[k], Overlap(s, p, k))
           T == {k \in 0 .. VariableCount : ~Good(k)}
<1>2. T \in SUBSET Nat /\ VariableCount \in Nat
  BY MtrrAssumption
<1>3. SUFFICES ASSUME T # {} PROVE FALSE
  <2>1. VariableCount \in 0 .. VariableCount
    BY <1>2
  <2>2. Good(VariableCount)
    BY <1>3, <2>1
  <2> QED
    BY <1>1, <2>2
<1>4. PICK k \in T : \A j \in T : k <= j
  BY <1>2, <1>3, LeastNat
<1>5. k \in 0 .. VariableCount /\ ~Good(k)
  BY <1>4
<1>6. upto[k] = LoopTurn(s, p, upto, k)
  BY <1>1, <1>5 DEF IsLoop
<1>7. CASE k = 0
  <2>1. Overlap(s, p, 0) = {}
    BY DEF Overlap
  <2>2. upto[k] = "invalid"
    BY <1>6, <1>7 DEF LoopTurn
  <2> QED
    BY <1>5, <1>7, <2>1, <2>2
<1>8. CASE k > 0
  <2>1. k \in 1 .. VariableCount /\ k - 1 \in 0 .. VariableCount
    BY <1>5, <1>8, <1>2
  <2>2. Good(k - 1)
    <3>1. k - 1 \notin T
      BY <1>4, <2>1
    <3> QED
      BY <3>1, <2>1
  <2>3. CASE ~Matches(s, k, p)
    <3>1. Overlap(s, p, k) = Overlap(s, p, k - 1)
      <4>1. {i \in 1 .. k : Matches(s, i, p)} = {i \in 1 .. k - 1 : Matches(s, i, p)}
        BY <2>1, <2>3
      <4> QED
        BY <4>1 DEF Overlap
    <3>2. upto[k] = upto[k - 1]
      <4>1. k # 0
        BY <1>8
      <4> QED
        BY <4>1, <1>6, <1>8, <2>3, Zenon DEF LoopTurn
    <3> QED
      BY <3>1, <3>2, <2>2, <1>5
  <2>4. CASE Matches(s, k, p)
    <3>1. Overlap(s, p, k) = Overlap(s, p, k - 1) \cup {s.base[k].type}
      <4>1. {i \in 1 .. k : Matches(s, i, p)} = {i \in 1 .. k - 1 : Matches(s, i, p)} \cup {k}
        BY <2>1, <2>4
      <4> QED
        BY <4>1 DEF Overlap
    <3>2. upto[k] = IF upto[k - 1] = "invalid" THEN s.base[k].type
                    ELSE Combine(s.base[k].type, upto[k - 1])
      <4>1. k # 0
        BY <1>8
      <4> QED
        BY <4>1, <1>6, <1>8, <2>4, Zenon DEF LoopTurn
    <3>3. s.base[k].type \in MemType
      BY <2>1
    <3>4. CASE Overlap(s, p, k - 1) = {}
      BY <3>1, <3>2, <3>3, <3>4, <2>2, <1>5 DEF Combined
    <3>5. CASE Overlap(s, p, k - 1) # {}
      <4>1. upto[k - 1] \in MemType /\ Combined(upto[k - 1], Overlap(s, p, k - 1))
        BY <3>5, <2>2
      <4>2. upto[k - 1] # "invalid"
        BY <4>1, MtrrAssumption
      <4>3. upto[k] \in MemType /\ Combined(upto[k], Overlap(s, p, k))
        BY <4>1, <4>2, <3>1, <3>2, <3>3, CombineTypes
      <4>4. Overlap(s, p, k) # {}
        BY <3>1
      <4> QED
        BY <4>3, <4>4, <1>5
    <3> QED
      BY <3>4, <3>5
  <2> QED
    BY <2>3, <2>4
<1> QED
  BY <1>5, <1>7, <1>8, <1>2

(* The type of one page is UC or one the architecture may use for it. *)
LEMMA SingleType ==
  ASSUME NEW m \in Msrs, NEW p \in Nat
  PROVE  LET t == get_mtrr_memory_type_single(read_mtrrs(m), p)
         IN  t = "UC" \/ t \in ArchTypes(m, p)
<1> DEFINE s == read_mtrrs(m)
           t == get_mtrr_memory_type_single(s, p)
           O == Overlap(m, p, VariableCount)
<1>1. /\ s.enable = m.enable /\ s.fixed_enable = m.fixed_enable /\ s.def = m.def
      /\ m.enable => s.base = m.base /\ s.mask = m.mask
      /\ m.enable /\ m.fixed_enable => s.fixed = m.fixed
  BY DEF read_mtrrs, Msrs
<1>2. m.enable \in BOOLEAN /\ m.fixed_enable \in BOOLEAN
  BY DEF Msrs
<1>3. \A k \in 1 .. VariableCount : m.base[k].type \in MemType
  <2>1. \A b \in PhysBase \cup {ClearBase} : b.type \in MemType
    BY MtrrAssumption DEF ClearBase
  <2> QED
    BY <2>1 DEF Msrs
<1> SUFFICES t = "UC" \/ t \in ArchTypes(m, p)
  OBVIOUS
<1> HIDE DEF s
<1>4. CASE ~m.enable
  BY <1>1, <1>4 DEF get_mtrr_memory_type_single
<1>5. CASE m.enable /\ p < FixedPages /\ m.fixed_enable
  <2>1. t = m.fixed[p]
    BY <1>1, <1>5 DEF get_mtrr_memory_type_single
  <2>2. ArchTypes(m, p) = {m.fixed[p]}
    BY <1>5 DEF ArchTypes
  <2> QED
    BY <2>1, <2>2
<1>6. CASE m.enable /\ ~(p < FixedPages /\ m.fixed_enable)
  <2>1. ArchTypes(m, p) = IF O = {} THEN {m.def}
                          ELSE IF Cardinality(O) = 1 THEN O
                          ELSE IF "UC" \in O THEN {"UC"}
                          ELSE IF O = {"WT", "WB"} THEN {"WT"} ELSE MemType
    BY <1>6 DEF ArchTypes, Overlap
  <2>2. \A k : Matches(s, k, p) = Matches(m, k, p)
    BY <1>1, <1>6 DEF Matches
  <2>3. Overlap(s, p, VariableCount) = O
    BY <2>2, <1>1, <1>6 DEF Overlap
  <2>4. t = IF VariableType(s, p) # "invalid" THEN VariableType(s, p) ELSE m.def
    BY <1>1, <1>6 DEF get_mtrr_memory_type_single
  <2>5. IF O = {} THEN VariableType(s, p) = "invalid"
        ELSE VariableType(s, p) \in MemType /\ Combined(VariableType(s, p), O)
    BY <2>3, <1>1, <1>3, <1>6, VariableTypeIs
  <2>6. CASE O = {}
    BY <2>1, <2>4, <2>5, <2>6
  <2>7. CASE O # {}
    <3>1. t \in MemType /\ Combined(t, O)
      BY <2>4, <2>5, <2>7, MtrrAssumption
    <3>2. ASSUME O = {t} PROVE t \in ArchTypes(m, p)
      <4>1. Cardinality(O) = 1
        BY <3>2, FS_Singleton
      <4> QED
        BY <4>1, <3>2, <2>1, <2>7
    <3>3. ASSUME t = "WT", O = {"WT", "WB"} PROVE t \in ArchTypes(m, p)
      BY <3>3, <3>1, <2>1, <2>7
    <3> QED
      BY <3>1, <3>2, <3>3 DEF Combined
  <2> QED
    BY <2>6, <2>7
<1> QED
  BY <1>2, <1>4, <1>5, <1>6

(* One turn of the walk over the pages of a range. *)
WalkTurn(s, first, walk, n) ==
  LET t == get_mtrr_memory_type_single(s, first + n - 1)
  IN IF n = 1 THEN [type |-> t, uniform |-> TRUE]
     ELSE IF t = walk[n - 1].type THEN walk[n - 1]
     ELSE [type |-> Combine(t, walk[n - 1].type), uniform |-> FALSE]

IsWalk(s, first, pages, walk) == walk = [n \in 1 .. pages |-> WalkTurn(s, first, walk, n)]

(* The walk over the pages has a run of every length. *)
LEMMA WalkExists ==
  ASSUME NEW s, NEW first, NEW pages \in Nat
  PROVE  \E walk : IsWalk(s, first, pages, walk)
<1> DEFINE T == {k \in Nat : ~ \E walk : IsWalk(s, first, k, walk)}
<1> SUFFICES ASSUME T # {} PROVE FALSE
  OBVIOUS
<1>1. PICK k \in T : \A j \in T : k <= j
  BY LeastNat
<1>2. k # 0
  <2>1. IsWalk(s, first, 0, <<>>)
    BY DEF IsWalk
  <2> QED
    BY <2>1, <1>1
<1>3. k - 1 \in Nat /\ k - 1 \notin T
  BY <1>1, <1>2
<1>4. PICK f : IsWalk(s, first, k - 1, f)
  BY <1>3
<1> DEFINE g == [j \in 1 .. k |-> IF j = k THEN WalkTurn(s, first, f, k) ELSE f[j]]
<1>5. ASSUME NEW j \in 1 .. k, j # 1 PROVE g[j - 1] = f[j - 1]
  BY <1>5
<1>6. ASSUME NEW j \in 1 .. k PROVE WalkTurn(s, first, g, j) = WalkTurn(s, first, f, j)
  <2> HIDE DEF g
  <2>1. CASE j = 1
    BY <2>1 DEF WalkTurn
  <2>2. CASE j # 1
    BY <1>5, <2>2 DEF WalkTurn
  <2> QED
    BY <2>1, <2>2
<1>7. ASSUME NEW j \in 1 .. k PROVE g[j] = WalkTurn(s, first, g, j)
  <2>1. CASE j = k
    BY <2>1, <1>6
  <2>2. CASE j # k
    <3>1. g[j] = f[j] /\ j \in 1 .. k - 1
      BY <2>2
    <3>2. f[j] = WalkTurn(s, first, f, j)
      <4> HIDE DEF g
      <4> QED
        BY <3>1, <1>4 DEF IsWalk
    <3> QED
      BY <3>1, <3>2, <1>6
  <2> QED
    BY <2>1, <2>2
<1>8. g = [j \in 1 .. k |-> WalkTurn(s, first, g, j)]
  <2>1. g = [j \in 1 .. k |-> g[j]]
    OBVIOUS
  <2> HIDE DEF g
  <2> QED
    BY <2>1, <1>7
<1> QED
  BY <1>8, <1>1 DEF IsWalk

(* What the walk says of the pages it has seen. *)
LEMMA RangeType ==
  ASSUME NEW s, NEW first \in Nat, NEW pages \in Nat \ {0}
  PROVE  LET q == get_mtrr_range_memory_type(s, first, pages)
             T(p) == get_mtrr_memory_type_single(s, p)
             range == first .. first + pages - 1
         IN  /\ q.first = first /\ q.pages = pages
             /\ \/ q.type = "UC"
                \/ \A p \in range : T(p) = q.type
                \/ q.type = "WT" /\ \A p \in range : T(p) \in {"WT", "WB"}
             /\ q.uniform => \A p \in range : T(p) = q.type
<1> DEFINE T(p) == get_mtrr_memory_type_single(s, p)
           q == get_mtrr_range_memory_type(s, first, pages)
           walk == CHOOSE w : IsWalk(s, first, pages, w)
<1>1. q = [first |-> first, pages |-> pages, type |-> walk[pages].type, uniform |-> walk[pages].uniform]
  BY DEF get_mtrr_range_memory_type, IsWalk, WalkTurn
<1>2. IsWalk(s, first, pages, walk)
  BY WalkExists
<1> DEFINE Good(n) ==
      /\ \/ walk[n].type = "UC"
         \/ \A p \in first .. first + n - 1 : T(p) = walk[n].type
         \/ walk[n].type = "WT" /\ \A p \in first .. first + n - 1 : T(p) \in {"WT", "WB"}
      /\ walk[n].uniform => \A p \in first .. first + n - 1 : T(p) = walk[n].type
      Bad == {n \in 1 .. pages : ~Good(n)}
<1> HIDE DEF walk, T
<1>3. SUFFICES ASSUME Bad # {} PROVE FALSE
  <2>1. Good(pages)
    BY <1>3
  <2> QED
    BY <1>1, <2>1 DEF T
<1>4. PICK n \in Bad : \A j \in Bad : n <= j
  <2>1. Bad \in SUBSET Nat
    OBVIOUS
  <2> QED
    BY <2>1, <1>3, LeastNat
<1>5. n \in 1 .. pages /\ ~Good(n)
  BY <1>4
<1>6. walk[n] = IF n = 1 THEN [type |-> T(first + n - 1), uniform |-> TRUE]
                ELSE IF T(first + n - 1) = walk[n - 1].type THEN walk[n - 1]
                ELSE [type |-> Combine(T(first + n - 1), walk[n - 1].type), uniform |-> FALSE]
  BY <1>2, <1>5 DEF IsWalk, WalkTurn, T
<1>7. CASE n = 1
  <2>1. \A p \in first .. first + n - 1 : p = first + n - 1
    BY <1>7
  <2>2. walk[n] = [type |-> T(first + n - 1), uniform |-> TRUE]
    BY <1>6, <1>7
  <2> QED
    BY <2>1, <2>2, <1>5
<1>8. CASE n # 1
  <2>1. n - 1 \in 1 .. pages /\ n - 1 \notin Bad
    BY <1>4, <1>5, <1>8
  <2>2. Good(n - 1)
    BY <2>1
  <2>3. \A p \in first .. first + n - 1 : p = first + n - 1 \/ p \in first .. first + (n - 1) - 1
    BY <1>5
  <2>4. CASE T(first + n - 1) = walk[n - 1].type
    <3>1. walk[n] = walk[n - 1]
      BY <1>6, <1>8, <2>4
    <3> QED
      BY <3>1, <2>2, <2>3, <2>4, <1>5
  <2>5. CASE T(first + n - 1) # walk[n - 1].type
    <3>1. /\ walk[n].type = Combine(T(first + n - 1), walk[n - 1].type)
          /\ walk[n].uniform = FALSE
      BY <1>6, <1>8, <2>5
    <3>2. walk[n].type = IF {T(first + n - 1), walk[n - 1].type} = {"WT", "WB"} THEN "WT" ELSE "UC"
      BY <3>1 DEF Combine
    <3>3. CASE {T(first + n - 1), walk[n - 1].type} = {"WT", "WB"}
      <4>1. T(first + n - 1) \in {"WT", "WB"} /\ walk[n - 1].type \in {"WT", "WB"}
        BY <3>3
      <4>2. \A p \in first .. first + (n - 1) - 1 : T(p) \in {"WT", "WB"}
        BY <4>1, <2>2
      <4>3. \A p \in first .. first + n - 1 : T(p) \in {"WT", "WB"}
        BY <4>1, <4>2, <2>3
      <4> QED
        BY <4>3, <3>1, <3>2, <3>3, <1>5
    <3> QED
      BY <3>1, <3>2, <3>3, <1>5
  <2> QED
    BY <2>4, <2>5
<1> QED
  BY <1>7, <1>8

MtrrSpec == MtrrInit /\ [][MtrrNext]_mtrrVars

(* The copy a vCPU keeps is that of the registers, and a query in progress  *)
(* was answered from it.                                                    *)
MtrrInv ==
  /\ mtrr_msrs \in Msrs
  /\ mtrr_state = read_mtrrs(mtrr_msrs)
  /\ NeverWeaker

(* The type get_mtrr_range_memory_type gives a range never caches a page    *)
(* more than its MTRRs allow, and a range it calls uniform is: for any      *)
(* number of variable ranges and pages, and any writes of the guest.        *)
THEOREM EptNeverCachesMore == MtrrSpec => []NeverWeaker
<1>1. MtrrInit => MtrrInv
  <2> SUFFICES ASSUME MtrrInit PROVE MtrrInv
    OBVIOUS
  <2>1. mtrr_msrs \in Msrs
    BY MtrrAssumption DEF MtrrInit, Msrs
  <2>2. range_query.type = "UC"
    BY DEF MtrrInit, NoQuery
  <2> QED
    BY <2>1, <2>2 DEF MtrrInit, MtrrInv, NeverWeaker
<1>2. MtrrInv /\ [MtrrNext]_mtrrVars => MtrrInv'
  <2> SUFFICES ASSUME MtrrInv, [MtrrNext]_mtrrVars PROVE MtrrInv'
    OBVIOUS
  <2> USE DEF MtrrInv
  <2>1. CASE handle_wrmsr
    <3>1. range_query'.type = "UC" /\ mtrr_state' = read_mtrrs(mtrr_msrs)'
      BY <2>1 DEF handle_wrmsr, NoQuery, read_mtrrs
    <3>2. mtrr_msrs' \in Msrs
      <4>1. ASSUME NEW e \in BOOLEAN, NEW f \in BOOLEAN, NEW t \in MemType,
                   mtrr_msrs' = [mtrr_msrs EXCEPT !.enable = e, !.fixed_enable = f, !.def = t]
            PROVE  mtrr_msrs' \in Msrs
        BY <4>1 DEF Msrs
      <4>2. ASSUME NEW p \in 0 .. FixedPages - 1, NEW t \in MemType,
                   mtrr_msrs' = [mtrr_msrs EXCEPT !.fixed[p] = t]
            PROVE  mtrr_msrs' \in Msrs
        BY <4>2 DEF Msrs
      <4>3. ASSUME NEW k \in 1 .. VariableCount, NEW b \in PhysBase,
                   mtrr_msrs' = [mtrr_msrs EXCEPT !.base[k] = b]
            PROVE  mtrr_msrs' \in Msrs
        BY <4>3 DEF Msrs
      <4>4. ASSUME NEW k \in 1 .. VariableCount, NEW m \in PhysMask,
                   mtrr_msrs' = [mtrr_msrs EXCEPT !.mask[k] = m]
            PROVE  mtrr_msrs' \in Msrs
        BY <4>4 DEF Msrs
      <4> QED
        BY <2>1, <4>1, <4>2, <4>3, <4>4 DEF handle_wrmsr
    <3> QED
      BY <3>1, <3>2 DEF NeverWeaker
  <2>2. CASE QueryRange
    <3>1. PICK first \in 0 .. MtrrPages - 1 : \E pages \in 1 .. MtrrPages - first :
            range_query' = get_mtrr_range_memory_type(mtrr_state, first, pages)
      BY <2>2 DEF QueryRange
    <3>2. PICK pages \in 1 .. MtrrPages - first :
            range_query' = get_mtrr_range_memory_type(mtrr_state, first, pages)
      BY <3>1
    <3>3. first \in Nat /\ pages \in Nat \ {0}
      BY MtrrAssumption
    <3> DEFINE T(p) == get_mtrr_memory_type_single(mtrr_state, p)
               range == first .. first + pages - 1
               q == range_query'
    <3>4. /\ q.first = first /\ q.pages = pages
          /\ \/ q.type = "UC"
             \/ \A p \in range : T(p) = q.type
             \/ q.type = "WT" /\ \A p \in range : T(p) \in {"WT", "WB"}
          /\ q.uniform => \A p \in range : T(p) = q.type
      BY <3>2, <3>3, RangeType
    <3>5. \A p \in range : T(p) = "UC" \/ T(p) \in ArchTypes(mtrr_msrs, p)
      BY <3>3, SingleType
    <3>6. UNCHANGED <<mtrr_msrs, mtrr_state>>
      BY <2>2 DEF QueryRange
    <3>7. \A p : ArchTypes(mtrr_msrs, p)' = ArchTypes(mtrr_msrs, p)
      BY <3>6 DEF ArchTypes, Matches
    <3>8. mtrr_msrs' \in Msrs /\ mtrr_state' = read_mtrrs(mtrr_msrs)'
      BY <3>6 DEF read_mtrrs
    <3> HIDE DEF T
    <3>9. NeverWeaker'
      BY <3>4, <3>5, <3>7 DEF NeverWeaker
    <3> QED
      BY <3>8, <3>9
  <2>3. CASE QueryDone \/ UNCHANGED mtrrVars
    <3>1. UNCHANGED mtrr_msrs /\ UNCHANGED mtrr_state
      BY <2>3 DEF QueryDone, mtrrVars
    <3>2. range_query' = NoQuery \/ UNCHANGED range_query
      BY <2>3 DEF QueryDone, mtrrVars
    <3>3. \A p : ArchTypes(mtrr_msrs, p)' = ArchTypes(mtrr_msrs, p)
      BY <3>1 DEF ArchTypes, Matches
    <3>4. NeverWeaker'
      <4>1. CASE range_query' = NoQuery
        BY <4>1 DEF NeverWeaker, NoQuery
      <4>2. CASE UNCHANGED range_query
        BY <4>2, <3>3 DEF NeverWeaker
      <4> QED
        BY <3>2, <4>1, <4>2
    <3> QED
      BY <3>1, <3>4 DEF read_mtrrs
  <2> QED
    BY <2>1, <2>2, <2>3 DEF MtrrNext
<1> QED
  BY <1>1, <1>2, PTL DEF MtrrSpec, MtrrInv

-----------------------------------------------------------------------------
(* GuestCpu.                                                               *)

GuestSpec == GuestInit /\ [][GuestNext]_guestVars

(* The real registers keep the bits VMX fixes at every step, in the middle  *)
(* of an exit too, and CR4.CET comes with CR0.WP.                           *)
RealInv ==
  /\ Cr0Fixed0 \subseteq guest_cr0 /\ guest_cr0 \subseteq Cr0Fixed1
  /\ Cr4Fixed0 \subseteq guest_cr4 /\ guest_cr4 \subseteq Cr4Fixed1
  /\ "CET" \in guest_cr4 => "WP" \in guest_cr0

(* The masked bits of the shadow are such as a MOV to CR0 leaves: a write   *)
(* that does not exit agrees with the shadow, not with what CR0 holds.      *)
ShadowInv ==
  /\ "LO" \in Cr0GuestHostMask => "LO" \notin cr0_shadow
  /\ "ET" \in Cr0GuestHostMask => "ET" \in cr0_shadow

(* The instruction in progress and what is recorded of it: outside the      *)
(* wrapped instructions no exception is pending in vcpu->exception_info,    *)
(* and there it is the one of this instruction, if that was executed at     *)
(* all.  Only CLTS runs again, with TS clear in the register and in the     *)
(* shadow.                                                                  *)
InsnInv ==
  /\ insn \in Insn \cup {NoInsn}
  /\ cpu_pc \in {"guest", "root", "executed"}
  /\ cpu_pc # "guest" => insn \in Insn /\ ~again
  /\ cpu_pc # "executed" => exception_info = "none"
  /\ cpu_pc = "executed" => /\ exception_info = IF insn.op = "rdmsr_idle" THEN "none" ELSE insn.fault
                            /\ insn.op \in {"rdmsr", "wrmsr", "invd", "xsetbv", "rdmsr_idle"}
  /\ again \in BOOLEAN
  /\ again => /\ cpu_pc = "guest" /\ insn \in Insn /\ insn.op = "clts"
              /\ "TS" \notin guest_cr0 /\ "TS" \notin cr0_shadow

EntryInv ==
  /\ entry_info # NoEvent => (entry_info.error <=> entry_info.vector = "GP")
  /\ guest_rip = "fits"

GuestInv == RealInv /\ ShadowInv /\ InsnInv /\ EntryInv

USE FixedAssumption, RegisterAssumption, InsnAssumption

(* A masked bit is read from the shadow and an unmasked one from the        *)
(* register: of a value written to both, fixed up in the register, the      *)
(* guest reads back that value.                                             *)
LEMMA ReadsBack ==
  ASSUME NEW v \in SUBSET Bit
  PROVE  /\ (v \cap Cr0GuestHostMask) \cup (FixCr0(v) \ Cr0GuestHostMask) = v
         /\ (v \cap Cr4GuestHostMask) \cup (FixCr4(v) \ Cr4GuestHostMask) = v
BY DEF Cr0GuestHostMask, Cr4GuestHostMask, FixCr0, FixCr4

(* What FixCr0 and FixCr4 return has the bits VMX fixes.                    *)
LEMMA FixedUp ==
  ASSUME NEW v
  PROVE  /\ Cr0Fixed0 \subseteq FixCr0(v) /\ FixCr0(v) \subseteq Cr0Fixed1
         /\ Cr4Fixed0 \subseteq FixCr4(v) /\ FixCr4(v) \subseteq Cr4Fixed1
BY DEF FixCr0, FixCr4

(* The registers as the guest reads them are sets of bits, and an          *)
(* instruction of the guest writes sets of bits.                            *)
LEMMA EffectiveBits ==
  ASSUME RealInv
  PROVE  get_effective_guest_cr0 \subseteq Bit /\ get_effective_guest_cr4 \subseteq Bit
BY DEF RealInv, get_effective_guest_cr0, get_effective_guest_cr4, Cr0GuestHostMask, Cr4GuestHostMask

(* An instruction leaves bits of the registers' set in the registers.      *)
LEMMA AfterBits ==
  ASSUME NEW i \in Insn, NEW c0 \in SUBSET Bit, NEW c4 \in SUBSET Bit
  PROVE  Ref!Cr0After(i, c0) \subseteq Bit /\ Ref!Cr4After(i, c4) \subseteq Bit
BY DEF Ref!Cr0After, Ref!Cr4After, Ref!LmswBits

(* WP and CET: whichever way CR0 and CR4 are masked, the check a handler    *)
(* makes on what the guest reads is a check on what the registers hold.     *)
LEMMA CetNeedsWp ==
  ASSUME RealInv
  PROVE  /\ "WP" \in get_effective_guest_cr0 => "WP" \in guest_cr0
         /\ "CET" \in guest_cr4 => "CET" \in get_effective_guest_cr4
BY DEF RealInv, get_effective_guest_cr0, get_effective_guest_cr4, Cr0GuestHostMask, Cr4GuestHostMask

(* What the processor decides, operation by operation.                     *)
LEMMA ExitsByOp ==
  ASSUME NEW i \in Insn
  PROVE  /\ i.op = "mov_cr0" =>
              (Exits(i) <=> (i.val \cap Cr0GuestHostMask) # (cr0_shadow \cap Cr0GuestHostMask))
         /\ i.op = "mov_cr4" =>
              (Exits(i) <=> (i.val \cap Cr4GuestHostMask) # (cr4_shadow \cap Cr4GuestHostMask))
         /\ i.op = "clts" => (Exits(i) <=> "TS" \in Cr0GuestHostMask \cap cr0_shadow)
         /\ i.op = "lmsw" =>
              (Exits(i) <=> \/ "PE" \in (i.val \cap Cr0GuestHostMask) \ cr0_shadow
                            \/ \E b \in {"MP", "EM", "TS"} \cap Cr0GuestHostMask :
                                 (b \in i.val) # (b \in cr0_shadow))
         /\ i.op = "getsec" => (Exits(i) <=> "SMXE" \in guest_cr4)
         /\ i.op \notin {"mov_cr0", "mov_cr4", "mov_cr3", "clts", "lmsw", "getsec"} => Exits(i)
BY DEF Exits

(* What an instruction does to CR0 and CR4 of a bare processor.            *)
LEMMA AfterByOp ==
  ASSUME NEW i \in Insn, NEW c0, NEW c4
  PROVE  /\ i.op = "mov_cr0" => Ref!Cr0After(i, c0) = (i.val \ {"LO"}) \cup {"ET"}
         /\ i.op = "clts" => Ref!Cr0After(i, c0) = c0 \ {"TS"}
         /\ i.op = "lmsw" =>
              Ref!Cr0After(i, c0) = (c0 \ Ref!LmswBits) \cup (i.val \cap Ref!LmswBits) \cup (c0 \cap {"PE"})
         /\ i.op \notin {"mov_cr0", "clts", "lmsw"} => Ref!Cr0After(i, c0) = c0
         /\ i.op = "mov_cr4" => Ref!Cr4After(i, c4) = i.val
         /\ i.op # "mov_cr4" => Ref!Cr4After(i, c4) = c4
BY DEF Ref!Cr0After, Ref!Cr4After

(* The exception an instruction raises on a bare processor.                *)
LEMMA FaultByOp ==
  ASSUME NEW i \in Insn, NEW c0, NEW c4, NEW l
  PROVE  /\ i.op = "mov_cr0" =>
              Ref!Fault(i, c0, c4, l) = IF Ref!Cr0Faults(i.val, c4) THEN "GP" ELSE "none"
         /\ i.op = "mov_cr4" /\ Ref!Cr4Faults(i.val, c0, c4, l) => Ref!Fault(i, c0, c4, l) = "GP"
         /\ i.op = "vmxon" /\ "VMXE" \notin c4 => Ref!Fault(i, c0, c4, l) = "UD"
         /\ i.op = "getsec" /\ "SMXE" \notin c4 => Ref!Fault(i, c0, c4, l) = "UD"
         /\ i.op \in {"vmx", "vmcall"} => Ref!Fault(i, c0, c4, l) = "UD"
         /\ i.op \notin {"mov_cr0", "mov_cr4", "vmxon", "getsec", "vmx", "vmcall", "rdmsr_idle"} =>
              Ref!Fault(i, c0, c4, l) = i.fault
BY DEF Ref!Fault

(* The exception an instruction raises that does not exit.                 *)
LEMMA NativeFaultByOp ==
  ASSUME NEW i \in Insn, NEW c0, NEW c4
  PROVE  /\ i.op = "mov_cr0" =>
              NativeFault(i, c0, c4) = IF Ref!Cr0Faults(i.val, c4) THEN "GP" ELSE "none"
         /\ i.op = "mov_cr4" =>
              NativeFault(i, c0, c4) = IF Ref!Cr4Faults(i.val, c0, c4, cr3_low) THEN "GP" ELSE "none"
         /\ i.op = "getsec" => NativeFault(i, c0, c4) = "UD"
         /\ i.op \notin {"mov_cr0", "mov_cr4", "getsec"} => NativeFault(i, c0, c4) = i.fault
BY DEF NativeFault

(* GuestCpu starts in its invariant.                                       *)
LEMMA GuestInitially == GuestInit => GuestInv
<1> SUFFICES ASSUME GuestInit PROVE GuestInv
  OBVIOUS
<1>1. RealInv
  BY FixedUp DEF GuestInit, RealInv, FixCr0, FixCr4
<1>2. ShadowInv
  BY DEF GuestInit, ShadowInv, FixCr0, Cr0GuestHostMask
<1>3. InsnInv /\ EntryInv
  BY DEF GuestInit, InsnInv, EntryInv
<1> QED
  BY <1>1, <1>2, <1>3 DEF GuestInv

(* An instruction the processor executes itself keeps the invariant.       *)
LEMMA NativeKeeps ==
  ASSUME GuestInv, Native
  PROVE  GuestInv'
<1> DEFINE c0 == get_effective_guest_cr0
           c4 == get_effective_guest_cr4
           f == NativeFault(insn, c0, c4)
<1> USE DEF GuestInv
<1>1. insn \in Insn /\ ~Exits(insn) /\ cpu_pc = "guest"
  BY DEF Native, InsnInv
<1>2. InsnInv' /\ EntryInv' /\ ShadowInv'
  BY <1>1 DEF Native, InsnInv, EntryInv, ShadowInv, Cr0GuestHostMask
<1>3. RealInv'
  <2>1. CASE f # "none"
    BY <2>1 DEF Native, RealInv
  <2>2. CASE f = "none"
    <3>1. /\ guest_cr0' = (guest_cr0 \cap Cr0GuestHostMask)
                             \cup (Ref!Cr0After(insn, c0) \ Cr0GuestHostMask)
          /\ guest_cr4' = (guest_cr4 \cap Cr4GuestHostMask)
                             \cup (Ref!Cr4After(insn, c4) \ Cr4GuestHostMask)
      BY <2>2 DEF Native
    <3>2. c0 \in SUBSET Bit /\ c4 \in SUBSET Bit
      BY EffectiveBits
    <3>3. Ref!Cr0After(insn, c0) \in SUBSET Bit /\ Ref!Cr4After(insn, c4) \in SUBSET Bit
      BY <1>1, <3>2, AfterBits
    <3>4. /\ (Cr0Fixed0 \subseteq guest_cr0)' /\ (guest_cr0 \subseteq Cr0Fixed1)'
          /\ (Cr4Fixed0 \subseteq guest_cr4)' /\ (guest_cr4 \subseteq Cr4Fixed1)'
      <4>1. /\ Cr0Fixed0 \subseteq guest_cr0 /\ guest_cr0 \subseteq Cr0Fixed1
            /\ Cr4Fixed0 \subseteq guest_cr4 /\ guest_cr4 \subseteq Cr4Fixed1
        BY DEF RealInv
      <4>2. (Cr0Fixed0 \subseteq guest_cr0)' /\ (guest_cr0 \subseteq Cr0Fixed1)'
        BY <3>1, <3>3, <4>1 DEF Cr0GuestHostMask
      <4>3. (Cr4Fixed0 \subseteq guest_cr4)' /\ (guest_cr4 \subseteq Cr4Fixed1)'
        BY <3>1, <3>3, <4>1 DEF Cr4GuestHostMask
      <4> QED
        BY <4>2, <4>3
    <3>5. ASSUME "CET" \in guest_cr4' PROVE "WP" \in guest_cr0'
      <4> SUFFICES ASSUME "WP" \notin Cr0Fixed0 PROVE "WP" \in guest_cr0'
        BY <3>4
      <4>1. "CET" \in Ref!Cr4After(insn, c4) /\ "CET" \notin Cr4GuestHostMask
        BY <3>1, <3>4, <3>5 DEF Cr4GuestHostMask, RealInv
      <4>2. "WP" \in Ref!Cr0After(insn, c0)
        <5>1. CASE insn.op = "mov_cr0"
          <6>1. ~Ref!Cr0Faults(insn.val, c4)
            BY <1>1, <2>2, <5>1, NativeFaultByOp
          <6>2. "CET" \in c4
            BY <1>1, <4>1, <5>1, AfterByOp
          <6>3. "WP" \in insn.val
            BY <6>1, <6>2 DEF Ref!Cr0Faults
          <6> QED
            BY <1>1, <5>1, <6>3, AfterByOp
        <5>2. CASE insn.op = "mov_cr4"
          <6>1. ~Ref!Cr4Faults(insn.val, c0, c4, cr3_low)
            BY <1>1, <2>2, <5>2, NativeFaultByOp
          <6>2. "CET" \in insn.val
            BY <1>1, <4>1, <5>2, AfterByOp
          <6>3. "WP" \in c0
            BY <6>1, <6>2 DEF Ref!Cr4Faults
          <6> QED
            BY <1>1, <5>2, <6>3, AfterByOp
        <5>3. CASE insn.op \notin {"mov_cr0", "mov_cr4"}
          <6>1. "CET" \in c4
            BY <1>1, <4>1, <5>3, AfterByOp
          <6>2. "WP" \in c0
            BY <4>1, <6>1 DEF RealInv, get_effective_guest_cr0, get_effective_guest_cr4,
                              Cr0GuestHostMask
          <6> QED
            BY <1>1, <5>3, <6>2, AfterByOp DEF Ref!LmswBits
        <5> QED
          BY <5>1, <5>2, <5>3
      <4> QED
        BY <3>1, <4>2 DEF Cr0GuestHostMask
    <3> QED
      BY <3>4, <3>5 DEF RealInv
  <2> QED
    BY <2>1, <2>2
<1> QED
  BY <1>2, <1>3

(* A handler of the exits keeps the invariant, whichever of its ends it    *)
(* comes to.                                                               *)
LEMMA HandlerKeeps ==
  ASSUME GuestInv, handler
  PROVE  GuestInv'
<1> USE DEF GuestInv
<1>1. CASE mov_to_cr0
  <2> DEFINE new == (insn.val \ {"LO"}) \cup {"ET"}
  <2>0. insn \in Insn /\ insn.op = "mov_cr0" /\ cpu_pc = "root"
    BY <1>1 DEF mov_to_cr0, InRoot, InsnInv
  <2>1. CASE inject_hw_exception(GP0) /\ UNCHANGED <<crVars, exception_info>>
    BY <2>0, <2>1 DEF inject_hw_exception, GP0, crVars, RealInv, ShadowInv, InsnInv, EntryInv,
                      NoEvent
  <2>2. CASE /\ ~("WP" \notin new /\ "CET" \in get_effective_guest_cr4)
             /\ cr0_shadow' = new /\ guest_cr0' = FixCr0(new) /\ advance_guest_rip
             /\ UNCHANGED <<guest_cr4, exception_info>>
    <3>1. InsnInv' /\ EntryInv' /\ ShadowInv'
      BY <2>0, <2>2 DEF advance_guest_rip, InsnInv, EntryInv, ShadowInv
    <3>2. "CET" \in guest_cr4 => "WP" \in FixCr0(new)
      BY <2>2, CetNeedsWp DEF FixCr0
    <3>3. RealInv'
      BY <2>2, <3>2, FixedUp DEF RealInv
    <3> QED
      BY <3>1, <3>3
  <2> QED
    BY <1>1, <2>1, <2>2 DEF mov_to_cr0, crVars
<1>2. CASE mov_to_cr4
  <2>0. insn \in Insn /\ insn.op = "mov_cr4" /\ cpu_pc = "root"
    BY <1>2 DEF mov_to_cr4, InRoot, InsnInv
  <2>1. CASE inject_hw_exception(GP0) /\ UNCHANGED <<crVars, exception_info>>
    BY <2>0, <2>1 DEF inject_hw_exception, GP0, crVars, RealInv, ShadowInv, InsnInv, EntryInv,
                      NoEvent
  <2>2. CASE /\ ~("CET" \in insn.val /\ "WP" \notin get_effective_guest_cr0)
             /\ guest_cr4' = FixCr4(insn.val) /\ advance_guest_rip
             /\ UNCHANGED <<guest_cr0, cr0_shadow, exception_info>>
    <3>1. InsnInv' /\ EntryInv' /\ ShadowInv'
      BY <2>0, <2>2 DEF advance_guest_rip, InsnInv, EntryInv, ShadowInv, Cr0GuestHostMask
    <3>2. "CET" \in FixCr4(insn.val) => "WP" \in guest_cr0
      BY <2>2, CetNeedsWp DEF FixCr4
    <3>3. RealInv'
      BY <2>2, <3>2, FixedUp DEF RealInv
    <3> QED
      BY <3>1, <3>3
  <2> QED
    BY <1>2, <2>1, <2>2 DEF mov_to_cr4, crVars
<1>3. CASE handle_clts
  <2>1. insn \in Insn /\ insn.op = "clts" /\ cpu_pc = "root"
    BY <1>3 DEF handle_clts, InRoot, InsnInv
  <2> QED
    BY <1>3, <2>1 DEF handle_clts, RealInv, ShadowInv, InsnInv, EntryInv, Cr0GuestHostMask
<1>4. CASE handle_lmsw
  <2> DEFINE bits == (insn.val \cap Ref!LmswBits) \cup (cr0_shadow \cap {"PE"})
  <2>1. insn \in Insn /\ insn.op = "lmsw" /\ cpu_pc = "root"
    BY <1>4 DEF handle_lmsw, InRoot, InsnInv
  <2>2. /\ cr0_shadow' = (cr0_shadow \ Ref!LmswBits) \cup bits
        /\ guest_cr0' = FixCr0((guest_cr0 \ Ref!LmswBits) \cup bits)
        /\ advance_guest_rip /\ UNCHANGED <<guest_cr4, exception_info>>
    BY <1>4 DEF handle_lmsw
  <2>3. InsnInv' /\ EntryInv'
    BY <2>1, <2>2 DEF advance_guest_rip, InsnInv, EntryInv
  <2>4. ShadowInv'
    BY <2>2 DEF ShadowInv, Ref!LmswBits, Cr0GuestHostMask
  <2>5. "WP" \in guest_cr0 => "WP" \in guest_cr0'
    BY <2>2 DEF FixCr0, Ref!LmswBits
  <2>6. RealInv'
    BY <2>2, <2>5, FixedUp DEF RealInv
  <2> QED
    BY <2>3, <2>4, <2>6
<1>5. CASE handle_cpuid
  BY <1>5 DEF handle_cpuid, InRoot, advance_guest_rip, crVars, RealInv, ShadowInv, InsnInv,
              EntryInv, Cr0GuestHostMask
<1>6. CASE wrapper
  BY <1>6 DEF wrapper, crVars, RealInv, ShadowInv, InsnInv, EntryInv, Cr0GuestHostMask
<1>7. CASE handle_wrapped
  <2>0. insn \in Insn /\ cpu_pc = "executed" /\ exception_info \in {"none", "GP", "UD"}
    BY <1>7 DEF handle_wrapped, InsnInv
  <2>1. RealInv' /\ ShadowInv'
    BY <1>7 DEF handle_wrapped, crVars, RealInv, ShadowInv, Cr0GuestHostMask
  <2>2. CASE advance_guest_rip /\ exception_info = "none" /\ exception_info' = "none"
    BY <2>0, <2>1, <2>2 DEF advance_guest_rip, InsnInv, EntryInv
  <2>3. CASE inject_host_hw_exception_to_guest
    BY <2>0, <2>1, <2>3 DEF inject_host_hw_exception_to_guest, inject_hw_exception,
                            vector_has_error_code, NoEvent, InsnInv, EntryInv
  <2> QED
    BY <1>7, <2>2, <2>3 DEF handle_wrapped
<1>8. CASE handle_rdmsr_guest_idle
  BY <1>8 DEF handle_rdmsr_guest_idle, InRoot, crVars, RealInv, ShadowInv, InsnInv, EntryInv,
              Cr0GuestHostMask
<1>9. CASE handle_vmcall
  <2>0. insn \in Insn /\ cpu_pc = "root" /\ exception_info = "none" /\ exception_info' = "none"
    BY <1>9 DEF handle_vmcall, InRoot, InsnInv
  <2>1. RealInv' /\ ShadowInv'
    BY <1>9 DEF handle_vmcall, crVars, RealInv, ShadowInv, Cr0GuestHostMask
  <2>2. CASE advance_guest_rip
    BY <2>0, <2>1, <2>2 DEF advance_guest_rip, InsnInv, EntryInv
  <2>3. CASE inject_hw_exception(UD)
    BY <2>0, <2>1, <2>3 DEF inject_hw_exception, UD, NoEvent, InsnInv, EntryInv
  <2> QED
    BY <1>9, <2>2, <2>3 DEF handle_vmcall
<1>10. CASE handle_vmx_instruction
  BY <1>10 DEF handle_vmx_instruction, InRoot, inject_hw_exception, UD, NoEvent, crVars, RealInv,
               ShadowInv, InsnInv, EntryInv, Cr0GuestHostMask
<1> QED
  BY <1>1, <1>2, <1>3, <1>4, <1>5, <1>6, <1>7, <1>8, <1>9, <1>10 DEF handler, handle_cr_access

(* The invariant is inductive.                                             *)
LEMMA GuestInductive == GuestInv /\ [GuestNext]_guestVars => GuestInv'
<1> SUFFICES ASSUME GuestInv, [GuestNext]_guestVars PROVE GuestInv'
  OBVIOUS
<1> USE DEF GuestInv
<1>1. CASE GuestIssue
  BY <1>1 DEF GuestIssue, crVars, RealInv, ShadowInv, InsnInv, EntryInv, NoEvent, Cr0GuestHostMask
<1>2. CASE VmExit
  <2>1. insn \in Insn /\ cpu_pc = "guest" /\ ~again
    BY <1>2, ExitsByOp DEF VmExit, InsnInv
  <2> QED
    BY <1>2, <2>1 DEF VmExit, crVars, RealInv, ShadowInv, InsnInv, EntryInv, NoEvent,
                      Cr0GuestHostMask
<1>3. CASE Native
  BY <1>3, NativeKeeps
<1>4. CASE handler
  BY <1>4, HandlerKeeps
<1>5. CASE UNCHANGED guestVars
  BY <1>5 DEF guestVars, RealInv, ShadowInv, InsnInv, EntryInv, Cr0GuestHostMask
<1> QED
  BY <1>1, <1>2, <1>3, <1>4, <1>5 DEF GuestNext, CpuStep

(* GuestInv holds throughout.                                              *)
LEMMA GuestInvariant == GuestSpec => []GuestInv
BY GuestInitially, GuestInductive, PTL DEF GuestSpec

(* An instruction of the guest never ends in VMX operation.                *)
OutcomeInv == insn_outcome \in {"ok", "step", "running", "GP", "UD"}

LEMMA OutcomeInvariant == GuestSpec => []OutcomeInv
<1>1. GuestInit => OutcomeInv
  BY DEF GuestInit, OutcomeInv
<1>2. GuestInv /\ OutcomeInv /\ [GuestNext]_guestVars => OutcomeInv'
  <2> SUFFICES ASSUME GuestInv, OutcomeInv, [GuestNext]_guestVars PROVE OutcomeInv'
    OBVIOUS
  <2> USE DEF OutcomeInv
  <2>1. CASE GuestIssue
    BY <2>1 DEF GuestIssue
  <2>2. CASE VmExit
    BY <2>2 DEF VmExit
  <2>3. CASE Native
    <3> DEFINE f == NativeFault(insn, get_effective_guest_cr0, get_effective_guest_cr4)
    <3>1. insn \in Insn /\ insn_outcome' \in {Ref!Done(insn), f} /\ (f = "none" => insn_outcome' = Ref!Done(insn))
      BY <2>3 DEF Native, GuestInv, InsnInv
    <3>2. f \in {"none", "GP", "UD"}
      BY <3>1, NativeFaultByOp
    <3> QED
      BY <3>1, <3>2 DEF Ref!Done
  <2>4. CASE handler
    <3>1. CASE advance_guest_rip
      BY <3>1 DEF advance_guest_rip
    <3>2. CASE inject_hw_exception(GP0) \/ inject_hw_exception(UD)
      BY <3>2 DEF inject_hw_exception, GP0, UD
    <3>3. CASE handle_wrapped
      <4>1. exception_info \in {"none", "GP", "UD"}
        BY <3>3 DEF handle_wrapped, GuestInv, InsnInv
      <4> QED
        BY <3>3, <4>1, <3>1 DEF handle_wrapped, inject_host_hw_exception_to_guest, inject_hw_exception
    <3>4. CASE UNCHANGED insn_outcome
      BY <3>4
    <3> QED
      BY <2>4, <3>1, <3>2, <3>3, <3>4 DEF handler, handle_cr_access, mov_to_cr0, mov_to_cr4, handle_clts,
         handle_lmsw, handle_cpuid, wrapper, handle_rdmsr_guest_idle, handle_vmcall, handle_vmx_instruction
  <2>5. CASE UNCHANGED guestVars
    BY <2>5 DEF guestVars
  <2> QED
    BY <2>1, <2>2, <2>3, <2>4, <2>5 DEF GuestNext, CpuStep
<1> QED
  BY <1>1, <1>2, GuestInvariant, PTL DEF GuestSpec

(* No VM-entry fails, whatever instructions the guest executes and whatever *)
(* bits the processor fixes: the handlers of vmexit.cpp leave control       *)
(* registers, an event and a RIP that VMRESUME takes.                       *)
THEOREM VmEntryNeverFails == GuestSpec => []VmEntrySucceeds
<1>1. GuestInv => VmEntrySucceeds
  BY DEF GuestInv, RealInv, EntryInv, VmEntrySucceeds
<1> QED
  BY <1>1, GuestInvariant, PTL

-----------------------------------------------------------------------------
(* The refinement: BareCpu's registers are those the guest reads.          *)

(* An instruction that ends with the outcome and the registers BareCpu      *)
(* gives it is a Retire of BareCpu.                                         *)
LEMMA Retires ==
  ASSUME insn \in Insn, again = FALSE, insn' = NoInsn, again' = FALSE,
         LET c0 == get_effective_guest_cr0
             c4 == get_effective_guest_cr4
             f == Ref!Fault(insn, c0, c4, cr3_low)
         IN  IF f = "none"
             THEN /\ insn.op # "vmxon" /\ insn_outcome' = Ref!Done(insn)
                  /\ get_effective_guest_cr0' = Ref!Cr0After(insn, c0)
                  /\ get_effective_guest_cr4' = Ref!Cr4After(insn, c4)
                  /\ cr3_low' = Ref!LowAfter(insn, cr3_low)
             ELSE /\ insn_outcome' = f
                  /\ UNCHANGED <<get_effective_guest_cr0, get_effective_guest_cr4, cr3_low>>
  PROVE  Bare!Retire
BY DEF Bare!Retire, Bare!Fault, Bare!Cr0Faults, Bare!Cr4Faults, Bare!Done, Bare!Cr0After,
       Bare!Cr4After, Bare!LowAfter, Bare!LmswBits, Ref!Fault, Ref!Cr0Faults, Ref!Cr4Faults,
       Ref!Done, Ref!Cr0After, Ref!Cr4After, Ref!LowAfter, Ref!LmswBits

(* One that ends as revhv refuses or accepts it is a Deviate.               *)
LEMMA Deviates ==
  ASSUME insn \in Insn, again = FALSE, insn' = NoInsn, again' = FALSE,
         UNCHANGED <<get_effective_guest_cr0, cr3_low>>,
         LET c0 == get_effective_guest_cr0
             c4 == get_effective_guest_cr4
         IN  \/ /\ Ref!Refuses(insn, c4)
                /\ insn_outcome' = "UD" /\ get_effective_guest_cr4' = c4
             \/ /\ Ref!Accepts(insn, c0, c4, cr3_low)
                /\ insn_outcome' = Ref!Done(insn) /\ get_effective_guest_cr4' = Ref!Cr4After(insn, c4)
  PROVE  Bare!Deviate
BY DEF Bare!Deviate, Bare!Refuses, Bare!Accepts, Bare!Cr4Faults, Bare!Done, Bare!Cr4After,
       Ref!Refuses, Ref!Accepts, Ref!Cr4Faults, Ref!Done, Ref!Cr4After

(* A write that does not exit agrees with the shadow on the masked bits:    *)
(* what the guest reads afterwards is the value it wrote.                   *)
LEMMA NativeReads ==
  ASSUME GuestInv, insn \in Insn, ~Exits(insn), UNCHANGED <<cr0_shadow, cr4_shadow>>,
         guest_cr0' = (guest_cr0 \cap Cr0GuestHostMask)
                        \cup (Ref!Cr0After(insn, get_effective_guest_cr0) \ Cr0GuestHostMask),
         guest_cr4' = (guest_cr4 \cap Cr4GuestHostMask)
                        \cup (Ref!Cr4After(insn, get_effective_guest_cr4) \ Cr4GuestHostMask)
  PROVE  /\ get_effective_guest_cr0' = Ref!Cr0After(insn, get_effective_guest_cr0)
         /\ get_effective_guest_cr4' = Ref!Cr4After(insn, get_effective_guest_cr4)
<1> DEFINE a0 == Ref!Cr0After(insn, get_effective_guest_cr0)
           a4 == Ref!Cr4After(insn, get_effective_guest_cr4)
<1>1. /\ get_effective_guest_cr0' = (cr0_shadow \cap Cr0GuestHostMask) \cup (a0 \ Cr0GuestHostMask)
      /\ get_effective_guest_cr4' = (cr4_shadow \cap Cr4GuestHostMask) \cup (a4 \ Cr4GuestHostMask)
  BY DEF get_effective_guest_cr0, get_effective_guest_cr4, Cr0GuestHostMask, Cr4GuestHostMask
<1>2. a0 \cap Cr0GuestHostMask = cr0_shadow \cap Cr0GuestHostMask
  <2>1. CASE insn.op = "mov_cr0"
    <3>1. insn.val \cap Cr0GuestHostMask = cr0_shadow \cap Cr0GuestHostMask
      BY <2>1, ExitsByOp
    <3>2. a0 = (insn.val \ {"LO"}) \cup {"ET"}
      BY <2>1, AfterByOp
    <3> HIDE DEF a0
    <3> QED
      BY <3>1, <3>2 DEF GuestInv, ShadowInv
  <2>2. CASE insn.op = "clts"
    <3>1. ~("TS" \in Cr0GuestHostMask \cap cr0_shadow)
      BY <2>2, ExitsByOp
    <3>2. a0 = get_effective_guest_cr0 \ {"TS"}
      BY <2>2, AfterByOp
    <3> HIDE DEF a0
    <3> QED
      BY <3>1, <3>2 DEF get_effective_guest_cr0
  <2>3. CASE insn.op = "lmsw"
    <3>1. /\ ~("PE" \in (insn.val \cap Cr0GuestHostMask) \ cr0_shadow)
          /\ \A b \in {"MP", "EM", "TS"} \cap Cr0GuestHostMask : (b \in insn.val) <=> (b \in cr0_shadow)
      BY <2>3, ExitsByOp
    <3>2. a0 = (get_effective_guest_cr0 \ Ref!LmswBits) \cup (insn.val \cap Ref!LmswBits)
                 \cup (get_effective_guest_cr0 \cap {"PE"})
      BY <2>3, AfterByOp
    <3> HIDE DEF a0
    <3> QED
      BY <3>1, <3>2 DEF get_effective_guest_cr0, Ref!LmswBits
  <2>4. CASE insn.op \notin {"mov_cr0", "clts", "lmsw"}
    <3>1. a0 = get_effective_guest_cr0
      BY <2>4, AfterByOp
    <3> HIDE DEF a0
    <3> QED
      BY <3>1 DEF get_effective_guest_cr0
  <2> QED
    BY <2>1, <2>2, <2>3, <2>4
<1>3. a4 \cap Cr4GuestHostMask = cr4_shadow \cap Cr4GuestHostMask
  <2>1. CASE insn.op = "mov_cr4"
    BY <2>1, ExitsByOp, AfterByOp
  <2>2. CASE insn.op # "mov_cr4"
    <3>1. a4 = get_effective_guest_cr4
      BY <2>2, AfterByOp
    <3> HIDE DEF a4
    <3> QED
      BY <3>1 DEF get_effective_guest_cr4
  <2> QED
    BY <2>1, <2>2
<1> HIDE DEF a0, a4
<1>4. get_effective_guest_cr0' = a0 /\ get_effective_guest_cr4' = a4
  BY <1>1, <1>2, <1>3
<1> QED
  BY <1>4 DEF a0, a4

(* The processor's own execution: of a CLTS that runs again, BareCpu sees   *)
(* nothing; of every other instruction, its end.                            *)
LEMMA NativeIsBare ==
  ASSUME GuestInv, Native
  PROVE  Bare!Retire \/ Bare!Deviate \/ UNCHANGED Bare!bareVars
<1> DEFINE c0 == get_effective_guest_cr0
           c4 == get_effective_guest_cr4
           f == NativeFault(insn, c0, c4)
<1>1. insn \in Insn /\ ~Exits(insn)
  BY DEF Native, GuestInv, InsnInv
<1>2. CASE again
  <2>1. /\ insn.op = "clts" /\ insn.fault = "none"
        /\ "TS" \notin guest_cr0 /\ "TS" \notin cr0_shadow
    BY <1>2, <1>1 DEF GuestInv, InsnInv
  <2>2. f = "none"
    BY <1>1, <2>1, NativeFaultByOp
  <2>3. /\ c0' = Ref!Cr0After(insn, c0) /\ c4' = Ref!Cr4After(insn, c4)
        /\ cr3_low' = Ref!LowAfter(insn, cr3_low)
        /\ insn_outcome' = Ref!Done(insn) /\ insn' = NoInsn /\ again' = FALSE
    BY <1>1, <2>2, NativeReads DEF Native
  <2>4. c0' = c0 /\ c4' = c4 /\ cr3_low' = cr3_low
    BY <1>1, <2>1, <2>3, AfterByOp DEF get_effective_guest_cr0, Ref!LowAfter
  <2> QED
    BY <1>2, <2>3, <2>4 DEF Bare!bareVars
<1>3. CASE ~again
  <2>1. again = FALSE /\ insn' = NoInsn /\ again' = FALSE
    BY <1>3 DEF Native, GuestInv, InsnInv
  <2>2. CASE f = "none"
    <3>1. /\ c0' = Ref!Cr0After(insn, c0) /\ c4' = Ref!Cr4After(insn, c4)
          /\ cr3_low' = Ref!LowAfter(insn, cr3_low) /\ insn_outcome' = Ref!Done(insn)
      BY <1>1, <2>2, NativeReads DEF Native
    <3>2. CASE insn.op = "mov_cr4"
      <4>1. ~Ref!Cr4Faults(insn.val, c0, c4, cr3_low)
        BY <1>1, <2>2, <3>2, NativeFaultByOp
      <4>2. c0' = c0 /\ cr3_low' = cr3_low
        BY <1>1, <3>1, <3>2, AfterByOp DEF Ref!LowAfter
      <4> QED
        BY <1>1, <2>1, <3>1, <3>2, <4>1, <4>2, Deviates DEF Ref!Accepts
    <3>3. CASE insn.op # "mov_cr4"
      <4>1. insn.op \in {"mov_cr0", "mov_cr3", "clts", "lmsw"}
        BY <1>1, <2>2, <3>3, ExitsByOp, NativeFaultByOp
      <4>2. Ref!Fault(insn, c0, c4, cr3_low) = "none"
        BY <1>1, <2>2, <4>1, FaultByOp, NativeFaultByOp
      <4> QED
        BY <1>1, <2>1, <3>1, <4>1, <4>2, Retires
    <3> QED
      BY <3>2, <3>3
  <2>3. CASE f # "none"
    <3>1. insn_outcome' = f /\ UNCHANGED <<cr0_shadow, cr4_shadow, guest_cr0, guest_cr4, cr3_low>>
      BY <2>3 DEF Native
    <3>2. c0' = c0 /\ c4' = c4 /\ cr3_low' = cr3_low
      BY <3>1 DEF get_effective_guest_cr0, get_effective_guest_cr4, Cr0GuestHostMask,
                  Cr4GuestHostMask
    <3>3. CASE insn.op = "getsec" /\ "SMXE" \in c4
      <4>1. insn_outcome' = "UD" /\ Ref!Refuses(insn, c4)
        BY <1>1, <3>1, <3>3, NativeFaultByOp DEF Ref!Refuses
      <4> QED
        BY <1>1, <2>1, <3>2, <4>1, Deviates
    <3>4. CASE ~(insn.op = "getsec" /\ "SMXE" \in c4)
      <4>1. insn.op \in {"mov_cr0", "mov_cr4", "mov_cr3", "clts", "lmsw", "getsec"}
        BY <1>1, ExitsByOp
      <4>2. Ref!Fault(insn, c0, c4, cr3_low) = f
        BY <1>1, <2>3, <3>4, <4>1, FaultByOp, NativeFaultByOp
      <4> QED
        BY <1>1, <2>1, <2>3, <3>1, <3>2, <4>2, Retires
    <3> QED
      BY <3>3, <3>4
  <2> QED
    BY <2>2, <2>3
<1> QED
  BY <1>2, <1>3

(* A step of a handler: the wrapper's and the idle RDMSR's first half are   *)
(* invisible, and every other step is the end of the instruction.           *)
LEMMA HandlerIsBare ==
  ASSUME GuestInv, handler
  PROVE  Bare!Retire \/ Bare!Deviate \/ UNCHANGED Bare!bareVars
<1> DEFINE c0 == get_effective_guest_cr0
           c4 == get_effective_guest_cr4
           f == Ref!Fault(insn, c0, c4, cr3_low)
<1>0. insn \in Insn /\ again = FALSE
  BY DEF handler, handle_cr_access, mov_to_cr0, mov_to_cr4, handle_clts, handle_lmsw, handle_cpuid,
         wrapper, handle_wrapped, handle_rdmsr_guest_idle, handle_vmcall, handle_vmx_instruction,
         InRoot, GuestInv, InsnInv
<1>a. ASSUME UNCHANGED crVars PROVE c0' = c0 /\ c4' = c4 /\ cr3_low' = cr3_low
  BY <1>a DEF crVars, get_effective_guest_cr0, get_effective_guest_cr4, Cr0GuestHostMask,
              Cr4GuestHostMask
<1>b. ASSUME NEW event, inject_hw_exception(event), event.vector = f, f # "none", UNCHANGED crVars
      PROVE  Bare!Retire
  <2>1. insn' = NoInsn /\ again' = FALSE /\ insn_outcome' = f
    BY <1>0, <1>b DEF inject_hw_exception
  <2> QED
    BY <1>0, <1>a, <1>b, <2>1, Retires
<1>c. ASSUME advance_guest_rip, f = "none", c0' = Ref!Cr0After(insn, c0),
             c4' = Ref!Cr4After(insn, c4), cr3_low' = cr3_low, insn.op \notin {"mov_cr3", "vmxon"}
      PROVE  Bare!Retire
  <2>1. insn' = NoInsn /\ again' = FALSE /\ insn_outcome' = Ref!Done(insn)
    BY <1>0, <1>c DEF advance_guest_rip, Ref!Done
  <2>2. cr3_low' = Ref!LowAfter(insn, cr3_low)
    BY <1>c DEF Ref!LowAfter
  <2> QED
    BY <1>0, <1>c, <2>1, <2>2, Retires
<1>d. ASSUME advance_guest_rip, Ref!Accepts(insn, c0, c4, cr3_low), c0' = c0,
             c4' = Ref!Cr4After(insn, c4), cr3_low' = cr3_low
      PROVE  Bare!Deviate
  <2>1. insn' = NoInsn /\ again' = FALSE /\ insn_outcome' = Ref!Done(insn)
    BY <1>0, <1>d DEF advance_guest_rip, Ref!Done
  <2> QED
    BY <1>0, <1>d, <2>1, Deviates
<1>1. CASE mov_to_cr0
  <2> DEFINE new == (insn.val \ {"LO"}) \cup {"ET"}
  <2>1. insn.op = "mov_cr0" /\ insn.val \in SUBSET Bit /\ UNCHANGED <<guest_cr4, cr4_shadow, cr3_low>>
    BY <1>0, <1>1 DEF mov_to_cr0, InRoot
  <2>2. f = IF Ref!Cr0Faults(insn.val, c4) THEN "GP" ELSE "none"
    BY <1>0, <2>1, FaultByOp
  <2>3. CASE Ref!Cr0Faults(insn.val, c4)
    <3>1. inject_hw_exception(GP0) /\ UNCHANGED crVars
      BY <1>1, <2>3 DEF mov_to_cr0, Ref!Cr0Faults, crVars
    <3> QED
      BY <1>b, <2>2, <2>3, <3>1 DEF GP0
  <2>4. CASE ~Ref!Cr0Faults(insn.val, c4)
    <3>1. cr0_shadow' = new /\ guest_cr0' = FixCr0(new) /\ advance_guest_rip
      BY <1>1, <2>4 DEF mov_to_cr0, Ref!Cr0Faults
    <3>2. c0' = new
      BY <2>1, <3>1, ReadsBack DEF get_effective_guest_cr0, Cr0GuestHostMask
    <3>3. c4' = c4
      BY <2>1 DEF get_effective_guest_cr4, Cr4GuestHostMask
    <3>4. Ref!Cr0After(insn, c0) = new /\ Ref!Cr4After(insn, c4) = c4
      BY <1>0, <2>1, AfterByOp
    <3> QED
      BY <1>c, <2>1, <2>2, <2>4, <3>1, <3>2, <3>3, <3>4
  <2> QED
    BY <2>3, <2>4
<1>2. CASE mov_to_cr4
  <2>1. insn.op = "mov_cr4" /\ insn.val \in SUBSET Bit /\ UNCHANGED <<guest_cr0, cr0_shadow, cr3_low>>
    BY <1>0, <1>2 DEF mov_to_cr4, InRoot
  <2>2. Ref!Cr4Faults(insn.val, c0, c4, cr3_low) => f = "GP"
    BY <1>0, <2>1, FaultByOp
  <2>3. CASE Ref!Cr4Faults(insn.val, c0, c4, cr3_low)
    <3>1. inject_hw_exception(GP0) /\ UNCHANGED crVars
      BY <1>2, <2>3 DEF mov_to_cr4, Ref!Cr4Faults, crVars
    <3> QED
      BY <1>b, <2>2, <2>3, <3>1 DEF GP0
  <2>4. CASE ~Ref!Cr4Faults(insn.val, c0, c4, cr3_low)
    <3>1. cr4_shadow' = insn.val /\ guest_cr4' = FixCr4(insn.val) /\ advance_guest_rip
      BY <1>2, <2>4 DEF mov_to_cr4, Ref!Cr4Faults
    <3>2. c4' = insn.val
      BY <2>1, <3>1, ReadsBack DEF get_effective_guest_cr4, Cr4GuestHostMask
    <3>3. c0' = c0
      BY <2>1 DEF get_effective_guest_cr0, Cr0GuestHostMask
    <3>4. Ref!Cr4After(insn, c4) = insn.val
      BY <1>0, <2>1, AfterByOp
    <3> QED
      BY <1>d, <2>1, <2>4, <3>1, <3>2, <3>3, <3>4 DEF Ref!Accepts
  <2> QED
    BY <2>3, <2>4
<1>3. CASE handle_clts
  <2>1. insn.op = "clts" /\ insn.fault = "none" /\ again' = TRUE /\ insn' = insn
    BY <1>0, <1>3 DEF handle_clts, InRoot
  <2>2. c0' = c0 \ {"TS"} /\ c4' = c4 /\ cr3_low' = cr3_low
    BY <1>3 DEF handle_clts, get_effective_guest_cr0, get_effective_guest_cr4, Cr0GuestHostMask,
                Cr4GuestHostMask
  <2>3. Bare!Fault(insn, c0, c4, cr3_low) = "none"
    BY <1>0, <2>1, FaultByOp DEF Bare!Fault, Ref!Fault
  <2>4. /\ Bare!Cr0After(insn, c0) = c0 \ {"TS"} /\ Bare!Cr4After(insn, c4) = c4
        /\ Bare!LowAfter(insn, cr3_low) = cr3_low /\ Bare!Done(insn) = Ref!Done(insn)
    BY <1>0, <2>1 DEF Bare!Cr0After, Bare!Cr4After, Bare!LowAfter, Bare!Done, Ref!Done
  <2>5. Ref!Done(insn)' = Ref!Done(insn)
    BY <2>1 DEF Ref!Done
  <2> QED
    BY <1>0, <2>1, <2>2, <2>3, <2>4, <2>5 DEF Bare!Retire
<1>4. CASE handle_lmsw
  <2> DEFINE bits == (insn.val \cap Ref!LmswBits) \cup (cr0_shadow \cap {"PE"})
  <2>1. /\ insn.op = "lmsw" /\ insn.fault = "none"
        /\ UNCHANGED <<guest_cr4, cr4_shadow, cr3_low>> /\ advance_guest_rip
        /\ cr0_shadow' = (cr0_shadow \ Ref!LmswBits) \cup bits
        /\ guest_cr0' = FixCr0((guest_cr0 \ Ref!LmswBits) \cup bits)
    BY <1>0, <1>4 DEF handle_lmsw, InRoot
  <2>2. c4' = c4
    BY <2>1 DEF get_effective_guest_cr4, Cr4GuestHostMask
  <2>3. c0' = (c0 \ Ref!LmswBits) \cup (insn.val \cap Ref!LmswBits) \cup (c0 \cap {"PE"})
    <3> DEFINE v == (guest_cr0 \ Ref!LmswBits) \cup bits
    <3>1. v \subseteq Bit
      BY DEF GuestInv, RealInv, Ref!LmswBits
    <3>2. FixCr0(v) \ Cr0GuestHostMask = v \ Cr0GuestHostMask
      BY <3>1 DEF FixCr0, Cr0GuestHostMask
    <3>3. c0' = (cr0_shadow' \cap Cr0GuestHostMask) \cup (v \ Cr0GuestHostMask)
      BY <2>1, <3>2 DEF get_effective_guest_cr0, Cr0GuestHostMask
    <3>4. "PE" \in Cr0GuestHostMask
      BY DEF Cr0GuestHostMask
    <3> QED
      BY <2>1, <3>3, <3>4 DEF get_effective_guest_cr0, Ref!LmswBits
  <2>4. f = "none" /\ c0' = Ref!Cr0After(insn, c0) /\ c4' = Ref!Cr4After(insn, c4)
    BY <1>0, <2>1, <2>2, <2>3, AfterByOp, FaultByOp
  <2> QED
    BY <1>c, <2>1, <2>4
<1>5. CASE handle_cpuid
  <2>1. insn.op = "cpuid" /\ insn.fault = "none" /\ advance_guest_rip /\ UNCHANGED crVars
    BY <1>0, <1>5 DEF handle_cpuid, InRoot
  <2>2. f = "none" /\ Ref!Cr0After(insn, c0) = c0 /\ Ref!Cr4After(insn, c4) = c4
    BY <1>0, <2>1, AfterByOp, FaultByOp
  <2> QED
    BY <1>a, <1>c, <2>1, <2>2
<1>6. CASE wrapper \/ handle_rdmsr_guest_idle
  <2>1. UNCHANGED <<insn, again, insn_outcome>> /\ UNCHANGED crVars
    BY <1>6 DEF wrapper, handle_rdmsr_guest_idle
  <2> QED
    BY <1>a, <2>1, <1>0 DEF Bare!bareVars
<1>7. CASE handle_wrapped /\ insn.op # "rdmsr_idle"
  <2>1. /\ insn.op \in {"rdmsr", "wrmsr", "invd", "xsetbv"}
        /\ exception_info = insn.fault /\ UNCHANGED crVars
    BY <1>7 DEF handle_wrapped, GuestInv, InsnInv
  <2>2. f = insn.fault /\ Ref!Cr0After(insn, c0) = c0 /\ Ref!Cr4After(insn, c4) = c4
    BY <1>0, <2>1, AfterByOp, FaultByOp
  <2>3. CASE f = "none"
    BY <1>7, <1>a, <1>c, <2>1, <2>2, <2>3 DEF handle_wrapped
  <2>4. CASE f # "none"
    BY <1>7, <1>b, <2>1, <2>2, <2>4 DEF handle_wrapped, inject_host_hw_exception_to_guest
  <2> QED
    BY <2>3, <2>4
<1>8. CASE handle_wrapped /\ insn.op = "rdmsr_idle"
  <2>1. exception_info = "none" /\ UNCHANGED crVars /\ advance_guest_rip
    BY <1>8 DEF handle_wrapped, GuestInv, InsnInv
  <2>2. Ref!Cr4After(insn, c4) = c4 /\ Ref!Accepts(insn, c0, c4, cr3_low)
    BY <1>0, <1>8, AfterByOp DEF Ref!Accepts
  <2> QED
    BY <1>a, <1>d, <2>1, <2>2
<1>9. CASE handle_vmcall
  <2>1. insn.op = "vmcall" /\ UNCHANGED crVars
    BY <1>9 DEF handle_vmcall, InRoot
  <2>2. f = "UD" /\ Ref!Cr4After(insn, c4) = c4
    BY <1>0, <2>1, AfterByOp, FaultByOp
  <2>3. CASE insn.keyed
    <3>1. advance_guest_rip /\ Ref!Accepts(insn, c0, c4, cr3_low)
      BY <1>9, <2>1, <2>3 DEF handle_vmcall, Ref!Accepts
    <3> QED
      BY <1>a, <1>d, <2>1, <2>2, <3>1
  <2>4. CASE ~insn.keyed
    BY <1>9, <1>b, <2>1, <2>2, <2>4 DEF handle_vmcall, UD
  <2> QED
    BY <2>3, <2>4
<1>10. CASE handle_vmx_instruction
  <2>1. insn.op \in {"vmxon", "vmx", "getsec"} /\ UNCHANGED crVars /\ inject_hw_exception(UD)
    BY <1>10 DEF handle_vmx_instruction, InRoot
  <2>2. CASE Ref!Refuses(insn, c4)
    <3>1. insn' = NoInsn /\ again' = FALSE /\ insn_outcome' = "UD"
      BY <1>0, <2>1 DEF inject_hw_exception, UD
    <3> QED
      BY <1>0, <1>a, <2>1, <2>2, <3>1, Deviates
  <2>3. CASE ~Ref!Refuses(insn, c4)
    <3>1. f = "UD"
      BY <1>0, <2>1, <2>3, FaultByOp DEF Ref!Refuses
    <3> QED
      BY <1>b, <2>1, <3>1 DEF UD
  <2> QED
    BY <2>2, <2>3
<1> QED
  BY <1>1, <1>2, <1>3, <1>4, <1>5, <1>6, <1>7, <1>8, <1>9, <1>10 DEF handler, handle_cr_access

(* The guest cannot tell: every behaviour of the exits is one of a bare     *)
(* processor, registers read through masks and shadows, but for the named   *)
(* deviations.                                                              *)
THEOREM GuestLooksBare == GuestSpec => LooksBare
<1>1. GuestInv /\ OutcomeInv /\ [GuestNext]_guestVars
        => [Bare!Issue \/ Bare!Retire \/ Bare!Deviate]_Bare!bareVars
  <2> SUFFICES ASSUME GuestInv, OutcomeInv, [GuestNext]_guestVars
               PROVE  Bare!Issue \/ Bare!Retire \/ Bare!Deviate \/ UNCHANGED Bare!bareVars
    OBVIOUS
  <2> DEFINE SameCr == /\ get_effective_guest_cr0' = get_effective_guest_cr0
                       /\ get_effective_guest_cr4' = get_effective_guest_cr4
                       /\ cr3_low' = cr3_low
  <2>0. UNCHANGED crVars => SameCr
    BY DEF crVars, get_effective_guest_cr0, get_effective_guest_cr4, Cr0GuestHostMask,
           Cr4GuestHostMask
  <2>1. CASE GuestIssue
    <3>1. again = FALSE /\ again' = FALSE /\ insn = NoInsn /\ UNCHANGED crVars
      BY <2>1 DEF GuestIssue, GuestInv, InsnInv
    <3>2. SameCr
      BY <2>0, <3>1
    <3> QED
      BY <2>1, <3>1, <3>2 DEF GuestIssue, Bare!Issue, OutcomeInv
  <2>2. CASE VmExit
    <3>1. UNCHANGED <<insn, again, insn_outcome>> /\ UNCHANGED crVars
      BY <2>2 DEF VmExit
    <3> QED
      BY <2>0, <3>1 DEF Bare!bareVars, Ref!Done
  <2>3. CASE Native
    BY <2>3, NativeIsBare
  <2>4. CASE handler
    BY <2>4, HandlerIsBare
  <2>5. CASE UNCHANGED guestVars
    <3>1. UNCHANGED <<insn, again, insn_outcome>> /\ UNCHANGED crVars
      BY <2>5 DEF guestVars, crVars
    <3> QED
      BY <2>0, <3>1 DEF Bare!bareVars, Ref!Done
  <2> QED
    BY <2>1, <2>2, <2>3, <2>4, <2>5 DEF GuestNext, CpuStep
<1> QED
  BY <1>1, GuestInvariant, OutcomeInvariant, PTL DEF GuestSpec, LooksBare, Bare!PromisedSpec

-----------------------------------------------------------------------------
(* TscHiding.                                                              *)

TscSpec == TscInit /\ [][TscNext]_tscVars

(* The offset the guest's counter has never exceeds the one that            *)
(* update_tsc_offset continues from (the benchmark leaves -1 in the field   *)
(* only), neither is above zero, and a completed benchmark has not measured *)
(* more than an exit and an entry cost at least.                            *)
TscInv ==
  /\ tsc \in Nat /\ offset_field \in Int /\ tsc_offset \in Int
  /\ vmexit_to_store_overhead \in Nat /\ vmentry_overhead \in Nat
  /\ offset_field <= tsc_offset /\ tsc_offset <= 0
  /\ bench # "completed" => tsc_offset = 0
  /\ bench = "completed" => /\ \A e \in ExitCost : vmexit_to_store_overhead <= e + 1
                            /\ \A n \in EntryCost : vmentry_overhead <= n - 1

USE CostAssumption

(* A step in which the guest's counter is not rewritten.                   *)
LEMMA TimePasses ==
  ASSUME TscInv, NEW t \in Nat, Pass(t),
         UNCHANGED <<offset_field, tsc_offset, overheads, bench>>
  PROVE  TscInv' /\ GuestTsc' >= GuestTsc
BY DEF TscInv, Pass, GuestTsc, overheads

(* One round of the benchmark: what it measures is not negative, since the  *)
(* offset is not above zero, and no exit is so cheap that -1 in the offset  *)
(* field would take the counter back.                                       *)
LEMMA BenchKeepsTime ==
  ASSUME TscInv, bench_tsc_overhead
  PROVE  TscInv' /\ GuestTsc' >= GuestTsc
<1>1. PICK e \in ExitCost, n \in EntryCost :
        LET sample == stealth_vmexit_bench_one(e, n)
        IN /\ bench \in {"warm up", "measure"}
           /\ Pass(e + n)
           /\ offset_field' = -1
           /\ IF bench = "warm up"
              THEN UNCHANGED overheads
              ELSE /\ vmexit_to_store_overhead' = LeastOf(vmexit_to_store_overhead, sample.diff)
                   /\ vmentry_overhead' = LeastOf(vmentry_overhead, sample.entry)
           /\ bench' = "measure"
           /\ UNCHANGED <<tsc_offset, preemption_timer_enabled>>
  BY DEF bench_tsc_overhead
<1>2. e \in Nat \ {0} /\ n \in Nat \ {0}
  OBVIOUS
<1>3. tsc_offset = 0 /\ tsc_offset' = 0 /\ offset_field' = -1 /\ bench' = "measure"
  BY <1>1 DEF TscInv
<1>4. tsc + e - (tsc + offset_field) \in Nat /\ n - 1 \in Nat
  BY <1>2 DEF TscInv
<1>5. vmexit_to_store_overhead' \in Nat /\ vmentry_overhead' \in Nat
  BY <1>1, <1>4 DEF TscInv, overheads, LeastOf, stealth_vmexit_bench_one, GuestTsc
<1>6. tsc' = tsc + (e + n)
  BY <1>1 DEF Pass
<1> QED
  BY <1>2, <1>3, <1>5, <1>6 DEF TscInv, GuestTsc

(* A hidden exit: the counter moves on by the instruction's own cost and by *)
(* what this exit and this entry cost beyond the least.                     *)
LEMMA HiddenExitKeepsTime ==
  ASSUME TscInv, hidden_exit
  PROVE  TscInv' /\ GuestTsc' >= GuestTsc
<1> DEFINE v == vmentry_overhead + vmexit_to_store_overhead
<1>1. PICK e \in ExitCost, t \in HandlerCost, i \in InsnCost, n \in EntryCost :
        /\ bench = "completed"
        /\ tsc_offset' = tsc_offset - ((tsc + e + t) - (tsc + e + i - vmentry_overhead
                                                        - vmexit_to_store_overhead))
        /\ offset_field' = tsc_offset'
        /\ tsc' = tsc + (e + t + n)
        /\ UNCHANGED <<overheads, bench>>
  BY DEF hidden_exit, Pass
<1>2. e \in Nat /\ t \in Nat /\ i \in Nat \ {0} /\ n \in Nat /\ i <= t
  OBVIOUS
<1>3. vmexit_to_store_overhead <= e + 1 /\ vmentry_overhead <= n - 1
  BY <1>1 DEF TscInv
<1>4. /\ tsc \in Nat /\ offset_field \in Int /\ tsc_offset \in Int
      /\ vmexit_to_store_overhead \in Nat /\ vmentry_overhead \in Nat
      /\ offset_field <= tsc_offset /\ tsc_offset <= 0
  BY DEF TscInv
<1>5. tsc_offset' = tsc_offset - t + i - v
  BY <1>1, <1>2, <1>4
<1>6. /\ tsc' \in Nat /\ tsc_offset' \in Int /\ tsc_offset' <= 0
      /\ tsc' + tsc_offset' = tsc + tsc_offset + e + n + i - v
  BY <1>1, <1>2, <1>4, <1>5
<1>7. GuestTsc' >= GuestTsc
  BY <1>1, <1>2, <1>3, <1>4, <1>6 DEF GuestTsc
<1>8. TscInv'
  BY <1>1, <1>4, <1>6 DEF TscInv, overheads
<1> QED
  BY <1>7, <1>8

(* Every step keeps the invariant and the guest's counter from falling.     *)
LEMMA TscSteps ==
  ASSUME TscInv, [TscNext]_tscVars
  PROVE  TscInv' /\ GuestTsc' >= GuestTsc
<1>1. CASE GuestRuns
  BY <1>1, TimePasses DEF GuestRuns
<1>2. CASE bench_tsc_overhead
  BY <1>2, BenchKeepsTime
<1>3. CASE bench_completed
  BY <1>3 DEF bench_completed, TscInv, GuestTsc, overheads
<1>4. CASE PlainExit
  <2>1. PICK e \in ExitCost, t \in HandlerCost, n \in EntryCost : Pass(e + t + n)
    BY <1>4 DEF PlainExit
  <2>2. e + t + n \in Nat
    OBVIOUS
  <2> QED
    BY <1>4, <2>1, <2>2, TimePasses DEF PlainExit
<1>5. CASE hidden_exit
  BY <1>5, HiddenExitKeepsTime
<1>6. CASE preemption_timer_expired
  <2>1. PICK e \in ExitCost, t \in HandlerCost, n \in EntryCost : Pass(e + t + n)
    BY <1>6 DEF preemption_timer_expired
  <2>2. e \in Nat /\ t \in Nat /\ n \in Nat
    OBVIOUS
  <2> QED
    BY <1>6, <2>1, <2>2 DEF preemption_timer_expired, Pass, TscInv, GuestTsc, overheads
<1>7. CASE UNCHANGED tscVars
  BY <1>7 DEF tscVars, TscInv, GuestTsc
<1> QED
  BY <1>1, <1>2, <1>3, <1>4, <1>5, <1>6, <1>7 DEF TscNext

(* The guest's time-stamp counter never runs backwards, for every set of    *)
(* costs an exit, its handler and an entry may have.                        *)
THEOREM GuestClockNeverFalls == TscSpec => GuestClockMonotone
<1>1. ASSUME TscInit PROVE TscInv
  <2>1. bench # "completed" /\ tsc = 0 /\ offset_field = 0 /\ tsc_offset = 0
    BY <1>1 DEF TscInit
  <2>2. vmexit_to_store_overhead = 0 /\ vmentry_overhead = 0
    BY <1>1 DEF TscInit
  <2> QED
    BY <2>1, <2>2 DEF TscInv
<1>2. TscInv /\ [TscNext]_tscVars => TscInv'
  BY TscSteps
<1>3. TscInv /\ [TscNext]_tscVars => [GuestTsc' >= GuestTsc]_tscVars
  BY TscSteps
<1> QED
  BY <1>1, <1>2, <1>3, PTL DEF TscSpec, GuestClockMonotone

=============================================================================
