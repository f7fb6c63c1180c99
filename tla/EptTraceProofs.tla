-------------------------- MODULE EptTraceProofs ----------------------------
(***************************************************************************)
(* Safety of the two EPT views, for every set of pages, split-pool size,   *)
(* hook limit and guest instruction stream.                                *)
(***************************************************************************)
EXTENDS EptTrace, FiniteSetTheorems, WellFoundedInduction, TLAPS

(* What ties the parts of one view together at all times: only armed hooks  *)
(* hide data or show another frame, and hooks sit on pages that have a PTE. *)
ViewInv(e) ==
  /\ e \in EptPages
  /\ e.armed \subseteq e.hooked
  /\ RegionsOf(e.hooked) \subseteq e.split
  /\ e.xo \subseteq e.armed /\ e.shadow \subseteq e.armed
  /\ Cardinality(e.split) <= SplitCount

(* The view between traces: every hook is armed, in one of its two phases,  *)
(* and no other page is restricted.                                         *)
HookedView(e) ==
  /\ e.armed = e.hooked
  /\ \A p \in Page \ e.hooked : ~NX(e, p)
  /\ \A p \in e.hooked : (p \in e.nxPte <=> p \notin e.xo) /\ (p \in e.xo <=> p \in e.shadow)

(* The views during a trace of T. *)
TracedView(v, e, T) ==
  /\ e.armed = {}
  /\ \A p \in Page : NX(e, p) <=> (IF v = "normal" THEN p \in T ELSE p \notin T)

(* The inductive invariant. *)
IInv ==
  /\ TypeOK
  /\ \A v \in View : ViewInv(ept[v])
  /\ ept["normal"].split = ept["target"].split
  /\ ept["normal"].hooked = ept["target"].hooked
  /\ ~active => in_normal_execution /\ \A v \in View : HookedView(ept[v])
  /\ active => \A v \in View : TracedView(v, ept[v], target)
  /\ phase = "install" => ~active
  /\ unreported => active /\ ~in_normal_execution
  /\ stale = {}
  /\ ~crashed

-----------------------------------------------------------------------------
(* Lemmas about the operators on one view.                                 *)

(* Every set of regions is finite, as the EPT covers a fixed span. *)
LEMMA RegionsFinite ==
  ASSUME NEW R, R \subseteq Region
  PROVE  IsFiniteSet(R) /\ Cardinality(R) \in Nat
<1>1. IsFiniteSet(Region)
  BY FS_Interval, BoundsAssumption DEF Region
<1>2. IsFiniteSet(R)
  BY <1>1, FS_Subset
<1>3. QED
  BY <1>2, FS_CardinalityType

(* The pool check is monotone: it holds for fewer regions too. *)
LEMMA CanSplitMonotone ==
  ASSUME NEW e \in EptPages, NEW R \in SUBSET Region, NEW S \in SUBSET R, CanSplit(e, R)
  PROVE  CanSplit(e, S)
<1>1. e.split \in SUBSET Region
  BY DEF EptPages
<1>2. IsFiniteSet(e.split \cup R) /\ e.split \cup S \subseteq e.split \cup R
  BY <1>1, RegionsFinite
<1>3. Cardinality(e.split \cup S) <= Cardinality(e.split \cup R)
  BY <1>2, FS_Subset
<1>4. Cardinality(e.split \cup S) \in Nat /\ Cardinality(e.split \cup R) \in Nat
  BY <1>1, RegionsFinite
<1>5. QED
  BY <1>3, <1>4, BoundsAssumption DEF CanSplit

(* RegionsOf maps pages to regions. *)
LEMMA RegionsOfType ==
  ASSUME NEW P \in SUBSET Page
  PROVE  RegionsOf(P) \in SUBSET Region /\ \A p \in P : RegionOf[p] \in RegionsOf(P)
BY RegionAssumption DEF RegionsOf

(* split_pde changes no translation: the page table it fills inherits the   *)
(* permissions of the large entry it replaces.                              *)
LEMMA SplitKeepsWalk ==
  ASSUME NEW e \in EptPages, NEW R \in SUBSET Region
  PROVE  LET s == split_pde(e, R) IN
         /\ s \in EptPages
         /\ s.split = e.split \cup R
         /\ s.hooked = e.hooked /\ s.armed = e.armed /\ s.nxPde = e.nxPde
         /\ s.xo \subseteq e.xo /\ s.shadow \subseteq e.shadow
         /\ \A p \in Page : NX(s, p) <=> NX(e, p)
         /\ \A p \in Page : NoRW(s, p) <=> NoRW(e, p)
         /\ \A p \in Page : ShadowMapped(s, p) <=> ShadowMapped(e, p)
         /\ \A p \in Page : RegionOf[p] \in e.split =>
              (p \in s.nxPte <=> p \in e.nxPte) /\ (p \in s.xo <=> p \in e.xo)
                /\ (p \in s.shadow <=> p \in e.shadow)
BY RegionAssumption DEF split_pde, EptPages, PagesIn, NX, NoRW, ShadowMapped

(* Splitting within the pool keeps a view well formed, hooked or traced. *)
LEMMA SplitKeepsView ==
  ASSUME NEW e, ViewInv(e), NEW R \in SUBSET Region, CanSplit(e, R)
  PROVE  /\ ViewInv(split_pde(e, R))
         /\ HookedView(e) => HookedView(split_pde(e, R))
         /\ \A v \in View, T \in SUBSET Page :
              TracedView(v, e, T) => TracedView(v, split_pde(e, R), T)
<1> DEFINE s == split_pde(e, R)
<1>0. e \in EptPages
  BY DEF ViewInv
<1>1. /\ s \in EptPages /\ s.split = e.split \cup R
      /\ s.hooked = e.hooked /\ s.armed = e.armed
      /\ s.xo \subseteq e.xo /\ s.shadow \subseteq e.shadow
      /\ \A p \in Page : NX(s, p) <=> NX(e, p)
      /\ \A p \in Page : RegionOf[p] \in e.split =>
           (p \in s.nxPte <=> p \in e.nxPte) /\ (p \in s.xo <=> p \in e.xo)
             /\ (p \in s.shadow <=> p \in e.shadow)
  BY <1>0, SplitKeepsWalk
<1> HIDE DEF s
<1>2. ViewInv(s)
  BY <1>1 DEF ViewInv, CanSplit
<1>3. HookedView(e) => HookedView(s)
  <2>1. \A p \in e.hooked : p \in Page /\ RegionOf[p] \in e.split
    BY <1>0, RegionsOfType DEF ViewInv, EptPages
  <2>2. QED
    BY <1>1, <2>1 DEF HookedView
<1>4. \A v \in View, T \in SUBSET Page : TracedView(v, e, T) => TracedView(v, s, T)
  BY <1>1 DEF TracedView
<1>5. QED
  BY <1>2, <1>3, <1>4 DEF s

(* A nonempty set of regions has a last one in scan order. *)
LEMMA LastRegion ==
  ASSUME NEW S, S \subseteq Region, S # {}
  PROVE  \E m \in S : \A r \in S : r <= m
<1> DEFINE U == {n \in Nat : \A r \in S : r <= n}
<1>1. RegionCount \in U
  BY BoundsAssumption DEF Region
<1>2. \E n \in U : \A k \in U : ~(<<k, n>> \in OpToRel(<, Nat))
  BY <1>1, WFMin, NatLessThanWellFounded
<1>3. PICK n \in U : \A k \in U : ~(k < n)
  BY <1>2 DEF OpToRel
<1>4. n \in S
  <2>1. SUFFICES ASSUME n \notin S PROVE FALSE
    OBVIOUS
  <2>2. \A r \in S : r \in Nat /\ r <= n /\ r # n
    BY <2>1, BoundsAssumption DEF Region
  <2>3. n - 1 \in U
    BY <2>2
  <2>4. QED
    BY <2>3, <1>3
<1>5. QED
  BY <1>3, <1>4

(* The regions update_ept_memory_types splits fit in the pool, and both     *)
(* views split the same ones if they agreed before.                         *)
Served(split, nonuniform) ==
  {r \in nonuniform \ split :
     Cardinality(split \cup {q \in nonuniform \ split : q <= r}) <= SplitCount}

(* What update_ept_memory_types splits is within the pool. *)
LEMMA ServedFits ==
  ASSUME NEW e \in EptPages, NEW nonuniform \in SUBSET Region,
         Cardinality(e.split) <= SplitCount
  PROVE  /\ update_ept_memory_types(e, nonuniform)
              = split_pde(e, Served(e.split, nonuniform))
         /\ Served(e.split, nonuniform) \in SUBSET Region
         /\ CanSplit(e, Served(e.split, nonuniform))
<1> DEFINE L == nonuniform \ e.split
           S == Served(e.split, nonuniform)
<1>1. update_ept_memory_types(e, nonuniform) = split_pde(e, S)
  BY DEF update_ept_memory_types, Served, CanSplit
<1>2. S \in SUBSET Region /\ S \subseteq L
  BY DEF Served
<1>3. CASE S = {}
  BY <1>1, <1>2, <1>3 DEF CanSplit
<1>4. CASE S # {}
  <2>1. PICK m \in S : \A r \in S : r <= m
    BY <1>2, <1>4, LastRegion
  <2>2. CanSplit(e, {q \in L : q <= m})
    BY <2>1 DEF Served, CanSplit
  <2>3. S \subseteq {q \in L : q <= m} /\ {q \in L : q <= m} \in SUBSET Region
    BY <2>1, <1>2
  <2>4. CanSplit(e, S)
    BY <2>2, <2>3, CanSplitMonotone
  <2>5. QED
    BY <1>1, <1>2, <2>4
<1>5. QED
  BY <1>3, <1>4

(* deactivate_hooks leaves a hooked view without any restriction. *)
LEMMA DeactivateClears ==
  ASSUME NEW e, ViewInv(e)
  PROVE  LET d == deactivate_hooks(e) IN
         /\ ViewInv(d)
         /\ d.split = e.split /\ d.hooked = e.hooked /\ d.armed = {}
         /\ HookedView(e) => \A p \in Page : ~NX(d, p)
<1> DEFINE d == deactivate_hooks(e)
<1>1. /\ d \in EptPages /\ d.split = e.split /\ d.hooked = e.hooked /\ d.armed = {}
      /\ d.xo = e.xo \ e.armed /\ d.shadow = e.shadow \ e.armed
      /\ d.nxPte = e.nxPte \ e.armed /\ d.nxPde = e.nxPde
  BY DEF deactivate_hooks, ViewInv, EptPages
<1> HIDE DEF d
<1>2. ViewInv(d)
  BY <1>1 DEF ViewInv
<1>3. HookedView(e) => \A p \in Page : ~NX(d, p)
  <2>1. \A p \in e.hooked : RegionOf[p] \in e.split
    BY RegionsOfType DEF ViewInv, EptPages
  <2>2. QED
    BY <1>1, <2>1 DEF HookedView, NX
<1>4. QED
  BY <1>1, <1>2, <1>3 DEF d

(* set_all_permissions makes every page executable, or none. *)
LEMMA SetAllUniform ==
  ASSUME NEW e, ViewInv(e), NEW x \in BOOLEAN
  PROVE  LET d == set_all_permissions(e, x) IN
         /\ ViewInv(d)
         /\ d.split = e.split /\ d.hooked = e.hooked /\ d.armed = e.armed
         /\ d.xo = {} /\ d.shadow = e.shadow
         /\ \A p \in Page : NX(d, p) <=> ~x
<1> DEFINE d == set_all_permissions(e, x)
<1>1. /\ d \in EptPages /\ d.split = e.split /\ d.hooked = e.hooked /\ d.armed = e.armed
      /\ d.xo = {} /\ d.shadow = e.shadow
      /\ d.nxPte = IF x THEN {} ELSE Page
      /\ d.nxPde = IF x THEN e.nxPde \cap e.split ELSE e.nxPde \cup (Region \ e.split)
  BY DEF set_all_permissions, ViewInv, EptPages
<1> HIDE DEF d
<1>2. ViewInv(d)
  BY <1>1 DEF ViewInv
<1>3. \A p \in Page : NX(d, p) <=> ~x
  BY <1>1, RegionAssumption DEF NX
<1>4. QED
  BY <1>1, <1>2, <1>3 DEF d

(* reactivate_hooks on an unrestricted view with no hook armed arms all. *)
LEMMA ReactivateArms ==
  ASSUME NEW e, ViewInv(e), e.armed = {}, \A p \in Page : ~NX(e, p)
  PROVE  LET d == reactivate_hooks(e) IN
         ViewInv(d) /\ HookedView(d) /\ d.split = e.split /\ d.hooked = e.hooked
<1> DEFINE d == reactivate_hooks(e)
<1>1. \A p \in e.hooked : p \in Page /\ RegionOf[p] \in e.split
  BY RegionsOfType DEF ViewInv, EptPages
<1>2. {p \in e.hooked \ e.armed : RegionOf[p] \in e.split} = e.hooked
  BY <1>1
<1>3. /\ d \in EptPages /\ d.split = e.split /\ d.hooked = e.hooked
      /\ d.armed = e.hooked /\ d.xo = {} /\ d.shadow = {}
      /\ d.nxPte = e.nxPte \cup e.hooked /\ d.nxPde = e.nxPde
  BY <1>2 DEF reactivate_hooks, ViewInv, EptPages
<1> HIDE DEF d
<1>4. ViewInv(d)
  BY <1>3 DEF ViewInv
<1>5. HookedView(d)
  BY <1>3, <1>1 DEF HookedView, NX
<1>6. QED
  BY <1>3, <1>4, <1>5 DEF d

(* The loop of ept::enable_auto_trace produces the two complementary views. *)
LEMMA TraceLoop ==
  ASSUME NEW e, ViewInv(e), e.armed = {}, NEW T \in SUBSET Page,
         CanSplit(e, RegionsOf(T))
  PROVE  /\ (\A p \in Page : ~NX(e, p)) =>
              ViewInv(TraceNormal(e, T)) /\ TracedView("normal", TraceNormal(e, T), T)
         /\ ViewInv(TraceTarget(e, T)) /\ TracedView("target", TraceTarget(e, T), T)
         /\ TraceNormal(e, T).split = e.split \cup RegionsOf(T)
         /\ TraceTarget(e, T).split = e.split \cup RegionsOf(T)
         /\ TraceNormal(e, T).hooked = e.hooked
         /\ TraceTarget(e, T).hooked = e.hooked
<1>0. RegionsOf(T) \in SUBSET Region /\ \A p \in T : RegionOf[p] \in RegionsOf(T)
  BY RegionsOfType
<1> DEFINE R == RegionsOf(T)
           f == set_all_permissions(e, FALSE)
           s == split_pde(e, R)
           t == split_pde(f, R)
           n == TraceNormal(e, T)
           u == TraceTarget(e, T)
<1>1. /\ ViewInv(f) /\ f.split = e.split /\ f.hooked = e.hooked /\ f.armed = {}
      /\ \A p \in Page : NX(f, p)
  BY SetAllUniform
<1>2. ViewInv(s) /\ ViewInv(t)
  BY <1>0, <1>1, SplitKeepsView DEF CanSplit
<1>3. /\ s \in EptPages /\ s.split = e.split \cup R /\ s.hooked = e.hooked /\ s.armed = {}
      /\ \A p \in Page : NX(s, p) <=> NX(e, p)
  BY <1>0, SplitKeepsWalk DEF ViewInv
<1>4. /\ t \in EptPages /\ t.split = e.split \cup R /\ t.hooked = e.hooked /\ t.armed = {}
      /\ \A p \in Page : NX(t, p)
  <2>1. f \in EptPages /\ R \in SUBSET Region
    BY <1>0, <1>1 DEF ViewInv
  <2> HIDE DEF f, R
  <2>2. /\ t \in EptPages /\ t.split = f.split \cup R /\ t.hooked = f.hooked
        /\ t.armed = f.armed /\ \A p \in Page : NX(t, p) <=> NX(f, p)
    BY <2>1, SplitKeepsWalk
  <2>3. QED
    BY <1>1, <2>2
<1>5. n = [s EXCEPT !.nxPte = @ \cup T] /\ u = [t EXCEPT !.nxPte = @ \ T]
  BY DEF TraceNormal, TraceTarget
<1> HIDE DEF s, t, f, R, n, u
<1>6. /\ n \in EptPages /\ n.split = s.split /\ n.hooked = s.hooked /\ n.armed = s.armed
      /\ n.xo = s.xo /\ n.shadow = s.shadow /\ n.nxPde = s.nxPde /\ n.nxPte = s.nxPte \cup T
  BY <1>3, <1>5 DEF EptPages
<1>7. /\ u \in EptPages /\ u.split = t.split /\ u.hooked = t.hooked /\ u.armed = t.armed
      /\ u.xo = t.xo /\ u.shadow = t.shadow /\ u.nxPde = t.nxPde /\ u.nxPte = t.nxPte \ T
  BY <1>4, <1>5 DEF EptPages
<1>8. ViewInv(n) /\ ViewInv(u)
  BY <1>2, <1>6, <1>7 DEF ViewInv
<1>9. \A p \in T : RegionOf[p] \in R
  BY <1>0 DEF R
<1>10. (\A p \in Page : ~NX(e, p)) => TracedView("normal", n, T)
  BY <1>3, <1>6, <1>9 DEF TracedView, NX
<1>11. TracedView("target", u, T)
  BY <1>4, <1>7, <1>9 DEF TracedView, NX
<1>12. QED
  BY <1>3, <1>4, <1>6, <1>7, <1>8, <1>10, <1>11 DEF n, u, R

-----------------------------------------------------------------------------
(* The inductive step, one lemma per action.                               *)

(* initialize_ept gives two equal views without any restriction. *)
LEMMA InitIInv == Init => IInv
<1> SUFFICES ASSUME Init PROVE IInv
  OBVIOUS
<1>1. PICK N \in SUBSET Region : ept = [v \in View |-> initialize_ept(N)]
  BY DEF Init
<1> DEFINE z == [split |-> {}, nxPde |-> {}, nxPte |-> {}, xo |-> {}, shadow |-> {},
                 hooked |-> {}, armed |-> {}]
<1>2. z \in EptPages /\ z.split = {} /\ Cardinality(z.split) <= SplitCount
  BY FS_EmptySet, BoundsAssumption DEF EptPages
<1>3. ViewInv(z) /\ HookedView(z)
  BY <1>2 DEF ViewInv, HookedView, RegionsOf, NX
<1> DEFINE i == initialize_ept(N)
<1>4. PICK R \in SUBSET Region : i = split_pde(z, R) /\ CanSplit(z, R)
  BY <1>2, ServedFits DEF initialize_ept
<1>5. ViewInv(i) /\ HookedView(i)
  <2> HIDE DEF z, i
  <2>1. QED BY <1>3, <1>4, SplitKeepsView
<1>6. ept["normal"] = i /\ ept["target"] = i /\ ept = [v \in View |-> i]
  BY <1>1 DEF View
<1> HIDE DEF i
<1>7. TypeOK
  BY <1>5, <1>6 DEF Init, TypeOK, ViewInv, View
<1>8. QED
  BY <1>5, <1>6, <1>7 DEF Init, IInv, View

(* The facts about ept' that an action which leaves tracing off owes. *)
LEMMA HookedStep ==
  ASSUME IInv, NEW n, NEW t, ept' = [v \in View |-> IF v = "normal" THEN n ELSE t],
         ViewInv(n), ViewInv(t), HookedView(n), HookedView(t),
         n.split = t.split, n.hooked = t.hooked,
         in_normal_execution' = TRUE, eptp' = "normal", active' = FALSE,
         stale' = {}, UNCHANGED <<phase, crashed, insn>>,
         target' \in SUBSET Page, unreported' = FALSE
  PROVE  IInv'
<1>1. ept'["normal"] = n /\ ept'["target"] = t /\ \A v \in View : ept'[v] \in {n, t}
  BY DEF View
<1>2. TypeOK'
  BY <1>1 DEF IInv, TypeOK, View, ViewInv
<1>3. QED
  BY <1>1, <1>2 DEF IInv, View

(* handle_ept_hook adds the hook to both views or to none. *)
LEMMA HookStep ==
  ASSUME IInv, NEW p \in Page, handle_ept_hook(p)
  PROVE  IInv'
<1> DEFINE n == ept["normal"]
           t == ept["target"]
           r == RegionOf[p]
<1>1. /\ ViewInv(n) /\ ViewInv(t) /\ HookedView(n) /\ HookedView(t)
      /\ n.split = t.split /\ n.hooked = t.hooked /\ p \notin n.hooked
      /\ ~active /\ in_normal_execution /\ eptp = "normal"
  BY DEF handle_ept_hook, IInv, TypeOK, View
<1>2. CanHook(n, p) <=> CanHook(t, p)
  BY <1>1 DEF CanHook, CanSplit
<1>3. r \in Region
  BY RegionAssumption
<1>4. ASSUME NEW e, ViewInv(e), HookedView(e), p \notin e.hooked, CanHook(e, p)
      PROVE  /\ ViewInv(add_hook(e, p)) /\ HookedView(add_hook(e, p))
             /\ add_hook(e, p).split = e.split \cup {r}
             /\ add_hook(e, p).hooked = e.hooked \cup {p}
  <2> DEFINE s == split_pde(e, {r})
             d == add_hook(e, p)
  <2>1. ViewInv(s) /\ HookedView(s) /\ s.split = e.split \cup {r} /\ s.hooked = e.hooked
    BY <1>3, <1>4, SplitKeepsView, SplitKeepsWalk DEF CanHook, ViewInv
  <2>2. d = [s EXCEPT !.hooked = @ \cup {p}, !.armed = @ \cup {p}, !.nxPte = @ \cup {p}]
    BY DEF add_hook
  <2> HIDE DEF s, d
  <2>3. /\ d \in EptPages /\ d.split = s.split /\ d.nxPde = s.nxPde
        /\ d.hooked = s.hooked \cup {p} /\ d.armed = s.armed \cup {p}
        /\ d.nxPte = s.nxPte \cup {p} /\ d.xo = s.xo /\ d.shadow = s.shadow
    BY <2>1, <2>2 DEF ViewInv, EptPages
  <2>4. RegionsOf(d.hooked) = RegionsOf(s.hooked) \cup {r}
    BY <2>3 DEF RegionsOf
  <2>5. ViewInv(d)
    BY <2>1, <2>3, <2>4 DEF ViewInv
  <2>6. HookedView(d)
    BY <1>4, <2>1, <2>3 DEF HookedView, NX, ViewInv
  <2>7. QED
    BY <2>1, <2>3, <2>5, <2>6 DEF d
<1>5. /\ stale' = {}
      /\ UNCHANGED <<eptp, in_normal_execution, active, phase, crashed, insn, target, unreported>>
  BY DEF handle_ept_hook, invept_all
<1>6. active' = FALSE /\ in_normal_execution' = TRUE /\ eptp' = "normal"
      /\ unreported' = FALSE /\ target' \in SUBSET Page
  BY <1>1, <1>5 DEF IInv, TypeOK
<1>7. CASE CanHook(n, p)
  <2>1. ept' = [v \in View |-> IF v = "normal" THEN add_hook(n, p) ELSE add_hook(t, p)]
    BY <1>2, <1>7 DEF handle_ept_hook, View
  <2>2. /\ ViewInv(add_hook(n, p)) /\ HookedView(add_hook(n, p))
        /\ ViewInv(add_hook(t, p)) /\ HookedView(add_hook(t, p))
        /\ add_hook(n, p).split = add_hook(t, p).split
        /\ add_hook(n, p).hooked = add_hook(t, p).hooked
    BY <1>1, <1>2, <1>4, <1>7
  <2>3. QED
    BY <2>1, <2>2, <1>5, <1>6, HookedStep
<1>8. CASE ~CanHook(n, p)
  <2>1. ept' = [v \in View |-> IF v = "normal" THEN n ELSE t]
    BY <1>8 DEF handle_ept_hook, View
  <2>2. QED
    BY <2>1, <1>1, <1>5, <1>6, HookedStep
<1>9. QED
  BY <1>7, <1>8

(* handle_enable_auto_trace, successful or out of page tables. *)
LEMMA EnableStep ==
  ASSUME IInv, ~active, NEW T \in SUBSET Page, handle_enable_auto_trace(T)
  PROVE  IInv'
<1> DEFINE n == deactivate_hooks(ept["normal"])
           t == deactivate_hooks(ept["target"])
<1>1. /\ ViewInv(ept["normal"]) /\ ViewInv(ept["target"])
      /\ HookedView(ept["normal"]) /\ HookedView(ept["target"])
      /\ ept["normal"].split = ept["target"].split
      /\ ept["normal"].hooked = ept["target"].hooked
      /\ in_normal_execution /\ eptp = "normal"
      /\ unreported = FALSE /\ target \in SUBSET Page
  BY DEF IInv, TypeOK, View
<1>2. /\ ViewInv(n) /\ n.split = ept["normal"].split /\ n.hooked = ept["normal"].hooked
      /\ n.armed = {} /\ \A p \in Page : ~NX(n, p)
  BY <1>1, DeactivateClears
<1>3. /\ ViewInv(t) /\ t.split = ept["target"].split /\ t.hooked = ept["target"].hooked
      /\ t.armed = {} /\ \A p \in Page : ~NX(t, p)
  BY <1>1, DeactivateClears
<1>4. phase = "serve" /\ UNCHANGED <<phase, crashed, insn>>
  BY DEF handle_enable_auto_trace
<1>5. CASE EnableSucceeds(T)
  <2> DEFINE a == TraceNormal(n, T)
             b == TraceTarget(t, T)
  <2>1. /\ ept' = [v \in View |-> IF v = "normal" THEN a ELSE b]
        /\ CanSplit(n, RegionsOf(T)) /\ CanSplit(t, RegionsOf(T))
        /\ active' = TRUE /\ eptp' = "normal" /\ in_normal_execution' = TRUE
        /\ target' = T /\ unreported' = FALSE /\ stale' = {}
    BY <1>5 DEF EnableSucceeds, change_eptp, invept_all
  <2> HIDE DEF n, t
  <2>2. /\ ViewInv(a) /\ TracedView("normal", a, T)
        /\ a.split = n.split \cup RegionsOf(T) /\ a.hooked = n.hooked
    BY <1>2, <2>1, TraceLoop
  <2>3. /\ ViewInv(b) /\ TracedView("target", b, T)
        /\ b.split = t.split \cup RegionsOf(T) /\ b.hooked = t.hooked
    BY <1>3, <2>1, TraceLoop
  <2> HIDE DEF a, b
  <2>4. ept'["normal"] = a /\ ept'["target"] = b
    BY <2>1 DEF View
  <2>5. TypeOK'
    BY <2>1, <2>2, <2>3, <1>4 DEF IInv, TypeOK, View, ViewInv
  <2>6. QED
    BY <1>1, <1>2, <1>3, <1>4, <2>1, <2>2, <2>3, <2>4, <2>5 DEF IInv, View
<1>6. CASE EnableFails(T)
  <2> DEFINE u == set_all_permissions(t, FALSE)
             R(e, S, f) == IF CanSplit(e, S \cup {f}) THEN S \cup {f} ELSE S
             Bail(e, S, f) == reactivate_hooks(set_all_permissions(split_pde(e, R(e, S, f)), TRUE))
  <2>1. PICK S \in SUBSET RegionsOf(T), f \in RegionsOf(T) :
          /\ CanSplit(n, S) /\ CanSplit(u, S)
          /\ ept' = [v \in View |-> Bail(IF v = "normal" THEN n ELSE u, S, f)]
    BY <1>6 DEF EnableFails
  <2>2. /\ stale' = {} /\ UNCHANGED <<eptp, in_normal_execution, active, target, unreported>>
    BY <1>6 DEF EnableFails, invept_all
  <2>3. S \in SUBSET Region /\ f \in Region
    BY RegionsOfType
  <2>4. ViewInv(u) /\ u.split = t.split /\ u.hooked = t.hooked /\ u.armed = {}
    BY <1>3, SetAllUniform
  <2>5. ASSUME NEW e, ViewInv(e), e.armed = {}, CanSplit(e, S)
        PROVE  /\ ViewInv(Bail(e, S, f)) /\ HookedView(Bail(e, S, f))
               /\ Bail(e, S, f).split = e.split \cup R(e, S, f)
               /\ Bail(e, S, f).hooked = e.hooked
    <3> DEFINE Q == R(e, S, f)
               s == split_pde(e, Q)
               d == set_all_permissions(s, TRUE)
    <3>1. Q \in SUBSET Region /\ CanSplit(e, Q)
      BY <2>3, <2>5
    <3> HIDE DEF Q
    <3>2. ViewInv(s) /\ s.split = e.split \cup Q /\ s.hooked = e.hooked /\ s.armed = {}
      BY <2>5, <3>1, SplitKeepsView, SplitKeepsWalk DEF ViewInv
    <3> HIDE DEF s
    <3>3. /\ ViewInv(d) /\ d.split = s.split /\ d.hooked = s.hooked /\ d.armed = {}
          /\ \A p \in Page : ~NX(d, p)
      BY <3>2, SetAllUniform
    <3> HIDE DEF d
    <3>4. /\ ViewInv(reactivate_hooks(d)) /\ HookedView(reactivate_hooks(d))
          /\ reactivate_hooks(d).split = d.split /\ reactivate_hooks(d).hooked = d.hooked
      BY <3>3, ReactivateArms
    <3>5. QED
      BY <3>2, <3>3, <3>4 DEF d, s, Q
  <2>6. R(n, S, f) = R(u, S, f)
    BY <1>1, <1>2, <1>3, <2>4 DEF CanSplit
  <2>7. ept' = [v \in View |-> IF v = "normal" THEN Bail(n, S, f) ELSE Bail(u, S, f)]
    BY <2>1
  <2>8. /\ ViewInv(Bail(n, S, f)) /\ HookedView(Bail(n, S, f))
        /\ ViewInv(Bail(u, S, f)) /\ HookedView(Bail(u, S, f))
        /\ Bail(n, S, f).split = Bail(u, S, f).split
        /\ Bail(n, S, f).hooked = Bail(u, S, f).hooked
    <3>1. n.split = u.split /\ n.hooked = u.hooked
      BY <1>1, <1>2, <1>3, <2>4
    <3>2. ViewInv(n) /\ n.armed = {} /\ CanSplit(n, S)
      BY <1>2, <2>1
    <3>3. ViewInv(u) /\ u.armed = {} /\ CanSplit(u, S)
      BY <2>1, <2>4
    <3> HIDE DEF Bail, R, n, u, t
    <3>4. /\ ViewInv(Bail(n, S, f)) /\ HookedView(Bail(n, S, f))
          /\ Bail(n, S, f).split = n.split \cup R(n, S, f) /\ Bail(n, S, f).hooked = n.hooked
      BY <2>5, <3>2
    <3>5. /\ ViewInv(Bail(u, S, f)) /\ HookedView(Bail(u, S, f))
          /\ Bail(u, S, f).split = u.split \cup R(u, S, f) /\ Bail(u, S, f).hooked = u.hooked
      BY <2>5, <3>3
    <3>6. QED
      BY <2>6, <3>1, <3>4, <3>5
  <2>9. /\ in_normal_execution' = TRUE /\ eptp' = "normal" /\ active' = FALSE
        /\ unreported' = FALSE /\ target' \in SUBSET Page
    BY <1>1, <2>2 DEF IInv, TypeOK
  <2> HIDE DEF Bail, n, u
  <2>10. QED
    BY <2>2, <2>7, <2>8, <2>9, <1>4, HookedStep
<1>7. QED
  BY <1>5, <1>6 DEF handle_enable_auto_trace

(* handle_disable_auto_trace brings every hook back. *)
LEMMA DisableStep ==
  ASSUME IInv, active, handle_disable_auto_trace
  PROVE  IInv'
<1> DEFINE D(e) == reactivate_hooks(set_all_permissions(e, TRUE))
<1>1. ASSUME NEW e, ViewInv(e), e.armed = {}
      PROVE  ViewInv(D(e)) /\ HookedView(D(e)) /\ D(e).split = e.split /\ D(e).hooked = e.hooked
  <2> DEFINE d == set_all_permissions(e, TRUE)
  <2>1. /\ ViewInv(d) /\ d.split = e.split /\ d.hooked = e.hooked /\ d.armed = {}
        /\ \A p \in Page : ~NX(d, p)
    BY <1>1, SetAllUniform
  <2> HIDE DEF d
  <2>2. /\ ViewInv(reactivate_hooks(d)) /\ HookedView(reactivate_hooks(d))
        /\ reactivate_hooks(d).split = d.split /\ reactivate_hooks(d).hooked = d.hooked
    BY <2>1, ReactivateArms
  <2>3. QED
    BY <2>1, <2>2 DEF d
<1>2. /\ ViewInv(ept["normal"]) /\ ViewInv(ept["target"])
      /\ ept["normal"].armed = {} /\ ept["target"].armed = {}
      /\ ept["normal"].split = ept["target"].split
      /\ ept["normal"].hooked = ept["target"].hooked
      /\ target \in SUBSET Page
  BY DEF IInv, TypeOK, View, TracedView
<1>3. /\ ept' = [v \in View |-> D(ept[v])]
      /\ active' = FALSE /\ eptp' = "normal" /\ in_normal_execution' = TRUE
      /\ unreported' = FALSE /\ stale' = {} /\ UNCHANGED <<phase, crashed, insn, target>>
  BY DEF handle_disable_auto_trace, change_eptp, invept_all
<1>4. ept' = [v \in View |-> IF v = "normal" THEN D(ept["normal"]) ELSE D(ept["target"])]
  BY <1>3 DEF View
<1>5. /\ ViewInv(D(ept["normal"])) /\ HookedView(D(ept["normal"]))
      /\ ViewInv(D(ept["target"])) /\ HookedView(D(ept["target"]))
      /\ D(ept["normal"]).split = D(ept["target"]).split
      /\ D(ept["normal"]).hooked = D(ept["target"]).hooked
  <2> HIDE DEF D
  <2>1. QED BY <1>1, <1>2
<1> HIDE DEF D
<1>6. QED
  BY <1>2, <1>3, <1>4, <1>5, HookedStep

(* MTRR writes split the same regions in both views and change no walk. *)
LEMMA MtrrStep ==
  ASSUME IInv, NEW N \in SUBSET Region, handle_wrmsr_mtrr(N)
  PROVE  IInv'
<1> DEFINE n == ept["normal"]
           t == ept["target"]
           S == Served(n.split, N)
           a == split_pde(n, S)
           b == split_pde(t, S)
<1>1. /\ ViewInv(n) /\ ViewInv(t) /\ n.split = t.split /\ n.hooked = t.hooked
      /\ target \in SUBSET Page /\ "normal" \in View /\ "target" \in View
  BY DEF IInv, TypeOK, View
<1>2. /\ ept' = [v \in View |-> update_ept_memory_types(ept[v], N)] /\ stale' = {}
      /\ UNCHANGED <<eptp, in_normal_execution, active, phase, crashed, insn, target, unreported>>
  BY DEF handle_wrmsr_mtrr, invept_all
<1>3. /\ update_ept_memory_types(n, N) = a /\ update_ept_memory_types(t, N) = b
      /\ S \in SUBSET Region /\ CanSplit(n, S) /\ CanSplit(t, S)
  BY <1>1, ServedFits DEF ViewInv
<1>4. ept' = [v \in View |-> IF v = "normal" THEN a ELSE b]
  BY <1>2, <1>3 DEF View
<1> HIDE DEF S
<1>5. ViewInv(a) /\ ViewInv(b) /\ a.split = b.split /\ a.hooked = b.hooked
  <2>1. ViewInv(a) /\ ViewInv(b)
    BY <1>1, <1>3, SplitKeepsView
  <2>2. a.split = n.split \cup S /\ a.hooked = n.hooked
    BY <1>1, <1>3, SplitKeepsWalk DEF ViewInv
  <2>3. b.split = t.split \cup S /\ b.hooked = t.hooked
    BY <1>1, <1>3, SplitKeepsWalk DEF ViewInv
  <2>4. QED
    BY <1>1, <2>1, <2>2, <2>3
<1>6. CASE ~active
  <2>1. HookedView(a) /\ HookedView(b)
    BY <1>1, <1>3, <1>6, SplitKeepsView DEF IInv
  <2>2. /\ in_normal_execution' = TRUE /\ eptp' = "normal" /\ active' = FALSE
        /\ unreported' = FALSE /\ target' \in SUBSET Page
    BY <1>2, <1>6 DEF IInv, TypeOK
  <2> HIDE DEF a, b
  <2>3. QED
    BY <1>2, <1>4, <1>5, <2>1, <2>2, HookedStep
<1>7. CASE active
  <2>1. TracedView("normal", n, target) /\ TracedView("target", t, target)
    BY <1>1, <1>7 DEF IInv
  <2>2. TracedView("normal", a, target) /\ TracedView("target", b, target)
    BY <1>1, <1>3, <2>1, SplitKeepsView
  <2> HIDE DEF a, b
  <2>3. ept'["normal"] = a /\ ept'["target"] = b
    BY <1>4 DEF View
  <2>4. TypeOK'
    BY <1>2, <1>4, <1>5 DEF IInv, TypeOK, View, ViewInv
  <2>5. QED
    BY <1>2, <1>5, <1>7, <2>2, <2>3, <2>4 DEF IInv, View
<1>8. QED
  BY <1>6, <1>7

(* The swap of handle_ept_violation moves an armed hook to its other phase. *)
LEMMA SwapStep ==
  ASSUME IInv, ~active, NEW p \in Page, NEW kind \in {"exec", "data"},
         HookSwap("normal", p, kind), UNCHANGED <<active, phase, insn, target>>
  PROVE  IInv'
<1> DEFINE n == ept["normal"]
           t == ept["target"]
           d == IF kind = "exec" THEN ShowHook(n, p) ELSE ShowOriginal(n, p)
<1>1. /\ ViewInv(n) /\ ViewInv(t) /\ HookedView(n) /\ HookedView(t)
      /\ n.split = t.split /\ n.hooked = t.hooked /\ stale = {}
      /\ in_normal_execution' = TRUE /\ eptp' = "normal" /\ active' = FALSE
      /\ unreported' = FALSE /\ target' \in SUBSET Page
  BY DEF HookSwap, HookSwapWith, IInv, TypeOK, View
<1>2. /\ ept' = [v \in View |-> IF v = "normal" THEN d ELSE t]
      /\ p \in n.armed /\ UNCHANGED <<phase, crashed, insn>>
  BY DEF HookSwap, HookSwapWith, IInv, TypeOK, View
<1>3. stale' = {}
  <2>1. ept'["target"] = t
    BY <1>2 DEF View
  <2>2. QED
    BY <1>1, <2>1 DEF HookSwap, HookSwapWith, invept_single, Changed, View
<1>4. /\ d \in EptPages /\ d.split = n.split /\ d.nxPde = n.nxPde
      /\ d.hooked = n.hooked /\ d.armed = n.armed
      /\ d.xo = IF kind = "exec" THEN n.xo \cup {p} ELSE n.xo \ {p}
      /\ d.shadow = IF kind = "exec" THEN n.shadow \cup {p} ELSE n.shadow \ {p}
      /\ d.nxPte = IF kind = "exec" THEN n.nxPte \ {p} ELSE n.nxPte \cup {p}
  BY <1>1 DEF ViewInv, EptPages, ShowHook, ShowOriginal
<1> HIDE DEF d
<1>5. ViewInv(d)
  BY <1>1, <1>2, <1>4 DEF ViewInv
<1>6. HookedView(d)
  BY <1>1, <1>2, <1>4 DEF HookedView, NX
<1>7. QED
  BY <1>1, <1>2, <1>3, <1>4, <1>5, <1>6, HookedStep

(* The violation exit: a swap only between traces, a flip only during one,  *)
(* and the branch that stops the host never.                                *)
LEMMA ViolationStep ==
  ASSUME IInv, handle_ept_violation
  PROVE  IInv'
<1>1. /\ eptp = IF in_normal_execution THEN "normal" ELSE "target"
      /\ eptp \in View /\ insn \in Insn
      /\ UNCHANGED <<active, phase, insn, target>>
      /\ insn.code \in SUBSET Page /\ insn.data \in SUBSET Page
  BY InsnAssumption DEF handle_ept_violation, IInv, TypeOK, View
<1>2. PICK b \in Blocked(insn) :
        HookSwap(eptp, b[1], b[2]) \/ ViewFlip(eptp, b[1], b[2]) \/ Unhandled(eptp, b[1], b[2])
  BY <1>1 DEF handle_ept_violation
<1>3. /\ b[1] \in Page /\ b[2] \in {"exec", "data"}
      /\ b[2] = "exec" => NX(ept[eptp], b[1])
      /\ b[2] = "data" => NoRW(ept[eptp], b[1])
  BY <1>1, <1>2 DEF Blocked
<1>4. CASE HookSwap(eptp, b[1], b[2])
  <2>1. ~active /\ eptp = "normal"
    BY <1>1, <1>4 DEF HookSwap, HookSwapWith, IInv, TracedView
  <2>2. QED
    BY <1>1, <1>3, <1>4, <2>1, SwapStep
<1>5. CASE ViewFlip(eptp, b[1], b[2])
  <2>1. active
    BY <1>1, <1>3, <1>5 DEF ViewFlip, IInv, HookedView
  <2>2. UNCHANGED <<ept, stale, crashed>>
    BY <1>5 DEF ViewFlip
  <2>3. TypeOK'
    BY <1>1, <1>5, <2>2 DEF ViewFlip, change_eptp, IInv, TypeOK
  <2>4. unreported' => ~in_normal_execution'
    BY <1>5 DEF ViewFlip, change_eptp, IInv, TypeOK
  <2>5. QED
    BY <1>1, <2>1, <2>2, <2>3, <2>4 DEF IInv
<1>6. CASE Unhandled(eptp, b[1], b[2])
  <2>1. b[1] \in ept[eptp].armed
    BY <1>1, <1>3, <1>6 DEF Unhandled, NoRW, IInv, ViewInv
  <2>2. QED
    BY <1>6, <2>1 DEF Unhandled
<1>7. QED
  BY <1>2, <1>4, <1>5, <1>6

(* An instruction starts or retires, or nothing happens. *)
LEMMA GuestStep ==
  ASSUME IInv, (\E i \in Insn : GuestIssue(i)) \/ GuestRetire \/ EndInstall \/ UNCHANGED vars
  PROVE  IInv'
<1>1. CASE UNCHANGED vars
  BY <1>1 DEF vars, IInv, TypeOK
<1>2. CASE EndInstall
  BY <1>2 DEF EndInstall, IInv, TypeOK
<1>3. ASSUME NEW i \in Insn, GuestIssue(i) PROVE IInv'
  BY <1>3 DEF GuestIssue, IInv, TypeOK
<1>4. CASE GuestRetire
  <2>1. /\ UNCHANGED <<ept, eptp, in_normal_execution, active, phase, crashed, target, stale>>
        /\ insn' = NoInsn /\ Blocked(insn) = {} /\ insn \in Insn
        /\ unreported' = IF active /\ insn.code \cap target # {} THEN TRUE ELSE unreported
    BY <1>4 DEF GuestRetire
  <2>2. TypeOK'
    BY <2>1 DEF IInv, TypeOK
  <2>3. (active /\ insn.code \cap target # {}) => ~in_normal_execution
    <3>1. SUFFICES ASSUME active, in_normal_execution, NEW p \in insn.code, p \in target
                   PROVE  FALSE
      OBVIOUS
    <3>2. p \in Page /\ eptp = "normal" /\ TracedView("normal", ept["normal"], target)
      BY <2>1, <3>1, InsnAssumption DEF IInv, TypeOK, View
    <3>3. NX(ept[eptp], p)
      BY <3>1, <3>2 DEF TracedView
    <3>4. <<p, "exec">> \in Blocked(insn)
      BY <3>1, <3>3 DEF Blocked
    <3>5. QED
      BY <2>1, <3>4
  <2>4. unreported' => active' /\ ~in_normal_execution'
    BY <2>1, <2>3 DEF IInv, TypeOK
  <2>5. QED
    BY <2>1, <2>2, <2>4 DEF IInv
<1>5. QED
  BY <1>1, <1>2, <1>3, <1>4

-----------------------------------------------------------------------------
(* Theorems.                                                               *)

(* The inductive invariant holds in every reachable state. *)
THEOREM Invariance == Spec => []IInv
<1>1. Init => IInv
  BY InitIInv
<1>2. IInv /\ [Next]_vars => IInv'
  <2> SUFFICES ASSUME IInv, [Next]_vars PROVE IInv'
    OBVIOUS
  <2>1. ASSUME NEW p \in Page, handle_ept_hook(p) PROVE IInv'
    BY <2>1, HookStep
  <2>2. ASSUME NEW R \in SUBSET Region, handle_wrmsr_mtrr(R) PROVE IInv'
    BY <2>2, MtrrStep
  <2>3. ASSUME ~active, NEW T \in SUBSET Page, handle_enable_auto_trace(T) PROVE IInv'
    BY <2>3, EnableStep
  <2>4. CASE active /\ handle_disable_auto_trace
    BY <2>4, DisableStep
  <2>5. CASE handle_ept_violation
    BY <2>5, ViolationStep
  <2>6. CASE (\E i \in Insn : GuestIssue(i)) \/ GuestRetire \/ EndInstall \/ UNCHANGED vars
    BY <2>6, GuestStep
  <2>7. QED
    BY <2>1, <2>2, <2>3, <2>4, <2>5, <2>6 DEF Next, Background, Guest
<1>3. QED
  BY <1>1, <1>2, PTL DEF Spec

(* The handlers' flag names the view the processor walks, and every hook's  *)
(* pte pointer refers to a page table (TypeOK).                             *)
THEOREM TypeCorrect == Spec => []TypeOK
<1>1. IInv => TypeOK
  BY DEF IInv
<1>2. QED
  BY <1>1, Invariance, PTL

(* During a trace the two views are complementary on the traced pages,      *)
(* whatever was hooked, split or written to the MTRRs before.               *)
THEOREM ViewsComplementary == Spec => []TraceViews
<1>1. IInv => TraceViews
  <2> SUFFICES ASSUME IInv, active, NEW p \in Page
               PROVE  /\ NX(ept["normal"], p) <=> p \in target
                      /\ NX(ept["target"], p) <=> p \notin target
                      /\ \A v \in View : ~NoRW(ept[v], p) /\ ~ShadowMapped(ept[v], p)
    BY DEF TraceViews
  <2>1. TracedView("normal", ept["normal"], target) /\ TracedView("target", ept["target"], target)
    BY DEF IInv, View
  <2>2. \A v \in View : ept[v].xo = {} /\ ept[v].shadow = {}
    BY DEF IInv, TracedView, ViewInv
  <2>3. QED
    BY <2>1, <2>2 DEF TracedView, NoRW, ShadowMapped
<1>2. QED
  BY <1>1, Invariance, PTL

(* Between traces every installed hook intercepts, in both views, also      *)
(* after an enable that failed half-way.                                    *)
THEOREM HooksSurviveTracing == Spec => []HooksArmed
<1>1. IInv => HooksArmed
  <2> SUFFICES ASSUME IInv, ~active, NEW v \in View, NEW p \in ept[v].hooked
               PROVE  /\ p \in ept[v].armed
                      /\ NX(ept[v], p) <=> ~NoRW(ept[v], p)
                      /\ NX(ept[v], p) <=> ~ShadowMapped(ept[v], p)
    BY DEF HooksArmed
  <2>1. HookedView(ept[v]) /\ ViewInv(ept[v])
    BY DEF IInv
  <2>2. p \in Page /\ RegionOf[p] \in ept[v].split
    BY <2>1, RegionsOfType DEF ViewInv, EptPages
  <2>3. QED
    BY <2>1, <2>2 DEF HookedView, NX, NoRW, ShadowMapped
<1>2. QED
  BY <1>1, Invariance, PTL

(* No page is ever readable with another page's content. *)
THEOREM ReadsAreHonest == Spec => []ReadsSeeOriginal
<1>1. IInv => ReadsSeeOriginal
  <2> SUFFICES ASSUME IInv, NEW v \in View, NEW p \in Page, ShadowMapped(ept[v], p)
               PROVE  NoRW(ept[v], p)
    BY DEF ReadsSeeOriginal
  <2>1. RegionOf[p] \in ept[v].split /\ p \in ept[v].shadow /\ p \in ept[v].armed
    BY DEF ShadowMapped, IInv, ViewInv
  <2>2. ~active /\ p \in ept[v].hooked
    BY <2>1 DEF IInv, TracedView, HookedView
  <2>3. QED
    BY <2>1, <2>2 DEF IInv, HookedView, NoRW
<1>2. QED
  BY <1>1, Invariance, PTL

(* The two views never diverge in hooks or page tables, and no view         *)
(* overruns its pool.                                                       *)
THEOREM ViewsInLockstep == Spec => []Lockstep
<1>1. IInv => Lockstep
  BY DEF IInv, Lockstep, View, ViewInv
<1>2. QED
  BY <1>1, Invariance, PTL

(* Every change of an entry is covered by an INVEPT before VM-entry. *)
THEOREM TranslationsFresh == Spec => []NoStaleTranslation
<1>1. IInv => NoStaleTranslation
  BY DEF IInv, NoStaleTranslation
<1>2. QED
  BY <1>1, Invariance, PTL

(* The host never stops in handle_ept_violation. *)
THEOREM ViolationsHandled == Spec => []NoUnhandledViolation
<1>1. IInv => NoUnhandledViolation
  BY DEF IInv, NoUnhandledViolation
<1>2. QED
  BY <1>1, Invariance, PTL

(* Leaving the target is never silent: a record is emitted before the       *)
(* first instruction outside it retires.                                    *)
THEOREM TransitionsTraced == Spec => TransitionTraced
<1> DEFINE Leaves == active /\ insn \in Insn /\ insn' = NoInsn /\ insn.code \cap target = {}
<1>1. IInv /\ [Next]_vars => [Leaves => ~unreported]_vars
  <2> SUFFICES ASSUME IInv, Next, Leaves, unreported PROVE FALSE
    BY DEF vars
  <2>1. GuestRetire
    BY InsnAssumption DEF Next, Background, Guest, handle_ept_hook, EndInstall,
       handle_wrmsr_mtrr, GuestIssue, handle_ept_violation, handle_enable_auto_trace,
       handle_disable_auto_trace, Idle
  <2>2. PICK p \in insn.code : p \in Page /\ p \notin target
    BY InsnAssumption
  <2>3. eptp = "target" /\ TracedView("target", ept["target"], target)
    BY DEF IInv, TypeOK, View
  <2>4. NX(ept[eptp], p)
    BY <2>2, <2>3 DEF TracedView
  <2>5. <<p, "exec">> \in Blocked(insn)
    BY <2>2, <2>4 DEF Blocked
  <2>6. QED
    BY <2>1, <2>5 DEF GuestRetire
<1>2. QED
  BY <1>1, Invariance, PTL DEF Spec, TransitionTraced
=============================================================================
