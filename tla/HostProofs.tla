----------------------------- MODULE HostProofs -----------------------------
(***************************************************************************)
(* The host's side, for any number of cores and any size: copies of guest  *)
(* memory (GuestMemory), loading the driver (Launch), the host's page      *)
(* tables (HostTables) and the standard log (LogRing).                     *)
(***************************************************************************)
EXTENDS GuestMemory, Launch, HostTables, LogRing, WellFoundedInduction, TLAPS

-----------------------------------------------------------------------------
(* GuestMemory.                                                            *)

(* A set of naturals has a least element: of the turns of a loop that break *)
(* a claim, one is the first.                                               *)
LEMMA LeastNat ==
  ASSUME NEW T \in SUBSET Nat, T # {}
  PROVE  \E x \in T : \A y \in T : x <= y
<1>1. PICK x \in T : \A y \in T : ~ (<<y, x>> \in OpToRel(<, Nat))
  BY NatLessThanWellFounded, WFMin, Zenon
<1>2. \A y \in T : ~ (y < x)
  BY <1>1 DEF OpToRel
<1> QED
  BY <1>2

Mapped(space, va) == \E p \in GuestPage : Covers(p, space, va)

(* The page of an address is the only one, and Frame is its frame.         *)
LEMMA FrameIs ==
  ASSUME NEW space, NEW va \in Nat, NEW p \in GuestPage, Covers(p, space, va)
  PROVE  Frame(space, va) = p.frame + (va - p.first) /\ Frame(space, va) \in Physical
<1> DEFINE q == CHOOSE x \in GuestPage : Covers(x, space, va)
<1>1. q \in GuestPage /\ Covers(q, space, va)
  OBVIOUS
<1> HIDE DEF q
<1>2. q = p
  <2> SUFFICES ASSUME q # p PROVE FALSE
    OBVIOUS
  <2>1. p.space = q.space /\ p.first \in Nat /\ q.first \in Nat /\ p.size \in Nat /\ q.size \in Nat
    BY <1>1, GuestMemoryAssumption DEF Covers
  <2>2. p.first <= va /\ va < p.first + p.size /\ q.first <= va /\ va < q.first + q.size
    BY <1>1, <2>1 DEF Covers
  <2>3. Apart(p.first, p.size, q.first, q.size)
    BY <1>1, <2>1, GuestMemoryAssumption
  <2> QED
    BY <2>1, <2>2, <2>3 DEF Apart
<1>3. Frame(space, va) = p.frame + (va - p.first)
  BY <1>2 DEF Frame, q
<1>4. p.frame \in Nat /\ p.first \in Nat /\ p.size \in Nat
  BY GuestMemoryAssumption
<1>5. p.frame + (va - p.first) \in p.frame .. (p.frame + p.size - 1)
  BY <1>4 DEF Covers
<1> QED
  BY <1>3, <1>5 DEF Physical

(* Two addresses have the same frame only if they are one.                 *)
LEMMA FramesApart ==
  ASSUME NEW s, NEW v \in Nat, Mapped(s, v), NEW t, NEW w \in Nat, Mapped(t, w),
         Frame(s, v) = Frame(t, w)
  PROVE  s = t /\ v = w
<1>1. PICK p \in GuestPage : Covers(p, s, v)
  BY DEF Mapped
<1>2. PICK q \in GuestPage : Covers(q, t, w)
  BY DEF Mapped
<1>3. p.frame + (v - p.first) = q.frame + (w - q.first)
  BY <1>1, <1>2, FrameIs
<1>4. /\ p.frame \in Nat /\ p.first \in Nat /\ p.size \in Nat
      /\ q.frame \in Nat /\ q.first \in Nat /\ q.size \in Nat
  BY GuestMemoryAssumption
<1>5. p.first <= v /\ v < p.first + p.size /\ q.first <= w /\ w < q.first + q.size
  BY <1>1, <1>2, <1>4 DEF Covers
<1>6. p = q
  <2> SUFFICES ASSUME p # q PROVE FALSE
    OBVIOUS
  <2>1. Apart(p.frame, p.size, q.frame, q.size)
    BY GuestMemoryAssumption
  <2> QED
    BY <2>1, <1>3, <1>4, <1>5 DEF Apart
<1> QED
  BY <1>1, <1>2, <1>3, <1>4, <1>6 DEF Covers

(* The walk gives the frame of the address, and of the rest of its page.   *)
LEMMA WalkIs ==
  ASSUME present \subseteq GuestPage, NEW space, NEW va \in Nat
  PROVE  LET g == gva_to_hva(space, va)
         IN  /\ g.hva \in Nat /\ g.next \in Nat
             /\ g.hva # 0 =>
                  /\ g.next # 0
                  /\ \A i \in 0 .. g.next - 1 : Mapped(space, va + i) /\ g.hva + i = Frame(space, va + i)
<1> DEFINE found == {p \in present : Covers(p, space, va)}
           g == gva_to_hva(space, va)
<1>1. CASE found = {}
  <2>1. g = [hva |-> 0, next |-> 0]
    BY <1>1 DEF gva_to_hva
  <2> QED
    BY <2>1
<1>2. CASE found # {}
  <2> DEFINE p == CHOOSE q \in found : TRUE
  <2>1. p \in found
    BY <1>2
  <2>2. g = [hva |-> p.frame + (va - p.first), next |-> p.size - (va - p.first)]
    BY <1>2 DEF gva_to_hva, offset_to_next_page
  <2> HIDE DEF p
  <2>3. p \in GuestPage /\ Covers(p, space, va)
    BY <2>1
  <2>4. p.frame \in Nat /\ p.first \in Nat /\ p.size \in Nat
    BY <2>3, GuestMemoryAssumption
  <2>5. p.first <= va /\ va < p.first + p.size
    BY <2>3, <2>4 DEF Covers
  <2>6. ASSUME NEW i \in 0 .. p.size - (va - p.first) - 1
        PROVE  Mapped(space, va + i) /\ p.frame + (va - p.first) + i = Frame(space, va + i)
    <3> DEFINE w == va + i
    <3>1. w \in Nat /\ Covers(p, space, w) /\ p.frame + (va - p.first) + i = p.frame + (w - p.first)
      BY <2>3, <2>4, <2>5 DEF Covers
    <3> HIDE DEF w
    <3>2. Mapped(space, w) /\ Frame(space, w) = p.frame + (w - p.first)
      BY <3>1, <2>3, FrameIs DEF Mapped
    <3> QED
      BY <3>1, <3>2 DEF w
  <2>7. g.hva = p.frame + (va - p.first) /\ g.next = p.size - (va - p.first)
    BY <2>2
  <2> HIDE DEF g
  <2> QED
    BY <2>4, <2>5, <2>6, <2>7 DEF g
<1> QED
  BY <1>1, <1>2

(* memcpy_wrapper touches the addresses in order, all of them or fewer.    *)
LEMMA MemcpyIs ==
  ASSUME NEW hva \in Nat, NEW n \in Nat
  PROVE  \E m \in 0 .. n : memcpy_wrapper(hva, n) = [i \in 1 .. m |-> hva + i - 1]
<1> DEFINE bad == {i \in 0 .. n - 1 : (hva + i) \in Unbacked}
           m == IF bad = {} THEN n ELSE CHOOSE i \in bad : \A j \in bad : i <= j
<1>1. m \in 0 .. n
  <2>1. CASE bad = {}
    BY <2>1
  <2>2. CASE bad # {}
    <3>1. \E i \in bad : \A j \in bad : i <= j
      <4>1. bad \in SUBSET Nat
        OBVIOUS
      <4> QED
        BY <4>1, <2>2, LeastNat
    <3>2. m \in bad
      BY <3>1, <2>2
    <3> QED
      BY <3>2
  <2> QED
    BY <2>1, <2>2
<1>2. memcpy_wrapper(hva, n) = [i \in 1 .. m |-> hva + i - 1]
  BY DEF memcpy_wrapper
<1> QED
  BY <1>1, <1>2

(* One turn of the loop over the pages, from unit t of the request on.     *)
PageTurn(space, va, size, from, t) ==
  LET g == gva_to_hva(space, va + t)
      n == Least(size - t, g.next)
      at == memcpy_wrapper(g.hva, n)
  IN  IF t = size \/ g.hva = 0 THEN [n |-> t, at |-> <<>>]
      ELSE IF Len(at) < n THEN [n |-> t, at |-> at]
      ELSE [n |-> from[t + n].n, at |-> at \o from[t + n].at]

IsCopy(space, va, size, low, from) ==
  from = [t \in low .. size |-> PageTurn(space, va, size, from, t)]

(* A turn goes forward: it depends on later turns only.                    *)
LEMMA TurnForward ==
  ASSUME present \subseteq GuestPage, NEW space, NEW va \in Nat, NEW size \in Nat, NEW t \in 0 .. size,
         NEW f, NEW h, \A u \in t + 1 .. size : f[u] = h[u]
  PROVE  PageTurn(space, va, size, f, t) = PageTurn(space, va, size, h, t)
<1> DEFINE g == gva_to_hva(space, va + t)
           n == Least(size - t, g.next)
<1>1. CASE t = size \/ g.hva = 0
  BY <1>1 DEF PageTurn
<1>2. CASE t # size /\ g.hva # 0
  <2>1. va + t \in Nat
    OBVIOUS
  <2>2. g.next \in Nat /\ g.next # 0
    BY <2>1, <1>2, WalkIs
  <2> HIDE DEF g
  <2>3. t + n \in t + 1 .. size
    BY <2>2, <1>2 DEF Least
  <2> HIDE DEF n
  <2>4. f[t + n] = h[t + n]
    BY <2>3
  <2> QED
    BY <2>4 DEF PageTurn, g, n
<1> QED
  BY <1>1, <1>2

(* So the loop has a run of every length, built from its end.              *)
LEMMA CopyExists ==
  ASSUME present \subseteq GuestPage, NEW space, NEW va \in Nat, NEW size \in Nat
  PROVE  \E from : IsCopy(space, va, size, 0, from)
<1> DEFINE Run(k) == \E from : IsCopy(space, va, size, size - k, from)
           T == {k \in 0 .. size : ~Run(k)}
<1>1. SUFFICES ASSUME T # {} PROVE FALSE
  <2>1. size \in 0 .. size /\ size - size = 0
    OBVIOUS
  <2>2. Run(size)
    BY <1>1, <2>1
  <2> QED
    BY <2>1, <2>2
<1>2. PICK k \in T : \A j \in T : k <= j
  <2>1. T \in SUBSET Nat
    OBVIOUS
  <2> QED
    BY <2>1, <1>1, LeastNat
<1>3. k \in 0 .. size /\ ~Run(k)
  BY <1>2
<1> DEFINE low == size - k
<1>4. low \in 0 .. size
  BY <1>3
<1>5. PICK f : \A u \in low + 1 .. size : f[u] = PageTurn(space, va, size, f, u)
  <2>1. CASE k = 0
    <3>1. low + 1 .. size = {}
      BY <2>1
    <3> QED
      BY <3>1
  <2>2. CASE k # 0
    <3>1. k - 1 \in 0 .. size /\ k - 1 \notin T
      BY <1>2, <1>3, <2>2
    <3>2. Run(k - 1)
      BY <3>1
    <3>3. PICK h : IsCopy(space, va, size, size - (k - 1), h)
      BY <3>2
    <3>4. size - (k - 1) = low + 1
      BY <1>3
    <3> HIDE DEF low
    <3>5. h = [u \in low + 1 .. size |-> PageTurn(space, va, size, h, u)]
      BY <3>3, <3>4 DEF IsCopy
    <3> QED
      BY <3>5
  <2> QED
    BY <2>1, <2>2
<1> DEFINE h == [u \in low .. size |-> IF u = low THEN PageTurn(space, va, size, f, low) ELSE f[u]]
<1> HIDE DEF low
<1>6. \A u \in low + 1 .. size : h[u] = f[u]
  BY <1>4
<1>7. ASSUME NEW u \in low .. size PROVE h[u] = PageTurn(space, va, size, h, u)
  <2>1. u \in 0 .. size /\ \A w \in u + 1 .. size : h[w] = f[w]
    BY <1>4, <1>6
  <2>2. h[u] = PageTurn(space, va, size, f, u)
    <3>1. CASE u = low
      BY <3>1, <1>4
    <3>2. CASE u # low
      <4>1. u \in low + 1 .. size
        BY <3>2, <1>4
      <4> HIDE DEF h
      <4> QED
        BY <4>1, <1>5, <1>6
    <3> QED
      BY <3>1, <3>2
  <2> HIDE DEF h
  <2>3. PageTurn(space, va, size, h, u) = PageTurn(space, va, size, f, u)
    BY <2>1, TurnForward
  <2> QED
    BY <2>2, <2>3
<1>8. h = [u \in low .. size |-> PageTurn(space, va, size, h, u)]
  <2>1. h = [u \in low .. size |-> h[u]]
    OBVIOUS
  <2> HIDE DEF h
  <2> QED
    BY <2>1, <1>7
<1> QED
  BY <1>8, <1>3 DEF IsCopy, low

(* What a run from unit t on has touched.                                  *)
Touched(space, va, size, t, r) ==
  /\ r.n \in t .. size
  /\ r.at \in Seq(Physical) /\ t + Len(r.at) \in r.n .. size
  /\ \A i \in 1 .. Len(r.at) : Mapped(space, va + t + i - 1) /\ r.at[i] = Frame(space, va + t + i - 1)

(* A copy touches the frames of the requested addresses in order, at least *)
(* as many as it counts and none beyond the request.                       *)
LEMMA TouchesInOrder ==
  ASSUME present \subseteq GuestPage, NEW space, NEW va \in Nat, NEW size \in Nat
  PROVE  Touched(space, va, size, 0, guest_virtual(space, va, size))
<1>1. CASE va = 0 \/ size = 0
  <2>1. guest_virtual(space, va, size) = [n |-> 0, at |-> <<>>]
    BY <1>1 DEF guest_virtual
  <2> QED
    BY <2>1 DEF Touched
<1>2. CASE ~(va = 0 \/ size = 0)
  <2> DEFINE from == CHOOSE f : IsCopy(space, va, size, 0, f)
  <2>1. guest_virtual(space, va, size) = from[0]
    BY <1>2 DEF guest_virtual, IsCopy, PageTurn
  <2>2. IsCopy(space, va, size, 0, from)
    BY CopyExists
  <2> HIDE DEF from
  <2> DEFINE Good(k) == Touched(space, va, size, size - k, from[size - k])
             T == {k \in 0 .. size : ~Good(k)}
  <2>3. SUFFICES ASSUME T # {} PROVE FALSE
    <3>1. size \in 0 .. size /\ size - size = 0
      OBVIOUS
    <3>2. Good(size)
      BY <2>3, <3>1
    <3> QED
      BY <2>1, <3>1, <3>2
  <2>4. PICK k \in T : \A j \in T : k <= j
    <3>1. T \in SUBSET Nat
      OBVIOUS
    <3> QED
      BY <3>1, <2>3, LeastNat
  <2> DEFINE t == size - k
  <2>5. t \in 0 .. size /\ ~Touched(space, va, size, t, from[t])
    BY <2>4
  <2>6. \A u \in t + 1 .. size : Touched(space, va, size, u, from[u])
    <3> SUFFICES ASSUME NEW u \in t + 1 .. size PROVE Touched(space, va, size, u, from[u])
      OBVIOUS
    <3>1. size - u \in 0 .. size /\ size - u \notin T /\ size - (size - u) = u
      BY <2>4, <2>5
    <3>2. Good(size - u)
      BY <3>1
    <3> QED
      BY <3>1, <3>2
  <2> HIDE DEF t
  <2> DEFINE g == gva_to_hva(space, va + t)
             n == Least(size - t, g.next)
             at == memcpy_wrapper(g.hva, n)
  <2>7. from[t] = IF t = size \/ g.hva = 0 THEN [n |-> t, at |-> <<>>]
                  ELSE IF Len(at) < n THEN [n |-> t, at |-> at]
                  ELSE [n |-> from[t + n].n, at |-> at \o from[t + n].at]
    BY <2>2, <2>5 DEF IsCopy, PageTurn
  <2>8. CASE t = size \/ g.hva = 0
    <3>1. from[t] = [n |-> t, at |-> <<>>]
      BY <2>7, <2>8
    <3> QED
      BY <3>1, <2>5 DEF Touched
  <2>9. CASE t # size /\ g.hva # 0
    <3>1. va + t \in Nat
      BY <2>5
    <3>2. /\ g.hva \in Nat /\ g.next \in Nat /\ g.next # 0
          /\ \A i \in 0 .. g.next - 1 : Mapped(space, va + t + i) /\ g.hva + i = Frame(space, va + t + i)
      BY <3>1, <2>9, WalkIs
    <3> HIDE DEF g
    <3>3. n \in 1 .. size - t /\ n <= g.next
      BY <3>2, <2>5, <2>9 DEF Least
    <3> HIDE DEF n
    <3>4. PICK m \in 0 .. n : at = [i \in 1 .. m |-> g.hva + i - 1]
      <4>1. n \in Nat
        BY <3>3
      <4> QED
        BY <4>1, <3>2, MemcpyIs
    <3> HIDE DEF at
    <3>5. ASSUME NEW i \in 1 .. m
          PROVE  Mapped(space, va + t + i - 1) /\ at[i] = Frame(space, va + t + i - 1) /\ at[i] \in Physical
      <4>1. i - 1 \in 0 .. g.next - 1 /\ va + t + (i - 1) = va + t + i - 1 /\ g.hva + (i - 1) = g.hva + i - 1
        BY <3>2, <3>3, <3>1, <2>5
      <4>2. Mapped(space, va + t + i - 1) /\ at[i] = Frame(space, va + t + i - 1)
        <5>1. Mapped(space, va + t + (i - 1)) /\ g.hva + (i - 1) = Frame(space, va + t + (i - 1))
          BY <3>2, <4>1
        <5>2. at[i] = g.hva + i - 1
          BY <3>4
        <5> QED
          BY <5>1, <5>2, <4>1
      <4>3. Frame(space, va + t + i - 1) \in Physical
        <5>1. \A w \in Nat : Mapped(space, w) => Frame(space, w) \in Physical
          BY FrameIs DEF Mapped
        <5>2. va + t + i - 1 \in Nat
          BY <2>5
        <5> QED
          BY <5>1, <5>2, <4>2
      <4> QED
        BY <4>2, <4>3
    <3>6. at \in Seq(Physical) /\ Len(at) = m
      BY <3>4, <3>5
    <3>7. CASE Len(at) < n
      <4>1. from[t].n = t /\ from[t].at = at
        BY <2>7, <2>9, <3>7
      <4>2. t + m \in t .. size
        BY <2>5, <3>3
      <4> QED
        BY <4>1, <4>2, <3>5, <3>6, <2>5 DEF Touched
    <3>8. CASE ~(Len(at) < n)
      <4> DEFINE r == from[t + n]
      <4>1. from[t].n = r.n /\ from[t].at = at \o r.at /\ m = n
        BY <2>7, <2>9, <3>8, <3>6, <3>3
      <4>2. t + n \in t + 1 .. size
        BY <2>5, <3>3
      <4>3. Touched(space, va, size, t + n, r)
        BY <2>6, <4>2
      <4> HIDE DEF r
      <4>4. /\ from[t].at \in Seq(Physical) /\ Len(from[t].at) = n + Len(r.at)
            /\ \A i \in 1 .. n : from[t].at[i] = at[i]
            /\ \A i \in n + 1 .. n + Len(r.at) : from[t].at[i] = r.at[i - n]
        <5>1. r.at \in Seq(Physical) /\ Len(at) = n
          BY <4>1, <4>3, <3>6 DEF Touched
        <5>2. \A a, b \in Seq(Physical) :
                /\ a \o b \in Seq(Physical) /\ Len(a \o b) = Len(a) + Len(b)
                /\ \A i \in 1 .. Len(a) : (a \o b)[i] = a[i]
                /\ \A i \in Len(a) + 1 .. Len(a) + Len(b) : (a \o b)[i] = b[i - Len(a)]
          OBVIOUS
        <5> QED
          <6>1. LET c == at \o r.at
                IN  /\ c \in Seq(Physical) /\ Len(c) = n + Len(r.at)
                    /\ \A i \in 1 .. n : c[i] = at[i]
                    /\ \A i \in n + 1 .. n + Len(r.at) : c[i] = r.at[i - n]
            BY <5>1, <5>2, <3>6
          <6> QED
            BY <6>1, <4>1
      <4>5. from[t].n \in t .. size /\ t + Len(from[t].at) \in from[t].n .. size
        <5>1. /\ r.n \in t + n .. size /\ t + n + Len(r.at) \in r.n .. size
              /\ Len(r.at) \in Nat
          BY <4>3, <4>2 DEF Touched
        <5>2. t \in Nat /\ n \in Nat
          BY <2>5, <3>3
        <5> QED
          BY <5>1, <5>2, <4>1, <4>4
      <4>6. ASSUME NEW i \in n + 1 .. n + Len(r.at)
            PROVE  Mapped(space, va + t + i - 1) /\ r.at[i - n] = Frame(space, va + t + i - 1)
        <5>1. i - n \in 1 .. Len(r.at) /\ va + (t + n) + (i - n) - 1 = va + t + i - 1
          BY <2>5, <3>3, <4>3 DEF Touched
        <5> QED
          BY <5>1, <4>3 DEF Touched
      <4>7. ASSUME NEW i \in 1 .. Len(from[t].at)
            PROVE  Mapped(space, va + t + i - 1) /\ from[t].at[i] = Frame(space, va + t + i - 1)
        <5>1. CASE i <= n
          <6>1. i \in 1 .. n
            BY <5>1, <3>3, <4>5
          <6> QED
            BY <6>1, <4>1, <4>4, <3>5
        <5>2. CASE i > n
          <6>1. i \in n + 1 .. n + Len(r.at)
            BY <5>2, <4>4, <3>3
          <6> QED
            BY <6>1, <4>4, <4>6
        <5> QED
          BY <5>1, <5>2, <3>3
      <4> QED
        BY <4>4, <4>5, <4>7, <2>5 DEF Touched
    <3> QED
      BY <3>7, <3>8
  <2> QED
    BY <2>8, <2>9
<1> QED
  BY <1>1, <1>2

MemorySpec == MemoryInit /\ [][MemoryNext]_memVars

(* Where a call reads and where it writes. *)
FromSpace == IF copy.kind = "read" THEN TargetSpace(copy.cr3) ELSE "caller"
FromBase == IF copy.kind = "read" THEN copy.va ELSE copy.buffer
ToSpace == IF copy.kind = "read" THEN "caller" ELSE TargetSpace(copy.cr3)
ToBase == IF copy.kind = "read" THEN copy.buffer ELSE copy.va

VmCall ==
  [kind : {"none", "read", "write"}, cr3 : TargetCr3 \cup {"zero"}, va : Nat, buffer : Nat,
   size : Nat, total : Nat, done : BOOLEAN, before : {<<>>} \cup [Physical -> Physical]]

MemoryType ==
  /\ present \subseteq GuestPage
  /\ mem \in [Physical -> Physical]
  /\ copy \in VmCall /\ copy.total <= copy.size
  /\ copy.kind = "none" => copy.done

(* CopyExact, and that what was counted is mapped: a later chunk then goes  *)
(* to other frames.                                                         *)
CopyInv ==
  copy.kind # "none" =>
    /\ \A i \in 0 .. copy.total - 1 :
         /\ Mapped(ToSpace, ToBase + i)
         /\ mem[Frame(ToSpace, ToBase + i)] = copy.before[Frame(FromSpace, FromBase + i)]
    /\ \A a \in Physical : mem[a] # copy.before[a] =>
         \E i \in 0 .. copy.size - 1 : Mapped(ToSpace, ToBase + i) /\ a = Frame(ToSpace, ToBase + i)

MemoryInv == MemoryType /\ CopyInv

(* A store to addresses that differ leaves each datum where it belongs.    *)
LEMMA StoreIs ==
  ASSUME mem \in [Physical -> Physical], NEW at \in Seq(Physical), NEW data,
         \A i \in 1 .. Len(at) : data[i] \in Physical,
         \A i, j \in 1 .. Len(at) : at[i] = at[j] => i = j
  PROVE  /\ Store(at, data) \in [Physical -> Physical]
         /\ \A i \in 1 .. Len(at) : Store(at, data)[at[i]] = data[i]
         /\ \A a \in Physical : (\A i \in 1 .. Len(at) : at[i] # a) => Store(at, data)[a] = mem[a]
<1> DEFINE last(a) == CHOOSE i \in 1 .. Len(at) : at[i] = a /\ \A j \in (i + 1) .. Len(at) : at[j] # a
<1>1. ASSUME NEW i \in 1 .. Len(at) PROVE last(at[i]) = i /\ at[i] \in Physical
  <2>1. \A j \in (i + 1) .. Len(at) : at[j] # at[i]
    <3> SUFFICES ASSUME NEW j \in (i + 1) .. Len(at), at[j] = at[i] PROVE FALSE
      OBVIOUS
    <3>1. j \in 1 .. Len(at) /\ j # i
      OBVIOUS
    <3> QED
      BY <3>1
  <2>2. last(at[i]) \in 1 .. Len(at) /\ at[last(at[i])] = at[i]
    BY <2>1
  <2> QED
    BY <2>2
<1>2. \A a \in Physical : Store(at, data)[a] =
        IF \E i \in 1 .. Len(at) : at[i] = a THEN data[last(a)] ELSE mem[a]
  BY DEF Store
<1>3. DOMAIN Store(at, data) = Physical /\ Store(at, data) = [a \in Physical |-> Store(at, data)[a]]
  BY DEF Store
<1> HIDE DEF last
<1>4. \A a \in Physical : Store(at, data)[a] \in Physical
  BY <1>1, <1>2
<1> QED
  BY <1>1, <1>2, <1>3, <1>4

(* One hypercall: the frames it stores to are the next ones of the          *)
(* destination, and what it stores is the next part of the source.          *)
LEMMA ChunkStores ==
  ASSUME MemoryType, copy.kind # "none", NEW got \in BOOLEAN
  PROVE  \E at \in Seq(Physical) :
           LET r == handle_vmem(copy, got)
           IN  /\ r.n \in 0 .. Len(at) /\ copy.total + Len(at) <= copy.size
               /\ r.mem \in [Physical -> Physical]
               /\ \A i \in 1 .. Len(at) :
                    /\ Mapped(ToSpace, ToBase + copy.total + i - 1)
                    /\ at[i] = Frame(ToSpace, ToBase + copy.total + i - 1)
                    /\ Mapped(FromSpace, FromBase + copy.total + i - 1)
                    /\ r.mem[at[i]] = mem[Frame(FromSpace, FromBase + copy.total + i - 1)]
               /\ \A a \in Physical : (\A i \in 1 .. Len(at) : at[i] # a) => r.mem[a] = mem[a]
<1> DEFINE S == Least(Least(copy.size - copy.total, MaxChunk), MaxChunk)
           f == guest_virtual(FromSpace, FromBase + copy.total, S)
           t == guest_virtual(ToSpace, ToBase + copy.total, f.n)
           data == [i \in 1 .. f.n |-> mem[f.at[i]]]
           r == handle_vmem(copy, got)
           V == FromBase + copy.total
           W == ToBase + copy.total
<1>1. /\ copy.size \in Nat /\ copy.total \in Nat /\ copy.total <= copy.size
      /\ V \in Nat /\ W \in Nat /\ copy.kind \in {"read", "write"}
  BY DEF MemoryType, VmCall, FromBase, ToBase
<1>2. S \in Nat /\ copy.total + S <= copy.size
  BY <1>1, GuestMemoryAssumption DEF Least
<1>3. r = IF ~got \/ f.n = 0 THEN [n |-> 0, mem |-> mem]
          ELSE [n |-> IF copy.kind = "read" /\ t.n # f.n THEN 0 ELSE t.n, mem |-> Store(t.at, data)]
  <2>1. CASE copy.kind = "read"
    BY <2>1 DEF handle_vmem, FromSpace, ToSpace, FromBase, ToBase
  <2>2. CASE copy.kind = "write"
    BY <2>2 DEF handle_vmem, FromSpace, ToSpace, FromBase, ToBase
  <2> QED
    BY <1>1, <2>1, <2>2
<1>4. Touched(FromSpace, V, S, 0, f)
  BY <1>1, <1>2, TouchesInOrder DEF MemoryType
<1>5. f.n \in 0 .. S /\ f.n <= Len(f.at) /\ f.at \in Seq(Physical)
  BY <1>4 DEF Touched
<1>6. Touched(ToSpace, W, f.n, 0, t)
  <2>1. f.n \in Nat
    BY <1>5
  <2> QED
    BY <2>1, <1>1, TouchesInOrder DEF MemoryType
<1> HIDE DEF f, t, S, r, V, W
<1>7. CASE ~got \/ f.n = 0
  <2>1. r.n = 0 /\ r.mem = mem
    BY <1>3, <1>7
  <2>2. <<>> \in Seq(Physical) /\ Len(<<>>) = 0
    OBVIOUS
  <2>3. r.mem \in [Physical -> Physical]
    BY <2>1 DEF MemoryType
  <2>4. WITNESS <<>> \in Seq(Physical)
  <2> QED
    BY <2>1, <2>2, <2>3, <1>1 DEF r
<1>8. CASE ~(~got \/ f.n = 0)
  <2>1. r.mem = Store(t.at, data) /\ r.n \in {0, t.n}
    BY <1>3, <1>8
  <2>2. /\ t.at \in Seq(Physical) /\ Len(t.at) \in Nat /\ t.n \in 0 .. Len(t.at) /\ Len(t.at) <= f.n
        /\ \A i \in 1 .. Len(t.at) : Mapped(ToSpace, W + i - 1) /\ t.at[i] = Frame(ToSpace, W + i - 1)
    <3>1. /\ t.at \in Seq(Physical) /\ t.n \in 0 .. f.n /\ 0 + Len(t.at) \in t.n .. f.n
          /\ \A i \in 1 .. Len(t.at) :
               Mapped(ToSpace, W + 0 + i - 1) /\ t.at[i] = Frame(ToSpace, W + 0 + i - 1)
      BY <1>6 DEF Touched
    <3>2. W + 0 = W
      BY <1>1
    <3>3. Len(t.at) \in Nat
      BY <3>1
    <3> QED
      BY <3>1, <3>2, <3>3, <1>5, <1>2
  <2>3. \A i \in 1 .. f.n : Mapped(FromSpace, V + i - 1) /\ f.at[i] = Frame(FromSpace, V + i - 1)
    <3>1. \A i \in 1 .. Len(f.at) :
            Mapped(FromSpace, V + 0 + i - 1) /\ f.at[i] = Frame(FromSpace, V + 0 + i - 1)
      BY <1>4 DEF Touched
    <3>2. V + 0 = V
      BY <1>1
    <3>3. \A i \in 1 .. f.n : i \in 1 .. Len(f.at)
      BY <1>5, <1>2
    <3> QED
      BY <3>1, <3>2, <3>3
  <2>4. \A i \in 1 .. Len(t.at) : i \in 1 .. f.n
    BY <2>2, <1>5, <1>2
  <2>5. \A i \in 1 .. Len(t.at) : data[i] = mem[f.at[i]] /\ data[i] \in Physical
    <3>1. \A i \in 1 .. f.n : f.at[i] \in Physical
      BY <1>5, <1>2
    <3> QED
      BY <2>4, <3>1 DEF MemoryType
  <2>6. \A i, j \in 1 .. Len(t.at) : t.at[i] = t.at[j] => i = j
    <3> SUFFICES ASSUME NEW i \in 1 .. Len(t.at), NEW j \in 1 .. Len(t.at), t.at[i] = t.at[j] PROVE i = j
      OBVIOUS
    <3> DEFINE v == W + i - 1
               w == W + j - 1
    <3>1. v \in Nat /\ w \in Nat /\ (v = w => i = j)
      BY <1>1
    <3>2. Mapped(ToSpace, v) /\ Mapped(ToSpace, w) /\ Frame(ToSpace, v) = Frame(ToSpace, w)
      BY <2>2
    <3> HIDE DEF v, w
    <3> QED
      BY <3>1, <3>2, FramesApart
  <2> HIDE DEF data
  <2>7. /\ Store(t.at, data) \in [Physical -> Physical]
        /\ \A i \in 1 .. Len(t.at) : Store(t.at, data)[t.at[i]] = data[i]
        /\ \A a \in Physical : (\A i \in 1 .. Len(t.at) : t.at[i] # a) => Store(t.at, data)[a] = mem[a]
    <3> DEFINE at == t.at
    <3>1. mem \in [Physical -> Physical]
      BY DEF MemoryType
    <3>2. /\ at \in Seq(Physical)
          /\ \A i \in 1 .. Len(at) : data[i] \in Physical
          /\ \A i, j \in 1 .. Len(at) : at[i] = at[j] => i = j
      BY <2>2, <2>5, <2>6
    <3> SUFFICES /\ Store(at, data) \in [Physical -> Physical]
                 /\ \A i \in 1 .. Len(at) : Store(at, data)[at[i]] = data[i]
                 /\ \A a \in Physical : (\A i \in 1 .. Len(at) : at[i] # a) => Store(at, data)[a] = mem[a]
      OBVIOUS
    <3> HIDE DEF at
    <3> QED
      BY <3>1, <3>2, StoreIs
  <2>8. r.n \in 0 .. Len(t.at) /\ copy.total + Len(t.at) <= copy.size
    BY <2>1, <2>2, <1>1, <1>2, <1>5
  <2>9. \A i \in 1 .. Len(t.at) :
          /\ Mapped(FromSpace, V + i - 1)
          /\ r.mem[t.at[i]] = mem[Frame(FromSpace, V + i - 1)]
    BY <2>1, <2>3, <2>4, <2>5, <2>7
  <2> QED
    BY <2>1, <2>2, <2>7, <2>8, <2>9 DEF r, V, W
<1> QED
  BY <1>7, <1>8

(* A hypercall of the copy keeps it exact.                                 *)
LEMMA ChunkExact ==
  ASSUME MemoryInv, NEW got \in BOOLEAN, Chunk(got)
  PROVE  MemoryInv'
<1> DEFINE r == handle_vmem(copy, got)
           T == copy.total
<1>1. MemoryType /\ CopyInv /\ copy.kind # "none"
  BY DEF MemoryInv, MemoryType, Chunk
<1>2. /\ mem' = r.mem /\ UNCHANGED present
      /\ copy' = [copy EXCEPT !.total = T + r.n,
                              !.done = r.n < Least(copy.size - copy.total, MaxChunk) \/ T + r.n >= copy.size]
  BY DEF Chunk
<1>3. PICK at \in Seq(Physical) :
        /\ r.n \in 0 .. Len(at) /\ T + Len(at) <= copy.size
        /\ r.mem \in [Physical -> Physical]
        /\ \A i \in 1 .. Len(at) :
             /\ Mapped(ToSpace, ToBase + T + i - 1)
             /\ at[i] = Frame(ToSpace, ToBase + T + i - 1)
             /\ Mapped(FromSpace, FromBase + T + i - 1)
             /\ r.mem[at[i]] = mem[Frame(FromSpace, FromBase + T + i - 1)]
        /\ \A a \in Physical : (\A i \in 1 .. Len(at) : at[i] # a) => r.mem[a] = mem[a]
  BY <1>1, ChunkStores
<1> HIDE DEF r
<1>4. /\ copy'.kind = copy.kind /\ copy'.size = copy.size /\ copy'.before = copy.before
      /\ copy'.total = T + r.n
      /\ ToSpace' = ToSpace /\ ToBase' = ToBase /\ FromSpace' = FromSpace /\ FromBase' = FromBase
  BY <1>1, <1>2 DEF MemoryType, VmCall, ToSpace, ToBase, FromSpace, FromBase
<1>5. /\ T \in Nat /\ copy.size \in Nat /\ Len(at) \in Nat /\ r.n \in Nat /\ r.n <= Len(at)
      /\ T + Len(at) <= copy.size
      /\ ToBase \in Nat /\ FromBase \in Nat
  BY <1>1, <1>3 DEF MemoryType, VmCall, ToBase, FromBase
<1>6. MemoryType'
  <2>1. T + r.n \in Nat /\ T + r.n <= copy.size
    BY <1>3, <1>5
  <2>2. copy' \in VmCall
    BY <2>1, <1>1, <1>2 DEF MemoryType, VmCall
  <2> QED
    BY <2>1, <2>2, <1>1, <1>2, <1>3, <1>4 DEF MemoryType
(* Source and destination are different address spaces. *)
<1>7. FromSpace # ToSpace
  BY <1>1, GuestMemoryAssumption DEF MemoryType, VmCall, FromSpace, ToSpace, TargetSpace
<1>8. ASSUME NEW v \in Nat, Mapped(FromSpace, v) PROVE mem[Frame(FromSpace, v)] = copy.before[Frame(FromSpace, v)]
  <2> SUFFICES ASSUME mem[Frame(FromSpace, v)] # copy.before[Frame(FromSpace, v)] PROVE FALSE
    OBVIOUS
  <2>1. Frame(FromSpace, v) \in Physical
    BY <1>8, FrameIs DEF Mapped
  <2>2. PICK i \in 0 .. copy.size - 1 : Mapped(ToSpace, ToBase + i) /\ Frame(FromSpace, v) = Frame(ToSpace, ToBase + i)
    BY <2>1, <1>1 DEF CopyInv
  <2> DEFINE w == ToBase + i
  <2>3. w \in Nat
    BY <1>5
  <2>4. Mapped(ToSpace, w) /\ Frame(FromSpace, v) = Frame(ToSpace, w)
    BY <2>2
  <2> HIDE DEF w
  <2> QED
    BY <2>3, <2>4, <1>7, <1>8, FramesApart
(* What was counted before stays: later addresses have other frames. *)
<1>9. ASSUME NEW i \in 0 .. T - 1
      PROVE  /\ Mapped(ToSpace, ToBase + i)
             /\ r.mem[Frame(ToSpace, ToBase + i)] = copy.before[Frame(FromSpace, FromBase + i)]
  <2>1. /\ Mapped(ToSpace, ToBase + i)
        /\ mem[Frame(ToSpace, ToBase + i)] = copy.before[Frame(FromSpace, FromBase + i)]
    BY <1>1 DEF CopyInv
  <2> DEFINE v == ToBase + i
  <2>2. v \in Nat /\ v < ToBase + T
    BY <1>5
  <2>3. Frame(ToSpace, v) \in Physical
    <3> HIDE DEF v
    <3>1. \A w \in Nat : Mapped(ToSpace, w) => Frame(ToSpace, w) \in Physical
      BY FrameIs DEF Mapped
    <3> QED
      BY <3>1, <2>1, <2>2 DEF v
  <2>4. ASSUME NEW j \in 1 .. Len(at) PROVE at[j] # Frame(ToSpace, v)
    <3> DEFINE w == ToBase + T + j - 1
    <3>1. w \in Nat /\ v # w
      BY <1>5, <2>2
    <3>2. Mapped(ToSpace, w) /\ at[j] = Frame(ToSpace, w) /\ Mapped(ToSpace, v)
      BY <1>3, <2>1
    <3> HIDE DEF v, w
    <3> QED
      BY <3>1, <3>2, <2>2, FramesApart
  <2>5. r.mem[Frame(ToSpace, v)] = mem[Frame(ToSpace, v)]
    <3> HIDE DEF v
    <3> QED
      BY <1>3, <2>3, <2>4
  <2> QED
    BY <2>1, <2>5
<1>10. ASSUME NEW i \in T .. T + r.n - 1
       PROVE  /\ Mapped(ToSpace, ToBase + i)
              /\ r.mem[Frame(ToSpace, ToBase + i)] = copy.before[Frame(FromSpace, FromBase + i)]
  <2> DEFINE j == i - T + 1
             v == FromBase + i
  <2>1. /\ j \in 1 .. Len(at) /\ v \in Nat
        /\ ToBase + T + j - 1 = ToBase + i /\ FromBase + T + j - 1 = v
    <3> HIDE DEF T
    <3>1. i \in Nat /\ T <= i /\ i < T + r.n
      BY <1>5
    <3>2. j \in 1 .. Len(at)
      BY <3>1, <1>5
    <3> QED
      BY <3>1, <3>2, <1>5
  <2> HIDE DEF j, v
  <2>2. /\ Mapped(ToSpace, ToBase + i) /\ at[j] = Frame(ToSpace, ToBase + i) /\ Mapped(FromSpace, v)
        /\ r.mem[at[j]] = mem[Frame(FromSpace, v)]
    BY <2>1, <1>3
  <2>3. mem[Frame(FromSpace, v)] = copy.before[Frame(FromSpace, v)]
    BY <2>1, <2>2, <1>8
  <2> QED
    BY <2>2, <2>3 DEF v
<1>11. ASSUME NEW a \in Physical, r.mem[a] # copy.before[a]
       PROVE  \E i \in 0 .. copy.size - 1 : Mapped(ToSpace, ToBase + i) /\ a = Frame(ToSpace, ToBase + i)
  <2>1. CASE mem[a] # copy.before[a]
    BY <2>1, <1>1 DEF CopyInv
  <2>2. CASE mem[a] = copy.before[a]
    <3>1. PICK i \in 1 .. Len(at) : at[i] = a
      BY <2>2, <1>3, <1>11
    <3>2. T + i - 1 \in 0 .. copy.size - 1 /\ ToBase + (T + i - 1) = ToBase + T + i - 1
      BY <1>5
    <3> QED
      BY <3>1, <3>2, <1>3
  <2> QED
    BY <2>1, <2>2
<1>12. CopyInv'
  <2>1. \A i \in 0 .. T + r.n - 1 : i \in 0 .. T - 1 \/ i \in T .. T + r.n - 1
    BY <1>5
  <2>2. \A i \in 0 .. T + r.n - 1 :
          /\ Mapped(ToSpace, ToBase + i)
          /\ mem'[Frame(ToSpace, ToBase + i)] = copy'.before[Frame(FromSpace, FromBase + i)]
    BY <2>1, <1>2, <1>4, <1>9, <1>10
  <2>3. \A a \in Physical : mem'[a] # copy'.before[a] =>
          \E i \in 0 .. copy'.size - 1 : Mapped(ToSpace, ToBase + i) /\ a = Frame(ToSpace, ToBase + i)
    BY <1>2, <1>4, <1>11
  <2>4. \A i \in 0 .. copy'.total - 1 :
          /\ Mapped(ToSpace, ToBase + i)
          /\ mem'[Frame(ToSpace, ToBase + i)] = copy'.before[Frame(FromSpace, FromBase + i)]
    <3>1. copy'.total = T + r.n
      BY <1>4
    <3>2. \A i \in 0 .. copy'.total - 1 : i \in 0 .. T + r.n - 1
      BY <3>1, <1>5
    <3> QED
      BY <2>2, <3>2, Zenon
  <2> QED
    BY <2>3, <2>4, <1>4 DEF CopyInv
<1> QED
  BY <1>6, <1>12 DEF MemoryInv

(* read_vmemory and write_vmemory report exactly what they copied and touch *)
(* nothing outside the requested destination, for all page tables, page     *)
(* sizes and chunk sizes, whatever faults and whatever is paged out between *)
(* two hypercalls.                                                          *)
THEOREM CopiesAreExact == MemorySpec => []CopyExact
<1>1. MemoryInit => MemoryInv
  <2> SUFFICES ASSUME MemoryInit PROVE MemoryInv
    OBVIOUS
  <2>1. copy.kind = "none" /\ copy.done /\ copy \in VmCall /\ copy.total <= copy.size
    BY DEF MemoryInit, NoCopy, VmCall
  <2>2. present \subseteq GuestPage /\ mem \in [Physical -> Physical]
    BY DEF MemoryInit
  <2> QED
    BY <2>1, <2>2 DEF MemoryInv, MemoryType, CopyInv
<1>2. MemoryInv /\ [MemoryNext]_memVars => MemoryInv'
  <2> SUFFICES ASSUME MemoryInv, [MemoryNext]_memVars PROVE MemoryInv'
    OBVIOUS
  <2>1. ASSUME NEW kind \in {"read", "write"}, NEW cr3 \in TargetCr3, NEW q \in CopyRequest,
               Call(kind, cr3, q)
        PROVE  MemoryInv'
    <3>1. q.va \in Nat /\ q.buffer \in Nat /\ q.size \in Nat
      BY GuestMemoryAssumption
    <3>2. copy' \in VmCall
      BY <2>1, <3>1 DEF Call, VmCall, MemoryInv, MemoryType
    <3>3. copy'.total = 0 /\ copy'.size = q.size /\ copy'.kind = kind /\ copy'.before = mem
          /\ UNCHANGED <<present, mem, pagings>>
      BY <2>1 DEF Call
    <3>4. MemoryType'
      BY <3>1, <3>2, <3>3 DEF MemoryInv, MemoryType
    <3>5. CopyInv'
      <4>1. 0 .. copy'.total - 1 = {}
        BY <3>3
      <4> QED
        BY <4>1, <3>3 DEF CopyInv
    <3> QED
      BY <3>4, <3>5 DEF MemoryInv
  <2>2. ASSUME UNCHANGED <<mem, copy>>, present' \subseteq GuestPage PROVE MemoryInv'
    <3>1. /\ ToSpace' = ToSpace /\ ToBase' = ToBase
          /\ FromSpace' = FromSpace /\ FromBase' = FromBase
      BY <2>2 DEF ToSpace, ToBase, FromSpace, FromBase
    <3>2. CopyInv'
      BY <2>2, <3>1 DEF MemoryInv, CopyInv
    <3>3. MemoryType'
      BY <2>2 DEF MemoryInv, MemoryType
    <3> QED
      BY <3>2, <3>3 DEF MemoryInv
  <2>3. ASSUME NEW p \in GuestPage, Paging(p) PROVE MemoryInv'
    BY <2>2, <2>3 DEF Paging, MemoryInv, MemoryType
  <2>4. CASE UNCHANGED memVars
    BY <2>2, <2>4 DEF memVars, MemoryInv, MemoryType
  <2> QED
    BY <2>1, <2>3, <2>4, ChunkExact DEF MemoryNext
<1>3. MemoryInv => CopyExact
  <2> SUFFICES ASSUME MemoryInv, copy.kind # "none" PROVE CopyExact
    BY DEF CopyExact
  <2>1. copy.kind \in {"read", "write"} /\ ToBase \in Nat /\ copy.size \in Nat
    BY DEF MemoryInv, MemoryType, VmCall, ToBase
  <2>2. /\ \A i \in 0 .. copy.total - 1 :
             mem[Frame(ToSpace, ToBase + i)] = copy.before[Frame(FromSpace, FromBase + i)]
        /\ \A a \in Physical : mem[a] # copy.before[a] =>
             \E p \in GuestPage, i \in 0 .. copy.size - 1 :
               Covers(p, ToSpace, ToBase + i) /\ a = Frame(ToSpace, ToBase + i)
    BY DEF MemoryInv, CopyInv, Mapped
  <2>3. CASE copy.kind = "read"
    BY <2>2, <2>3 DEF CopyExact, ToSpace, ToBase, FromSpace, FromBase
  <2>4. CASE copy.kind = "write"
    BY <2>2, <2>4 DEF CopyExact, ToSpace, ToBase, FromSpace, FromBase
  <2> QED
    BY <2>1, <2>3, <2>4
<1> QED
  BY <1>1, <1>2, <1>3, PTL DEF MemorySpec

-----------------------------------------------------------------------------
(* Launch.                                                                 *)

LaunchSpec == LaunchInit /\ [][LaunchNext]_launchVars

(* The steps of virtualize, in their order, and those from one of them on. *)
FromLaunch == {"launch"}
FromHost == {"host"} \cup FromLaunch
FromGuest == {"guest"} \cup FromHost
FromOther == {"other"} \cup FromGuest
FromControls == {"controls"} \cup FromOther
FromLoad == {"load_vmcs"} \cup FromControls
FromPrepare == {"prepare"} \cup FromLoad
FromVmxon == {"vmxon"} \cup FromPrepare
Virtualizing == {"check", "enable_vmx"} \cup FromVmxon
AfterStart == {"thread_exit", "hooks", "loaded", "bugcheck"}

ControlName == {"none"} \cup UNION {UNION {k[g].allowed1 : g \in ControlGroup} : k \in ControlCaps}
FieldValue == {"none", "zero", "set"}

VcpuType == [restore_context : FieldValue, host_gdt : FieldValue, host_tss : FieldValue,
             host_idt : FieldValue, mtrr_state : FieldValue, msr_entries : FieldValue]
CpuType == [vmx : {"off", "root", "guest"}, fixed : {"os", "vmx"}]
VmcsType == [current : BOOLEAN, controls : [ControlGroup -> SUBSET ControlName],
             msr_area : FieldValue, ept : FieldValue, guest_cr : {"none", "os", "vmx"},
             guest_rip : {"none", "zero", "successful_launch"}, timer : FieldValue,
             host_cr : {"none", "os", "vmx"}, host_tables : FieldValue]

LaunchType ==
  /\ caps \in ControlCaps
  /\ launch_pc \in {"start"} \cup Virtualizing \cup AfterStart
  /\ launch_core \in Nat \ {0}
  /\ launch_pc \in {"start", "hooks"} \cup Virtualizing => launch_core <= NLaunchCores
  /\ vcpus \in [LaunchCore -> VcpuType]
  /\ cpu \in [LaunchCore -> CpuType]
  /\ vmcs \in [LaunchCore -> VmcsType]
  /\ start_ok \in BOOLEAN
  /\ hooked \in [LaunchCore -> {"none", "hooked", "failed", "vmfail", "ud"}]

(* How far virtualize has brought the core it is at.                       *)
Progress(c) ==
  /\ launch_pc \in FromVmxon => cpu[c].fixed = "vmx"
  /\ launch_pc \in FromLoad =>
       /\ vcpus[c].host_gdt = "set" /\ vcpus[c].host_tss = "set" /\ vcpus[c].host_idt = "set"
       /\ vcpus[c].mtrr_state = "set" /\ vcpus[c].msr_entries = "set"
  /\ launch_pc \in FromControls => vmcs[c].current
  /\ launch_pc \in FromOther => vmcs[c].msr_area = "set"
  /\ launch_pc \in FromGuest => vmcs[c].ept = "set"
  /\ launch_pc \in FromHost =>
       /\ vmcs[c].guest_cr = "vmx"
       /\ tsc_hiding_enabled =>
            "activate_vmx_preemption_timer" \in vmcs[c].controls["pin"] /\ vmcs[c].timer = "set"
  /\ launch_pc \in FromLaunch => vmcs[c].host_cr = "vmx" /\ vmcs[c].host_tables = "set"

Whole(c) ==
  /\ vmcs[c].current
  /\ vmcs[c].ept = "set" /\ vmcs[c].msr_area = "set" /\ vmcs[c].host_tables = "set"
  /\ vmcs[c].guest_cr = "vmx" /\ vmcs[c].host_cr = "vmx"
  /\ vmcs[c].guest_rip = "successful_launch"
  /\ tsc_hiding_enabled =>
       "activate_vmx_preemption_timer" \in vmcs[c].controls["pin"] /\ vmcs[c].timer = "set"

(* The cores are launched in order: none ahead of for_each_cpu is a guest,  *)
(* each one behind is unless hv::start has recorded a failure.              *)
CoresInOrder ==
  /\ launch_pc \in {"start"} \cup Virtualizing =>
       \A c \in LaunchCore : c >= launch_core => cpu[c].vmx # "guest"
  /\ launch_pc = "start" => launch_core = 1
  /\ start_ok /\ launch_pc \in Virtualizing =>
       \A c \in LaunchCore : c < launch_core => cpu[c].vmx = "guest"
  /\ start_ok /\ launch_pc \in AfterStart => \A c \in LaunchCore : cpu[c].vmx = "guest"

HooksAnswer ==
  /\ launch_pc \in {"start"} \cup Virtualizing => \A c \in LaunchCore : hooked[c] = "none"
  /\ \A c \in LaunchCore : hooked[c] \in {"vmfail", "ud"} => ~start_ok

LaunchInv ==
  /\ LaunchType
  /\ launch_pc \in Virtualizing => Progress(launch_core)
  /\ \A c \in LaunchCore : cpu[c].vmx = "guest" => Whole(c)
  /\ CoresInOrder
  /\ HooksAnswer


USE LaunchAssumption DEF LaunchCore

(* virtualize moves on to its next step on the core for_each_cpu is at.     *)
LEMMA StepKeeps ==
  ASSUME LaunchInv, launch_pc \in Virtualizing, launch_pc' \in Virtualizing,
         UNCHANGED <<launch_core, start_ok, caps, hooked>>,
         vcpus' \in [LaunchCore -> VcpuType], cpu' \in [LaunchCore -> CpuType],
         vmcs' \in [LaunchCore -> VmcsType],
         \A c \in LaunchCore \ {launch_core} : cpu'[c] = cpu[c] /\ vmcs'[c] = vmcs[c],
         cpu'[launch_core].vmx # "guest",
         Progress(launch_core)'
  PROVE  LaunchInv'
<1>1. launch_core \in LaunchCore
  BY DEF LaunchInv, LaunchType
<1>2. LaunchType'
  BY DEF LaunchInv, LaunchType
<1>3. \A c \in LaunchCore : cpu'[c].vmx = "guest" => Whole(c)'
  <2> SUFFICES ASSUME NEW c \in LaunchCore, cpu'[c].vmx = "guest" PROVE Whole(c)'
    OBVIOUS
  <2>1. cpu'[c] = cpu[c] /\ vmcs'[c] = vmcs[c]
    OBVIOUS
  <2>2. Whole(c)
    BY <2>1 DEF LaunchInv
  <2> QED
    BY <2>1, <2>2 DEF Whole
<1>4. CoresInOrder'
  <2>1. \A c \in LaunchCore : c # launch_core => cpu'[c] = cpu[c]
    OBVIOUS
  <2>2. launch_pc' \notin AfterStart /\ launch_pc' # "start"
    BY DEF Virtualizing, AfterStart, FromVmxon, FromPrepare, FromLoad, FromControls, FromOther,
           FromGuest, FromHost, FromLaunch
  <2>3. \A c \in LaunchCore : c >= launch_core => cpu'[c].vmx # "guest"
    BY <2>1 DEF LaunchInv, CoresInOrder
  <2>4. start_ok => \A c \in LaunchCore : c < launch_core => cpu'[c].vmx = "guest"
    BY <1>1, <2>1 DEF LaunchInv, CoresInOrder
  <2> QED
    BY <2>2, <2>3, <2>4 DEF CoresInOrder
<1>5. HooksAnswer'
  BY DEF LaunchInv, HooksAnswer
<1> QED
  BY <1>2, <1>3, <1>4, <1>5 DEF LaunchInv

(* virtualize gives up on a core, and for_each_cpu goes on to the next.     *)
LEMMA FailureKeeps ==
  ASSUME LaunchInv, launch_pc \in Virtualizing, VirtualizeFails,
         UNCHANGED <<caps, vcpus, cpu, hooked>>,
         vmcs' \in [LaunchCore -> VmcsType],
         \A c \in LaunchCore \ {launch_core} : vmcs'[c] = vmcs[c]
  PROVE  LaunchInv'
<1>1. /\ launch_core \in LaunchCore /\ start_ok' = FALSE /\ launch_core' = launch_core + 1
      /\ launch_pc' = IF launch_core = NLaunchCores THEN "thread_exit" ELSE "check"
  BY DEF LaunchInv, LaunchType, VirtualizeFails, NextCore
<1>2. launch_pc' \in {"thread_exit", "check"}
  BY <1>1
<1>3. LaunchType'
  <2>1. launch_core' \in Nat \ {0} /\ (launch_pc' = "check" => launch_core' <= NLaunchCores)
    BY <1>1
  <2>2. /\ "check" \in Virtualizing /\ "thread_exit" \in AfterStart
        /\ "thread_exit" \notin {"start", "hooks"} \cup Virtualizing
    BY DEF Virtualizing, AfterStart, FromVmxon, FromPrepare, FromLoad, FromControls, FromOther,
           FromGuest, FromHost, FromLaunch
  <2> QED
    BY <1>1, <1>2, <2>1, <2>2 DEF LaunchInv, LaunchType
<1>4. Progress(launch_core)'
  BY <1>2 DEF Progress, FromVmxon, FromPrepare, FromLoad, FromControls, FromOther, FromGuest,
              FromHost, FromLaunch
<1>5. \A c \in LaunchCore : cpu'[c].vmx = "guest" => Whole(c)'
  <2> SUFFICES ASSUME NEW c \in LaunchCore, cpu[c].vmx = "guest" PROVE Whole(c)'
    OBVIOUS
  <2>1. c # launch_core
    BY <1>1 DEF LaunchInv, CoresInOrder
  <2>2. Whole(c)
    BY DEF LaunchInv
  <2> QED
    BY <2>1, <2>2 DEF Whole
<1>6. CoresInOrder'
  BY <1>1, <1>2 DEF LaunchInv, CoresInOrder
<1>7. HooksAnswer'
  BY <1>1 DEF LaunchInv, HooksAnswer
<1> QED
  BY <1>3, <1>4, <1>5, <1>6, <1>7 DEF LaunchInv

(* The steps of virtualize before the VMCS is written.                      *)
LEMMA PreparationKeeps ==
  ASSUME LaunchInv, NEW ok \in BOOLEAN,
         \/ check_vmx_support(ok) \/ enable_vmx \/ enter_vmx_operation(ok)
         \/ PrepareHost \/ load_vmcs(ok)
  PROVE  LaunchInv'
<1> DEFINE c == launch_core
<1>0. /\ launch_pc \in Virtualizing /\ c \in LaunchCore /\ cpu[c].vmx # "guest"
      /\ vcpus \in [LaunchCore -> VcpuType] /\ cpu \in [LaunchCore -> CpuType]
      /\ vmcs \in [LaunchCore -> VmcsType] /\ Progress(c)
  <2>1. launch_pc \in Virtualizing
    BY DEF check_vmx_support, enable_vmx, enter_vmx_operation, PrepareHost, load_vmcs,
           Virtualizing, FromVmxon, FromPrepare, FromLoad
  <2> QED
    BY <2>1 DEF LaunchInv, LaunchType, CoresInOrder
<1>1. CASE check_vmx_support(ok)
  <2>1. CASE ok
    <3>1. /\ launch_pc' = "enable_vmx" /\ UNCHANGED <<launch_core, start_ok, caps, cpu, vmcs, hooked>>
          /\ vcpus' = [vcpus EXCEPT ![c].restore_context = "set"]
      BY <1>1, <2>1 DEF check_vmx_support, Proceed
    <3>2. vcpus' \in [LaunchCore -> VcpuType]
      BY <1>0, <3>1 DEF VcpuType, FieldValue
    <3>3. launch_pc' \in Virtualizing /\ Progress(c)'
      BY <3>1 DEF Virtualizing, Progress, FromVmxon, FromPrepare, FromLoad, FromControls,
                  FromOther, FromGuest, FromHost, FromLaunch
    <3> QED
      BY <1>0, <3>1, <3>2, <3>3, StepKeeps
  <2>2. CASE ~ok
    BY <1>0, <1>1, <2>2, FailureKeeps DEF check_vmx_support
  <2> QED
    BY <2>1, <2>2
<1>2. CASE enable_vmx
  <2>1. /\ launch_pc' = "vmxon" /\ UNCHANGED <<launch_core, start_ok, caps, vcpus, vmcs, hooked>>
        /\ cpu' = [cpu EXCEPT ![c].fixed = "vmx"]
    BY <1>2 DEF enable_vmx, Proceed
  <2>2. /\ cpu' \in [LaunchCore -> CpuType] /\ cpu'[c].vmx = cpu[c].vmx /\ cpu'[c].fixed = "vmx"
        /\ \A d \in LaunchCore \ {c} : cpu'[d] = cpu[d]
    BY <1>0, <2>1 DEF CpuType
  <2>3. launch_pc' \in Virtualizing /\ Progress(c)'
    BY <2>1, <2>2 DEF Virtualizing, Progress, FromVmxon, FromPrepare, FromLoad, FromControls,
                      FromOther, FromGuest, FromHost, FromLaunch
  <2> QED
    BY <1>0, <2>1, <2>2, <2>3, StepKeeps
<1>3. CASE enter_vmx_operation(ok)
  <2>1. CASE ok
    <3>1. /\ launch_pc = "vmxon" /\ launch_pc' = "prepare"
          /\ UNCHANGED <<launch_core, start_ok, caps, vcpus, vmcs, hooked>>
          /\ cpu' = [cpu EXCEPT ![c].vmx = "root"]
      BY <1>3, <2>1 DEF enter_vmx_operation, Proceed
    <3>2. /\ cpu' \in [LaunchCore -> CpuType] /\ cpu'[c].vmx = "root"
          /\ cpu'[c].fixed = cpu[c].fixed /\ \A d \in LaunchCore \ {c} : cpu'[d] = cpu[d]
      BY <1>0, <3>1 DEF CpuType
    <3>3. launch_pc' \in Virtualizing /\ Progress(c)'
      BY <1>0, <3>1, <3>2 DEF Virtualizing, Progress, FromVmxon, FromPrepare, FromLoad,
                              FromControls, FromOther, FromGuest, FromHost, FromLaunch
    <3> QED
      BY <1>0, <3>1, <3>2, <3>3, StepKeeps
  <2>2. CASE ~ok
    BY <1>0, <1>3, <2>2, FailureKeeps DEF enter_vmx_operation
  <2> QED
    BY <2>1, <2>2
<1>4. CASE PrepareHost
  <2>1. /\ launch_pc = "prepare" /\ launch_pc' = "load_vmcs"
        /\ UNCHANGED <<launch_core, start_ok, caps, cpu, vmcs, hooked>>
        /\ vcpus' = [vcpus EXCEPT ![c] = [@ EXCEPT !.host_gdt = "set", !.host_tss = "set",
                                                   !.host_idt = "set", !.mtrr_state = "set",
                                                   !.msr_entries = "set"]]
    BY <1>4 DEF PrepareHost, Proceed
  <2>2. vcpus[c] \in VcpuType
    BY <1>0
  <2>3. /\ vcpus'[c] \in VcpuType
        /\ vcpus'[c].host_gdt = "set" /\ vcpus'[c].host_tss = "set" /\ vcpus'[c].host_idt = "set"
        /\ vcpus'[c].mtrr_state = "set" /\ vcpus'[c].msr_entries = "set"
    BY <1>0, <2>1, <2>2 DEF VcpuType, FieldValue
  <2>4. vcpus' \in [LaunchCore -> VcpuType]
    BY <1>0, <2>1, <2>3
  <2>5. launch_pc' \in Virtualizing /\ Progress(c)'
    BY <1>0, <2>1, <2>3 DEF Virtualizing, Progress, FromVmxon, FromPrepare, FromLoad,
                            FromControls, FromOther, FromGuest, FromHost, FromLaunch
  <2> QED
    BY <1>0, <2>1, <2>4, <2>5, StepKeeps
<1>5. CASE load_vmcs(ok)
  <2>1. CASE ok
    <3>1. /\ launch_pc = "load_vmcs" /\ launch_pc' = "controls"
          /\ UNCHANGED <<launch_core, start_ok, caps, vcpus, cpu, hooked>>
          /\ vmcs' = [vmcs EXCEPT ![c].current = TRUE]
      BY <1>5, <2>1 DEF load_vmcs, Proceed
    <3>2. vmcs[c] \in VmcsType
      BY <1>0
    <3>3. vmcs'[c] = [vmcs[c] EXCEPT !.current = TRUE]
      BY <1>0, <3>1
    <3>4. vmcs'[c] \in VmcsType /\ vmcs'[c].current
      BY <3>2, <3>3 DEF VmcsType
    <3>5. vmcs' \in [LaunchCore -> VmcsType] /\ \A d \in LaunchCore \ {c} : vmcs'[d] = vmcs[d]
      BY <1>0, <3>1, <3>4
    <3>6. launch_pc' \in Virtualizing /\ Progress(c)'
      BY <1>0, <3>1, <3>4 DEF Virtualizing, Progress, FromVmxon, FromPrepare, FromLoad,
                              FromControls, FromOther, FromGuest, FromHost, FromLaunch
    <3> QED
      BY <1>0, <3>1, <3>5, <3>6, StepKeeps
  <2>2. CASE ~ok
    BY <1>0, <1>5, <2>2, FailureKeeps DEF load_vmcs
  <2> QED
    BY <2>1, <2>2
<1> QED
  BY <1>1, <1>2, <1>3, <1>4, <1>5

(* The steps of virtualize that write the VMCS: each finds what it is made  *)
(* from ready.                                                              *)
LEMMA WritingKeeps ==
  ASSUME LaunchInv, NEW ok \in BOOLEAN,
         \/ write_execution_controls(ok) \/ write_other_control_fields(ok)
         \/ write_guest_state_fields(ok) \/ write_host_state_fields(ok)
  PROVE  LaunchInv'
<1> DEFINE c == launch_core
<1>0. /\ launch_pc \in Virtualizing /\ c \in LaunchCore /\ cpu[c].vmx # "guest"
      /\ vcpus \in [LaunchCore -> VcpuType] /\ cpu \in [LaunchCore -> CpuType]
      /\ vmcs \in [LaunchCore -> VmcsType] /\ Progress(c) /\ vmcs[c] \in VmcsType
  <2>1. launch_pc \in Virtualizing
    BY DEF write_execution_controls, write_other_control_fields, write_guest_state_fields,
           write_host_state_fields, Virtualizing, FromVmxon, FromPrepare, FromLoad, FromControls,
           FromOther, FromGuest, FromHost
  <2> QED
    BY <2>1 DEF LaunchInv, LaunchType, CoresInOrder
<1>s. ASSUME UNCHANGED <<launch_core, start_ok, caps, vcpus, cpu, hooked>>,
             NEW v \in VmcsType, vmcs' = [vmcs EXCEPT ![c] = v],
             launch_pc' \in Virtualizing, Progress(c)'
      PROVE  LaunchInv'
  <2>1. vmcs' \in [LaunchCore -> VmcsType] /\ \A d \in LaunchCore \ {c} : vmcs'[d] = vmcs[d]
    BY <1>0, <1>s
  <2> QED
    BY <1>0, <1>s, <2>1, StepKeeps
<1>1. CASE write_execution_controls(ok)
  <2>1. CASE ok
    <3> DEFINE new == [g \in ControlGroup |-> write_control_field(g, Desired(g))]
               v == [vmcs[c] EXCEPT !.controls = new, !.msr_area = vcpus[c].msr_entries]
    <3>1. /\ launch_pc = "controls" /\ launch_pc' = "other"
          /\ UNCHANGED <<launch_core, start_ok, caps, vcpus, cpu, hooked>>
          /\ vmcs' = [vmcs EXCEPT ![c] = v]
      BY <1>0, <1>1, <2>1 DEF write_execution_controls, Proceed
    <3>2. new \in [ControlGroup -> SUBSET ControlName]
      BY DEF write_control_field, ControlName, LaunchInv, LaunchType
    <3>3. vcpus[c].msr_entries = "set"
      BY <1>0, <3>1 DEF Progress, FromLoad, FromControls
    <3> HIDE DEF new
    <3>4. v \in VmcsType
      BY <1>0, <3>2, <3>3 DEF VmcsType, FieldValue
    <3>5. v.current = vmcs[c].current /\ v.msr_area = "set"
      BY <1>0, <3>3 DEF VmcsType
    <3>6. vmcs'[c] = v
      BY <1>0, <3>1
    <3> HIDE DEF v
    <3>7. launch_pc' \in Virtualizing /\ Progress(c)'
      BY <1>0, <3>1, <3>5, <3>6 DEF Virtualizing, Progress, FromVmxon, FromPrepare, FromLoad,
                                    FromControls, FromOther, FromGuest, FromHost, FromLaunch
    <3> QED
      BY <1>s, <3>1, <3>4, <3>7
  <2>2. CASE ~ok
    BY <1>0, <1>1, <2>2, FailureKeeps DEF write_execution_controls
  <2> QED
    BY <2>1, <2>2
<1>2. CASE write_other_control_fields(ok)
  <2>1. CASE ok
    <3> DEFINE v == [vmcs[c] EXCEPT !.ept = vcpus[c].mtrr_state]
    <3>1. /\ launch_pc = "other" /\ launch_pc' = "guest"
          /\ UNCHANGED <<launch_core, start_ok, caps, vcpus, cpu, hooked>>
          /\ vmcs' = [vmcs EXCEPT ![c] = v]
      BY <1>0, <1>2, <2>1 DEF write_other_control_fields, Proceed
    <3>2. vcpus[c].mtrr_state = "set"
      BY <1>0, <3>1 DEF Progress, FromLoad, FromControls, FromOther
    <3>3. v \in VmcsType
      BY <1>0, <3>2 DEF VmcsType, FieldValue
    <3>4. v.current = vmcs[c].current /\ v.msr_area = vmcs[c].msr_area /\ v.ept = "set"
      BY <1>0, <3>2 DEF VmcsType
    <3>5. vmcs'[c] = v
      BY <1>0, <3>1
    <3> HIDE DEF v
    <3>6. launch_pc' \in Virtualizing /\ Progress(c)'
      BY <1>0, <3>1, <3>4, <3>5 DEF Virtualizing, Progress, FromVmxon, FromPrepare, FromLoad,
                                    FromControls, FromOther, FromGuest, FromHost, FromLaunch
    <3> QED
      BY <1>s, <3>1, <3>3, <3>6
  <2>2. CASE ~ok
    BY <1>0, <1>2, <2>2, FailureKeeps DEF write_other_control_fields
  <2> QED
    BY <2>1, <2>2
<1>3. CASE write_guest_state_fields(ok)
  <2> DEFINE timer == "activate_vmx_preemption_timer" \in vmcs[c].controls["pin"]
  <2>1. CASE ok /\ (tsc_hiding_enabled => timer)
    <3> DEFINE v == [vmcs[c] EXCEPT !.guest_cr = cpu[c].fixed, !.guest_rip = "zero",
                                    !.timer = IF tsc_hiding_enabled THEN "set" ELSE @]
    <3>1. /\ launch_pc = "guest" /\ launch_pc' = "host"
          /\ UNCHANGED <<launch_core, start_ok, caps, vcpus, cpu, hooked>>
          /\ vmcs' = [vmcs EXCEPT ![c] = v]
      BY <1>0, <1>3, <2>1 DEF write_guest_state_fields, Proceed
    <3>2. cpu[c].fixed = "vmx"
      BY <1>0, <3>1 DEF Progress, FromVmxon, FromPrepare, FromLoad, FromControls, FromOther,
                        FromGuest
    <3>3. v \in VmcsType
      BY <1>0, <3>2 DEF VmcsType, FieldValue
    <3>4. /\ v.current = vmcs[c].current /\ v.msr_area = vmcs[c].msr_area /\ v.ept = vmcs[c].ept
          /\ v.guest_cr = "vmx" /\ v.controls = vmcs[c].controls
          /\ tsc_hiding_enabled => v.timer = "set"
      BY <1>0, <3>2 DEF VmcsType
    <3>5. vmcs'[c] = v
      BY <1>0, <3>1
    <3> HIDE DEF v
    <3>6. launch_pc' \in Virtualizing /\ Progress(c)'
      BY <1>0, <2>1, <3>1, <3>4, <3>5 DEF Virtualizing, Progress, FromVmxon, FromPrepare, FromLoad,
                                    FromControls, FromOther, FromGuest, FromHost, FromLaunch
    <3> QED
      BY <1>s, <3>1, <3>3, <3>6
  <2>2. CASE ~(ok /\ (tsc_hiding_enabled => timer))
    BY <1>0, <1>3, <2>2, FailureKeeps DEF write_guest_state_fields
  <2> QED
    BY <2>1, <2>2
<1>4. CASE write_host_state_fields(ok)
  <2>1. CASE ok
    <3> DEFINE tables == IF {vcpus[c].host_gdt, vcpus[c].host_tss, vcpus[c].host_idt} = {"set"}
                         THEN "set" ELSE "zero"
               v == [vmcs[c] EXCEPT !.host_cr = cpu[c].fixed, !.host_tables = tables]
    <3>1. /\ launch_pc = "host" /\ launch_pc' = "launch"
          /\ UNCHANGED <<launch_core, start_ok, caps, vcpus, cpu, hooked>>
          /\ vmcs' = [vmcs EXCEPT ![c] = v]
      BY <1>0, <1>4, <2>1 DEF write_host_state_fields, Proceed
    <3>2. cpu[c].fixed = "vmx" /\ tables = "set"
      BY <1>0, <3>1 DEF Progress, FromVmxon, FromPrepare, FromLoad, FromControls, FromOther,
                        FromGuest, FromHost
    <3> HIDE DEF tables
    <3>3. v \in VmcsType
      BY <1>0, <3>2 DEF VmcsType, FieldValue
    <3>4. /\ v.current = vmcs[c].current /\ v.msr_area = vmcs[c].msr_area /\ v.ept = vmcs[c].ept
          /\ v.guest_cr = vmcs[c].guest_cr /\ v.controls = vmcs[c].controls
          /\ v.timer = vmcs[c].timer /\ v.host_cr = "vmx" /\ v.host_tables = "set"
      BY <1>0, <3>2 DEF VmcsType
    <3>5. vmcs'[c] = v
      BY <1>0, <3>1
    <3> HIDE DEF v
    <3>6. launch_pc' \in Virtualizing /\ Progress(c)'
      BY <1>0, <3>1, <3>4, <3>5 DEF Virtualizing, Progress, FromVmxon, FromPrepare, FromLoad,
                                    FromControls, FromOther, FromGuest, FromHost, FromLaunch
    <3> QED
      BY <1>s, <3>1, <3>3, <3>6
  <2>2. CASE ~ok
    BY <1>0, <1>4, <2>2, FailureKeeps DEF write_host_state_fields
  <2> QED
    BY <2>1, <2>2
<1> QED
  BY <1>1, <1>2, <1>3, <1>4

(* VMLAUNCH: the core becomes a guest with a whole VMCS, or is left behind  *)
(* with a failure recorded.                                                 *)
LEMMA LaunchKeeps ==
  ASSUME LaunchInv, NEW ok \in BOOLEAN, launch_vm(ok)
  PROVE  LaunchInv'
<1> DEFINE c == launch_core
           v == [vmcs[c] EXCEPT !.guest_rip = "successful_launch"]
<1>0. /\ launch_pc = "launch" /\ launch_pc \in Virtualizing /\ c \in LaunchCore
      /\ cpu \in [LaunchCore -> CpuType] /\ vmcs \in [LaunchCore -> VmcsType]
      /\ cpu[c].vmx # "guest" /\ vmcs[c] \in VmcsType /\ Progress(c)
  <2>1. launch_pc = "launch" /\ launch_pc \in Virtualizing
    BY DEF launch_vm, Virtualizing, FromVmxon, FromPrepare, FromLoad, FromControls, FromOther,
           FromGuest, FromHost, FromLaunch
  <2> QED
    BY <2>1 DEF LaunchInv, LaunchType, CoresInOrder
<1>1. vmcs' = [vmcs EXCEPT ![c] = v] /\ UNCHANGED <<caps, vcpus, hooked>>
  BY <1>0 DEF launch_vm
<1>2. v \in VmcsType
  BY <1>0 DEF VmcsType
<1>3. /\ v.current = vmcs[c].current /\ v.msr_area = vmcs[c].msr_area /\ v.ept = vmcs[c].ept
      /\ v.guest_cr = vmcs[c].guest_cr /\ v.controls = vmcs[c].controls
      /\ v.timer = vmcs[c].timer /\ v.host_cr = vmcs[c].host_cr
      /\ v.host_tables = vmcs[c].host_tables /\ v.guest_rip = "successful_launch"
  BY <1>0 DEF VmcsType
<1> HIDE DEF v
<1>4. /\ vmcs' \in [LaunchCore -> VmcsType] /\ vmcs'[c] = v
      /\ \A d \in LaunchCore \ {c} : vmcs'[d] = vmcs[d]
  BY <1>0, <1>1, <1>2
<1>5. CASE ~ok
  BY <1>0, <1>1, <1>4, <1>5, FailureKeeps DEF launch_vm
<1>6. CASE ok
  <2>1. /\ cpu' = [cpu EXCEPT ![c].vmx = "guest"] /\ launch_core' = c + 1
        /\ launch_pc' = IF c = NLaunchCores THEN "thread_exit" ELSE "check"
        /\ UNCHANGED start_ok
    BY <1>6 DEF launch_vm, NextCore
  <2>2. /\ cpu' \in [LaunchCore -> CpuType] /\ cpu'[c].vmx = "guest"
        /\ \A d \in LaunchCore \ {c} : cpu'[d] = cpu[d]
    BY <1>0, <2>1 DEF CpuType
  <2>3. launch_pc' \in {"check", "thread_exit"}
    BY <2>1
  <2>4. /\ "check" \in Virtualizing /\ "thread_exit" \in AfterStart
        /\ "check" \notin AfterStart /\ "thread_exit" \notin {"start", "hooks"} \cup Virtualizing
    BY DEF Virtualizing, AfterStart, FromVmxon, FromPrepare, FromLoad, FromControls, FromOther,
           FromGuest, FromHost, FromLaunch
  <2>5. LaunchType'
    <3>1. launch_core' \in Nat \ {0} /\ (launch_pc' = "check" => launch_core' <= NLaunchCores)
      BY <1>0, <2>1
    <3> QED
      BY <1>1, <1>4, <2>1, <2>2, <2>3, <2>4, <3>1 DEF LaunchInv, LaunchType
  <2>6. Progress(launch_core)'
    BY <2>3 DEF Progress, FromVmxon, FromPrepare, FromLoad, FromControls, FromOther, FromGuest,
                FromHost, FromLaunch
  <2>7. ASSUME NEW d \in LaunchCore, cpu'[d].vmx = "guest" PROVE Whole(d)'
    <3>1. CASE d = c
      BY <1>0, <1>3, <1>4, <3>1 DEF Progress, Whole, FromVmxon, FromPrepare, FromLoad,
                                    FromControls, FromOther, FromGuest, FromHost, FromLaunch
    <3>2. CASE d # c
      <4>1. cpu'[d] = cpu[d] /\ vmcs'[d] = vmcs[d]
        BY <1>4, <2>2, <3>2
      <4>2. Whole(d)
        BY <2>7, <4>1 DEF LaunchInv
      <4> QED
        BY <4>1, <4>2 DEF Whole
    <3> QED
      BY <3>1, <3>2
  <2>8. CoresInOrder'
    <3>1. \A d \in LaunchCore : d >= launch_core' => cpu'[d].vmx # "guest"
      BY <1>0, <2>1, <2>2 DEF LaunchInv, CoresInOrder
    <3>2. start_ok => \A d \in LaunchCore : d < launch_core' => cpu'[d].vmx = "guest"
      BY <1>0, <2>1, <2>2 DEF LaunchInv, CoresInOrder
    <3>3. start_ok /\ launch_pc' = "thread_exit" => \A d \in LaunchCore : cpu'[d].vmx = "guest"
      BY <1>0, <2>1, <3>2
    <3> QED
      BY <2>1, <2>3, <2>4, <3>1, <3>2, <3>3 DEF CoresInOrder
  <2>9. HooksAnswer'
    BY <1>0, <1>1, <2>1 DEF LaunchInv, HooksAnswer
  <2> QED
    BY <2>5, <2>6, <2>7, <2>8, <2>9 DEF LaunchInv
<1> QED
  BY <1>5, <1>6

(* hv::start before and DriverEntry after the cores are virtualized.        *)
LEMMA DriverKeeps ==
  ASSUME LaunchInv, NEW ok \in BOOLEAN, hv_start(ok) \/ thread_entry(ok) \/ ept_hook(ok)
  PROVE  LaunchInv'
<1>0. /\ {"start", "thread_exit", "hooks", "loaded", "bugcheck"} \cap Virtualizing = {}
      /\ "check" \in Virtualizing /\ "check" \notin AfterStart
  BY DEF Virtualizing, AfterStart, FromVmxon, FromPrepare, FromLoad, FromControls, FromOther,
         FromGuest, FromHost, FromLaunch
<1>1. UNCHANGED <<caps, vcpus, cpu, vmcs>>
  BY DEF hv_start, thread_entry, ept_hook
<1>2. \A c \in LaunchCore : cpu'[c].vmx = "guest" => Whole(c)'
  BY <1>1 DEF LaunchInv, Whole
<1>3. (launch_pc \in Virtualizing => Progress(launch_core))'
  <2>1. launch_pc' \in Virtualizing => launch_pc' = "check"
    BY <1>0 DEF hv_start, thread_entry, ept_hook
  <2> QED
    BY <2>1 DEF Progress, FromVmxon, FromPrepare, FromLoad, FromControls, FromOther, FromGuest,
                FromHost, FromLaunch
<1>4. CASE hv_start(ok)
  <2>1. /\ launch_pc = "start" /\ launch_core = 1 /\ launch_core' = 1 /\ start_ok' = ok
        /\ hooked' = hooked /\ launch_pc' = IF ok THEN "check" ELSE "thread_exit"
    BY <1>4 DEF hv_start, LaunchInv, CoresInOrder
  <2>2. LaunchType'
    BY <1>0, <1>1, <2>1 DEF LaunchInv, LaunchType, AfterStart
  <2>3. CoresInOrder'
    BY <1>0, <1>1, <2>1 DEF LaunchInv, CoresInOrder, AfterStart
  <2>4. HooksAnswer'
    BY <1>0, <2>1 DEF LaunchInv, HooksAnswer
  <2> QED
    BY <1>2, <1>3, <2>2, <2>3, <2>4 DEF LaunchInv
<1>5. CASE thread_entry(ok)
  <2>1. /\ launch_pc = "thread_exit" /\ launch_core' = 1 /\ UNCHANGED <<start_ok, hooked>>
        /\ launch_pc' = IF ok THEN "hooks" ELSE "loaded"
    BY <1>5 DEF thread_entry
  <2>2. LaunchType'
    BY <1>0, <1>1, <2>1 DEF LaunchInv, LaunchType, AfterStart
  <2>3. CoresInOrder'
    BY <1>0, <1>1, <2>1 DEF LaunchInv, CoresInOrder, AfterStart
  <2>4. HooksAnswer'
    BY <1>0, <2>1 DEF LaunchInv, HooksAnswer
  <2> QED
    BY <1>2, <1>3, <2>2, <2>3, <2>4 DEF LaunchInv
<1>6. CASE ept_hook(ok)
  <2> DEFINE c == launch_core
             answer == CASE cpu[c].vmx = "guest" -> IF ok THEN "hooked" ELSE "failed"
                         [] cpu[c].vmx = "root" -> "vmfail"
                         [] OTHER -> "ud"
  <2>1. /\ launch_pc = "hooks" /\ c \in LaunchCore /\ launch_core' = c + 1 /\ start_ok' = start_ok
        /\ hooked' = [hooked EXCEPT ![c] = answer]
    BY <1>6 DEF ept_hook, LaunchInv, LaunchType
  <2>2. /\ launch_pc' \in {"hooks", "loaded", "bugcheck"}
        /\ launch_pc' = "hooks" => c # NLaunchCores
    BY <1>6 DEF ept_hook
  <2>3. answer \in {"none", "hooked", "failed", "vmfail", "ud"}
    OBVIOUS
  <2>4. answer \in {"vmfail", "ud"} => cpu[c].vmx # "guest"
    OBVIOUS
  <2> HIDE DEF answer
  <2>5. launch_pc' \in AfterStart /\ launch_pc' \notin {"start"} \cup Virtualizing
    BY <1>0, <2>2 DEF AfterStart
  <2>6. LaunchType'
    BY <1>0, <1>1, <2>1, <2>2, <2>3, <2>5 DEF LaunchInv, LaunchType
  <2>7. CoresInOrder'
    BY <1>1, <2>1, <2>5 DEF LaunchInv, CoresInOrder, AfterStart
  <2>8. HooksAnswer'
    <3>1. answer \in {"vmfail", "ud"} => ~start_ok
      BY <2>1, <2>4 DEF LaunchInv, CoresInOrder, AfterStart
    <3>2. \A d \in LaunchCore : hooked'[d] = IF d = c THEN answer ELSE hooked[d]
      BY <2>1 DEF LaunchInv, LaunchType
    <3> QED
      BY <2>1, <2>5, <3>1, <3>2 DEF LaunchInv, HooksAnswer
  <2> QED
    BY <1>2, <1>3, <2>6, <2>7, <2>8 DEF LaunchInv
<1> QED
  BY <1>4, <1>5, <1>6

(* The driver is loaded with a consistent machine, for any number of cores, *)
(* any capabilities and any failures on the way: a core that runs as a      *)
(* guest has a whole VMCS, and the hooks meet one that does not run only    *)
(* after hv::start failed.                                                  *)
THEOREM CoresLaunchWhole == LaunchSpec => []LaunchedWhole
<1>1. LaunchInit => LaunchInv
  <2> SUFFICES ASSUME LaunchInit PROVE LaunchInv
    OBVIOUS
  <2>0. "start" \notin Virtualizing /\ "start" \notin AfterStart
    BY DEF Virtualizing, AfterStart, FromVmxon, FromPrepare, FromLoad, FromControls, FromOther,
           FromGuest, FromHost, FromLaunch
  <2>1. ZeroVcpu \in VcpuType
    BY DEF ZeroVcpu, VcpuType, FieldValue
  <2>2. NoVmcs \in VmcsType
    BY DEF NoVmcs, VmcsType, FieldValue, ControlName
  <2>3. \A c \in LaunchCore : cpu[c] = [vmx |-> "off", fixed |-> "os"]
    BY DEF LaunchInit
  <2>4. LaunchType
    BY <2>0, <2>1, <2>2 DEF LaunchInit, LaunchType, CpuType
  <2> QED
    BY <2>0, <2>3, <2>4 DEF LaunchInit, LaunchInv, CoresInOrder, HooksAnswer
<1>2. LaunchInv /\ [LaunchNext]_launchVars => LaunchInv'
  <2> SUFFICES ASSUME LaunchInv, [LaunchNext]_launchVars PROVE LaunchInv'
    OBVIOUS
  <2>1. CASE LaunchNext
    BY <2>1, PreparationKeeps, WritingKeeps, LaunchKeeps, DriverKeeps DEF LaunchNext
  <2>2. CASE UNCHANGED launchVars
    BY <2>2 DEF launchVars, LaunchInv, LaunchType, Progress, Whole, CoresInOrder, HooksAnswer
  <2> QED
    BY <2>1, <2>2
<1>3. LaunchInv => LaunchedWhole
  BY DEF LaunchInv, Whole, HooksAnswer, LaunchedWhole
<1> QED
  BY <1>1, <1>2, <1>3, PTL DEF LaunchSpec

-----------------------------------------------------------------------------
(* HostTables.                                                             *)

HIDE LaunchAssumption DEF LaunchCore

TablesSpec == TablesInit /\ [][TablesNext]_tableVars

Page == 0 .. VaPages - 1

Covered(r, p) ==
  \/ HostTranslate(p) # NONE
  \/ \E q \in r[1] .. p - 1 : Large(SystemPtr[Ptr(q)]) /\ Ptr(q) # Ptr(p)

(* An entry of the host is empty or the system's.                          *)
EntriesInv ==
  /\ host_ptr \in [DOMAIN SystemPtr -> Int] /\ host_dir \in [DOMAIN SystemDir -> Int]
  /\ host_pte \in [Page -> Int]
  /\ \A i \in DOMAIN SystemPtr : host_ptr[i] \in {NONE, SystemPtr[i]}
  /\ \A i \in DOMAIN SystemDir : host_dir[i] \in {NONE, SystemDir[i]}
  /\ \A p \in Page : host_pte[p] \in {NONE, SystemPte[p]}

(* The walk has left nothing behind it in the range it is in, nor in those  *)
(* it has finished.                                                         *)
WalkInv ==
  /\ map_range \in MapRange \cup {NoRange} /\ map_at \in Nat /\ map_done \subseteq MapRange
  /\ map_range # NoRange =>
       /\ map_range[1] <= map_at
       /\ \A p \in map_range[1] .. map_range[2] : p < map_at => Covered(map_range, p)
  /\ \A r \in map_done : \A p \in r[1] .. r[2] : Covered(r, p)

TablesInv == EntriesInv /\ WalkInv

(* Integer division, which the provers get a step at a time: the quotient   *)
(* is determined by its bounds.                                             *)
LEMMA DivUnique ==
  ASSUME NEW p \in Nat, NEW d \in Nat \ {0}, NEW x \in Nat, d * x <= p, p < d * x + d
  PROVE  p \div d = x
OBVIOUS

(* The quotient is within one divisor below.                               *)
LEMMA DivBounds ==
  ASSUME NEW p \in Nat, NEW d \in Nat \ {0}
  PROVE  p \div d \in Nat /\ d * (p \div d) <= p /\ p < d * (p \div d) + d
OBVIOUS

(* A multiple is its quotient times the divisor.                           *)
LEMMA DivisorOf ==
  ASSUME NEW d \in Nat \ {0}, NEW e \in Nat \ {0}, e % d = 0
  PROVE  e = d * (e \div d)
OBVIOUS

(* A factor common to both sides, with less than one factor to spare.      *)
LEMMA LessTimes ==
  ASSUME NEW d \in Nat \ {0}, NEW x \in Int, NEW y \in Int, d * x < d * y + d
  PROVE  x <= y
OBVIOUS

(* A factor common to both sides of a strict inequality.                   *)
LEMMA StrictTimes ==
  ASSUME NEW d \in Nat \ {0}, NEW x \in Int, NEW y \in Int, d * x < d * y
  PROVE  x < y
OBVIOUS

(* Multiplication keeps the order.                                         *)
LEMMA TimesUp ==
  ASSUME NEW d \in Nat \ {0}, NEW x \in Int, NEW y \in Int, x <= y
  PROVE  d * x <= d * y
OBVIOUS

(* A walk step ends where the entry it was at ends.                        *)
LEMMA SameBlock ==
  ASSUME NEW m \in Nat, NEW p \in Nat, NEW d \in Nat \ {0}, m <= p, p < (m \div d) * d + d
  PROVE  p \div d = m \div d
<1>1. m \div d \in Nat /\ d * (m \div d) <= m
  BY DivBounds
<1> QED
  BY <1>1, DivUnique

USE DEF NONE, TABLE, Page

(* The sizes of the entries are positive.                                  *)
LEMMA Sizes == DirPages \in Nat \ {0} /\ PtrPages \in Nat \ {0} /\ SkipPages \in Nat \ {0}
BY TableAssumption

(* Pages under one entry of a directory are under one entry of the pointer  *)
(* table: the sizes divide each other.                                      *)
LEMMA SamePointer ==
  ASSUME NEW m \in Nat, NEW p \in Nat, Dir(p) = Dir(m)
  PROVE  Ptr(p) = Ptr(m)
<1> DEFINE d == DirPages
           e == PtrPages
           k == e \div d
           x == Ptr(m)
           y == Dir(m)
<1>0. d \in Nat \ {0} /\ e \in Nat \ {0} /\ e % d = 0
  BY TableAssumption
<1>1. e = d * k /\ k \in Nat
  BY <1>0, DivisorOf, DivBounds
<1>2. x \in Nat /\ e * x <= m /\ m < e * x + e
  BY <1>0, DivBounds DEF Ptr
<1>3. y \in Nat /\ d * y <= m /\ m < d * y + d /\ d * y <= p /\ p < d * y + d
  BY <1>0, DivBounds DEF Dir
<1> HIDE DEF d, e, k, x, y
<1>4. e * x = d * (k * x) /\ e * x + e = d * (k * x + k) /\ k * x \in Int /\ k * x + k \in Int
  BY <1>0, <1>1, <1>2
<1>5. k * x <= y
  BY <1>0, <1>2, <1>3, <1>4, LessTimes
<1>6. e * x <= p
  <2>1. d * (k * x) <= d * y
    BY <1>0, <1>3, <1>4, <1>5, TimesUp
  <2> QED
    BY <1>0, <1>3, <1>4, <2>1
<1>7. y + 1 <= k * x + k
  <2>1. d * y < d * (k * x + k)
    BY <1>0, <1>2, <1>3, <1>4
  <2>2. y < k * x + k
    BY <1>0, <1>3, <1>4, <2>1, StrictTimes
  <2> QED
    BY <1>3, <1>4, <2>2
<1>8. p < e * x + e
  <2>1. d * (y + 1) <= d * (k * x + k)
    BY <1>0, <1>3, <1>4, <1>7, TimesUp
  <2> QED
    BY <1>0, <1>3, <1>4, <2>1
<1>9. p \div e = x
  BY <1>0, <1>2, <1>6, <1>8, DivUnique
<1> QED
  BY <1>9 DEF x, e, Ptr

(* The pages that a step over a directory entry passes have the same        *)
(* entries in the directory and in the pointer table.                       *)
LEMMA SameEntries ==
  ASSUME NEW m \in Nat, NEW p \in Nat, m <= p, p < (m \div DirPages) * DirPages + DirPages
  PROVE  Dir(p) = Dir(m) /\ Ptr(p) = Ptr(m)
<1>1. p \div DirPages = m \div DirPages
  BY Sizes, SameBlock
<1>2. Dir(p) = Dir(m)
  BY <1>1 DEF Dir
<1> QED
  BY <1>2, SamePointer

(* A range to map is a range of pages.                                     *)
LEMMA RangePages ==
  ASSUME NEW r \in MapRange
  PROVE  r[1] \in Nat /\ r[2] \in Nat /\ \A p \in r[1] .. r[2] : p \in Page /\ p \in Nat
<1>1. r \in (0 .. VaPages - 1) \X (0 .. VaPages - 1) /\ VaPages \in Nat
  BY TableAssumption
<1>2. r[1] \in 0 .. VaPages - 1 /\ r[2] \in 0 .. VaPages - 1
  BY <1>1
<1> QED
  BY <1>1, <1>2

(* Every page has its entries, and what they hold is a number.             *)
LEMMA PageEntries ==
  ASSUME NEW p \in Page
  PROVE  /\ p \in Nat /\ Ptr(p) \in DOMAIN SystemPtr /\ Dir(p) \in DOMAIN SystemDir
         /\ SystemPtr[Ptr(p)] \in Int /\ SystemDir[Dir(p)] \in Int /\ SystemPte[p] \in Int
         /\ p % PtrPages >= 0 /\ p % DirPages >= 0
         /\ p % PtrPages \in Int /\ p % DirPages \in Int
<1>1. PtrPages \in Nat \ {0} /\ DirPages \in Nat \ {0}
  BY TableAssumption
<1>2. Ptr(p) \in DOMAIN SystemPtr /\ Dir(p) \in DOMAIN SystemDir
  BY TableAssumption DEF Ptr, Dir
<1>3. SystemPtr[Ptr(p)] \in Int /\ SystemDir[Dir(p)] \in Int /\ SystemPte[p] \in Int
  BY <1>2, TableAssumption
<1>4. p \in Nat
  BY TableAssumption
<1>5. /\ p % PtrPages >= 0 /\ p % DirPages >= 0
      /\ p % PtrPages \in Int /\ p % DirPages \in Int
  BY <1>1, <1>4
<1> QED
  BY <1>2, <1>3, <1>4, <1>5

(* The range of the walk is a range of pages.                              *)
LEMMA WalkPages ==
  ASSUME WalkInv, map_range # NoRange
  PROVE  /\ map_range \in MapRange /\ map_range[1] \in Page /\ map_range[2] \in Page
         /\ map_at <= map_range[2] => map_at \in Page
BY TableAssumption DEF WalkInv

(* What the host translates, it goes on translating: entries only fill up.  *)
LEMMA TranslationStays ==
  ASSUME EntriesInv, NEW p \in Page,
         \A i \in DOMAIN SystemPtr : host_ptr[i] = NONE \/ host_ptr'[i] = host_ptr[i],
         \A i \in DOMAIN SystemDir : host_dir[i] = NONE \/ host_dir'[i] = host_dir[i],
         \A q \in Page : host_pte[q] = NONE \/ host_pte'[q] = host_pte[q],
         HostTranslate(p) # NONE
  PROVE  HostTranslate(p)' # NONE
<1>1. Ptr(p) \in DOMAIN SystemPtr /\ Dir(p) \in DOMAIN SystemDir
  BY PageEntries
<1>2. host_ptr[Ptr(p)] \in Int /\ host_dir[Dir(p)] \in Int
  BY <1>1 DEF EntriesInv
<1>3. p % PtrPages \in Int /\ p % PtrPages >= 0 /\ p % DirPages \in Int /\ p % DirPages >= 0
  BY PageEntries
<1>4. CASE Large(host_ptr[Ptr(p)])
  <2>1. host_ptr'[Ptr(p)] = host_ptr[Ptr(p)]
    BY <1>1, <1>4 DEF Large
  <2>2. HostTranslate(p)' = host_ptr[Ptr(p)] + (p % PtrPages)
    BY <1>2, <1>4, <2>1 DEF HostTranslate, Translate, Ptr, Dir, Large
  <2> QED
    BY <1>2, <1>3, <1>4, <2>2 DEF Large
<1>5. CASE host_ptr[Ptr(p)] = TABLE /\ Large(host_dir[Dir(p)])
  <2>1. host_ptr'[Ptr(p)] = TABLE /\ host_dir'[Dir(p)] = host_dir[Dir(p)]
    BY <1>1, <1>5 DEF Large
  <2>2. HostTranslate(p)' = host_dir[Dir(p)] + (p % DirPages)
    BY <1>5, <2>1 DEF HostTranslate, Translate, Ptr, Dir, Large
  <2> QED
    BY <1>2, <1>3, <1>5, <2>2 DEF Large
<1>6. CASE host_ptr[Ptr(p)] = TABLE /\ host_dir[Dir(p)] = TABLE
  <2>1. host_pte[p] # NONE
    BY <1>6 DEF HostTranslate, Translate, Large
  <2>2. host_ptr'[Ptr(p)] = TABLE /\ host_dir'[Dir(p)] = TABLE /\ host_pte'[p] = host_pte[p]
    BY <1>1, <1>6, <2>1
  <2>3. HostTranslate(p)' = host_pte[p]
    BY <2>2 DEF HostTranslate, Translate, Ptr, Dir, Large
  <2> QED
    BY <2>1, <2>3
<1>7. CASE /\ ~Large(host_ptr[Ptr(p)])
           /\ ~(host_ptr[Ptr(p)] = TABLE /\ Large(host_dir[Dir(p)]))
           /\ ~(host_ptr[Ptr(p)] = TABLE /\ host_dir[Dir(p)] = TABLE)
  <2>1. HostTranslate(p) = NONE
    BY <1>7 DEF HostTranslate, Translate
  <2> QED
    BY <2>1
<1> QED
  BY <1>4, <1>5, <1>6, <1>7

(* Entries that are empty or the system's translate to nothing or to what   *)
(* the system translates to.                                                *)
LEMMA EntriesAgree ==
  ASSUME EntriesInv, NEW p \in Page
  PROVE  HostTranslate(p) \in {NONE, SystemTranslate(p)}
<1>1. Ptr(p) \in DOMAIN SystemPtr /\ Dir(p) \in DOMAIN SystemDir
  BY PageEntries
<1>2. /\ host_ptr[Ptr(p)] \in {NONE, SystemPtr[Ptr(p)]} /\ host_dir[Dir(p)] \in {NONE, SystemDir[Dir(p)]}
      /\ host_pte[p] \in {NONE, SystemPte[p]}
  BY <1>1 DEF EntriesInv
<1> QED
  BY <1>2 DEF HostTranslate, SystemTranslate, Translate, Large

(* A step of the walk: the entries fill up and what it passes is covered.   *)
LEMMA WalkStep ==
  ASSUME TablesInv, EntriesInv', map_range # NoRange, UNCHANGED <<map_range, map_done>>,
         \A i \in DOMAIN SystemPtr : host_ptr[i] = NONE \/ host_ptr'[i] = host_ptr[i],
         \A i \in DOMAIN SystemDir : host_dir[i] = NONE \/ host_dir'[i] = host_dir[i],
         \A q \in Page : host_pte[q] = NONE \/ host_pte'[q] = host_pte[q],
         map_at' \in Nat, map_at <= map_at',
         \A p \in map_range[1] .. map_range[2] :
            map_at <= p /\ p < map_at' => Covered(map_range, p)'
  PROVE  TablesInv'
<1>1. ASSUME NEW r \in MapRange, NEW p \in r[1] .. r[2], Covered(r, p) PROVE Covered(r, p)'
  <2>1. p \in Page
    BY RangePages
  <2>2. HostTranslate(p) # NONE => HostTranslate(p)' # NONE
    BY <2>1, TranslationStays DEF TablesInv
  <2> QED
    BY <1>1, <2>2 DEF Covered, Ptr, Large
<1>2. map_range \in MapRange /\ map_range[1] \in Int /\ map_range[2] \in Int /\ map_at \in Nat
  BY WalkPages, TableAssumption DEF TablesInv, WalkInv
<1>3. ASSUME NEW p \in map_range[1] .. map_range[2], p < map_at' PROVE Covered(map_range, p)'
  <2>1. CASE p < map_at
    <3>1. Covered(map_range, p)
      BY <2>1 DEF TablesInv, WalkInv
    <3> QED
      BY <1>1, <1>2, <3>1
  <2>2. CASE map_at <= p
    BY <1>3, <2>2
  <2> QED
    BY <1>2, <2>1, <2>2
<1>4. ASSUME NEW r \in map_done, NEW p \in r[1] .. r[2] PROVE Covered(r, p)'
  BY <1>1 DEF TablesInv, WalkInv
<1>5. map_range[1] <= map_at'
  BY <1>2 DEF TablesInv, WalkInv
<1>6. WalkInv'
  BY <1>2, <1>3, <1>4, <1>5 DEF TablesInv, WalkInv, Covered
<1> QED
  BY <1>6 DEF TablesInv

(* Where a step that goes on at the next entry of its size ends.           *)
LEMMA AdvanceEnds ==
  ASSUME NEW m \in Nat, NEW d \in Nat \ {0}
  PROVE  (m \div d) * d + d \in Nat /\ m < (m \div d) * d + d
<1>1. m \div d \in Nat /\ m < d * (m \div d) + d
  BY DivBounds
<1> QED
  BY <1>1

(* The system's entry at the level get_system_pte_for_va returns.          *)
LEMMA LevelOf ==
  ASSUME NEW p \in Page
  PROVE  /\ get_system_pte_for_va(p) = "pdpte" => Large(SystemPtr[Ptr(p)])
         /\ get_system_pte_for_va(p) = "pde" => SystemPtr[Ptr(p)] = TABLE /\ Large(SystemDir[Dir(p)])
         /\ get_system_pte_for_va(p) = "pte" =>
              SystemPtr[Ptr(p)] = TABLE /\ SystemDir[Dir(p)] = TABLE /\ SystemPte[p] # NONE
BY DEF get_system_pte_for_va

(* A 1 GB page: its own range is translated; what the walk leaps over and  *)
(* this entry does not map lies after a large page of another entry.       *)
LEMMA LargePageKeeps ==
  ASSUME TablesInv, map_1gb_page
  PROVE  TablesInv'
<1> DEFINE m == map_at
<1>0. /\ map_range # NoRange /\ m \in Page /\ Large(SystemPtr[Ptr(m)]) /\ Ptr(m) \in DOMAIN SystemPtr
      /\ m \in Nat /\ map_range[1] <= m /\ SystemPtr[Ptr(m)] \in Int
      /\ map_range \in MapRange
  BY WalkPages, LevelOf, PageEntries DEF map_1gb_page, MapIn, TablesInv, WalkInv
<1>1. /\ host_ptr' = [host_ptr EXCEPT ![Ptr(m)] = SystemPtr[Ptr(m)]]
      /\ UNCHANGED <<host_dir, host_pte, map_range, map_done>>
      /\ map_at' = (m \div SkipPages) * SkipPages + SkipPages
  BY DEF map_1gb_page, Advance
<1>2. /\ EntriesInv' /\ host_ptr'[Ptr(m)] = SystemPtr[Ptr(m)]
      /\ \A i \in DOMAIN SystemPtr : host_ptr[i] = NONE \/ host_ptr'[i] = host_ptr[i]
  BY <1>0, <1>1 DEF TablesInv, EntriesInv
<1>3. map_at' \in Nat /\ m <= map_at'
  BY <1>0, <1>1, AdvanceEnds, Sizes
<1>4. ASSUME NEW p \in map_range[1] .. map_range[2], m <= p PROVE Covered(map_range, p)'
  <2>1. p \in Page /\ p \in Nat /\ map_range[1] \in Int /\ map_range[2] \in Int
    BY <1>0, RangePages
  <2>2. CASE Ptr(p) = Ptr(m)
    <3>1. p % PtrPages \in Int /\ p % PtrPages >= 0
      BY <2>1, PageEntries
    <3>2. HostTranslate(p)' = SystemPtr[Ptr(m)] + (p % PtrPages)
      BY <1>0, <1>2, <2>2 DEF HostTranslate, Translate, Ptr, Dir, Large
    <3>3. HostTranslate(p)' # NONE
      BY <1>0, <3>1, <3>2 DEF Large
    <3> QED
      BY <3>3 DEF Covered
  <2>3. CASE Ptr(p) # Ptr(m)
    <3>1. m \in map_range[1] .. p - 1
      BY <1>0, <1>4, <2>1, <2>3
    <3>2. \E q \in map_range[1] .. p - 1 : Large(SystemPtr[Ptr(q)]) /\ Ptr(q) # Ptr(p)
      BY <1>0, <2>3, <3>1
    <3> QED
      BY <1>1, <3>2 DEF Covered, Ptr, Large
  <2> QED
    BY <2>2, <2>3
<1> QED
  BY <1>0, <1>1, <1>2, <1>3, <1>4, WalkStep

(* A 2 MB page: the walk passes over the pages of one directory entry.     *)
LEMMA DirectoryPageKeeps ==
  ASSUME TablesInv, map_2mb_page
  PROVE  TablesInv'
<1> DEFINE m == map_at
<1>0. /\ map_range # NoRange /\ m \in Page /\ Ptr(m) \in DOMAIN SystemPtr /\ Dir(m) \in DOMAIN SystemDir
      /\ SystemPtr[Ptr(m)] = TABLE /\ Large(SystemDir[Dir(m)]) /\ SystemDir[Dir(m)] \in Int
      /\ m \in Nat /\ map_range[1] <= m /\ map_range \in MapRange
  BY WalkPages, LevelOf, PageEntries DEF map_2mb_page, MapIn, TablesInv, WalkInv
<1>1. /\ host_ptr' = [host_ptr EXCEPT ![Ptr(m)] = Allocated(@)]
      /\ host_dir' = [host_dir EXCEPT ![Dir(m)] = SystemDir[Dir(m)]]
      /\ UNCHANGED <<host_pte, map_range, map_done>>
      /\ map_at' = (m \div DirPages) * DirPages + DirPages
  BY DEF map_2mb_page, Advance
<1>2. /\ EntriesInv' /\ host_ptr'[Ptr(m)] = TABLE /\ host_dir'[Dir(m)] = SystemDir[Dir(m)]
      /\ \A i \in DOMAIN SystemPtr : host_ptr[i] = NONE \/ host_ptr'[i] = host_ptr[i]
      /\ \A i \in DOMAIN SystemDir : host_dir[i] = NONE \/ host_dir'[i] = host_dir[i]
  BY <1>0, <1>1 DEF TablesInv, EntriesInv, Allocated
<1>3. map_at' \in Nat /\ m <= map_at'
  BY <1>0, <1>1, AdvanceEnds, Sizes
<1>4. ASSUME NEW p \in map_range[1] .. map_range[2], m <= p, p < map_at'
      PROVE  Covered(map_range, p)'
  <2>1. p \in Page /\ p \in Nat
    BY <1>0, RangePages
  <2>2. Dir(p) = Dir(m) /\ Ptr(p) = Ptr(m)
    BY <1>0, <1>1, <1>4, <2>1, SameEntries
  <2>3. p % DirPages \in Int /\ p % DirPages >= 0
    BY <2>1, PageEntries
  <2>4. HostTranslate(p)' = SystemDir[Dir(m)] + (p % DirPages)
    BY <1>0, <1>2, <2>2 DEF HostTranslate, Translate, Ptr, Dir, Large
  <2>5. HostTranslate(p)' # NONE
    BY <1>0, <2>3, <2>4 DEF Large
  <2> QED
    BY <2>5 DEF Covered
<1> QED
  BY <1>0, <1>1, <1>2, <1>3, <1>4, WalkStep

(* A 4 KB page: the walk goes on by one page.                              *)
LEMMA SmallPageKeeps ==
  ASSUME TablesInv, map_4kb_page
  PROVE  TablesInv'
<1> DEFINE m == map_at
<1>0. /\ map_range # NoRange /\ m \in Page /\ Ptr(m) \in DOMAIN SystemPtr /\ Dir(m) \in DOMAIN SystemDir
      /\ SystemPtr[Ptr(m)] = TABLE /\ SystemDir[Dir(m)] = TABLE /\ SystemPte[m] # NONE
      /\ m \in Nat /\ map_range[1] <= m /\ map_range \in MapRange /\ SystemPte[m] \in Int
  BY WalkPages, LevelOf, PageEntries DEF map_4kb_page, MapIn, TablesInv, WalkInv
<1>1. /\ host_ptr' = [host_ptr EXCEPT ![Ptr(m)] = Allocated(@)]
      /\ host_dir' = [host_dir EXCEPT ![Dir(m)] = Allocated(@)]
      /\ host_pte' = [host_pte EXCEPT ![m] = SystemPte[m]]
      /\ UNCHANGED <<map_range, map_done>>
      /\ map_at' = m + 1
  BY <1>0 DEF map_4kb_page, Advance
<1>2. /\ EntriesInv' /\ host_ptr'[Ptr(m)] = TABLE /\ host_dir'[Dir(m)] = TABLE
      /\ host_pte'[m] = SystemPte[m]
      /\ \A i \in DOMAIN SystemPtr : host_ptr[i] = NONE \/ host_ptr'[i] = host_ptr[i]
      /\ \A i \in DOMAIN SystemDir : host_dir[i] = NONE \/ host_dir'[i] = host_dir[i]
      /\ \A q \in Page : host_pte[q] = NONE \/ host_pte'[q] = host_pte[q]
  BY <1>0, <1>1 DEF TablesInv, EntriesInv, Allocated
<1>3. map_at' \in Nat /\ m <= map_at'
  BY <1>0, <1>1
<1>4. ASSUME NEW p \in map_range[1] .. map_range[2], m <= p, p < map_at'
      PROVE  Covered(map_range, p)'
  <2>1. p = m
    <3>1. p \in Int /\ m \in Nat /\ m <= p
      BY <1>0, <1>4
    <3>2. p < m + 1
      BY <1>1, <1>4
    <3> QED
      BY <3>1, <3>2
  <2>2. HostTranslate(p)' = SystemPte[m]
    BY <1>2, <2>1 DEF HostTranslate, Translate, Ptr, Dir, Large
  <2> QED
    BY <1>0, <2>2 DEF Covered
<1> QED
  BY <1>0, <1>1, <1>2, <1>3, <1>4, WalkStep

(* The host's tables never disagree with the system's, and a range that     *)
(* map_va_range_to_host reports as mapped is mapped up to its 1 GB pages,   *)
(* for every layout of the system's tables and any number of ranges.        *)
THEOREM HostTablesAgree == TablesSpec => []HostMapAgrees
<1>1. TablesInit => TablesInv
  BY DEF TablesInit, TablesInv, EntriesInv, WalkInv
<1>2. TablesInv /\ [TablesNext]_tableVars => TablesInv'
  <2> SUFFICES ASSUME TablesInv, [TablesNext]_tableVars PROVE TablesInv'
    OBVIOUS
  <2>1. CASE map_1gb_page \/ map_2mb_page \/ map_4kb_page
    BY <2>1, LargePageKeeps, DirectoryPageKeeps, SmallPageKeeps
  <2>2. CASE MapBegin
    <3>1. PICK r \in MapRange : map_range' = r /\ map_at' = r[1]
      BY <2>2 DEF MapBegin
    <3>2. r[1] \in Nat /\ r # NoRange
      BY TableAssumption DEF NoRange
    <3>3. UNCHANGED <<host_ptr, host_dir, host_pte, map_done>>
      BY <2>2 DEF MapBegin
    <3>4. \A p \in r[1] .. r[2] : ~(p < r[1])
      BY <3>2
    <3>5. EntriesInv'
      BY <3>3 DEF TablesInv, EntriesInv
    <3>6. \A d \in map_done : \A p \in d[1] .. d[2] : Covered(d, p)'
      BY <3>3 DEF TablesInv, WalkInv, Covered, HostTranslate, Translate, Ptr, Dir, Large
    <3>7. WalkInv'
      BY <3>1, <3>2, <3>3, <3>4, <3>6 DEF TablesInv, WalkInv
    <3> QED
      BY <3>5, <3>7 DEF TablesInv
  <2>3. CASE MapFails
    BY <2>3 DEF MapFails, TablesInv, EntriesInv, WalkInv, Covered, HostTranslate, Translate, Ptr,
                Dir, Large
  <2>4. CASE MapEnd
    <3>1. /\ map_range # NoRange /\ map_at > map_range[2] /\ map_range' = NoRange /\ map_at' = 0
          /\ map_done' = map_done \cup {map_range} /\ UNCHANGED <<host_ptr, host_dir, host_pte>>
      BY <2>4 DEF MapEnd
    <3>2. map_range \in MapRange /\ map_range[2] \in Int /\ map_range[1] \in Int
      BY <3>1, WalkPages, TableAssumption DEF TablesInv
    <3>3. \A p \in map_range[1] .. map_range[2] : Covered(map_range, p)
      BY <3>1, <3>2 DEF TablesInv, WalkInv
    <3>4. \A r \in map_done' : \A p \in r[1] .. r[2] : Covered(r, p)
      BY <3>1, <3>3 DEF TablesInv, WalkInv
    <3>5. \A r, p : Covered(r, p) => Covered(r, p)'
      BY <3>1 DEF Covered, HostTranslate, Translate, Ptr, Dir, Large
    <3>6. EntriesInv'
      BY <3>1 DEF TablesInv, EntriesInv
    <3>7. WalkInv'
      BY <3>1, <3>2, <3>4, <3>5 DEF TablesInv, WalkInv
    <3> QED
      BY <3>6, <3>7 DEF TablesInv
  <2>5. CASE UNCHANGED tableVars
    BY <2>5 DEF tableVars, TablesInv, EntriesInv, WalkInv, Covered, HostTranslate, Translate, Ptr,
                Dir, Large
  <2> QED
    BY <2>1, <2>2, <2>3, <2>4, <2>5 DEF TablesNext
<1>3. TablesInv => HostMapAgrees
  BY EntriesAgree DEF TablesInv, WalkInv, Covered, HostMapAgrees
<1> QED
  BY <1>1, <1>2, <1>3, PTL DEF TablesSpec

-----------------------------------------------------------------------------
(* LogRing.                                                                *)

HIDE DEF NONE, TABLE, Page

(* Where a context has the lock.                                           *)
Holding == {"depth", "write", "publish", "flush", "copy", "retire", "unlock", "release"}
LogPlace == {"idle", "test", "swap"} \cup Holding

(* The slot k messages behind the cursor.                                  *)
Behind(k) == IF k <= cursor THEN cursor - k ELSE cursor + LogLen - k

LogType ==
  /\ m_owner \in Nat /\ m_depth \in Int
  /\ messages \in [0 .. LogLen - 1 -> Int] /\ cursor \in 0 .. LogLen - 1
  /\ message_count \in Nat /\ pending_count \in 0 .. LogLen
  /\ log_pc \in [Context -> LogPlace] /\ log_op \in [Context -> {"write", "flush"}]
  /\ log_local \in [Context -> [start : Nat, out : Seq(Int)]]

(* Without nesting a core is in the log's code in one context only, so that *)
(* the lock is a plain one: no context takes it twice, and whoever is past  *)
(* it owns it.                                                              *)
LockInv ==
  /\ \A c \in LogCore : log_pc[<<c, "base">>] = "idle" \/ log_pc[<<c, "nmi">>] = "idle"
  /\ \A x \in Context : log_pc[x] \in Holding => m_owner = x[1]
  /\ m_owner # UNLOCKED => \E x \in Context : x[1] = m_owner /\ log_pc[x] \in Holding
  /\ \A x \in Context : log_pc[x] \in Holding \ {"depth", "release"} => m_depth = 1

(* The messages that wait are the last ones, and lie behind the cursor.    *)
ContentInv ==
  /\ (\A x \in Context : log_pc[x] # "publish") =>
       \A k \in 1 .. pending_count : messages[Behind(k)] = message_count - k
  /\ \A x \in Context : log_pc[x] = "publish" =>
       /\ log_local[x].start = cursor /\ messages[cursor] = message_count - 1
       /\ \A k \in 1 .. pending_count : k < LogLen => messages[Behind(k)] = message_count - 1 - k

PlanInv ==
  \A x \in Context :
    /\ log_pc[x] \in {"copy", "retire"} =>
         Len(log_local[x].out) <= pending_count /\ log_local[x].start = Behind(pending_count)
    /\ log_pc[x] = "retire" =>
         log_local[x].out =
           [i \in 1 .. Len(log_local[x].out) |-> message_count - pending_count + i - 1]

UnnestedInv == LogType /\ LockInv /\ ContentInv /\ PlanInv

LogInv == nested \in BOOLEAN /\ (~nested => UnnestedInv)

(* A context is a core and one of its two levels.                          *)
LEMMA ContextParts ==
  ASSUME NEW x \in Context
  PROVE  /\ x = <<x[1], x[2]>> /\ x[1] \in LogCore /\ x[1] \in Nat \ {0} /\ x[2] \in {"base", "nmi"}
         /\ <<x[1], "base">> \in Context /\ <<x[1], "nmi">> \in Context
<1>1. PICK c \in LogCore, l \in {"base", "nmi"} : x = <<c, l>>
  BY DEF Context
<1>2. x[1] = c /\ x[2] = l
  BY <1>1
<1>3. c \in Nat \ {0}
  BY LogAssumption
<1>4. <<c, "base">> \in Context /\ <<c, "nmi">> \in Context
  BY DEF Context
<1> QED
  BY <1>1, <1>2, <1>3, <1>4

(* On a core, one context at most is in the log's code.                    *)
LEMMA OneContext ==
  ASSUME LockInv, NEW x \in Context, NEW y \in Context, x[1] = y[1],
         log_pc[x] # "idle", log_pc[y] # "idle"
  PROVE  x = y
<1>1. log_pc[<<x[1], "base">>] = "idle" \/ log_pc[<<x[1], "nmi">>] = "idle"
  BY ContextParts DEF LockInv
<1>2. x \in {<<x[1], "base">>, <<x[1], "nmi">>} /\ y \in {<<x[1], "base">>, <<x[1], "nmi">>}
  BY ContextParts
<1> QED
  BY <1>1, <1>2

(* One context at most is past the lock.                                   *)
LEMMA OneHolder ==
  ASSUME LockInv, NEW x \in Context, NEW y \in Context, log_pc[x] \in Holding, log_pc[y] \in Holding
  PROVE  x = y
<1>1. x[1] = y[1]
  BY DEF LockInv
<1>2. log_pc[x] # "idle" /\ log_pc[y] # "idle"
  BY DEF Holding
<1> QED
  BY <1>1, <1>2, OneContext

(* A context moves between places where it neither has a message half      *)
(* written nor a flush half done, and leaves the ring alone.               *)
LEMMA RingAlone ==
  ASSUME UnnestedInv, NEW x \in Context, NEW to \in LogPlace,
         log_pc[x] \notin {"publish", "copy", "retire"}, to \notin {"publish", "copy", "retire"},
         log_pc' = [log_pc EXCEPT ![x] = to], UNCHANGED <<ringVars, log_local>>
  PROVE  ContentInv' /\ PlanInv'
<1>1. \A y \in Context : log_pc'[y] \in {"publish", "copy", "retire"} => log_pc'[y] = log_pc[y]
  BY DEF UnnestedInv, LogType
<1>2. \A y \in Context : log_pc[y] \in {"publish", "copy", "retire"} => log_pc'[y] = log_pc[y]
  BY DEF UnnestedInv, LogType
<1>3. ContentInv'
  BY <1>1, <1>2 DEF UnnestedInv, ContentInv, ringVars, Behind
<1>4. PlanInv'
  BY <1>1 DEF UnnestedInv, PlanInv, ringVars, Behind
<1> QED
  BY <1>3, <1>4

(* A context enters the log's code, with nothing nested.                   *)
LEMMA EntryKeeps ==
  ASSUME UnnestedInv, NEW x \in Context, ~nested',
         log_fmt_print(x) \/ handle_flush_standard_logs(x) \/ LogNmi(x)
  PROVE  UnnestedInv'
<1>1. /\ log_pc[x] = "idle" /\ log_pc' = [log_pc EXCEPT ![x] = "test"]
      /\ UNCHANGED <<lockVars, ringVars, log_local>>
  BY DEF log_fmt_print, handle_flush_standard_logs, LogNmi, Goto
<1>2. log_op' \in [Context -> {"write", "flush"}]
  BY DEF log_fmt_print, handle_flush_standard_logs, LogNmi, UnnestedInv, LogType
<1>3. ContentInv' /\ PlanInv'
  BY <1>1, RingAlone DEF LogPlace, Holding
<1>4. LogType'
  BY <1>1, <1>2 DEF UnnestedInv, LogType, lockVars, ringVars, LogPlace
<1>5. log_pc[<<x[1], "base">>] = "idle" /\ log_pc[<<x[1], "nmi">>] = "idle"
  <2>1. CASE x[2] = "base"
    <3>1. x = <<x[1], "base">>
      BY <2>1, ContextParts
    <3>2. log_pc[<<x[1], "nmi">>] = "idle"
      BY <2>1 DEF log_fmt_print, handle_flush_standard_logs, LogNmi, Goto, Running
    <3> QED
      BY <1>1, <3>1, <3>2
  <2>2. CASE x[2] = "nmi"
    <3>1. x = <<x[1], "nmi">>
      BY <2>2, ContextParts
    <3>2. log_pc[<<x[1], "base">>] = "idle"
      BY <2>2 DEF log_fmt_print, handle_flush_standard_logs, LogNmi
    <3> QED
      BY <1>1, <3>1, <3>2
  <2> QED
    BY <2>1, <2>2, ContextParts
<1>6. LockInv'
  <2>1. \A y \in Context : log_pc'[y] = IF y = x THEN "test" ELSE log_pc[y]
    BY <1>1 DEF UnnestedInv, LogType
  <2>2. \A c \in LogCore : log_pc'[<<c, "base">>] = "idle" \/ log_pc'[<<c, "nmi">>] = "idle"
    <3> SUFFICES ASSUME NEW c \in LogCore
                 PROVE  log_pc'[<<c, "base">>] = "idle" \/ log_pc'[<<c, "nmi">>] = "idle"
      OBVIOUS
    <3>1. <<c, "base">> \in Context /\ <<c, "nmi">> \in Context
      BY DEF Context
    <3>2. CASE c = x[1]
      BY <1>5, <2>1, <3>1, <3>2
    <3>3. CASE c # x[1]
      BY <2>1, <3>1, <3>3 DEF UnnestedInv, LockInv
    <3> QED
      BY <3>2, <3>3
  <2>3. \A y \in Context : log_pc'[y] \in Holding <=> log_pc[y] \in Holding
    BY <1>1, <2>1 DEF Holding
  <2>4. \A y \in Context : log_pc'[y] \in Holding => log_pc'[y] = log_pc[y]
    BY <2>1 DEF Holding
  <2> QED
    BY <1>1, <2>2, <2>3, <2>4 DEF UnnestedInv, LockInv, lockVars
<1> QED
  BY <1>3, <1>4, <1>6 DEF UnnestedInv

(* A context that is in the log's code stays in it, or leaves it; whether   *)
(* it holds the lock does not change.                                       *)
LEMMA LockUntouched ==
  ASSUME UnnestedInv, NEW x \in Context, NEW to \in LogPlace, log_pc[x] # "idle",
         log_pc' = [log_pc EXCEPT ![x] = to], m_owner' = m_owner,
         log_pc[x] \in Holding <=> to \in Holding,
         \/ m_depth' = m_depth /\ (to \in Holding \ {"depth", "release"} => log_pc[x] \notin {"depth", "release"})
         \/ log_pc[x] \in Holding /\ (m_depth' = 1 \/ to \in {"depth", "release"})
  PROVE  LockInv'
<1> USE DEF UnnestedInv
<1>1. \A y \in Context : log_pc'[y] = IF y = x THEN to ELSE log_pc[y]
  BY DEF LogType
<1>2. \A c \in LogCore : log_pc'[<<c, "base">>] = "idle" \/ log_pc'[<<c, "nmi">>] = "idle"
  <2> SUFFICES ASSUME NEW c \in LogCore
               PROVE  log_pc'[<<c, "base">>] = "idle" \/ log_pc'[<<c, "nmi">>] = "idle"
    OBVIOUS
  <2>1. <<c, "base">> \in Context /\ <<c, "nmi">> \in Context
    BY DEF Context
  <2>2. log_pc[<<c, "base">>] = "idle" \/ log_pc[<<c, "nmi">>] = "idle"
    BY DEF LockInv
  <2> QED
    BY <1>1, <2>1, <2>2
<1>3. \A y \in Context : log_pc'[y] \in Holding <=> log_pc[y] \in Holding
  BY <1>1
<1>4. ASSUME NEW y \in Context, log_pc'[y] \in Holding \ {"depth", "release"} PROVE m_depth' = 1
  <2>1. CASE y = x
    BY <1>1, <1>4, <2>1 DEF LockInv
  <2>2. CASE y # x
    <3>1. log_pc[y] \in Holding \ {"depth", "release"}
      BY <1>1, <1>4, <2>2
    <3>2. log_pc[x] \notin Holding
      BY <2>2, <3>1, OneHolder
    <3> QED
      BY <3>1, <3>2 DEF LockInv
  <2> QED
    BY <2>1, <2>2
<1> QED
  BY <1>2, <1>3, <1>4 DEF LockInv

(* The lock: with nothing nested, `bump` is never reached, since the owner  *)
(* is never at `test`.                                                      *)
LEMMA LockStepKeeps ==
  ASSUME UnnestedInv, NEW x \in Context, LockStep(x)
  PROVE  UnnestedInv'
<1> USE DEF UnnestedInv
<1>0. UNCHANGED <<ringVars, log_local>> /\ log_op' = log_op /\ log_op[x] \in {"write", "flush"}
  BY DEF LockStep, boundVars, LogType
<1>1. log_pc[x] \in LogPlace
  BY DEF LogType
<1>t. ASSUME NEW to \in LogPlace, log_pc' = [log_pc EXCEPT ![x] = to], m_owner' \in Nat,
             m_depth' \in Int
      PROVE  LogType'
  BY <1>0, <1>t DEF LogType, ringVars
<1>2. CASE lock_test(x)
  <2>1. log_pc[x] = "test" /\ UNCHANGED lockVars
    BY <1>2 DEF lock_test, Goto
  <2>2. m_owner # x[1]
    <3> SUFFICES ASSUME m_owner = x[1] PROVE FALSE
      OBVIOUS
    <3>1. PICK y \in Context : y[1] = m_owner /\ log_pc[y] \in Holding
      BY ContextParts DEF LockInv, UNLOCKED
    <3>2. x = y
      BY <2>1, <3>1, OneContext DEF Holding
    <3> QED
      BY <2>1, <3>1, <3>2 DEF Holding
  <2>3. log_pc' = [log_pc EXCEPT ![x] = "swap"]
    BY <1>2, <2>2 DEF lock_test, Goto
  <2>4. "swap" \in LogPlace /\ "swap" \notin Holding /\ "test" \notin Holding
    BY DEF LogPlace, Holding
  <2>5. LockInv'
    BY <2>1, <2>3, <2>4, LockUntouched DEF lockVars
  <2>6. LogType'
    BY <1>t, <2>1, <2>3, <2>4 DEF lockVars, LogType
  <2> QED
    BY <1>0, <2>1, <2>3, <2>4, <2>5, <2>6, RingAlone
<1>3. CASE lock_bump(x)
  BY <1>1, <1>3 DEF lock_bump, Goto, LogPlace, Holding
<1>4. CASE lock_swap(x)
  <2>1. /\ m_owner = UNLOCKED /\ log_pc[x] = "swap" /\ log_pc' = [log_pc EXCEPT ![x] = "depth"]
        /\ m_owner' = x[1] /\ m_depth' = m_depth
    BY <1>4 DEF lock_swap, Goto
  <2>2. "depth" \in LogPlace /\ "depth" \in Holding /\ x[1] \in Nat \ {0}
    BY ContextParts DEF LogPlace, Holding
  <2>3. \A y \in Context : log_pc[y] \notin Holding
    BY <2>1, ContextParts DEF LockInv, UNLOCKED
  <2>4. \A y \in Context : log_pc'[y] = IF y = x THEN "depth" ELSE log_pc[y]
    BY <2>1 DEF LogType
  <2>5. \A c \in LogCore : log_pc'[<<c, "base">>] = "idle" \/ log_pc'[<<c, "nmi">>] = "idle"
    <3> SUFFICES ASSUME NEW c \in LogCore
                 PROVE  log_pc'[<<c, "base">>] = "idle" \/ log_pc'[<<c, "nmi">>] = "idle"
      OBVIOUS
    <3>1. <<c, "base">> \in Context /\ <<c, "nmi">> \in Context
      BY DEF Context
    <3> QED
      BY <2>1, <2>4, <3>1 DEF LockInv
  <2>6. LockInv'
    BY <2>1, <2>2, <2>3, <2>4, <2>5 DEF LockInv
  <2>7. LogType'
    BY <1>t, <2>1, <2>2 DEF LogType
  <2> QED
    BY <1>0, <2>1, <2>2, <2>6, <2>7, RingAlone
<1>5. CASE lock_depth(x)
  <2>1. /\ log_pc[x] = "depth" /\ log_pc' = [log_pc EXCEPT ![x] = log_op[x]]
        /\ m_depth' = 1 /\ m_owner' = m_owner
    BY <1>5 DEF lock_depth, Goto
  <2>2. log_op[x] \in LogPlace /\ log_op[x] \in Holding /\ "depth" \in Holding
    BY <1>0 DEF LogPlace, Holding
  <2>3. LockInv'
    BY <2>1, <2>2, LockUntouched
  <2>n. m_owner' \in Nat /\ m_depth' \in Int
    BY <2>1 DEF LogType
  <2>4. LogType'
    BY <1>t, <2>1, <2>2, <2>n
  <2> QED
    BY <1>0, <2>1, <2>2, <2>3, <2>4, RingAlone
<1>6. CASE unlock_decrement(x)
  <2>1. log_pc[x] = "unlock" /\ m_owner' = m_owner /\ m_depth' = m_depth - 1
    BY <1>6 DEF unlock_decrement, Goto
  <2>2. m_depth = 1
    BY <2>1 DEF LockInv, Holding
  <2>3. log_pc' = [log_pc EXCEPT ![x] = "release"]
    BY <1>6, <2>2 DEF unlock_decrement, Goto
  <2>4. "release" \in LogPlace /\ "release" \in Holding /\ "unlock" \in Holding
    BY DEF LogPlace, Holding
  <2>5. LockInv'
    BY <2>1, <2>3, <2>4, LockUntouched
  <2>n. m_owner' \in Nat /\ m_depth' \in Int
    BY <2>1, <2>2 DEF LogType
  <2>6. LogType'
    BY <1>t, <2>3, <2>4, <2>n
  <2> QED
    BY <1>0, <2>1, <2>3, <2>4, <2>5, <2>6, RingAlone
<1>7. CASE unlock_release(x)
  <2>1. /\ log_pc[x] = "release" /\ log_pc' = [log_pc EXCEPT ![x] = "idle"]
        /\ m_owner' = UNLOCKED /\ m_depth' = m_depth
    BY <1>7 DEF unlock_release, Goto
  <2>2. "idle" \in LogPlace /\ "idle" \notin Holding /\ "release" \in Holding
    BY DEF LogPlace, Holding
  <2>3. \A y \in Context : log_pc'[y] = IF y = x THEN "idle" ELSE log_pc[y]
    BY <2>1 DEF LogType
  <2>4. \A y \in Context : log_pc'[y] \notin Holding
    BY <2>1, <2>2, <2>3, OneHolder
  <2>5. \A c \in LogCore : log_pc'[<<c, "base">>] = "idle" \/ log_pc'[<<c, "nmi">>] = "idle"
    <3> SUFFICES ASSUME NEW c \in LogCore
                 PROVE  log_pc'[<<c, "base">>] = "idle" \/ log_pc'[<<c, "nmi">>] = "idle"
      OBVIOUS
    <3>1. <<c, "base">> \in Context /\ <<c, "nmi">> \in Context
      BY DEF Context
    <3> QED
      BY <2>3, <3>1 DEF LockInv
  <2>6. LockInv'
    BY <2>1, <2>4, <2>5 DEF LockInv
  <2>7. LogType'
    BY <1>t, <2>1, <2>2 DEF LogType, UNLOCKED
  <2> QED
    BY <1>0, <2>1, <2>2, <2>6, <2>7, RingAlone
<1> QED
  BY <1>2, <1>3, <1>4, <1>5, <1>6, <1>7 DEF LockStep

(* The remainder of what exceeds the ring's length once at most.           *)
LEMMA WrapsOnce ==
  ASSUME NEW n \in Nat \ {0}, NEW a \in Nat, a < 2 * n
  PROVE  a % n = IF a < n THEN a ELSE a - n
OBVIOUS

(* The slots behind the cursor are slots, the cursor's own is not one of    *)
(* the LogLen - 1 last, and flush_standard_logs computes them.              *)
LEMMA BehindSlots ==
  ASSUME NEW k \in 0 .. LogLen, cursor \in 0 .. LogLen - 1
  PROVE  /\ Behind(k) \in 0 .. LogLen - 1
         /\ k \in 1 .. LogLen - 1 => Behind(k) # cursor
         /\ (cursor + LogLen - k) % LogLen = Behind(k)
<1>1. LogLen \in Nat \ {0}
  BY LogAssumption
<1> DEFINE a == cursor + LogLen - k
<1>2. a \in Nat /\ a < 2 * LogLen
  BY <1>1
<1>3. Behind(k) = IF a < LogLen THEN a ELSE a - LogLen
  BY <1>1 DEF Behind
<1>4. a % LogLen = Behind(k)
  <2> HIDE DEF a
  <2> QED
    BY <1>1, <1>2, <1>3, WrapsOnce, Zenon
<1>5. Behind(k) \in 0 .. LogLen - 1 /\ (k \in 1 .. LogLen - 1 => Behind(k) # cursor)
  BY <1>1 DEF Behind
<1> QED
  BY <1>4, <1>5, Zenon

(* An advanced cursor sees each message one slot further behind.           *)
LEMMA BehindAdvanced ==
  ASSUME NEW k \in 1 .. LogLen, cursor \in 0 .. LogLen - 1, cursor' = (cursor + 1) % LogLen
  PROVE  cursor' \in 0 .. LogLen - 1 /\ Behind(k)' = Behind(k - 1)
<1>1. LogLen \in Nat \ {0}
  BY LogAssumption
<1> DEFINE a == cursor + 1
<1>0. a \in Nat /\ a < 2 * LogLen /\ cursor' = a % LogLen
  BY <1>1, Z3
<1>2. cursor' = IF a < LogLen THEN a ELSE a - LogLen
  <2> HIDE DEF a
  <2> QED
    BY <1>0, <1>1, WrapsOnce, Zenon
<1> QED
  BY <1>1, <1>2 DEF Behind

(* The number that is written goes to the cursor's slot, which holds none   *)
(* of the LogLen - 1 last messages.                                         *)
LEMMA WriteMessageKeeps ==
  ASSUME UnnestedInv, NEW x \in Context, write_message(x), UNCHANGED lockVars, UNCHANGED log_op
  PROVE  UnnestedInv'
<1> USE DEF UnnestedInv
<1>1. /\ log_pc[x] = "write" /\ log_pc' = [log_pc EXCEPT ![x] = "publish"]
      /\ messages' = [messages EXCEPT ![cursor] = message_count]
      /\ message_count' = message_count + 1
      /\ log_local' = [log_local EXCEPT ![x].start = cursor]
      /\ cursor' = cursor /\ pending_count' = pending_count
  BY DEF write_message, Goto
<1>2. "publish" \in LogPlace /\ "publish" \in Holding /\ "write" \in Holding
  BY DEF LogPlace, Holding
<1>3. LogLen \in Nat \ {0} /\ cursor \in 0 .. LogLen - 1 /\ pending_count \in 0 .. LogLen
      /\ message_count \in Nat
  BY LogAssumption DEF LogType
<1>4. LogType'
  <2>1. log_local' \in [Context -> [start : Nat, out : Seq(Int)]]
    <3>1. log_local[x] \in [start : Nat, out : Seq(Int)] /\ cursor \in Nat
      BY <1>3 DEF LogType
    <3>2. [log_local[x] EXCEPT !.start = cursor] \in [start : Nat, out : Seq(Int)]
      BY <3>1
    <3> QED
      BY <1>1, <3>2 DEF LogType
  <2>2. messages' \in [0 .. LogLen - 1 -> Int] /\ message_count' \in Nat
    BY <1>1, <1>3 DEF LogType
  <2>3. log_pc' \in [Context -> LogPlace]
    BY <1>1, <1>2 DEF LogType
  <2> QED
    BY <1>1, <2>1, <2>2, <2>3 DEF LogType, lockVars
<1>5. LockInv'
  BY <1>1, <1>2, LockUntouched DEF lockVars
<1>6. \A y \in Context : log_pc'[y] = IF y = x THEN "publish" ELSE log_pc[y]
  BY <1>1 DEF LogType
<1>7. \A y \in Context : y # x => log_pc[y] \notin Holding
  BY <1>1, <1>2, OneHolder
<1>8. \A k \in 1 .. pending_count : messages[Behind(k)] = message_count - k
  BY <1>1, <1>6, <1>7 DEF ContentInv, Holding
<1>9. messages'[cursor] = message_count /\ log_local'[x].start = cursor
  BY <1>1, <1>3 DEF LogType
<1>10. ASSUME NEW k \in 1 .. pending_count, k < LogLen
       PROVE  messages'[Behind(k)] = message_count' - 1 - k
  <2>1. k \in 1 .. LogLen - 1 /\ k \in 0 .. LogLen
    BY <1>3, <1>10
  <2>2. Behind(k) # cursor /\ Behind(k) \in 0 .. LogLen - 1
    BY <1>3, <2>1, BehindSlots
  <2>3. messages'[Behind(k)] = messages[Behind(k)]
    BY <1>1, <2>2 DEF LogType
  <2>4. messages[Behind(k)] = message_count - k
    BY <1>8, <1>10
  <2> QED
    BY <1>1, <1>3, <2>3, <2>4
<1>11. \A k : Behind(k)' = Behind(k)
  BY <1>1 DEF Behind
<1>12. \A k \in 1 .. pending_count' : k < LogLen => messages'[Behind(k)'] = message_count' - 1 - k
  BY <1>1, <1>10, <1>11
<1>13. \A y \in Context : log_pc'[y] = "publish" => y = x
  BY <1>6, <1>7 DEF Holding
<1>14. messages'[cursor'] = message_count' - 1 /\ log_local'[x].start = cursor'
  BY <1>1, <1>3, <1>9
<1>15. ContentInv'
  <2>1. log_pc'[x] = "publish"
    BY <1>6
  <2> QED
    BY <1>12, <1>13, <1>14, <2>1 DEF ContentInv
<1>16. PlanInv'
  BY <1>6, <1>7 DEF PlanInv, Holding
<1> QED
  BY <1>4, <1>5, <1>15, <1>16

(* The message just written is now the last of those that wait.            *)
LEMMA WritePublishKeeps ==
  ASSUME UnnestedInv, NEW x \in Context, write_publish(x), UNCHANGED lockVars, UNCHANGED log_op
  PROVE  UnnestedInv'
<1> USE DEF UnnestedInv
<1>1. /\ log_pc[x] = "publish" /\ log_pc' = [log_pc EXCEPT ![x] = "unlock"]
      /\ log_local[x].start = cursor /\ cursor' = (cursor + 1) % LogLen
      /\ pending_count' = LogMin(pending_count + 1, LogLen)
      /\ log_local' = [log_local EXCEPT ![x] = NoLocal]
      /\ messages' = messages /\ message_count' = message_count
  BY DEF write_publish, Goto, ContentInv
<1>2. "publish" \in Holding /\ "unlock" \in LogPlace /\ "unlock" \in Holding
  BY DEF LogPlace, Holding
<1>3. LogLen \in Nat \ {0} /\ cursor \in 0 .. LogLen - 1 /\ pending_count \in 0 .. LogLen
      /\ message_count \in Nat
  BY LogAssumption DEF LogType
<1>4. pending_count' \in 0 .. LogLen /\ pending_count' <= pending_count + 1
  BY <1>1, <1>3 DEF LogMin
<1>5. cursor' \in 0 .. LogLen - 1
  BY <1>1, <1>3, BehindAdvanced
<1>6. NoLocal \in [start : Nat, out : Seq(Int)]
  BY DEF NoLocal
<1>7. LogType'
  BY <1>1, <1>2, <1>4, <1>5, <1>6 DEF LogType, lockVars
<1>8. LockInv'
  BY <1>1, <1>2, LockUntouched DEF lockVars
<1>9. \A y \in Context : log_pc'[y] = IF y = x THEN "unlock" ELSE log_pc[y]
  BY <1>1 DEF LogType
<1>10. \A y \in Context : y # x => log_pc[y] \notin Holding
  BY <1>1, <1>2, OneHolder
<1>11. ASSUME NEW k \in 1 .. pending_count'
       PROVE  messages'[Behind(k)'] = message_count' - k
  <2>1. k \in 1 .. LogLen
    BY <1>3, <1>4
  <2>2. Behind(k)' = Behind(k - 1)
    BY <1>1, <1>3, <2>1, BehindAdvanced
  <2>3. CASE k = 1
    <3>1. Behind(k - 1) = cursor
      BY <1>3, <2>3 DEF Behind
    <3>2. messages[cursor] = message_count - 1
      BY <1>1 DEF ContentInv
    <3> QED
      BY <1>1, <2>2, <2>3, <3>1, <3>2
  <2>4. CASE k # 1
    <3> DEFINE j == k - 1
    <3>1. j \in 1 .. pending_count /\ j < LogLen /\ j = k - 1
      BY <1>3, <1>4, <2>1, <2>4
    <3>2. messages[Behind(j)] = message_count - 1 - j
      <4> HIDE DEF j
      <4> QED
        BY <1>1, <3>1 DEF ContentInv
    <3> QED
      BY <1>1, <1>3, <2>2, <3>2
  <2> QED
    BY <2>3, <2>4
<1>12. ContentInv'
  BY <1>9, <1>10, <1>11 DEF ContentInv, Holding
<1>13. PlanInv'
  BY <1>9, <1>10 DEF PlanInv, Holding
<1> QED
  BY <1>7, <1>8, <1>12, <1>13

(* A plan that wants something starts at the oldest message that waits.    *)
LEMMA FlushPlanKeeps ==
  ASSUME UnnestedInv, NEW x \in Context, flush_plan(x), UNCHANGED lockVars, UNCHANGED log_op
  PROVE  UnnestedInv'
<1> USE DEF UnnestedInv
<1> DEFINE count == LogMin(pending_count, FlushMax)
           to == IF count = 0 THEN "unlock" ELSE "copy"
           blank == [i \in 1 .. count |-> -1]
           plan == [start |-> (cursor + LogLen - pending_count) % LogLen, out |-> blank]
<1>1. /\ log_pc[x] = "flush" /\ log_pc' = [log_pc EXCEPT ![x] = to]
      /\ log_local' = [log_local EXCEPT ![x] = plan] /\ UNCHANGED ringVars
  BY DEF flush_plan, Goto
<1>2. to \in LogPlace /\ to \in Holding \ {"depth", "release"} /\ "flush" \in Holding
      /\ to \in {"unlock", "copy"}
  BY DEF LogPlace, Holding
<1>3. /\ LogLen \in Nat \ {0} /\ cursor \in 0 .. LogLen - 1 /\ pending_count \in 0 .. LogLen
      /\ FlushMax \in Nat \ {0}
  BY LogAssumption DEF LogType
<1>4. count \in 0 .. pending_count
  BY <1>3 DEF LogMin
<1>5. blank \in Seq(Int) /\ Len(blank) = count
  <2>1. count \in Nat
    BY <1>3, <1>4
  <2> HIDE DEF count
  <2> QED
    BY <2>1
<1>6. plan.start = Behind(pending_count) /\ Behind(pending_count) \in 0 .. LogLen - 1
  <2>1. (cursor + LogLen - pending_count) % LogLen = Behind(pending_count)
        /\ Behind(pending_count) \in 0 .. LogLen - 1
    BY <1>3, BehindSlots
  <2> QED
    BY <2>1, Zenon
<1>7. plan.out = blank
  OBVIOUS
<1>8. plan \in [start : Nat, out : Seq(Int)]
  <2>1. Behind(pending_count) \in Nat
    BY <1>3, <1>6
  <2>2. plan = [start |-> Behind(pending_count), out |-> blank]
    BY <1>6, Zenon
  <2> HIDE DEF plan, blank
  <2> QED
    BY <1>5, <2>1, <2>2
<1> HIDE DEF plan, to, count, blank
<1>9. LogType'
  BY <1>1, <1>2, <1>8 DEF LogType, lockVars, ringVars
<1>10. LockInv'
  BY <1>1, <1>2, LockUntouched DEF lockVars
<1>11. \A y \in Context : log_pc'[y] = IF y = x THEN to ELSE log_pc[y]
  BY <1>1 DEF LogType
<1>12. \A y \in Context : y # x => log_pc[y] \notin Holding
  BY <1>1, <1>2, OneHolder
<1>13. \A k : Behind(k)' = Behind(k)
  BY <1>1 DEF Behind, ringVars
<1>14. ContentInv'
  <2>1. \A y \in Context : log_pc[y] # "publish" /\ log_pc'[y] # "publish"
    BY <1>1, <1>2, <1>11, <1>12 DEF Holding
  <2> QED
    BY <1>1, <1>13, <2>1 DEF ContentInv, ringVars
<1>15. PlanInv'
  <2>1. \A y \in Context : log_pc'[y] \in {"copy", "retire"} => y = x /\ log_pc'[y] = "copy"
    BY <1>2, <1>11, <1>12 DEF Holding
  <2>2. log_local'[x] = plan
    BY <1>1 DEF LogType
  <2>3. Len(log_local'[x].out) <= pending_count' /\ log_local'[x].start = Behind(pending_count)'
    BY <1>1, <1>3, <1>4, <1>5, <1>6, <1>7, <1>13, <2>2 DEF ringVars
  <2> QED
    BY <2>1, <2>3 DEF PlanInv
<1> QED
  BY <1>9, <1>10, <1>14, <1>15

(* The i-th slot of the two chunks is the slot of the i-th oldest message.  *)
LEMMA ChunkSlots ==
  ASSUME cursor \in 0 .. LogLen - 1, NEW p \in 0 .. LogLen, NEW n \in 0 .. p, NEW i \in 1 .. n
  PROVE  LET first_chunk == LogMin(n, LogLen - Behind(p))
         IN (IF i <= first_chunk THEN Behind(p) + i - 1 ELSE i - first_chunk - 1) = Behind(p - i + 1)
  BY LogAssumption DEF LogMin, Behind

(* The copy reads the oldest messages that wait, in their order.            *)
LEMMA FlushCopyKeeps ==
  ASSUME UnnestedInv, NEW x \in Context, flush_copy(x), UNCHANGED lockVars, UNCHANGED log_op
  PROVE  UnnestedInv'
<1> USE DEF UnnestedInv
<1> DEFINE start == log_local[x].start
           count == Len(log_local[x].out)
           first_chunk == LogMin(count, LogLen - start)
           copied == [i \in 1 .. count |->
                        IF i <= first_chunk THEN messages[start + i - 1]
                                            ELSE messages[i - first_chunk - 1]]
           wanted == [i \in 1 .. count |-> message_count - pending_count + i - 1]
<1>1. /\ log_pc[x] = "copy" /\ log_pc' = [log_pc EXCEPT ![x] = "retire"]
      /\ log_local' = [log_local EXCEPT ![x].out = copied] /\ UNCHANGED ringVars
  BY DEF flush_copy, Goto
<1>2. "retire" \in LogPlace /\ "retire" \in Holding /\ "copy" \in Holding
  BY DEF LogPlace, Holding
<1>3. /\ LogLen \in Nat \ {0} /\ cursor \in 0 .. LogLen - 1 /\ pending_count \in 0 .. LogLen
      /\ message_count \in Nat
  BY LogAssumption DEF LogType
<1>4. log_local[x] \in [start : Nat, out : Seq(Int)]
  BY DEF LogType
<1>5. count \in 0 .. pending_count /\ start = Behind(pending_count)
  <2>1. count <= pending_count /\ start = Behind(pending_count)
    BY <1>1, Zenon DEF PlanInv
  <2>2. log_local[x].out \in Seq(Int)
    BY <1>4
  <2>3. count \in Nat
    BY <2>2
  <2> HIDE DEF count, start
  <2> QED
    BY <1>3, <2>1, <2>3
<1>6. \A y \in Context : log_pc'[y] = IF y = x THEN "retire" ELSE log_pc[y]
  BY <1>1 DEF LogType
<1>7. \A y \in Context : y # x => log_pc[y] \notin Holding
  BY <1>1, <1>2, OneHolder
<1>8. \A y \in Context : log_pc[y] # "publish" /\ log_pc'[y] # "publish"
  BY <1>1, <1>6, <1>7 DEF Holding
<1>9. \A k \in 1 .. pending_count : messages[Behind(k)] = message_count - k
  BY <1>8 DEF ContentInv
<1>10. copied = wanted
  <2>1. ASSUME NEW i \in 1 .. count
        PROVE  copied[i] = message_count - pending_count + i - 1
    <3> DEFINE k == pending_count - i + 1
    <3>1. k \in 1 .. pending_count /\ k = pending_count - i + 1
      BY <1>3, <1>5
    <3>2. (IF i <= first_chunk THEN start + i - 1 ELSE i - first_chunk - 1) = Behind(k)
      BY <1>3, <1>5, ChunkSlots, Zenon
    <3>3. copied[i] = messages[Behind(k)]
      BY <3>2, Zenon
    <3>4. messages[Behind(k)] = message_count - k
      <4> HIDE DEF k
      <4> QED
        BY <1>9, <3>1
    <3> HIDE DEF k, copied
    <3> QED
      BY <1>3, <1>5, <3>1, <3>3, <3>4
  <2>2. copied = [i \in 1 .. count |-> copied[i]]
    BY Zenon
  <2> HIDE DEF copied, count
  <2> QED
    BY <2>1, <2>2, Zenon
<1>11. wanted \in Seq(Int) /\ Len(wanted) = count
  <2>1. count \in Nat
    BY <1>3, <1>5
  <2> HIDE DEF count
  <2> QED
    BY <1>3, <2>1
<1>12. log_local'[x].out = wanted /\ log_local'[x].start = start
  BY <1>1, <1>4, <1>10 DEF LogType
<1> HIDE DEF copied, first_chunk
<1>13. LogType'
  <2>1. [log_local[x] EXCEPT !.out = copied] \in [start : Nat, out : Seq(Int)]
    BY <1>4, <1>10, <1>11
  <2>2. log_local' \in [Context -> [start : Nat, out : Seq(Int)]]
    BY <1>1, <2>1 DEF LogType
  <2> QED
    BY <1>1, <1>2, <2>2 DEF LogType, lockVars, ringVars
<1>14. LockInv'
  BY <1>1, <1>2, LockUntouched DEF lockVars
<1>15. \A k : Behind(k)' = Behind(k)
  BY <1>1 DEF Behind, ringVars
<1>16. ContentInv'
  BY <1>1, <1>8, <1>15 DEF ContentInv, ringVars
<1>17. PlanInv'
  <2>1. \A y \in Context : log_pc'[y] \in {"copy", "retire"} => y = x
    BY <1>6, <1>7 DEF Holding
  <2>2. pending_count' = pending_count /\ message_count' = message_count
    BY <1>1 DEF ringVars
  <2>3. Len(log_local'[x].out) = count
    BY <1>11, <1>12
  <2>4. log_local'[x].out =
          [i \in 1 .. Len(log_local'[x].out) |-> message_count' - pending_count' + i - 1]
    BY <1>12, <2>2, <2>3, Zenon
  <2>5. Len(log_local'[x].out) <= pending_count' /\ log_local'[x].start = Behind(pending_count)'
    BY <1>3, <1>5, <1>12, <1>15, <2>2, <2>3
  <2> QED
    BY <2>1, <2>4, <2>5 DEF PlanInv
<1> QED
  BY <1>13, <1>14, <1>16, <1>17

(* What a flush copied no longer waits; the later messages still do.       *)
LEMMA FlushRetireKeeps ==
  ASSUME UnnestedInv, NEW x \in Context, flush_retire(x), UNCHANGED lockVars, UNCHANGED log_op
  PROVE  UnnestedInv'
<1> USE DEF UnnestedInv
<1>1. /\ log_pc[x] = "retire" /\ log_pc' = [log_pc EXCEPT ![x] = "unlock"]
      /\ pending_count' = pending_count - Len(log_local[x].out)
      /\ log_local' = [log_local EXCEPT ![x] = NoLocal]
      /\ messages' = messages /\ cursor' = cursor /\ message_count' = message_count
  BY DEF flush_retire, Goto
<1>2. "retire" \in Holding /\ "unlock" \in LogPlace /\ "unlock" \in Holding
  BY DEF LogPlace, Holding
<1>3. LogLen \in Nat \ {0} /\ pending_count \in 0 .. LogLen
  BY LogAssumption DEF LogType
<1>4. Len(log_local[x].out) \in 0 .. pending_count
  <2>1. log_local[x].out \in Seq(Int)
    BY DEF LogType
  <2>2. Len(log_local[x].out) <= pending_count
    BY <1>1, Zenon DEF PlanInv
  <2>3. Len(log_local[x].out) \in Nat
    BY <2>1
  <2> QED
    BY <1>3, <2>2, <2>3
<1>5. pending_count' \in 0 .. pending_count
  BY <1>1, <1>3, <1>4
<1>6. NoLocal \in [start : Nat, out : Seq(Int)]
  BY DEF NoLocal
<1>7. LogType'
  BY <1>1, <1>2, <1>3, <1>5, <1>6 DEF LogType, lockVars
<1>8. LockInv'
  BY <1>1, <1>2, LockUntouched DEF lockVars
<1>9. \A y \in Context : log_pc'[y] = IF y = x THEN "unlock" ELSE log_pc[y]
  BY <1>1 DEF LogType
<1>10. \A y \in Context : y # x => log_pc[y] \notin Holding
  BY <1>1, <1>2, OneHolder
<1>11. \A y \in Context : log_pc[y] # "publish" /\ log_pc'[y] \notin {"publish", "copy", "retire"}
  BY <1>1, <1>9, <1>10 DEF Holding
<1>12. \A k : Behind(k)' = Behind(k)
  BY <1>1 DEF Behind
<1>13. ContentInv'
  BY <1>1, <1>3, <1>5, <1>11, <1>12 DEF ContentInv
<1>14. PlanInv'
  BY <1>11 DEF PlanInv
<1> QED
  BY <1>7, <1>8, <1>13, <1>14

(* LogInv is inductive: once an NMI handler logged inside its own core's    *)
(* log code nothing is claimed, and until then each step keeps the rest.    *)
LEMMA LogInductive == LogInv /\ [LogNext]_logVars => LogInv'
<1> SUFFICES ASSUME LogInv, [LogNext]_logVars PROVE LogInv'
  OBVIOUS
<1>1. nested' \in BOOLEAN /\ (nested => nested')
  BY DEF LogInv, LogNext, log_fmt_print, handle_flush_standard_logs, LogNmi, LogStep, LockStep,
         RingStep, boundVars, logVars
<1> SUFFICES ASSUME ~nested' PROVE UnnestedInv'
  BY <1>1 DEF LogInv
<1>2. UnnestedInv
  BY <1>1 DEF LogInv
<1>3. CASE UNCHANGED logVars
  <2>1. \A k : Behind(k)' = Behind(k)
    BY <1>3 DEF logVars, Behind
  <2>2. LogType' /\ LockInv'
    BY <1>2, <1>3 DEF logVars, UnnestedInv, LogType, LockInv
  <2>3. ContentInv'
    BY <1>2, <1>3, <2>1 DEF logVars, UnnestedInv, ContentInv
  <2>4. PlanInv'
    BY <1>2, <1>3, <2>1 DEF logVars, UnnestedInv, PlanInv
  <2> QED
    BY <2>2, <2>3, <2>4 DEF UnnestedInv
<1>4. ASSUME NEW x \in Context, RingStep(x) PROVE UnnestedInv'
  <2>1. UNCHANGED lockVars /\ UNCHANGED log_op
    BY <1>4 DEF RingStep, boundVars
  <2> QED
    BY <1>2, <1>4, <2>1, WriteMessageKeeps, WritePublishKeeps, FlushPlanKeeps, FlushCopyKeeps,
       FlushRetireKeeps DEF RingStep
<1> QED
  BY <1>2, <1>3, <1>4, EntryKeeps, LockStepKeeps DEF LogNext, LogStep

(* FlushExact for every number of cores, ring length, flush size and number *)
(* of messages: what flush_standard_logs copies is the oldest waiting       *)
(* messages in order, unless an NMI handler logged inside its own core's    *)
(* log code.                                                                *)
THEOREM FlushIsExact == LogSpec => []FlushExact
<1>1. LogInit => LogInv
  <2> SUFFICES ASSUME LogInit PROVE UnnestedInv /\ nested \in BOOLEAN
    BY DEF LogInv
  <2> USE DEF LogInit
  <2>1. \A x \in Context : log_pc[x] = "idle" /\ "idle" \notin Holding
    BY DEF Holding
  <2>2. LogType
    BY LogAssumption DEF LogType, LogPlace, NoLocal, UNLOCKED
  <2>3. LockInv
    <3>1. \A c \in LogCore : <<c, "base">> \in Context
      BY DEF Context
    <3> QED
      BY <2>1, <3>1 DEF LockInv
  <2>4. ContentInv /\ PlanInv
    BY <2>1 DEF ContentInv, PlanInv
  <2> QED
    BY <2>2, <2>3, <2>4 DEF UnnestedInv
<1>2. LogInv => FlushExact
  BY DEF LogInv, UnnestedInv, PlanInv, FlushExact
<1> QED
  BY <1>1, <1>2, LogInductive, PTL DEF LogSpec
=============================================================================
