---------------------------- MODULE GuestMemory -----------------------------
(***************************************************************************)
(* Reads and writes of guest virtual memory: read_vmemory / write_vmemory  *)
(* of revhv-um cut a request into chunks, one hypercall each; the handlers *)
(* of revhv-km walk the guest's page tables page by page (introspection,   *)
(* gva_to_gpa) and copy through a local buffer.                            *)
(*                                                                         *)
(* A hypercall is one step (the core is in VMX root throughout); between   *)
(* two of them the guest may page memory in and out.  An address is a      *)
(* number of units, a page a record with the size of its level (4 KB, 2 MB *)
(* or 1 GB); 0 is both the null pointer and the walk's failure.            *)
(***************************************************************************)
EXTENDS Integers, Sequences

CONSTANTS
  GuestPage,     \* the pages of the guest: [space, first, size, frame]
  TargetCr3,     \* values of request.target_cr3: "zero" or an address space
  MaxChunk,      \* MAX_VMEM_CHUNK_SIZE
  Unbacked,      \* physical addresses whose access raises #GP in the host
  CopyRequest,   \* what a caller asks for: [va, buffer, size]
  MaxPaging      \* bound on the guest's page-ins and page-outs

(* An address has one translation, no two pages share a frame, and the     *)
(* memory read or written is not in the caller's own address space.        *)
Apart(a, n, b, m) == a + n <= b \/ b + m <= a

ASSUME GuestMemoryAssumption ==
  /\ \A p \in GuestPage : p.first \in Nat /\ p.size \in Nat \ {0} /\ p.frame \in Nat
  /\ \A p, q \in GuestPage : p # q =>
       /\ p.space = q.space => Apart(p.first, p.size, q.first, q.size)
       /\ Apart(p.frame, p.size, q.frame, q.size)
  /\ "caller" \notin TargetCr3
  /\ MaxChunk \in Nat \ {0} /\ MaxPaging \in Nat
  /\ \A r \in CopyRequest : r.va \in Nat /\ r.buffer \in Nat /\ r.size \in Nat

VARIABLES
  present,       \* pages whose entries are present
  mem,           \* physical memory
  copy,          \* the call under way: [kind, cr3, va, buffer, size, total, done, before]
  pagings        \* page-ins and page-outs so far

memVars == <<present, mem, copy, pagings>>

Physical == UNION {p.frame .. (p.frame + p.size - 1) : p \in GuestPage}

NoCopy == [kind |-> "none", cr3 |-> "zero", va |-> 0, buffer |-> 0, size |-> 0,
           total |-> 0, done |-> TRUE, before |-> <<>>]

-----------------------------------------------------------------------------
Covers(p, space, va) == p.space = space /\ va \in p.first .. (p.first + p.size - 1)

offset_to_next_page_whole(p, va) == p.size

offset_to_next_page(p, va) == p.size - (va - p.first)

(* gva_to_gpa and gva_to_hva: the host address, 0 when an entry is not     *)
(* present or the address translates to 0, and what is left of the page.   *)
gva_to_hva(space, va) ==
  LET found == {p \in present : Covers(p, space, va)}
  IN  IF found = {} THEN [hva |-> 0, next |-> 0]
      ELSE LET p == CHOOSE q \in found : TRUE
           IN  [hva |-> p.frame + (va - p.first), next |-> offset_to_next_page(p, va)]

Least(a, b) == IF a < b THEN a ELSE b

(* What memcpy_wrapper touches before the #GP it survives stops it; any    *)
(* other host exception is an unrecoverable error (CrashProtocol).         *)
memcpy_wrapper(hva, n) ==
  LET bad == {i \in 0 .. n - 1 : (hva + i) \in Unbacked}
      m == IF bad = {} THEN n ELSE CHOOSE i \in bad : \A j \in bad : i <= j
  IN  [i \in 1 .. m |-> hva + i - 1]

(* read_guest_virtual / write_guest_virtual: the number of units they      *)
(* return and the physical addresses they touched, in order.  A page whose *)
(* copy faulted counts for nothing, though some of it was touched.         *)
guest_virtual(space, va, size) ==
  LET from[t \in 0 .. size] ==
        LET g == gva_to_hva(space, va + t)
            n == Least(size - t, g.next)
            at == memcpy_wrapper(g.hva, n)
        IN  IF t = size \/ g.hva = 0 THEN [n |-> t, at |-> <<>>]
            ELSE IF Len(at) < n THEN [n |-> t, at |-> at]
            ELSE [n |-> from[t + n].n, at |-> at \o from[t + n].at]
  IN  IF va = 0 \/ size = 0 THEN [n |-> 0, at |-> <<>>] ELSE from[0]

(* Stores the values of `data` at the addresses `at`. *)
Store(at, data) ==
  [a \in Physical |->
     IF \E i \in 1 .. Len(at) : at[i] = a
     THEN data[CHOOSE i \in 1 .. Len(at) : at[i] = a /\ \A j \in (i + 1) .. Len(at) : at[j] # a]
     ELSE mem[a]]

(* "If target_cr3 is 0, use system CR3" *)
TargetSpace(cr3) == IF cr3 = "zero" THEN "system" ELSE cr3

(* handle_vmem_read and handle_vmem_write: [n, mem], RAX and the memory    *)
(* they leave.  `got` says whether the request itself could be read.       *)
handle_vmem(c, got) ==
  LET size == Least(Least(c.size - c.total, MaxChunk), MaxChunk)
      target == guest_virtual(TargetSpace(c.cr3), c.va + c.total, size)
      buffer(n) == guest_virtual("caller", c.buffer + c.total, n)
      from == IF c.kind = "read" THEN target ELSE buffer(size)
      to == IF c.kind = "read" THEN buffer(from.n)
            ELSE guest_virtual(TargetSpace(c.cr3), c.va + c.total, from.n)
      data == [i \in 1 .. from.n |-> mem[from.at[i]]]
  IN  IF ~got \/ from.n = 0 THEN [n |-> 0, mem |-> mem]
      ELSE [n |-> IF c.kind = "read" /\ to.n # from.n THEN 0 ELSE to.n,
            mem |-> Store(to.at, data)]

-----------------------------------------------------------------------------
MemoryInit ==
  /\ present \in {GuestPage} \cup {GuestPage \ {p} : p \in GuestPage}
  /\ mem = [a \in Physical |-> a]
  /\ copy = NoCopy
  /\ pagings = 0

(* read_vmemory and write_vmemory return 0 for a null buffer or no size. *)
Call(kind, cr3, r) ==
  /\ copy = NoCopy
  /\ copy' = [kind |-> kind, cr3 |-> cr3, va |-> r.va, buffer |-> r.buffer, size |-> r.size,
              total |-> 0, done |-> r.buffer = 0 \/ r.size = 0, before |-> mem]
  /\ UNCHANGED <<present, mem, pagings>>

(* One turn of the loop of read_vmemory / write_vmemory. *)
Chunk(got) ==
  /\ ~copy.done
  /\ LET chunk_size == Least(copy.size - copy.total, MaxChunk)
         r == handle_vmem(copy, got)
     IN  /\ mem' = r.mem
         /\ copy' = [copy EXCEPT !.total = @ + r.n,
                                 !.done = r.n < chunk_size \/ copy.total + r.n >= copy.size]
  /\ UNCHANGED <<present, pagings>>

(* The guest's memory manager pages one page out or in; external. *)
Paging(p) ==
  /\ ~copy.done /\ pagings < MaxPaging
  /\ present' = IF p \in present THEN present \ {p} ELSE present \cup {p}
  /\ pagings' = pagings + 1
  /\ UNCHANGED <<mem, copy>>

MemoryNext ==
  \/ \E kind \in {"read", "write"}, cr3 \in TargetCr3, r \in CopyRequest : Call(kind, cr3, r)
  \/ \E got \in BOOLEAN : Chunk(got)
  \/ \E p \in GuestPage : Paging(p)

-----------------------------------------------------------------------------
(* The physical address of a guest address, whether or not it is present. *)
Frame(space, va) ==
  LET p == CHOOSE q \in GuestPage : Covers(q, space, va) IN p.frame + (va - p.first)

(* What read_vmemory and write_vmemory tell their caller is exact: the     *)
(* first `total` units of the destination are those of the source as it    *)
(* was before the call, whatever pages, page sizes and chunks they cross   *)
(* and whichever page went away in between; and no memory outside the      *)
(* requested destination range has changed, the source included.           *)
CopyExact ==
  copy.kind # "none" =>
    LET target == TargetSpace(copy.cr3)
        src(i) == IF copy.kind = "read" THEN Frame(target, copy.va + i) ELSE Frame("caller", copy.buffer + i)
        to == IF copy.kind = "read" THEN "caller" ELSE target
        base == IF copy.kind = "read" THEN copy.buffer ELSE copy.va
    IN  /\ \A i \in 0 .. copy.total - 1 : mem[Frame(to, base + i)] = copy.before[src(i)]
        /\ \A a \in Physical : mem[a] # copy.before[a] =>
             \E p \in GuestPage, i \in 0 .. copy.size - 1 :
               Covers(p, to, base + i) /\ a = Frame(to, base + i)
=============================================================================
