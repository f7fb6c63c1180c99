--------------------------- MODULE TraceRingProofs --------------------------
(***************************************************************************)
(* The trace ring, for every ring size, batch size and flush limit, and    *)
(* for any number of records.                                              *)
(***************************************************************************)
EXTENDS TraceRing, FiniteSetTheorems, SequenceTheorems, TLAPS

-----------------------------------------------------------------------------
(* Facts about increasing sequences of records.                            *)

Record == Nat \cup {Torn}

(* Every member of A is older than every member of B. *)
Below(A, B) == \A a \in A, b \in B : a < b

(* The members of a sequence are its elements. *)
LEMMA SetMembers ==
  ASSUME NEW S, NEW s \in Seq(S)
  PROVE  /\ Set(s) = {s[i] : i \in 1 .. Len(s)}
         /\ Set(s) \subseteq S
         /\ DOMAIN s = 1 .. Len(s) /\ Len(s) \in Nat
         /\ \A i \in 1 .. Len(s) : s[i] \in S
BY LenProperties DEF Set

(* No record is in the empty sequence. *)
LEMMA EmptyIsIncreasing == Set(<<>>) = {} /\ Increasing(<<>>)
BY DEF Set, Increasing

(* A batch appended to what was handed over before (GuestWrite). *)
LEMMA ConcatMembers ==
  ASSUME NEW S, NEW s \in Seq(S), NEW t \in Seq(S)
  PROVE  Set(s \o t) = Set(s) \cup Set(t)
<1> DEFINE u == s \o t
<1>1. u \in Seq(S) /\ Len(u) = Len(s) + Len(t)
      /\ \A i \in 1 .. Len(s) + Len(t) : u[i] = IF i <= Len(s) THEN s[i] ELSE t[i - Len(s)]
  BY ConcatProperties
<1>2. Set(s) = {s[i] : i \in 1 .. Len(s)} /\ Set(t) = {t[i] : i \in 1 .. Len(t)}
      /\ Set(u) = {u[i] : i \in 1 .. Len(u)} /\ Len(s) \in Nat /\ Len(t) \in Nat
  BY <1>1, SetMembers
<1> HIDE DEF u
<1>3. \A x \in Set(u) : x \in Set(s) \cup Set(t)
  <2> SUFFICES ASSUME NEW i \in 1 .. Len(u) PROVE u[i] \in Set(s) \cup Set(t)
    BY <1>2
  <2>1. CASE i <= Len(s)
    BY <1>1, <1>2, <2>1
  <2>2. CASE i > Len(s)
    <3>1. i - Len(s) \in 1 .. Len(t) /\ u[i] = t[i - Len(s)]
      BY <1>1, <1>2, <2>2
    <3>2. QED
      BY <1>2, <3>1
  <2>3. QED
    BY <1>1, <1>2, <2>1, <2>2
<1>4. \A x \in Set(s) : x \in Set(u)
  <2> SUFFICES ASSUME NEW i \in 1 .. Len(s) PROVE s[i] \in Set(u)
    BY <1>2
  <2>1. i \in 1 .. Len(u) /\ u[i] = s[i]
    BY <1>1, <1>2
  <2>2. QED
    BY <1>2, <2>1
<1>5. \A x \in Set(t) : x \in Set(u)
  <2> SUFFICES ASSUME NEW i \in 1 .. Len(t) PROVE t[i] \in Set(u)
    BY <1>2
  <2> DEFINE k == i + Len(s)
  <2>1. k \in 1 .. Len(s) + Len(t) /\ ~(k <= Len(s)) /\ k - Len(s) = i
    BY <1>2
  <2> HIDE DEF k
  <2>2. k \in 1 .. Len(u) /\ u[k] = t[i]
    BY <1>1, <2>1
  <2>3. QED
    BY <1>2, <2>2
<1>6. QED
  BY <1>3, <1>4, <1>5 DEF u

(* Older records followed by newer ones are in order. *)
LEMMA ConcatIncreasing ==
  ASSUME NEW s \in Seq(Record), NEW t \in Seq(Record),
         Increasing(s), Increasing(t), Below(Set(s), Set(t))
  PROVE  Increasing(s \o t)
<1> DEFINE u == s \o t
<1>1. u \in Seq(Record) /\ Len(u) = Len(s) + Len(t)
      /\ \A i \in 1 .. Len(s) + Len(t) : u[i] = IF i <= Len(s) THEN s[i] ELSE t[i - Len(s)]
  BY ConcatProperties
<1>2. /\ DOMAIN u = 1 .. Len(u) /\ Len(s) \in Nat /\ Len(t) \in Nat
      /\ DOMAIN s = 1 .. Len(s) /\ DOMAIN t = 1 .. Len(t)
      /\ \A i \in 1 .. Len(s) : s[i] \in Set(s)
      /\ \A i \in 1 .. Len(t) : t[i] \in Set(t)
  BY <1>1, SetMembers
<1> HIDE DEF u
<1>3. SUFFICES ASSUME NEW i \in 1 .. Len(u), NEW j \in 1 .. Len(u), i < j PROVE u[i] < u[j]
  BY <1>2 DEF Increasing, u
<1>4. CASE j <= Len(s)
  <2>1. i \in 1 .. Len(s) /\ j \in 1 .. Len(s) /\ u[i] = s[i] /\ u[j] = s[j]
    BY <1>1, <1>2, <1>3, <1>4
  <2>2. QED
    BY <1>2, <1>3, <2>1 DEF Increasing
<1>5. CASE i > Len(s)
  <2>1. i - Len(s) \in 1 .. Len(t) /\ j - Len(s) \in 1 .. Len(t) /\ i - Len(s) < j - Len(s)
        /\ u[i] = t[i - Len(s)] /\ u[j] = t[j - Len(s)]
    BY <1>1, <1>2, <1>3, <1>5
  <2>2. QED
    BY <1>2, <2>1 DEF Increasing
<1>6. CASE i <= Len(s) /\ j > Len(s)
  <2>1. j - Len(s) \in 1 .. Len(t) /\ u[i] = s[i] /\ u[j] = t[j - Len(s)] /\ i \in 1 .. Len(s)
    BY <1>1, <1>2, <1>6
  <2>2. QED
    BY <1>2, <2>1 DEF Below
<1>7. QED
  BY <1>1, <1>2, <1>4, <1>5, <1>6

(* A newer record at the end (EmitPublish). *)
LEMMA AppendRecord ==
  ASSUME NEW s \in Seq(Record), NEW e \in Record, Increasing(s), Below(Set(s), {e})
  PROVE  Increasing(Append(s, e)) /\ Set(Append(s, e)) = Set(s) \cup {e}
<1>1. <<e>> \in Seq(Record) /\ Len(<<e>>) = 1 /\ <<e>>[1] = e
  OBVIOUS
<1>2. DOMAIN <<e>> = {1}
  OBVIOUS
<1>3. Set(<<e>>) = {e}
  BY <1>1, <1>2 DEF Set
<1>4. Increasing(<<e>>)
  BY <1>2 DEF Increasing
<1>5. Append(s, e) = s \o <<e>>
  BY AppendIsConcat
<1> DEFINE one == <<e>>
<1>6. one \in Seq(Record) /\ Set(one) = {e} /\ Increasing(one) /\ Append(s, e) = s \o one
  BY <1>1, <1>3, <1>4, <1>5
<1> HIDE DEF one
<1>7. Set(s \o one) = Set(s) \cup {e}
  BY <1>6, ConcatMembers
<1>8. Increasing(s \o one)
  BY <1>6, ConcatIncreasing
<1>9. QED
  BY <1>6, <1>7, <1>8

(* The oldest n records and the rest (DrainPublish). *)
LEMMA SplitRecords ==
  ASSUME NEW s \in Seq(Record), NEW n \in 0 .. Len(s)
  PROVE  /\ SubSeq(s, 1, n) \in Seq(Record) /\ Len(SubSeq(s, 1, n)) = n
         /\ SubSeq(s, n + 1, Len(s)) \in Seq(Record)
         /\ Len(SubSeq(s, n + 1, Len(s))) = Len(s) - n
         /\ s = SubSeq(s, 1, n) \o SubSeq(s, n + 1, Len(s))
         /\ \A i \in 1 .. n : SubSeq(s, 1, n)[i] = s[i]
         /\ \A i \in 1 .. Len(s) - n : SubSeq(s, n + 1, Len(s))[i] = s[n + i]
<1>1. Len(s) \in Nat /\ \A i \in 1 .. Len(s) : s[i] \in Record
  BY SetMembers
<1>2. /\ SubSeq(s, 1, n) \in Seq(Record) /\ Len(SubSeq(s, 1, n)) = n
      /\ \A i \in 1 .. n : SubSeq(s, 1, n)[i] = s[i]
  <2>1. \A i \in 1 .. n : s[i] \in Record
    BY <1>1
  <2>2. QED
    BY <1>1, <2>1, SubSeqProperties
<1>3. /\ SubSeq(s, n + 1, Len(s)) \in Seq(Record)
      /\ Len(SubSeq(s, n + 1, Len(s))) = Len(s) - n
      /\ \A i \in 1 .. Len(s) - n : SubSeq(s, n + 1, Len(s))[i] = s[n + i]
  <2>1. \A i \in n + 1 .. Len(s) : s[i] \in Record
    BY <1>1
  <2>2. n + 1 \in Int /\ Len(s) \in Int
    BY <1>1
  <2>3. /\ SubSeq(s, n + 1, Len(s)) \in Seq(Record)
        /\ Len(SubSeq(s, n + 1, Len(s))) = IF n + 1 <= Len(s) THEN Len(s) - (n + 1) + 1 ELSE 0
        /\ \A i \in 1 .. Len(s) - (n + 1) + 1 : SubSeq(s, n + 1, Len(s))[i] = s[n + 1 + i - 1]
    BY ONLY <2>1, <2>2, SubSeqProperties
  <2>4. QED
    BY <1>1, <2>3
<1>4. s = SubSeq(s, 1, n) \o SubSeq(s, n + 1, Len(s))
  <2>1. 1 \in 1 .. Len(s) + 1 /\ n \in 1 - 1 .. Len(s) /\ Len(s) \in n .. Len(s)
    BY <1>1
  <2>2. SubSeq(s, 1, n) \o SubSeq(s, n + 1, Len(s)) = SubSeq(s, 1, Len(s))
    BY <2>1, ConcatAdjacentSubSeq
  <2>3. QED
    BY <2>2, SubSeqFull
<1>5. QED
  BY <1>2, <1>3, <1>4

(* Both parts of an ordered sequence are ordered, the first below the rest. *)
LEMMA SplitIncreasing ==
  ASSUME NEW s \in Seq(Record), NEW n \in 0 .. Len(s), Increasing(s)
  PROVE  LET old == SubSeq(s, 1, n)
             new == SubSeq(s, n + 1, Len(s))
         IN  /\ Increasing(old) /\ Increasing(new) /\ Below(Set(old), Set(new))
             /\ Set(s) = Set(old) \cup Set(new)
<1> DEFINE old == SubSeq(s, 1, n)
           new == SubSeq(s, n + 1, Len(s))
<1>1. /\ old \in Seq(Record) /\ Len(old) = n /\ new \in Seq(Record) /\ Len(new) = Len(s) - n
      /\ s = old \o new
      /\ \A i \in 1 .. n : old[i] = s[i]
      /\ \A i \in 1 .. Len(s) - n : new[i] = s[n + i]
  BY SplitRecords
<1> HIDE DEF old, new
<1>2. Len(s) \in Nat /\ DOMAIN s = 1 .. Len(s) /\ DOMAIN old = 1 .. n
      /\ DOMAIN new = 1 .. Len(s) - n
      /\ Set(old) = {old[i] : i \in 1 .. n} /\ Set(new) = {new[i] : i \in 1 .. Len(s) - n}
  BY <1>1, SetMembers
<1>3. \A i, j \in 1 .. Len(s) : i < j => s[i] < s[j]
  BY <1>2 DEF Increasing
<1>4. Increasing(old)
  BY <1>1, <1>2, <1>3 DEF Increasing
<1>5. Increasing(new)
  <2> SUFFICES ASSUME NEW i \in 1 .. Len(s) - n, NEW j \in 1 .. Len(s) - n, i < j
               PROVE  new[i] < new[j]
    BY <1>2 DEF Increasing
  <2>1. n + i \in 1 .. Len(s) /\ n + j \in 1 .. Len(s) /\ n + i < n + j
    BY <1>2
  <2>2. QED
    BY <1>1, <1>3, <2>1
<1>6. Below(Set(old), Set(new))
  <2> SUFFICES ASSUME NEW i \in 1 .. n, NEW j \in 1 .. Len(s) - n PROVE old[i] < new[j]
    BY <1>2 DEF Below
  <2>1. i \in 1 .. Len(s) /\ n + j \in 1 .. Len(s) /\ i < n + j
    BY <1>2
  <2>2. QED
    BY <1>1, <1>3, <2>1
<1>7. Set(s) = Set(old) \cup Set(new)
  BY <1>1, ConcatMembers
<1>8. QED
  BY <1>4, <1>5, <1>6, <1>7 DEF old, new

(* Records in order are distinct, so there are as many as the length says. *)
LEMMA CountRecords ==
  ASSUME NEW s \in Seq(Record), Increasing(s)
  PROVE  IsFiniteSet(Set(s)) /\ Cardinality(Set(s)) = Len(s)
<1>1. Len(s) \in Nat /\ DOMAIN s = 1 .. Len(s) /\ Set(s) = {s[i] : i \in 1 .. Len(s)}
      /\ \A i \in 1 .. Len(s) : s[i] \in Record
  BY SetMembers
<1>2. s \in [1 .. Len(s) -> Set(s)]
  BY LenProperties, <1>1
<1>3. \A i, j \in 1 .. Len(s) : i # j => s[i] # s[j]
  <2> SUFFICES ASSUME NEW i \in 1 .. Len(s), NEW j \in 1 .. Len(s), i # j PROVE s[i] # s[j]
    OBVIOUS
  <2>1. s[i] \in Int /\ s[j] \in Int
    BY <1>1 DEF Record, Torn
  <2>2. CASE i < j
    BY <1>1, <2>1, <2>2 DEF Increasing
  <2>3. CASE j < i
    BY <1>1, <2>1, <2>3 DEF Increasing
  <2>4. QED
    BY <1>1, <2>2, <2>3
<1>4. s \in Bijection(1 .. Len(s), Set(s))
  BY <1>1, <1>2, <1>3 DEF Bijection, Injection, Surjection, IsInjective
<1>5. ExistsBijection(1 .. Len(s), Set(s))
  BY <1>4 DEF ExistsBijection
<1>6. IsFiniteSet(Set(s))
  BY <1>1, <1>5, FS_NatBijection
<1>7. Cardinality(Set(s)) = Len(s)
  BY <1>1, <1>5, FS_CountingElements
<1>8. QED
  BY <1>6, <1>7

-----------------------------------------------------------------------------
(* The inductive invariant.                                                *)

Published == IF epc = "publish" THEN tsc - 1 ELSE tsc
InHand == IF fpc = "write" THEN batch ELSE <<>>
Draining == fpc \in {"drain", "copy", "publish"}

(* Where the two cursors are: emit passed its test for room and only the    *)
(* consumer can change its answer; drain has copied the oldest records of   *)
(* the window, which no store of emit touches.                              *)
CursorInv ==
  /\ epc # "idle" => active /\ Size < N - 1
  /\ epc = "publish" => entries[write_head] = tsc /\ tsc > 0
  /\ Draining =>
       /\ Len(batch) <= Size /\ tail = Wrap(read_tail + Len(batch))
       /\ \A i \in 1 .. Len(batch) : batch[i] = Contents[i]
  /\ fpc = "copy" => Len(batch) < Size /\ Len(batch) < ToDrain
  /\ fpc \in {"drain", "copy", "publish", "write"} => Len(batch) <= ToDrain

(* Records are older the further they have come. *)
OrderInv ==
  /\ Increasing(received) /\ Increasing(out) /\ Increasing(InHand) /\ Increasing(Contents)
  /\ Below(Set(received), Set(out))
  /\ Below(Set(received) \cup Set(out), Set(InHand))
  /\ Below(Set(received) \cup Set(out) \cup Set(InHand), Set(Contents))

(* The records that never reach the guest are older than those on the way, *)
(* and every published record is somewhere.                                *)
AccountInv ==
  /\ fpc = "idle" => out = <<>>
  /\ Below(lost \cup discarded, Set(InHand) \cup Set(Contents))
  /\ lost \cap discarded = {}
  /\ (lost \cup discarded) \cap (Set(received) \cup Set(out)) = {}
  /\ Set(Contents) \cup Set(InHand) \cup Set(out) \cup Set(received) \cup lost \cup discarded
       = 1 .. Published

RingInv == TypeOK /\ CursorInv /\ OrderInv /\ AccountInv

-----------------------------------------------------------------------------
(* What each step does to the window between the cursors.                  *)

ContentsOK ==
  /\ Size \in 0 .. N - 1
  /\ Contents \in Seq(Record) /\ Len(Contents) = Size
  /\ \A i \in 1 .. Size : /\ Wrap(read_tail + i - 1) \in Index
                          /\ Contents[i] = entries[Wrap(read_tail + i - 1)]

(* The window is a sequence of at most N - 1 records. *)
LEMMA WindowType == TypeOK => ContentsOK
<1> SUFFICES ASSUME TypeOK PROVE ContentsOK
  OBVIOUS
<1> USE RingAssumption
<1>1. write_head \in 0 .. N - 1 /\ read_tail \in 0 .. N - 1 /\ N \in Nat
  BY DEF TypeOK, Index
<1>2. Size \in 0 .. N - 1
  BY <1>1 DEF Size
<1>3. \A i \in 1 .. Size : Wrap(read_tail + i - 1) \in Index
  BY <1>1, <1>2 DEF Wrap, Index
<1>4. \A i \in 1 .. Size : entries[Wrap(read_tail + i - 1)] \in Record
  BY <1>3 DEF TypeOK, Record
<1>5. Contents \in [1 .. Size -> Record]
  BY <1>4 DEF Contents
<1>6. Contents \in Seq(Record)
  BY <1>2, <1>5, SeqDef
<1>7. Len(Contents) = Size
  BY <1>2, <1>5, <1>6, LenProperties
<1>8. \A i \in 1 .. Size : Contents[i] = entries[Wrap(read_tail + i - 1)]
  BY DEF Contents
<1>9. QED
  BY <1>2, <1>3, <1>6, <1>7, <1>8 DEF ContentsOK

(* The types and the bounds of the buffers are kept. *)
LEMMA TypeInductive == TypeOK /\ CursorInv /\ [Next]_vars => TypeOK'
<1> SUFFICES ASSUME TypeOK, CursorInv, [Next]_vars PROVE TypeOK'
  OBVIOUS
<1> USE RingAssumption, FlushAssumption DEF TypeOK
<1>1. ASSUME NEW i \in Index PROVE Inc(i) \in Index
  BY DEF Inc, Index
<1>2. 0 \in Index /\ Torn \in Nat \cup {Torn}
  BY DEF Index
<1>3. CASE EmitBegin
  BY <1>3 DEF EmitBegin, flush, history
<1>4. CASE EmitStore
  BY <1>2, <1>4 DEF EmitStore, flush, history
<1>5. CASE EmitStamp
  BY <1>5 DEF EmitStamp, flush, history
<1>6. CASE EmitPublish
  BY <1>1, <1>6 DEF EmitPublish, flush, history
<1>7. ASSUME NEW max \in 0 .. (MaxFlush + 1), FlushCall(max) PROVE TypeOK'
  BY <1>7 DEF FlushCall, history
<1>8. CASE FlushLoop
  <2>1. tail' \in Index /\ batch' \in Seq(Nat \cup {Torn}) /\ Len(batch') <= BatchCapacity
        /\ fpc' \in {"drain", "return"}
    <3>1. CASE Len(out) < limit
      <4>1. tail' = read_tail /\ batch' = <<>> /\ fpc' = "drain"
        BY <1>8, <3>1 DEF FlushLoop
      <4>2. QED
        BY <4>1, EmptySeq
    <3>2. CASE ~(Len(out) < limit)
      BY <1>8, <3>2 DEF FlushLoop
    <3>3. QED
      BY <3>1, <3>2
  <2>2. QED
    BY <1>8, <2>1 DEF FlushLoop, history
<1>9. CASE DrainTest
  BY <1>9 DEF DrainTest, history
<1>10. CASE DrainCopy
  <2>1. entries[tail] \in Nat \cup {Torn}
    OBVIOUS
  <2>2. batch' \in Seq(Nat \cup {Torn}) /\ Len(batch') = Len(batch) + 1
    BY <1>10, <2>1, AppendProperties DEF DrainCopy
  <2>3. Len(batch) < ToDrain /\ Len(batch) \in Nat /\ Len(out) \in Nat
    BY <1>10, LenProperties DEF DrainCopy, CursorInv
  <2>4. Len(batch') <= BatchCapacity
    BY <2>2, <2>3 DEF ToDrain
  <2>5. QED
    BY <1>1, <1>10, <2>2, <2>4 DEF DrainCopy, history
<1>11. CASE DrainPublish
  <2>1. drained' \in Seq(Nat \cup {Torn})
    BY <1>11, ConcatProperties DEF DrainPublish
  <2>2. QED
    BY <1>11, <2>1 DEF DrainPublish
<1>12. CASE GuestWrite
  <2>1. fpc = "write" /\ UNCHANGED <<active, write_head, read_tail, entries, tsc, epc, limit, tail,
                                     batch, received, drained, discarded, dropped>>
    BY <1>12 DEF GuestWrite
  <2>2. fpc' \in {"loop", "return"}
    BY <1>12 DEF GuestWrite
  <2>3. CASE out' = out \o batch /\ UNCHANGED lost
    <3>1. out' \in Seq(Nat \cup {Torn}) /\ Len(out') = Len(out) + Len(batch)
      BY <2>3, ConcatProperties
    <3>2. Len(batch) <= ToDrain /\ Len(batch) \in Nat /\ Len(out) \in Nat
      BY <2>1, LenProperties DEF CursorInv
    <3>3. Len(out') <= limit'
      BY <2>1, <3>1, <3>2 DEF ToDrain
    <3>4. QED
      BY <2>1, <2>2, <2>3, <3>1, <3>3
  <2>4. CASE lost' = lost \cup Set(batch) /\ UNCHANGED out
    <3>1. Set(batch) \subseteq Nat \cup {Torn}
      BY SetMembers
    <3>2. QED
      BY <2>1, <2>2, <2>4, <3>1
  <2>5. QED
    BY <1>12, <2>3, <2>4 DEF GuestWrite
<1>13. CASE FlushReturn
  <2>1. received' \in Seq(Nat \cup {Torn})
    BY <1>13, ConcatProperties DEF FlushReturn
  <2>2. QED
    BY <1>2, <1>13, <2>1 DEF FlushReturn, history
<1>14. CASE handle_enable_auto_trace
  <2>1. Set(Contents) \subseteq Nat \cup {Torn}
    BY WindowType, SetMembers DEF ContentsOK, Record
  <2>2. QED
    BY <1>2, <1>14, <2>1 DEF handle_enable_auto_trace, flush
<1>15. CASE handle_disable_auto_trace
  BY <1>15 DEF handle_disable_auto_trace, flush, history
<1>16. CASE UNCHANGED vars
  BY <1>16 DEF vars
<1>17. QED
  BY <1>3, <1>4, <1>5, <1>6, <1>7, <1>8, <1>9, <1>10, <1>11, <1>12, <1>13, <1>14, <1>15, <1>16
     DEF Next, Background, Emit, Flush

(* Steps that leave the cursors and the slots alone leave the window alone. *)
LEMMA WindowFrame ==
  UNCHANGED <<write_head, read_tail, entries>> => Contents' = Contents /\ Size' = Size
BY DEF Contents, Size, Wrap

(* The slot at write_head is outside the window. *)
LEMMA HeadOutside ==
  TypeOK => \A i \in 1 .. Size : Wrap(read_tail + i - 1) # write_head
BY RingAssumption DEF TypeOK, Index, Size, Wrap

(* The stores of emit fall outside the window. *)
LEMMA EmitKeepsWindow ==
  ASSUME TypeOK, EmitStore \/ EmitStamp
  PROVE  Contents' = Contents /\ Size' = Size
<1>1. write_head' = write_head /\ read_tail' = read_tail
  BY DEF EmitStore, EmitStamp, flush
<1>2. Size' = Size
  BY <1>1 DEF Size
<1>3. \A i \in Index : i # write_head => entries'[i] = entries[i]
  BY DEF EmitStore, EmitStamp, TypeOK
<1>4. \A i \in 1 .. Size : entries'[Wrap(read_tail + i - 1)] = entries[Wrap(read_tail + i - 1)]
  BY <1>3, HeadOutside, WindowType DEF ContentsOK
<1>5. Contents' = [i \in 1 .. Size |-> entries'[Wrap(read_tail + i - 1)]]
  BY <1>1, <1>2 DEF Contents, Wrap
<1>6. QED
  BY <1>2, <1>4, <1>5 DEF Contents

(* Moving write_head adds the record emit filled in last. *)
LEMMA PublishAppends ==
  ASSUME TypeOK, CursorInv, TypeOK', EmitPublish
  PROVE  Size' = Size + 1 /\ Contents' = Append(Contents, tsc)
<1> USE RingAssumption
<1>1. /\ write_head' = Inc(write_head) /\ read_tail' = read_tail /\ entries' = entries
      /\ Size < N - 1 /\ entries[write_head] = tsc
  BY DEF EmitPublish, CursorInv
<1>2. write_head \in 0 .. N - 1 /\ read_tail \in 0 .. N - 1 /\ N \in Nat /\ tsc \in Record
  BY DEF TypeOK, Index, Record
<1>3. Size' = Size + 1 /\ Wrap(read_tail + Size) = write_head /\ Size \in Nat
  BY <1>1, <1>2 DEF Size, Inc, Wrap
<1>4. ContentsOK
  BY WindowType
<1>5. ContentsOK'
  BY WindowType, PTL
<1> DEFINE grown == Append(Contents, tsc)
<1>6. /\ grown \in Seq(Record) /\ Len(grown) = Size + 1
      /\ \A i \in 1 .. Size : grown[i] = Contents[i]
      /\ grown[Size + 1] = tsc
  BY <1>2, <1>4, AppendProperties DEF ContentsOK
<1> HIDE DEF grown
<1>7. \A i \in 1 .. Size + 1 : Contents'[i] = grown[i]
  <2> SUFFICES ASSUME NEW i \in 1 .. Size + 1 PROVE Contents'[i] = grown[i]
    OBVIOUS
  <2>1. Contents'[i] = entries[Wrap(read_tail + i - 1)]
    BY <1>1, <1>3, <1>5 DEF ContentsOK, Wrap
  <2>2. CASE i = Size + 1
    BY <1>1, <1>2, <1>3, <1>6, <2>1, <2>2 DEF Wrap
  <2>3. CASE i # Size + 1
    <3>1. i \in 1 .. Size
      BY <1>3, <2>3
    <3>2. QED
      BY <1>4, <1>6, <2>1, <3>1 DEF ContentsOK
  <2>4. QED
    BY <2>2, <2>3
<1>8. Contents' \in Seq(Record) /\ Len(Contents') = Size + 1
  BY <1>3, <1>5 DEF ContentsOK
<1>9. Contents' = grown
  BY <1>6, <1>7, <1>8, SeqEqual
<1>10. QED
  BY <1>3, <1>9 DEF grown

(* Moving read_tail releases exactly the records of the batch. *)
LEMMA DrainSplits ==
  ASSUME TypeOK, CursorInv, TypeOK', DrainPublish
  PROVE  /\ Len(batch) \in 0 .. Size /\ Size' = Size - Len(batch)
         /\ batch = SubSeq(Contents, 1, Len(batch))
         /\ Contents' = SubSeq(Contents, Len(batch) + 1, Len(Contents))
<1> USE RingAssumption
<1> DEFINE n == Len(batch)
<1>1. /\ write_head' = write_head /\ read_tail' = Wrap(read_tail + n) /\ entries' = entries
      /\ n <= Size /\ \A i \in 1 .. n : batch[i] = Contents[i]
  BY DEF DrainPublish, CursorInv, Draining
<1>2. /\ write_head \in 0 .. N - 1 /\ read_tail \in 0 .. N - 1 /\ N \in Nat
      /\ batch \in Seq(Record) /\ n \in Nat
  BY LenProperties DEF TypeOK, Index, Record
<1>3. ContentsOK
  BY WindowType
<1>4. ContentsOK'
  BY WindowType, PTL
<1> HIDE DEF n
<1>5. n \in 0 .. Size /\ Size \in Nat
  BY <1>1, <1>2, <1>3 DEF ContentsOK
<1>6. Size' = Size - n \/ (n = Size /\ read_tail' = write_head)
  BY <1>1, <1>2, <1>5 DEF Size, Wrap
<1>7. Size' = Size - n
  BY <1>1, <1>2, <1>5, <1>6 DEF Size
<1>8. Contents \in Seq(Record) /\ n \in 0 .. Len(Contents) /\ Len(Contents) = Size
  BY <1>3, <1>5 DEF ContentsOK
<1> DEFINE old == SubSeq(Contents, 1, n)
           new == SubSeq(Contents, n + 1, Len(Contents))
<1>9. /\ old \in Seq(Record) /\ Len(old) = n /\ new \in Seq(Record) /\ Len(new) = Size - n
      /\ \A i \in 1 .. n : old[i] = Contents[i]
      /\ \A i \in 1 .. Size - n : new[i] = Contents[n + i]
  BY <1>8, SplitRecords
<1> HIDE DEF old, new
<1>10. batch = old
  <2>1. Len(batch) = Len(old) /\ \A i \in 1 .. Len(batch) : batch[i] = old[i]
    BY <1>1, <1>9 DEF n
  <2>2. QED
    BY <1>2, <1>9, <2>1, SeqEqual
<1>11. \A i \in 1 .. Size - n : Contents'[i] = new[i]
  <2> SUFFICES ASSUME NEW i \in 1 .. Size - n PROVE Contents'[i] = new[i]
    OBVIOUS
  <2>1. n + i \in 1 .. Size /\ i \in 1 .. Size'
    BY <1>5, <1>7
  <2>2. new[i] = entries[Wrap(read_tail + (n + i) - 1)]
    BY <1>3, <1>9, <2>1 DEF ContentsOK
  <2>3. Contents'[i] = entries[Wrap(read_tail' + i - 1)]
    BY <1>1, <1>4, <2>1 DEF ContentsOK, Wrap
  <2>4. Wrap(read_tail' + i - 1) = Wrap(read_tail + (n + i) - 1)
    BY <1>1, <1>2, <1>3, <1>5, <2>1 DEF Wrap, ContentsOK
  <2>5. QED
    BY <2>2, <2>3, <2>4
<1>12. Contents' \in Seq(Record) /\ Len(Contents') = Size - n
  BY <1>4, <1>7 DEF ContentsOK
<1>13. Contents' = new
  BY <1>9, <1>11, <1>12, SeqEqual
<1>14. QED
  BY <1>5, <1>7, <1>10, <1>13 DEF n, old, new

(* A reset empties the window. *)
LEMMA EnableEmpties ==
  ASSUME handle_enable_auto_trace
  PROVE  Size' = 0 /\ Contents' = <<>>
<1>1. Size' = 0
  BY DEF handle_enable_auto_trace, Size
<1>2. Contents' = [i \in 1 .. 0 |-> entries'[Wrap(read_tail' + i - 1)]]
  BY <1>1 DEF Contents, Wrap
<1>3. QED
  BY <1>1, <1>2

-----------------------------------------------------------------------------
(* The invariant is inductive.                                             *)

(* Producer and consumer keep out of each other's way. *)
LEMMA CursorInductive == TypeOK /\ CursorInv /\ [Next]_vars => CursorInv'
<1> SUFFICES ASSUME TypeOK, CursorInv, [Next]_vars PROVE CursorInv'
  OBVIOUS
<1> USE RingAssumption, FlushAssumption
<1>1. TypeOK' /\ ContentsOK
  BY TypeInductive, WindowType
<1>2. /\ write_head \in 0 .. N - 1 /\ read_tail \in 0 .. N - 1 /\ N \in Nat /\ tail \in 0 .. N - 1
      /\ Size \in 0 .. N - 1 /\ tsc \in Nat /\ limit \in Nat
      /\ Len(out) \in Nat /\ Len(out) <= limit /\ Len(batch) \in Nat
  BY <1>1, LenProperties DEF TypeOK, Index, ContentsOK
<1>3. UNCHANGED <<write_head, read_tail, entries>> => Contents' = Contents /\ Size' = Size
  BY WindowFrame
<1>4. UNCHANGED <<out, limit>> => ToDrain' = ToDrain
  BY DEF ToDrain
<1>5. UNCHANGED <<out, limit, batch, fpc, tail, read_tail>> /\ Contents' = Contents /\ Size' = Size
        /\ (epc' # "idle" => active' /\ Size < N - 1)
        /\ (epc' = "publish" => entries'[write_head'] = tsc' /\ tsc' > 0)
      => CursorInv'
  BY <1>4 DEF CursorInv, Draining, Wrap
<1>6. CASE EmitBegin
  <2>1. Inc(write_head) # read_tail => Size < N - 1
    BY <1>2 DEF Size, Inc
  <2>2. QED
    BY <1>3, <1>5, <1>6, <2>1 DEF EmitBegin, flush, CursorInv
<1>7. CASE EmitStore
  <2>1. Contents' = Contents /\ Size' = Size
    BY <1>7, EmitKeepsWindow
  <2>2. QED
    BY <1>5, <1>7, <2>1 DEF EmitStore, flush, CursorInv
<1>8. CASE EmitStamp
  <2>1. Contents' = Contents /\ Size' = Size
    BY <1>8, EmitKeepsWindow
  <2>2. entries'[write_head'] = tsc' /\ tsc' > 0
    BY <1>2, <1>8 DEF EmitStamp, TypeOK
  <2>3. QED
    BY <1>5, <1>8, <2>1, <2>2 DEF EmitStamp, flush, CursorInv
<1>9. CASE EmitPublish
  <2>1. Size' = Size + 1 /\ Contents' = Append(Contents, tsc)
    BY <1>1, <1>9, PublishAppends
  <2>2. \A i \in 1 .. Size : Contents'[i] = Contents[i]
    BY <1>1, <2>1, AppendProperties DEF ContentsOK, TypeOK, Record
  <2>3. epc' = "idle" /\ UNCHANGED <<read_tail, fpc, limit, tail, batch, out>>
    BY <1>9 DEF EmitPublish, flush
  <2>4. Draining => \A i \in 1 .. Len(batch) : batch[i] = Contents'[i]
    BY <1>2, <2>2 DEF CursorInv
  <2>5. Size <= Size' /\ Size' \in Nat /\ ToDrain' = ToDrain
    BY <1>2, <1>4, <2>1, <2>3
  <2>6. Draining' => /\ Len(batch') <= Size' /\ tail' = Wrap(read_tail' + Len(batch'))
                     /\ \A i \in 1 .. Len(batch') : batch'[i] = Contents'[i]
    <3> SUFFICES ASSUME Draining
                 PROVE  /\ Len(batch) <= Size' /\ tail = Wrap(read_tail + Len(batch))
                        /\ \A i \in 1 .. Len(batch) : batch[i] = Contents'[i]
      BY <2>3 DEF Draining, Wrap
    <3>1. Len(batch) <= Size /\ tail = Wrap(read_tail + Len(batch))
      BY DEF CursorInv
    <3>2. QED
      BY <1>2, <2>4, <2>5, <3>1
  <2>7. fpc' = "copy" => Len(batch') < Size' /\ Len(batch') < ToDrain'
    BY <1>2, <2>1, <2>3, <2>5 DEF CursorInv
  <2>8. QED
    BY <2>3, <2>5, <2>6, <2>7 DEF CursorInv
<1>10. ASSUME NEW max \in 0 .. (MaxFlush + 1), FlushCall(max) PROVE CursorInv'
  BY <1>3, <1>10 DEF FlushCall, CursorInv, Draining
<1>11. CASE FlushLoop
  <2>1. Contents' = Contents /\ Size' = Size /\ ToDrain' = ToDrain
    BY <1>3, <1>4, <1>11 DEF FlushLoop
  <2>2. CASE Len(out) < limit
    <3>1. batch' = <<>> /\ tail' = read_tail /\ read_tail' = read_tail /\ fpc' = "drain"
          /\ UNCHANGED <<active, epc, entries, write_head, tsc>>
      BY <1>11, <2>2 DEF FlushLoop
    <3>2. Len(batch') = 0
      BY <3>1
    <3>3. Wrap(read_tail' + Len(batch')) = tail'
      BY <1>2, <3>1, <3>2 DEF Wrap
    <3>4. 0 <= ToDrain'
      BY <1>2, <2>1, <2>2 DEF ToDrain
    <3>5. Draining' /\ fpc' # "copy" /\ 0 <= Size'
      BY <1>2, <2>1, <3>1 DEF Draining
    <3>6. \A i \in 1 .. Len(batch') : batch'[i] = Contents'[i]
      BY <3>2
    <3>7. QED
      BY <2>1, <3>1, <3>2, <3>3, <3>4, <3>5, <3>6 DEF CursorInv
  <2>3. CASE ~(Len(out) < limit)
    BY <1>11, <2>1, <2>3 DEF FlushLoop, CursorInv, Draining
  <2>4. QED
    BY <2>2, <2>3
<1>12. CASE DrainTest
  <2>1. Contents' = Contents /\ Size' = Size /\ ToDrain' = ToDrain
    BY <1>3, <1>4, <1>12 DEF DrainTest
  <2>2. tail # write_head => Len(batch) < Size
    BY <1>2, <1>12 DEF DrainTest, CursorInv, Draining, Size, Wrap
  <2>3. QED
    BY <1>12, <2>1, <2>2 DEF DrainTest, CursorInv, Draining, Wrap
<1>13. CASE DrainCopy
  <2>1. Contents' = Contents /\ Size' = Size /\ ToDrain' = ToDrain
    BY <1>3, <1>4, <1>13 DEF DrainCopy
  <2>2. /\ Len(batch) < Size /\ Len(batch) < ToDrain /\ tail = Wrap(read_tail + Len(batch))
        /\ \A i \in 1 .. Len(batch) : batch[i] = Contents[i]
    BY <1>13 DEF DrainCopy, CursorInv, Draining
  <2>3. /\ Len(batch) + 1 \in 1 .. Size /\ read_tail + (Len(batch) + 1) - 1 = read_tail + Len(batch)
    BY <1>2, <2>2
  <2>4. entries[tail] = Contents[Len(batch) + 1]
    BY <1>1, <2>2, <2>3 DEF ContentsOK
  <2>5. entries[tail] \in Record /\ batch \in Seq(Record)
    BY DEF TypeOK, Record
  <2>6. /\ Len(batch') = Len(batch) + 1
        /\ \A i \in 1 .. Len(batch) : batch'[i] = batch[i]
        /\ batch'[Len(batch) + 1] = entries[tail]
    BY <1>13, <2>5, AppendProperties DEF DrainCopy
  <2>7. \A i \in 1 .. Len(batch') : batch'[i] = Contents'[i]
    BY <1>2, <2>1, <2>2, <2>4, <2>6
  <2>8. tail' = Wrap(read_tail' + Len(batch'))
    BY <1>2, <1>13, <2>2, <2>6 DEF DrainCopy, Wrap, Inc
  <2>9. fpc' = "drain" /\ UNCHANGED <<active, epc, entries, write_head, tsc>>
    BY <1>13 DEF DrainCopy
  <2>10. Len(batch') <= Size' /\ Len(batch') <= ToDrain'
    BY <1>2, <2>1, <2>2, <2>6 DEF ToDrain
  <2>11. QED
    BY <2>1, <2>7, <2>8, <2>9, <2>10 DEF CursorInv, Draining
<1>14. CASE DrainPublish
  <2>1. Size' = Size - Len(batch)
    BY <1>1, <1>14, DrainSplits
  <2>2. Len(batch) <= ToDrain /\ ToDrain' = ToDrain
    BY <1>4, <1>14 DEF DrainPublish, CursorInv
  <2>3. fpc' \in {"return", "write"} /\ UNCHANGED <<active, epc, entries, write_head, tsc, batch>>
    BY <1>14 DEF DrainPublish
  <2>4. QED
    BY <1>2, <2>1, <2>2, <2>3 DEF CursorInv, Draining
<1>15. CASE GuestWrite
  <2>1. fpc' \in {"loop", "return"} /\ UNCHANGED <<active, epc, entries, write_head, tsc, read_tail>>
    BY <1>15 DEF GuestWrite
  <2>2. QED
    BY <1>3, <2>1 DEF CursorInv, Draining
<1>16. CASE FlushReturn
  <2>1. fpc' = "idle" /\ UNCHANGED <<active, epc, entries, write_head, tsc, read_tail>>
    BY <1>16 DEF FlushReturn
  <2>2. QED
    BY <1>3, <2>1 DEF CursorInv, Draining
<1>17. CASE fpc = "idle" /\ handle_enable_auto_trace
  <2>1. fpc' = "idle" /\ epc' = "idle"
    BY <1>17 DEF handle_enable_auto_trace, flush
  <2>2. QED
    BY <2>1 DEF CursorInv, Draining
<1>18. CASE handle_disable_auto_trace
  BY <1>3, <1>5, <1>18 DEF handle_disable_auto_trace, flush, CursorInv
<1>19. CASE UNCHANGED vars
  BY <1>3, <1>5, <1>19 DEF vars, CursorInv
<1>20. QED
  BY <1>6, <1>7, <1>8, <1>9, <1>10, <1>11, <1>12, <1>13, <1>14, <1>15, <1>16, <1>17, <1>18, <1>19
     DEF Next, Background, Emit, Flush

(* A step that moves no record keeps the order and the account. *)
LEMMA FlowFrame ==
  ASSUME OrderInv, AccountInv, fpc' = "idle" => fpc = "idle",
         UNCHANGED <<received, out, InHand, Contents, lost, discarded, Published>>
  PROVE  OrderInv' /\ AccountInv'
BY DEF OrderInv, AccountInv

(* Each record moves on to the next place, behind the older ones and before *)
(* the newer ones.                                                          *)
LEMMA FlowInductive == RingInv /\ [Next]_vars => OrderInv' /\ AccountInv'
<1> SUFFICES ASSUME RingInv, [Next]_vars PROVE OrderInv' /\ AccountInv'
  OBVIOUS
<1>1. TypeOK /\ CursorInv /\ OrderInv /\ AccountInv
  BY DEF RingInv
<1>2. TypeOK' /\ ContentsOK
  BY <1>1, TypeInductive, WindowType
<1>3. /\ received \in Seq(Record) /\ out \in Seq(Record) /\ batch \in Seq(Record)
      /\ Contents \in Seq(Record) /\ Len(Contents) = Size /\ tsc \in Nat
  BY <1>1, <1>2 DEF TypeOK, ContentsOK, Record
<1>4. UNCHANGED <<write_head, read_tail, entries>> => Contents' = Contents
  BY WindowFrame
<1>5. Set(<<>>) = {} /\ Increasing(<<>>)
  BY EmptyIsIncreasing
<1>6. CASE EmitBegin
  <2>1. UNCHANGED <<received, out, InHand, Contents, lost, discarded, Published, fpc>>
    BY <1>4, <1>6 DEF EmitBegin, flush, InHand, Published
  <2>2. QED
    BY <1>1, <2>1, FlowFrame
<1>7. CASE EmitStore
  <2>1. Contents' = Contents
    BY <1>1, <1>7, EmitKeepsWindow
  <2>2. UNCHANGED <<received, out, InHand, Contents, lost, discarded, Published, fpc>>
    BY <1>7, <2>1 DEF EmitStore, flush, history, InHand, Published
  <2>3. QED
    BY <1>1, <2>2, FlowFrame
<1>8. CASE EmitStamp
  <2>1. Contents' = Contents
    BY <1>1, <1>8, EmitKeepsWindow
  <2>2. Published' = Published
    BY <1>3, <1>8 DEF EmitStamp, Published
  <2>3. UNCHANGED <<received, out, InHand, Contents, lost, discarded, Published, fpc>>
    BY <1>8, <2>1, <2>2 DEF EmitStamp, flush, history, InHand
  <2>4. QED
    BY <1>1, <2>3, FlowFrame
<1>9. CASE EmitPublish
  <2>1. Contents' = Append(Contents, tsc)
    BY <1>1, <1>2, <1>9, PublishAppends
  <2>2. Published = tsc - 1 /\ Published' = tsc /\ tsc > 0
    BY <1>1, <1>9 DEF EmitPublish, Published, CursorInv
  <2>3. UNCHANGED <<received, out, InHand, lost, discarded, fpc>>
    BY <1>9 DEF EmitPublish, flush, history, InHand
  <2>4. \A x \in Set(Contents) \cup Set(InHand) \cup Set(out) \cup Set(received)
                  \cup lost \cup discarded : x < tsc
    BY <1>1, <1>3, <2>2 DEF AccountInv
  <2>5. Increasing(Contents') /\ Set(Contents') = Set(Contents) \cup {tsc}
    <3>1. Below(Set(Contents), {tsc}) /\ Increasing(Contents) /\ tsc \in Record
      BY <1>1, <1>3, <2>4 DEF OrderInv, Below, Record
    <3>2. QED
      BY <1>3, <2>1, <3>1, AppendRecord
  <2>6. OrderInv'
    <3>1. Increasing(received') /\ Increasing(out') /\ Increasing(InHand')
      BY <1>1, <2>3 DEF OrderInv
    <3>2. Below(Set(received'), Set(out'))
          /\ Below(Set(received') \cup Set(out'), Set(InHand'))
      BY <1>1, <2>3 DEF OrderInv
    <3>3. Below(Set(received') \cup Set(out') \cup Set(InHand'), Set(Contents'))
      BY <1>1, <2>3, <2>4, <2>5 DEF OrderInv, Below
    <3>4. QED
      BY <2>5, <3>1, <3>2, <3>3 DEF OrderInv
  <2>7. AccountInv'
    <3>1. 1 .. tsc = (1 .. tsc - 1) \cup {tsc}
      BY <1>3, <2>2
    <3>2. Below(lost' \cup discarded', Set(InHand') \cup Set(Contents'))
      BY <1>1, <2>3, <2>4, <2>5 DEF AccountInv, Below
    <3>3. Set(Contents') \cup Set(InHand') \cup Set(out') \cup Set(received')
            \cup lost' \cup discarded' = 1 .. Published'
      BY <1>1, <2>2, <2>3, <2>5, <3>1 DEF AccountInv
    <3>4. QED
      BY <1>1, <2>3, <3>2, <3>3 DEF AccountInv
  <2>8. QED
    BY <2>6, <2>7
<1>10. ASSUME NEW max \in 0 .. (MaxFlush + 1), FlushCall(max) PROVE OrderInv' /\ AccountInv'
  <2>1. UNCHANGED <<received, out, InHand, Contents, lost, discarded, Published>> /\ fpc = "idle"
    BY <1>1, <1>4, <1>10 DEF FlushCall, history, InHand, Published, AccountInv
  <2>2. QED
    BY <1>1, <2>1, FlowFrame
<1>11. CASE FlushLoop \/ DrainTest \/ DrainCopy
  <2>1. /\ UNCHANGED <<write_head, read_tail, entries, received, out, lost, discarded, tsc, epc>>
        /\ fpc # "write" /\ fpc' \notin {"write", "idle"}
    BY <1>11 DEF FlushLoop, DrainTest, DrainCopy, history
  <2>2. UNCHANGED <<received, out, InHand, Contents, lost, discarded, Published>>
    BY <1>4, <2>1 DEF InHand, Published
  <2>3. QED
    BY <1>1, <2>1, <2>2, FlowFrame
<1>12. CASE DrainPublish
  <2> DEFINE n == Len(batch)
             new == SubSeq(Contents, n + 1, Len(Contents))
  <2>1. n \in 0 .. Len(Contents) /\ batch = SubSeq(Contents, 1, n) /\ Contents' = new
    BY <1>1, <1>2, <1>3, <1>12, DrainSplits
  <2>2. InHand = <<>> /\ InHand' = batch /\ fpc' # "idle"
    BY <1>12 DEF DrainPublish, InHand
  <2>3. UNCHANGED <<received, out, lost, discarded, Published>>
    BY <1>12 DEF DrainPublish, Published
  <2>4. Increasing(Contents)
    BY <1>1 DEF OrderInv
  <2>5. /\ Increasing(batch) /\ Increasing(new) /\ Below(Set(batch), Set(new))
        /\ Set(Contents) = Set(batch) \cup Set(new)
    BY <1>3, <2>1, <2>4, SplitIncreasing
  <2> HIDE DEF n, new
  <2>6. OrderInv'
    BY <1>1, <1>5, <2>1, <2>2, <2>3, <2>5 DEF OrderInv, Below
  <2>7. AccountInv'
    <3>1. Set(InHand') \cup Set(Contents') = Set(Contents) \cup Set(InHand)
      BY <1>5, <2>1, <2>2, <2>5
    <3>2. QED
      BY <1>1, <2>2, <2>3, <3>1 DEF AccountInv, Below
  <2>8. QED
    BY <2>6, <2>7
<1>13. CASE GuestWrite
  <2>1. UNCHANGED <<received, Contents, discarded, Published>>
    BY <1>4, <1>13 DEF GuestWrite, Published
  <2>2. InHand = batch /\ InHand' = <<>> /\ fpc' # "idle"
    BY <1>13 DEF GuestWrite, InHand
  <2>3. /\ Increasing(received) /\ Increasing(out) /\ Increasing(batch) /\ Increasing(Contents)
        /\ Below(Set(received), Set(out)) /\ Below(Set(received) \cup Set(out), Set(batch))
        /\ Below(Set(received) \cup Set(out) \cup Set(batch), Set(Contents))
        /\ Below(lost \cup discarded, Set(batch) \cup Set(Contents))
    BY <1>1, <2>2 DEF OrderInv, AccountInv
  <2>4. CASE out' = out \o batch /\ UNCHANGED lost
    <3>1. Set(out') = Set(out) \cup Set(batch)
      BY <1>3, <2>4, ConcatMembers
    <3>2. Increasing(out')
      BY <1>3, <2>3, <2>4, ConcatIncreasing DEF Below
    <3>3. OrderInv'
      BY <1>5, <2>1, <2>2, <2>3, <3>1, <3>2 DEF OrderInv, Below
    <3>4. \A x \in lost \cup discarded : x \notin Set(batch)
      <4> SUFFICES ASSUME NEW x \in lost \cup discarded, x \in Set(batch) PROVE FALSE
        OBVIOUS
      <4>1. x < x /\ x \in Int
        BY <1>3, <2>3, SetMembers DEF Below, Record, Torn
      <4>2. QED
        BY <4>1
    <3>5. (lost \cup discarded) \cap (Set(received) \cup Set(out')) = {}
      BY <1>1, <3>1, <3>4 DEF AccountInv
    <3>6. Set(Contents) \cup Set(<<>>) \cup Set(out') \cup Set(received) \cup lost \cup discarded
            = 1 .. Published
      BY <1>1, <1>5, <2>2, <3>1 DEF AccountInv
    <3>7. AccountInv'
      BY <1>1, <1>5, <2>1, <2>2, <2>3, <2>4, <3>5, <3>6 DEF AccountInv, Below
    <3>8. QED
      BY <3>3, <3>7
  <2>5. CASE lost' = lost \cup Set(batch) /\ UNCHANGED out
    <3>1. OrderInv'
      BY <1>5, <2>1, <2>2, <2>3, <2>5 DEF OrderInv, Below
    <3>2. \A x \in Set(batch) : x \notin discarded \cup Set(received) \cup Set(out)
      <4> SUFFICES ASSUME NEW x \in Set(batch), x \in discarded \cup Set(received) \cup Set(out)
                   PROVE  FALSE
        OBVIOUS
      <4>1. x < x /\ x \in Int
        BY <1>3, <2>3, SetMembers DEF Below, Record, Torn
      <4>2. QED
        BY <4>1
    <3>3. lost' \cap discarded = {} /\ (lost' \cup discarded) \cap (Set(received) \cup Set(out)) = {}
      BY <1>1, <2>5, <3>2 DEF AccountInv
    <3>4. Set(Contents) \cup Set(<<>>) \cup Set(out) \cup Set(received) \cup lost' \cup discarded
            = 1 .. Published
      BY <1>1, <1>5, <2>2, <2>5 DEF AccountInv
    <3>5. AccountInv'
      BY <1>5, <2>1, <2>2, <2>3, <2>5, <3>3, <3>4 DEF AccountInv, Below
    <3>6. QED
      BY <3>1, <3>5
  <2>6. QED
    BY <1>13, <2>4, <2>5 DEF GuestWrite
<1>14. CASE FlushReturn
  <2>1. UNCHANGED <<Contents, lost, discarded, Published>>
    BY <1>4, <1>14 DEF FlushReturn, history, Published
  <2>2. InHand = <<>> /\ InHand' = <<>> /\ out' = <<>> /\ received' = received \o out
    BY <1>14 DEF FlushReturn, InHand
  <2>3. Set(received') = Set(received) \cup Set(out)
    BY <1>3, <2>2, ConcatMembers
  <2>4. Increasing(received')
    BY <1>1, <1>3, <2>2, ConcatIncreasing DEF OrderInv
  <2>5. OrderInv'
    BY <1>1, <1>5, <2>1, <2>2, <2>3, <2>4 DEF OrderInv, Below
  <2>6. AccountInv'
    BY <1>1, <1>5, <2>1, <2>2, <2>3 DEF AccountInv, Below
  <2>7. QED
    BY <2>5, <2>6
<1>15. CASE fpc = "idle" /\ handle_enable_auto_trace
  <2>1. Contents' = <<>>
    BY <1>15, EnableEmpties
  <2>2. /\ UNCHANGED <<received, out, InHand, lost, Published, fpc>>
        /\ discarded' = discarded \cup Set(Contents) /\ InHand = <<>>
    BY <1>15 DEF handle_enable_auto_trace, flush, InHand, Published
  <2>3. OrderInv'
    BY <1>1, <1>5, <2>1, <2>2 DEF OrderInv, Below
  <2>4. \A x \in Set(Contents) : x \notin lost \cup Set(received) \cup Set(out)
    <3> SUFFICES ASSUME NEW x \in Set(Contents), x \in lost \cup Set(received) \cup Set(out)
                 PROVE  FALSE
      OBVIOUS
    <3>1. x < x /\ x \in Int
      BY <1>1, <1>3, SetMembers DEF OrderInv, AccountInv, Below, Record, Torn
    <3>2. QED
      BY <3>1
  <2>5. lost \cap discarded' = {} /\ (lost \cup discarded') \cap (Set(received) \cup Set(out)) = {}
    BY <1>1, <2>2, <2>4 DEF AccountInv
  <2>6. Set(<<>>) \cup Set(InHand) \cup Set(out) \cup Set(received) \cup lost \cup discarded'
          = 1 .. Published
    BY <1>1, <1>5, <2>2 DEF AccountInv
  <2>7. Below(lost \cup discarded', Set(InHand) \cup Set(<<>>))
    BY <1>5, <2>2 DEF Below
  <2>8. AccountInv'
    BY <1>1, <2>1, <2>2, <2>5, <2>6, <2>7 DEF AccountInv
  <2>9. QED
    BY <2>3, <2>8
<1>16. CASE handle_disable_auto_trace
  <2>1. UNCHANGED <<received, out, InHand, Contents, lost, discarded, Published, fpc>>
    BY <1>4, <1>16 DEF handle_disable_auto_trace, flush, history, InHand, Published
  <2>2. QED
    BY <1>1, <2>1, FlowFrame
<1>17. CASE UNCHANGED vars
  <2>1. UNCHANGED <<received, out, InHand, Contents, lost, discarded, Published, fpc>>
    BY <1>4, <1>17 DEF vars, InHand, Published
  <2>2. QED
    BY <1>1, <2>1, FlowFrame
<1>18. QED
  BY <1>6, <1>7, <1>8, <1>9, <1>10, <1>11, <1>12, <1>13, <1>14, <1>15, <1>16, <1>17
     DEF Next, Background, Emit, Flush

(* An empty ring and no flush. *)
LEMMA RingInitially == Init => RingInv
<1> SUFFICES ASSUME Init PROVE RingInv
  OBVIOUS
<1> USE RingAssumption, FlushAssumption
<1>1. TypeOK
  <2>1. <<>> \in Seq(Nat \cup {Torn}) /\ Len(<<>>) = 0
    BY EmptySeq
  <2>2. entries \in [Index -> Nat \cup {Torn}] /\ 0 \in Index
    BY DEF Init, Index
  <2>3. QED
    BY <2>1, <2>2 DEF Init, TypeOK
<1>2. Size = 0 /\ Contents = <<>> /\ InHand = <<>> /\ Published = 0
  BY DEF Init, Size, Contents, InHand, Published
<1>3. CursorInv
  BY DEF Init, CursorInv, Draining
<1>4. OrderInv
  BY <1>2, EmptyIsIncreasing DEF Init, OrderInv, Below
<1>5. AccountInv
  BY <1>2, EmptyIsIncreasing DEF Init, AccountInv, Below
<1>6. QED
  BY <1>1, <1>3, <1>4, <1>5 DEF RingInv

(* The invariant is inductive. *)
LEMMA RingInductive == RingInv /\ [Next]_vars => RingInv'
BY TypeInductive, CursorInductive, FlowInductive DEF RingInv

(* The invariant holds in every reachable state. *)
LEMMA RingInvariant == Spec => []RingInv
BY RingInitially, RingInductive, PTL DEF Spec

(* No batch overruns hypercall_local_buffer and no flush its caller's       *)
(* limit, whatever the sizes of the ring, the buffer and the limit.         *)
THEOREM RingTypeCorrect == Spec => []TypeOK
<1>1. RingInv => TypeOK
  BY DEF RingInv
<1>2. QED
  BY <1>1, RingInvariant, PTL

(* The cursors and the order keep the window whole. *)
LEMMA WindowFollows == RingInv => WindowIntact
<1> SUFFICES ASSUME RingInv PROVE WindowIntact
  OBVIOUS
<1> USE RingAssumption
<1>1. TypeOK /\ CursorInv /\ OrderInv /\ AccountInv /\ ContentsOK
  BY WindowType DEF RingInv
<1>2. \A i \in 1 .. Size : Contents[i] \in 1 .. tsc
  <2>1. \A i \in 1 .. Size : Contents[i] \in Set(Contents)
    BY <1>1, SetMembers DEF ContentsOK
  <2>2. Set(Contents) \subseteq 1 .. Published
    BY <1>1 DEF AccountInv
  <2>3. 1 .. Published \subseteq 1 .. tsc
    BY <1>1 DEF Published, TypeOK
  <2>4. QED
    BY <2>1, <2>2, <2>3
<1>3. \A i \in 1 .. Size : Wrap(read_tail + i - 1) # write_head
  BY <1>1, HeadOutside
<1>4. fpc = "copy" => tail # write_head
  <2> SUFFICES ASSUME fpc = "copy" PROVE tail # write_head
    OBVIOUS
  <2>1. Len(batch) < Size /\ tail = Wrap(read_tail + Len(batch)) /\ Len(batch) \in Nat
    BY <1>1, LenProperties DEF CursorInv, Draining, TypeOK
  <2>2. Len(batch) + 1 \in 1 .. Size /\ read_tail + (Len(batch) + 1) - 1 = read_tail + Len(batch)
    BY <1>1, <2>1 DEF ContentsOK, TypeOK, Index
  <2>3. QED
    BY <1>3, <2>1, <2>2
<1>5. QED
  BY <1>1, <1>2, <1>3, <1>4 DEF OrderInv, WindowIntact

(* The consumer never reads a slot emit is filling, and what it can read is *)
(* whole and in emission order.                                             *)
THEOREM RingWindowIntact == Spec => []WindowIntact
BY WindowFollows, RingInvariant, PTL

(* What was returned is older than what the hypercall is returning. *)
LEMMA OrderFollows == RingInv => DeliveredInOrder
<1> SUFFICES ASSUME RingInv PROVE DeliveredInOrder
  OBVIOUS
<1>1. TypeOK /\ OrderInv /\ AccountInv
  BY DEF RingInv
<1>2. received \in Seq(Record) /\ out \in Seq(Record)
  BY <1>1 DEF TypeOK, Record
<1>3. Increasing(received \o out) /\ Set(received \o out) = Set(received) \cup Set(out)
  BY <1>1, <1>2, ConcatIncreasing, ConcatMembers DEF OrderInv
<1>4. Set(received) \cup Set(out) \subseteq 1 .. Published
  BY <1>1 DEF AccountInv
<1>5. 1 .. Published \subseteq 1 .. tsc
  BY <1>1 DEF Published, TypeOK
<1>6. QED
  BY <1>3, <1>4, <1>5 DEF DeliveredInOrder

(* Every answer of the flush hypercall continues the earlier ones in        *)
(* emission order, whole and without duplicates.                            *)
THEOREM RingDeliversInOrder == Spec => []DeliveredInOrder
BY OrderFollows, RingInvariant, PTL

(* The sizes of disjoint finite sets add up. *)
LEMMA DisjointUnion ==
  ASSUME NEW S, NEW T, IsFiniteSet(S), IsFiniteSet(T), S \cap T = {}
  PROVE  /\ IsFiniteSet(S \cup T) /\ Cardinality(S) \in Nat /\ Cardinality(T) \in Nat
         /\ Cardinality(S \cup T) = Cardinality(S) + Cardinality(T)
<1>1. Cardinality(S) \in Nat /\ Cardinality(T) \in Nat
  BY FS_CardinalityType
<1>2. IsFiniteSet(S \cup T)
      /\ Cardinality(S \cup T) = Cardinality(S) + Cardinality(T) - Cardinality(S \cap T)
  BY FS_Union
<1>3. Cardinality({}) = 0
  BY FS_EmptySet
<1>4. Cardinality(S \cup T) = Cardinality(S) + Cardinality(T) - 0
  BY <1>2, <1>3
<1>5. QED
  BY <1>1, <1>2, <1>4

(* The places are disjoint, so their sizes add up to the records published. *)
LEMMA AccountFollows == RingInv => NothingVanishes
<1> SUFFICES ASSUME RingInv PROVE NothingVanishes
  OBVIOUS
<1>1. TypeOK /\ CursorInv /\ OrderInv /\ AccountInv /\ ContentsOK
  BY WindowType DEF RingInv
<1>2. /\ Contents \in Seq(Record) /\ InHand \in Seq(Record) /\ out \in Seq(Record)
      /\ received \in Seq(Record) /\ Published \in Nat
  BY <1>1 DEF TypeOK, ContentsOK, Record, InHand, Published, CursorInv
<1> DEFINE A == Set(Contents)
           B == Set(InHand)
           C == Set(out)
           D == Set(received)
           one == Contents \o InHand
           two == one \o out
           places == two \o received
<1>3. /\ one \in Seq(Record) /\ Len(one) = Len(Contents) + Len(InHand) /\ Set(one) = A \cup B
  BY <1>2, ConcatProperties, ConcatMembers
<1>4. /\ two \in Seq(Record) /\ Len(two) = Len(one) + Len(out) /\ Set(two) = Set(one) \cup C
  <2> HIDE DEF one
  <2>1. one \in Seq(Record) /\ out \in Seq(Record)
    BY <1>2, <1>3
  <2>2. two \in Seq(Record) /\ Len(two) = Len(one) + Len(out)
    BY <2>1, ConcatProperties
  <2>3. Set(two) = Set(one) \cup C
    BY <2>1, ConcatMembers
  <2>4. QED
    BY <2>2, <2>3
<1>5. /\ Len(places) = Len(two) + Len(received) /\ Set(places) = Set(two) \cup D
  <2> HIDE DEF two
  <2>1. two \in Seq(Record) /\ received \in Seq(Record)
    BY <1>2, <1>4
  <2>2. Len(places) = Len(two) + Len(received)
    BY <2>1, ConcatProperties
  <2>3. Set(places) = Set(two) \cup D
    BY <2>1, ConcatMembers
  <2>4. QED
    BY <2>2, <2>3
<1>6. /\ IsFiniteSet(A) /\ Cardinality(A) = Len(Contents)
      /\ IsFiniteSet(B) /\ Cardinality(B) = Len(InHand)
      /\ IsFiniteSet(C) /\ Cardinality(C) = Len(out)
      /\ IsFiniteSet(D) /\ Cardinality(D) = Len(received)
  BY <1>1, <1>2, CountRecords DEF OrderInv
<1>7. A \cup B \cup C \cup D \cup lost \cup discarded = 1 .. Published
  BY <1>1 DEF AccountInv
<1>8. /\ Below(D, C) /\ Below(D \cup C, B) /\ Below(D \cup C \cup B, A)
      /\ Below(lost \cup discarded, B \cup A)
      /\ lost \cap discarded = {} /\ (lost \cup discarded) \cap (D \cup C) = {}
  BY <1>1 DEF OrderInv, AccountInv
<1>9. IsFiniteSet(lost) /\ IsFiniteSet(discarded)
      /\ IsFiniteSet(1 .. Published) /\ Cardinality(1 .. Published) = Published
  <2>1. IsFiniteSet(1 .. Published) /\ Cardinality(1 .. Published) = Published
    BY <1>2, FS_Interval
  <2>2. lost \in SUBSET (1 .. Published) /\ discarded \in SUBSET (1 .. Published)
    BY <1>7
  <2>3. QED
    BY <2>1, <2>2, FS_Subset
<1>10. Set(places) \cup lost \cup discarded = 1 .. Published
  BY <1>3, <1>4, <1>5, <1>7
<1>11. Len(places) = Len(Contents) + Len(InHand) + Len(out) + Len(received)
  BY <1>3, <1>4, <1>5
<1> HIDE DEF A, B, C, D, one, two, places
<1>12. \A x \in 1 .. Published : ~(x < x)
  BY <1>2
<1>13. /\ A \cap B = {} /\ (A \cup B) \cap C = {} /\ (A \cup B \cup C) \cap D = {}
       /\ (A \cup B \cup C \cup D) \cap lost = {}
       /\ (A \cup B \cup C \cup D \cup lost) \cap discarded = {}
  BY <1>7, <1>8, <1>12, Zenon DEF Below
<1>14. IsFiniteSet(A \cup B) /\ Cardinality(A \cup B) = Cardinality(A) + Cardinality(B)
  <2>1. IsFiniteSet(A) /\ IsFiniteSet(B) /\ A \cap B = {}
    BY <1>6, <1>13
  <2>2. QED
    BY <2>1, DisjointUnion
<1>15. IsFiniteSet(A \cup B \cup C)
       /\ Cardinality(A \cup B \cup C) = Cardinality(A \cup B) + Cardinality(C)
  <2>1. IsFiniteSet(A \cup B) /\ IsFiniteSet(C) /\ (A \cup B) \cap C = {}
    BY <1>6, <1>13, <1>14
  <2>2. QED
    BY <2>1, DisjointUnion
<1>16. IsFiniteSet(A \cup B \cup C \cup D)
       /\ Cardinality(A \cup B \cup C \cup D) = Len(places)
  <2>1. IsFiniteSet(A \cup B \cup C) /\ IsFiniteSet(D) /\ (A \cup B \cup C) \cap D = {}
    BY <1>6, <1>13, <1>15
  <2>2. IsFiniteSet(A \cup B \cup C \cup D)
        /\ Cardinality(A \cup B \cup C \cup D) = Cardinality(A \cup B \cup C) + Cardinality(D)
    BY <2>1, DisjointUnion
  <2>3. QED
    BY <1>6, <1>11, <1>14, <1>15, <2>2
<1>17. IsFiniteSet(A \cup B \cup C \cup D \cup lost)
       /\ Cardinality(A \cup B \cup C \cup D \cup lost) = Len(places) + Cardinality(lost)
  BY <1>9, <1>13, <1>16, DisjointUnion
<1>18. Published = Len(places) + Cardinality(lost) + Cardinality(discarded)
  BY <1>7, <1>9, <1>13, <1>17, DisjointUnion
<1>19. QED
  BY <1>10, <1>18 DEF NothingVanishes, Published, InHand, places, two, one

(* Every published record is in exactly one place: the ring, the batch in   *)
(* hand, an answer, a failed write, or a ring that an enable reset.         *)
THEOREM RingNothingVanishes == Spec => []NothingVanishes
BY AccountFollows, RingInvariant, PTL

-----------------------------------------------------------------------------
(* The refinement.                                                         *)

(* The ring starts as an empty, closed log. *)
LEMMA LogInitially == Init => Log!Init
<1> SUFFICES ASSUME Init PROVE Log!Init
  OBVIOUS
<1>1. Contents = <<>>
  BY DEF Init, Contents, Size
<1>2. QED
  BY <1>1 DEF Init, Log!Init

(* Every step of the ring is a step of the log or leaves it alone. *)
LEMMA RingStepsAreLogSteps == RingInv /\ [Next]_vars => [Log!Next]_(Log!logVars)
<1> SUFFICES ASSUME RingInv, [Next]_vars PROVE [Log!Next]_(Log!logVars)
  OBVIOUS
<1> USE RingAssumption
<1>1. TypeOK /\ CursorInv /\ ContentsOK /\ TypeOK'
  BY WindowType, TypeInductive DEF RingInv
<1>2. UNCHANGED <<write_head, read_tail, entries>> => Contents' = Contents
  BY WindowFrame
<1>3. tsc \in Nat /\ Size \in 0 .. N - 1 /\ Len(Contents) = Size /\ N \in Nat
  BY <1>1 DEF TypeOK, ContentsOK
<1>4. CASE EmitBegin
  <2>1. CASE Inc(write_head) = read_tail
    <3>1. Size = N - 1
      <4>1. write_head \in 0 .. N - 1 /\ read_tail \in 0 .. N - 1
        BY <1>1 DEF TypeOK, Index
      <4>2. QED
        BY <1>3, <4>1, <2>1 DEF Size, Inc
    <3>2. Log!Drop
      BY <1>2, <1>3, <1>4, <2>1, <3>1 DEF EmitBegin, flush, Log!Drop
    <3>3. QED
      BY <3>2 DEF Log!Next
  <2>2. CASE Inc(write_head) # read_tail
    BY <1>2, <1>4, <2>2 DEF EmitBegin, flush, Log!logVars
  <2>3. QED
    BY <2>1, <2>2
<1>5. CASE EmitStore
  <2>1. Contents' = Contents
    BY <1>1, <1>5, EmitKeepsWindow
  <2>2. QED
    BY <1>5, <2>1 DEF EmitStore, flush, history, Log!logVars
<1>6. CASE EmitStamp
  <2>1. Contents' = Contents
    BY <1>1, <1>6, EmitKeepsWindow
  <2>2. tsc' - 1 = tsc
    BY <1>3, <1>6 DEF EmitStamp
  <2>3. QED
    BY <1>6, <2>1, <2>2 DEF EmitStamp, flush, history, Log!logVars
<1>7. CASE EmitPublish
  <2>1. Contents' = Append(Contents, tsc) /\ Len(Contents) < N - 1
    BY <1>1, <1>3, <1>7, PublishAppends DEF CursorInv, EmitPublish
  <2>2. tsc > tsc - 1
    BY <1>3
  <2>3. UNCHANGED <<drained, dropped, active, tsc>> /\ epc = "publish" /\ epc' = "idle"
    BY <1>7 DEF EmitPublish, history
  <2>4. active
    BY <1>1, <1>7 DEF CursorInv, EmitPublish
  <2>5. Log!Emit
    BY <2>1, <2>2, <2>3, <2>4 DEF Log!Emit
  <2>6. QED
    BY <2>5 DEF Log!Next
<1>8. CASE \E max \in 0 .. (MaxFlush + 1) : FlushCall(max)
  BY <1>2, <1>8 DEF FlushCall, history, Log!logVars
<1>9. CASE FlushLoop \/ DrainTest \/ DrainCopy
  BY <1>2, <1>9 DEF FlushLoop, DrainTest, DrainCopy, history, Log!logVars
<1>10. CASE DrainPublish
  <2>1. /\ Len(batch) \in 0 .. Size /\ batch = SubSeq(Contents, 1, Len(batch))
        /\ Contents' = SubSeq(Contents, Len(batch) + 1, Len(Contents))
    BY <1>1, <1>10, DrainSplits
  <2>2. drained' = drained \o batch /\ UNCHANGED <<tsc, epc, dropped, active>>
    BY <1>10 DEF DrainPublish
  <2>3. CASE Len(batch) = 0
    <3>1. batch = <<>>
      BY <1>1, <2>3, EmptySeq DEF TypeOK
    <3>2. drained' = drained
      BY <1>1, <2>2, <3>1, ConcatEmptySeq DEF TypeOK
    <3>3. Contents' = SubSeq(Contents, 1, Len(Contents))
      BY <2>1, <2>3
    <3>4. Contents' = Contents
      BY <1>1, <3>3, SubSeqFull DEF ContentsOK
    <3>5. QED
      BY <2>2, <3>2, <3>4 DEF Log!logVars
  <2>4. CASE Len(batch) # 0
    <3>1. Len(batch) \in 1 .. Len(Contents)
      BY <1>3, <2>1, <2>4
    <3>2. Log!Take(Len(batch))
      BY <2>1, <2>2 DEF Log!Take
    <3>3. QED
      BY <3>1, <3>2 DEF Log!Next
  <2>5. QED
    BY <2>3, <2>4
<1>11. CASE GuestWrite
  BY <1>2, <1>11 DEF GuestWrite, Log!logVars
<1>12. CASE FlushReturn
  BY <1>2, <1>12 DEF FlushReturn, history, Log!logVars
<1>13. CASE fpc = "idle" /\ handle_enable_auto_trace
  <2>1. Contents' = <<>>
    BY <1>13, EnableEmpties
  <2>2. Log!Open
    BY <1>13, <2>1 DEF handle_enable_auto_trace, Log!Open
  <2>3. QED
    BY <2>2 DEF Log!Next
<1>14. CASE handle_disable_auto_trace
  <2>1. Log!Close
    BY <1>2, <1>14 DEF handle_disable_auto_trace, flush, history, Log!Close
  <2>2. QED
    BY <2>1 DEF Log!Next
<1>15. CASE UNCHANGED vars
  BY <1>2, <1>15 DEF vars, Log!logVars
<1>16. QED
  BY <1>4, <1>5, <1>6, <1>7, <1>8, <1>9, <1>10, <1>11, <1>12, <1>13, <1>14, <1>15
     DEF Next, Background, Emit, Flush

(* The ring implements the bounded log: emit adds the record, or drops it   *)
(* when N - 1 records wait; a drain takes the oldest ones.                  *)
THEOREM RingImplementsLog == Spec => LogSpec
BY LogInitially, RingStepsAreLogSteps, RingInvariant, PTL DEF Spec, LogSpec, Log!Spec
=============================================================================
