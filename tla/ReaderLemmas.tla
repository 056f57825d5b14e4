---------------------------- MODULE ReaderLemmas -----------------------------
(***************************************************************************)
(* Lemmas about ArchiveReader: what the readers make of an archive whose   *)
(* entries lie one behind the other.  The scan of the local headers is a   *)
(* recursive function, so that its equation needs an induction: the        *)
(* library's induction theorems take a predicate as their parameter, here  *)
(* there is a set instead.                                                 *)
(***************************************************************************)
EXTENDS ArchiveReader, SequenceTheorems, WellFoundedInduction, TLAPS

(* A set of natural numbers has a least element. *)
LEMMA Least ==
  ASSUME NEW T, T \subseteq Nat, T # {}
  PROVE  \E m \in T : \A n \in T : m <= n
<1>1. \E R : /\ IsWellFoundedOn(R, Nat)
             /\ \A x, y \in Nat : x < y => <<x, y>> \in R
  <2>1. IsWellFoundedOn(OpToRel(<, Nat), Nat)
    BY NatLessThanWellFounded
  <2>2. \A x, y \in Nat : x < y => <<x, y>> \in OpToRel(<, Nat)
    BY DEF OpToRel
  <2> QED
    BY <2>1, <2>2, Zenon
<1>2. PICK R : /\ IsWellFoundedOn(R, Nat)
               /\ \A x, y \in Nat : x < y => <<x, y>> \in R
  BY <1>1
<1>3. PICK m \in T : \A y \in T : ~(<<y, m>> \in R)
  BY <1>2, WFMin
<1>4. \A n \in T : ~(n < m)
  BY <1>2, <1>3
<1> QED
  BY <1>4

(* Induction, on a set. *)
LEMMA Induction ==
  ASSUME NEW T, 0 \in T, \A n \in Nat : n \in T => n + 1 \in T
  PROVE  \A n \in Nat : n \in T
<1> SUFFICES ASSUME Nat \ T # {} PROVE FALSE
  OBVIOUS
<1>1. PICK m \in Nat \ T : \A n \in Nat \ T : m <= n
  <2> PICK D : D = Nat \ T
    OBVIOUS
  <2> QED
    BY Least
<1>2. m - 1 \in Nat
  BY <1>1
<1> QED
  BY <1>1, <1>2

-----------------------------------------------------------------------------
(* The equation of LocalsFrom. *)
ScanAt(a, at, p) ==
  IF Kind(a, p) # "local" THEN << >>
  ELSE IF p + 1 + Skipped(a, p) > Len(a) THEN <<p>> ELSE <<p>> \o at[p + 1 + Skipped(a, p)]

IsScan(a, at) == at = [p \in 1..(Len(a) + 1) |-> ScanAt(a, at, p)]

(* The size of every local header is a number of cells. *)
SizesKnown(a) == \A p \in Nat : Kind(a, p) = "local" => Skipped(a, p) \in Nat

(* There is a function that satisfies the equation: the scan goes forward. *)
LEMMA ScanExists ==
  ASSUME NEW a, Len(a) \in Nat, SizesKnown(a)
  PROVE  \E at : IsScan(a, at)
<1> PICK N \in Nat : N = Len(a) + 1
  OBVIOUS
<1> DEFINE From(g, n) == /\ g = [p \in 1..N |-> g[p]]
                         /\ \A p \in (N - n + 1)..N : p \in 1..N => g[p] = ScanAt(a, g, p)
           T == {n \in Nat : \E g : From(g, n)}
<1>1. 0 \in T
  <2>1. From([p \in 1..N |-> << >>], 0)
    OBVIOUS
  <2> QED
    BY <2>1
<1>2. ASSUME NEW n \in Nat, n \in T PROVE n + 1 \in T
  <2>1. PICK g : From(g, n)
    BY <1>2
  <2>2. PICK h : h = [p \in 1..N |-> IF p = N - n THEN ScanAt(a, g, p) ELSE g[p]]
    OBVIOUS
  <2>3. ASSUME NEW p \in (N - n)..N, p \in 1..N PROVE h[p] = ScanAt(a, g, p)
    <3>1. CASE p = N - n
      BY <2>2, <2>3, <3>1
    <3>2. CASE p # N - n
      BY <2>1, <2>2, <2>3, <3>2
    <3> QED
      BY <3>1, <3>2
  <2>4. ASSUME NEW p \in (N - n)..N, p \in 1..N PROVE ScanAt(a, g, p) = ScanAt(a, h, p)
    <3>1. CASE Kind(a, p) # "local"
      BY <3>1 DEF ScanAt
    <3>2. CASE Kind(a, p) = "local"
      <4> PICK q : q = p + 1 + Skipped(a, p)
        OBVIOUS
      <4>1. q \in Nat /\ q > p
        BY <2>4, <3>2 DEF SizesKnown
      <4>2. CASE q > Len(a)
        BY <4>2 DEF ScanAt
      <4>3. CASE ~(q > Len(a))
        <5>1. h[q] = g[q]
          BY <2>2, <2>4, <4>1, <4>3
        <5> QED
          BY <5>1 DEF ScanAt
      <4> QED
        BY <4>2, <4>3
    <3> QED
      BY <3>1, <3>2
  <2>5. From(h, n + 1)
    <3>1. h = [p \in 1..N |-> h[p]]
      BY <2>2
    <3>2. ASSUME NEW p \in (N - (n + 1) + 1)..N, p \in 1..N PROVE h[p] = ScanAt(a, h, p)
      BY <2>3, <2>4, <3>2
    <3> QED
      BY <3>1, <3>2
  <2> QED
    BY <2>5
<1> HIDE DEF T
<1>3. N \in T
  BY <1>1, <1>2, Induction
<1> USE DEF T
<1>4. PICK g : From(g, N)
  BY <1>3
<1>5. g = [p \in 1..N |-> ScanAt(a, g, p)]
  BY <1>4
<1> QED
  BY <1>5 DEF IsScan

(* The scan satisfies its equation. *)
LEMMA ScanEquation ==
  ASSUME NEW a, Len(a) \in Nat, SizesKnown(a)
  PROVE  IsScan(a, LocalsFrom(a))
<1>1. LocalsFrom(a) = CHOOSE at : IsScan(a, at)
  BY DEF LocalsFrom, IsScan, ScanAt
<1> QED
  BY <1>1, ScanExists, Zenon

(* The entries of a lie one behind the other, the local header of each at  *)
(* one of heads; what is behind the last is at end.                        *)
HeadOr(heads, end, i) == IF i = Len(heads) + 1 THEN end ELSE heads[i]

Tiled(a, heads, end) ==
  /\ end \in 1..(Len(a) + 1) /\ Kind(a, end) # "local"
  /\ HeadOr(heads, end, 1) = 1
  /\ \A i \in 1..Len(heads) :
       /\ heads[i] \in 1..Len(a) /\ Kind(a, heads[i]) = "local"
       /\ heads[i] + 1 + Skipped(a, heads[i]) = HeadOr(heads, end, i + 1)

(* The scan finds these headers, and the directory behind them. *)
LEMMA ScanFinds ==
  ASSUME NEW a, Len(a) \in Nat, SizesKnown(a),
         NEW heads \in Seq(Nat), NEW end, Tiled(a, heads, end)
  PROVE  Locals(a) = heads /\ DirectoryAt(a) = end
<1> PICK m \in Nat : m = Len(heads)
  BY LenProperties
<1> PICK at : at = LocalsFrom(a)
  OBVIOUS
<1>1. \A p \in 1..(Len(a) + 1) : at[p] = ScanAt(a, at, p)
  BY ScanEquation DEF IsScan
<1> DEFINE T == {n \in Nat : n <= m => at[HeadOr(heads, end, m + 1 - n)] = SubSeq(heads, m + 1 - n, m)}
<1>2. 0 \in T
  <2>1. SubSeq(heads, m + 1, m) = << >>
    BY SubSeqEmpty
  <2>2. at[end] = << >>
    BY <1>1 DEF Tiled, ScanAt
  <2>3. HeadOr(heads, end, m + 1) = end /\ m + 1 - 0 = m + 1
    BY DEF HeadOr
  <2> QED
    BY <2>1, <2>2, <2>3
<1>3. ASSUME NEW n \in Nat, n \in T PROVE n + 1 \in T
  <2> SUFFICES ASSUME n + 1 <= m
               PROVE  at[HeadOr(heads, end, m + 1 - (n + 1))] = SubSeq(heads, m + 1 - (n + 1), m)
    OBVIOUS
  <2>0. m - n \in Nat
    BY <1>3
  <2> PICK i \in Nat : i = m - n
    BY <2>0
  <2>1. i \in 1..Len(heads) /\ m + 1 - (n + 1) = i /\ m + 1 - n = i + 1 /\ i # Len(heads) + 1
    OBVIOUS
  <2> PICK p : p = heads[i]
    OBVIOUS
  <2> PICK q : q = HeadOr(heads, end, i + 1)
    OBVIOUS
  <2>2. /\ p \in 1..Len(a) /\ Kind(a, p) = "local" /\ p + 1 + Skipped(a, p) = q
        /\ HeadOr(heads, end, i) = p
    BY <2>1 DEF Tiled, HeadOr
  <2>3. at[q] = SubSeq(heads, i + 1, m)
    BY <1>3, <2>1
  <2>4. at[p] = IF q > Len(a) THEN <<p>> ELSE <<p>> \o at[q]
    BY <1>1, <2>2 DEF ScanAt
  <2>5. SubSeq(heads, i, m) = <<p>> \o SubSeq(heads, i + 1, m)
    <3>1. m \in i..Len(heads)
      BY <2>1
    <3> QED
      BY <2>1, <3>1, SubSeqRecursiveFirst
  <2>6. CASE q > Len(a)
    <3>1. i = m
      <4>1. CASE i # m
        <5>1. i + 1 \in 1..Len(heads) /\ i + 1 # Len(heads) + 1
          BY <2>1, <4>1
        <5>2. q = heads[i + 1]
          BY <5>1 DEF HeadOr
        <5>3. q \in 1..Len(a)
          BY <5>1, <5>2 DEF Tiled
        <5> QED
          BY <2>6, <5>3
      <4> QED
        BY <4>1
    <3>2. SubSeq(heads, i + 1, m) = << >>
      BY <2>1, <3>1, SubSeqEmpty
    <3>3. <<p>> \o << >> = <<p>>
      BY <2>2, ConcatEmptySeq
    <3> QED
      BY <2>1, <2>2, <2>4, <2>5, <2>6, <3>2, <3>3
  <2>7. CASE ~(q > Len(a))
    BY <2>1, <2>2, <2>3, <2>4, <2>5, <2>7
  <2> QED
    BY <2>6, <2>7
<1> HIDE DEF T
<1>4. m \in T
  BY <1>2, <1>3, Induction
<1> USE DEF T
<1>5. at[1] = SubSeq(heads, 1, m)
  BY <1>4 DEF Tiled
<1>6. Locals(a) = heads
  BY <1>5, SubSeqFull DEF Locals
<1>7. DirectoryAt(a) = end
  <2>1. heads = << >> <=> m = 0
    BY EmptySeq
  <2>2. CASE m = 0
    BY <1>6, <2>1, <2>2 DEF DirectoryAt, Tiled, HeadOr
  <2>3. CASE m # 0
    <3>1. heads[m] + 1 + Skipped(a, heads[m]) = end
      BY <2>3 DEF Tiled, HeadOr
    <3> QED
      BY <1>6, <2>1, <2>3, <3>1 DEF DirectoryAt
  <2> QED
    BY <2>2, <2>3
<1> QED
  BY <1>6, <1>7

(* A sealed archive: the entries, as many central headers, the records. *)
SealedAt(a, heads, end) ==
  LET n == Len(heads)
  IN  /\ Len(a) = end + n + 2
      /\ Tiled(a, heads, end)
      /\ \A i \in 1..n : Kind(a, end + i - 1) = "central" /\ a[heads[i]].flags = {}
      /\ Kind(a, end + n) = "z64end" /\ a[end + n].entries = n
      /\ Kind(a, end + n + 1) = "z64loc"
      /\ Kind(a, end + n + 2) = "end" /\ a[end + n + 2].entries = Anonymous

(* The headers and the data of its entries. *)
Stored(a, heads, end) ==
  [i \in 1..Len(heads) |->
     [local |-> a[heads[i]], central |-> a[end + i - 1],
      data |-> SubSeq(a, heads[i] + 1, heads[i] + a[heads[i]].size)]]

(* It can be opened, and what is read of it is what is there. *)
LEMMA SealedOpens ==
  ASSUME NEW a, Len(a) \in Nat, SizesKnown(a),
         NEW heads \in Seq(Nat), NEW end, SealedAt(a, heads, end)
  PROVE  Opens(a) /\ Read(a) = Stored(a, heads, end)
<1> PICK n \in Nat : n = Len(heads)
  BY LenProperties
<1>1. Locals(a) = heads /\ DirectoryAt(a) = end
  BY ScanFinds DEF SealedAt
<1>2. end \in Nat \ {0}
  BY DEF SealedAt, Tiled
<1>3. DirectoryEnd(a) = end + n
  <2> DEFINE Ends(e) == /\ \A p \in end..(e - 1) : Kind(a, p) = "central"
                        /\ Kind(a, e) # "central"
  <2>1. end + n \in end..(end + Len(a)) /\ Ends(end + n)
    <3>1. \A p \in end..(end + n - 1) : p - end + 1 \in 1..n /\ end + (p - end + 1) - 1 = p
      BY <1>2
    <3>2. \A p \in end..(end + n - 1) : Kind(a, p) = "central"
      BY <3>1 DEF SealedAt
    <3>3. Kind(a, end + n) = "z64end" /\ Len(a) = end + n + 2
      BY DEF SealedAt
    <3> QED
      BY <1>2, <3>2, <3>3
  <2>2. ASSUME NEW e \in end..(end + Len(a)), Ends(e) PROVE e = end + n
    <3>1. CASE e < end + n
      <4>1. e - end + 1 \in 1..n /\ end + (e - end + 1) - 1 = e
        BY <1>2, <3>1
      <4> QED
        BY <2>2, <4>1 DEF SealedAt
    <3>2. CASE e > end + n
      <4>1. end + n \in end..(e - 1)
        BY <1>2, <3>2
      <4> QED
        BY <2>1, <2>2, <4>1
    <3> QED
      BY <1>2, <3>1, <3>2
  <2>3. DirectoryEnd(a) = CHOOSE e \in end..(end + Len(a)) : Ends(e)
    BY <1>1 DEF DirectoryEnd
  <2> QED
    BY <2>1, <2>2, <2>3
<1>4. EndAt(a) = end + n + 2
  BY <1>2, <1>3 DEF EndAt, SealedAt
<1>5. Opens(a)
  BY <1>1, <1>2, <1>3, <1>4 DEF Opens, SealedAt
<1>6. Read(a) = Stored(a, heads, end)
  BY <1>1 DEF Read, Stored
<1> QED
  BY <1>5, <1>6
=============================================================================
