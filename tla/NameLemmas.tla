----------------------------- MODULE NameLemmas ------------------------------
(***************************************************************************)
(* Lemmas about FileTree: how names are cut into paths and joined from     *)
(* them, and what expand_files finds.  Cutting and joining are recursive   *)
(* functions on sequences; each is shown to satisfy its equation, then     *)
(* what it does to a sequence with one more element at its end, and the    *)
(* rest by induction on sequences.  At the end, about NaturalOrder: what   *)
(* natural_compare's loop makes of two names that differ somewhere.        *)
(***************************************************************************)
EXTENDS FileTree, NaturalOrder, ReaderLemmas, FiniteSetTheorems

(* A function on 0..n is defined by its first value and by how each value  *)
(* follows from the one before.                                            *)
IsIteration(f, n, base, step) ==
  f = [k \in 0..n |-> IF k = 0 THEN base ELSE step[<<k, f[k - 1]>>]]

(* The only such function satisfies its equation. *)
LEMMA Recursion ==
  ASSUME NEW V, NEW base \in V, NEW n \in Nat, NEW step \in [(1..n) \X V -> V]
  PROVE  \E f \in [0..n -> V] : IsIteration(f, n, base, step)
<1> DEFINE From(f, m) == \A k \in 0..m : f[k] = IF k = 0 THEN base ELSE step[<<k, f[k - 1]>>]
           T == {m \in Nat : m <= n => \E f \in [0..n -> V] : From(f, m)}
<1>1. 0 \in T
  <2>1. From([k \in 0..n |-> base], 0)
    OBVIOUS
  <2> QED
    BY <2>1
<1>2. ASSUME NEW m \in Nat, m \in T PROVE m + 1 \in T
  <2> SUFFICES ASSUME m + 1 <= n PROVE \E f \in [0..n -> V] : From(f, m + 1)
    OBVIOUS
  <2>1. PICK f \in [0..n -> V] : From(f, m)
    BY <1>2
  <2> PICK v : v = step[<<m + 1, f[m]>>]
    OBVIOUS
  <2>2. v \in V
    <3>1. <<m + 1, f[m]>> \in (1..n) \X V
      OBVIOUS
    <3> QED
      BY <3>1
  <2> PICK g : g = [f EXCEPT ![m + 1] = v]
    OBVIOUS
  <2>3. g \in [0..n -> V]
    BY <2>2
  <2>4. ASSUME NEW k \in 0..(m + 1)
        PROVE  g[k] = IF k = 0 THEN base ELSE step[<<k, g[k - 1]>>]
    <3>1. CASE k = m + 1
      <4>1. g[k] = v /\ k - 1 = m /\ g[m] = f[m] /\ k # 0
        BY <3>1
      <4>2. step[<<k, g[k - 1]>>] = v
        BY <3>1, <4>1, Zenon
      <4> QED
        BY <4>1, <4>2
    <3>2. CASE k # m + 1
      <4>1. k \in 0..m /\ g[k] = f[k] /\ (k # 0 => g[k - 1] = f[k - 1])
        BY <3>2
      <4> QED
        BY <2>1, <4>1
    <3> QED
      BY <3>1, <3>2
  <2> QED
    BY <2>3, <2>4
<1> HIDE DEF T
<1>3. n \in T
  BY <1>1, <1>2, Induction
<1> USE DEF T
<1>4. PICK f \in [0..n -> V] : From(f, n)
  BY <1>3
<1>5. f = [k \in 0..n |-> IF k = 0 THEN base ELSE step[<<k, f[k - 1]>>]]
  BY <1>4
<1> QED
  BY <1>5 DEF IsIteration

(* Induction on sequences, on a set. *)
LEMMA SeqInduction ==
  ASSUME NEW S, NEW T, << >> \in T,
         \A s \in Seq(S), e \in S : s \in T => Append(s, e) \in T
  PROVE  \A s \in Seq(S) : s \in T
<1> DEFINE U == {n \in Nat : \A s \in Seq(S) : Len(s) = n => s \in T}
<1>1. 0 \in U
  BY EmptySeq
<1>2. ASSUME NEW n \in Nat, n \in U PROVE n + 1 \in U
  <2> SUFFICES ASSUME NEW s \in Seq(S), Len(s) = n + 1 PROVE s \in T
    OBVIOUS
  <2>1. PICK r \in Seq(S), e \in S : s = Append(r, e)
    <3>1. s # << >>
      BY EmptySeq
    <3> QED
      BY <3>1, SequenceEmptyOrAppend
  <2>2. Len(r) = n
    BY <2>1, AppendProperties, LenProperties
  <2> QED
    BY <1>2, <2>1, <2>2
<1> HIDE DEF U
<1>3. \A n \in Nat : n \in U
  BY <1>1, <1>2, Induction
<1> QED
  BY <1>3, LenProperties DEF U

-----------------------------------------------------------------------------
(* Cutting. *)

Name == Seq(Nat)

(* Parts of a name, at least one. *)
Parting == Seq(Name) \ {<< >>}

CutStep(parts, c) ==
  IF c = SLASH THEN Append(parts, << >>)
  ELSE Front(parts) \o <<Append(Last(parts), c)>>

IsCut(name, cut) ==
  cut = [k \in 0..Len(name) |-> IF k = 0 THEN << << >> >> ELSE CutStep(cut[k - 1], name[k])]

CutOf(name) == CHOOSE cut : IsCut(name, cut)

(* Cut by the function that its definition chooses. *)
LEMMA CutDef ==
  ASSUME NEW name
  PROVE  Cut(name) = CutOf(name)[Len(name)]
BY DEF Cut, CutOf, IsCut, CutStep

(* The front and the last of a parting. *)
LEMMA PartingFacts ==
  ASSUME NEW parts \in Parting
  PROVE  /\ Len(parts) \in Nat \ {0}
         /\ Front(parts) \in Seq(Name) /\ Last(parts) \in Name
         /\ Len(Front(parts)) = Len(parts) - 1
         /\ \A k \in 1..(Len(parts) - 1) : Front(parts)[k] = parts[k]
<1>1. parts \in Seq(Name) /\ Len(parts) \in Nat \ {0}
  BY EmptySeq, LenProperties DEF Parting
<1> PICK n \in Nat : n = Len(parts) - 1
  BY <1>1
<1>2. 1 \in 1..(Len(parts) + 1) /\ n \in (1 - 1)..Len(parts)
  BY <1>1
<1>3. /\ SubSeq(parts, 1, n) \in Seq(Name) /\ Len(SubSeq(parts, 1, n)) = n
      /\ \A k \in 1..n : SubSeq(parts, 1, n)[k] = parts[k]
  BY <1>1, <1>2, SubSeqProperties
<1>4. Last(parts) \in Name
  BY <1>1, ElementOfSeq DEF Last
<1> QED
  BY <1>1, <1>3, <1>4 DEF Front

(* One character more makes a parting of a parting. *)
LEMMA CutStepType ==
  ASSUME NEW parts \in Parting, NEW c \in Nat
  PROVE  CutStep(parts, c) \in Parting
<1>1. CASE c = SLASH
  <2>1. << >> \in Name /\ parts \in Seq(Name)
    BY DEF Name, Parting
  <2>2. Append(parts, << >>) \in Seq(Name) /\ Len(Append(parts, << >>)) = Len(parts) + 1
    BY <2>1, AppendProperties
  <2>3. Append(parts, << >>) # << >>
    BY <2>1, <2>2, LenProperties
  <2> QED
    BY <1>1, <2>2, <2>3 DEF CutStep, Parting
<1>2. CASE c # SLASH
  <2>1. Append(Last(parts), c) \in Name
    BY PartingFacts, AppendProperties DEF Name
  <2> PICK e \in Name : e = Append(Last(parts), c)
    BY <2>1
  <2>2. <<e>> \in Seq(Name) /\ Len(<<e>>) = 1
    OBVIOUS
  <2>3. Front(parts) \in Seq(Name)
    BY PartingFacts
  <2>4. /\ Front(parts) \o <<e>> \in Seq(Name)
        /\ Len(Front(parts) \o <<e>>) = Len(Front(parts)) + 1
    BY <2>2, <2>3, ConcatProperties
  <2>5. Front(parts) \o <<e>> # << >>
    BY <2>3, <2>4, LenProperties
  <2> QED
    BY <1>2, <2>4, <2>5 DEF CutStep, Parting
<1> QED
  BY <1>1, <1>2

(* The recursive function of Cut satisfies its equation. *)
LEMMA CutEquation ==
  ASSUME NEW name \in Name
  PROVE  /\ IsCut(name, CutOf(name))
         /\ \A k \in 0..Len(name) : CutOf(name)[k] \in Parting
<1> PICK n \in Nat : n = Len(name)
  BY LenProperties DEF Name
<1> PICK step : step = [x \in (1..n) \X Parting |-> CutStep(x[2], name[x[1]])]
  OBVIOUS
<1>1. step \in [(1..n) \X Parting -> Parting]
  BY CutStepType, ElementOfSeq DEF Name
<1>2. << << >> >> \in Parting
  BY DEF Parting, Name
<1>3. PICK f \in [0..n -> Parting] : IsIteration(f, n, << << >> >>, step)
  BY <1>1, <1>2, Recursion
<1>4. \A g : (\A k \in 0..n : g[k] \in Parting) =>
         (IsCut(name, g) <=> IsIteration(g, n, << << >> >>, step))
  <2> SUFFICES ASSUME NEW g, \A k \in 0..n : g[k] \in Parting
               PROVE  IsCut(name, g) <=> IsIteration(g, n, << << >> >>, step)
    OBVIOUS
  <2>1. ASSUME NEW k \in 0..n, k # 0 PROVE step[<<k, g[k - 1]>>] = CutStep(g[k - 1], name[k])
    <3>1. k - 1 \in 0..n /\ k \in 1..n
      BY <2>1
    <3>2. <<k, g[k - 1]>> \in (1..n) \X Parting
      BY <3>1
    <3> QED
      BY <3>2
  <2> QED
    BY <2>1 DEF IsCut, IsIteration
<1>5. IsCut(name, f)
  BY <1>3, <1>4
<1>6. IsCut(name, CutOf(name))
  BY <1>5, Zenon DEF CutOf
<1>7. \A k \in 0..n : CutOf(name)[k] \in Parting
  <2> PICK g : g = CutOf(name)
    OBVIOUS
  <2> DEFINE T == {k \in Nat : k <= n => g[k] \in Parting}
  <2>1. \A k \in 0..n : g[k] = IF k = 0 THEN << << >> >> ELSE CutStep(g[k - 1], name[k])
    BY <1>6 DEF IsCut
  <2>2. 0 \in T
    BY <1>2, <2>1
  <2>3. ASSUME NEW k \in Nat, k \in T PROVE k + 1 \in T
    <3> SUFFICES ASSUME k + 1 <= n PROVE g[k + 1] \in Parting
      OBVIOUS
    <3>1. k + 1 \in 1..n /\ (k + 1) - 1 = k /\ g[k] \in Parting
      BY <2>3
    <3>2. name[k + 1] \in Nat
      BY <3>1, ElementOfSeq DEF Name
    <3>3. g[k + 1] = CutStep(g[k], name[k + 1])
      BY <2>1, <3>1
    <3> QED
      BY <3>1, <3>2, <3>3, CutStepType
  <2> HIDE DEF T
  <2>4. \A k \in Nat : k \in T
    BY <2>2, <2>3, Induction
  <2> QED
    BY <2>4 DEF T
<1> QED
  BY <1>6, <1>7

(* A name with one more character. *)
LEMMA CutAppend ==
  ASSUME NEW s \in Name, NEW c \in Nat
  PROVE  Cut(Append(s, c)) = CutStep(Cut(s), c) /\ Cut(s) \in Parting
<1> PICK t : t = Append(s, c)
  OBVIOUS
<1> PICK n \in Nat : n = Len(s)
  BY LenProperties DEF Name
<1>1. t \in Name /\ Len(t) = n + 1 /\ t[n + 1] = c /\ \A k \in 1..n : t[k] = s[k]
  BY AppendProperties DEF Name
<1> PICK f : f = CutOf(s)
  OBVIOUS
<1> PICK g : g = CutOf(t)
  OBVIOUS
<1>2. \A k \in 0..n : f[k] = IF k = 0 THEN << << >> >> ELSE CutStep(f[k - 1], s[k])
  BY CutEquation DEF IsCut
<1>3. \A k \in 0..(n + 1) : g[k] = IF k = 0 THEN << << >> >> ELSE CutStep(g[k - 1], t[k])
  BY <1>1, CutEquation DEF IsCut
<1> DEFINE T == {k \in Nat : k <= n => g[k] = f[k]}
<1>4. 0 \in T
  BY <1>2, <1>3
<1>5. ASSUME NEW k \in Nat, k \in T PROVE k + 1 \in T
  <2> SUFFICES ASSUME k + 1 <= n PROVE g[k + 1] = f[k + 1]
    OBVIOUS
  <2>1. (k + 1) - 1 = k /\ k + 1 # 0 /\ g[k] = f[k] /\ t[k + 1] = s[k + 1]
    BY <1>1, <1>5
  <2>2. f[k + 1] = CutStep(f[k], s[k + 1])
    BY <1>2, <2>1
  <2>3. g[k + 1] = CutStep(g[k], t[k + 1])
    BY <1>3, <2>1
  <2> QED
    BY <2>1, <2>2, <2>3
<1> HIDE DEF T
<1>6. n \in T
  BY <1>4, <1>5, Induction
<1>7. g[n] = f[n]
  BY <1>6 DEF T
<1>8. g[n + 1] = CutStep(g[n], c)
  <2>1. (n + 1) - 1 = n /\ n + 1 # 0 /\ n + 1 \in 0..(n + 1)
    OBVIOUS
  <2> QED
    BY <1>1, <1>3, <2>1
<1>9. f[n] \in Parting
  BY CutEquation
<1> QED
  BY <1>1, <1>7, <1>8, <1>9, CutDef

(* The empty name has one part, which is empty. *)
LEMMA CutEmpty == Cut(<< >>) = << << >> >>
<1>1. << >> \in Name /\ Len(<< >>) = 0
  BY DEF Name
<1>2. CutOf(<< >>)[0] = << << >> >>
  BY <1>1, CutEquation DEF IsCut
<1> QED
  BY <1>1, <1>2, CutDef

(* Every name is cut into names, at least one. *)
LEMMA CutType ==
  ASSUME NEW name \in Name
  PROVE  Cut(name) \in Parting
<1>1. Len(name) \in 0..Len(name)
  BY LenProperties DEF Name
<1> QED
  BY <1>1, CutDef, CutEquation

(* The empty name and the empty path. *)
LEMMA EmptyName == << >> \in Name /\ << >> \in Seq(Name)
BY DEF Name

(* Joining names is associative. *)
LEMMA NameConcat == \A a, b, c \in Name : a \o (b \o c) = (a \o b) \o c
<1> SUFFICES ASSUME NEW a \in Seq(Nat), NEW b \in Seq(Nat), NEW c \in Seq(Nat)
             PROVE  a \o (b \o c) = (a \o b) \o c
  BY DEF Name
<1>1. (a \o b) \o c = a \o (b \o c)
  BY ConcatAssociative
<1> QED
  BY <1>1

(* The front of two sequences one behind the other. *)
LEMMA FrontOfConcat ==
  ASSUME NEW S, NEW a \in Seq(S), NEW b \in Seq(S), b # << >>
  PROVE  Front(a \o b) = a \o Front(b) /\ Last(a \o b) = Last(b)
<1> PICK m \in Nat : m = Len(a)
  BY LenProperties
<1>1. Len(b) \in Nat \ {0}
  BY EmptySeq, LenProperties
<1> PICK n \in Nat : n = Len(b) - 1
  BY <1>1
<1> PICK r : r = a \o b
  OBVIOUS
<1>2. /\ r \in Seq(S) /\ Len(r) = m + n + 1
      /\ \A i \in 1..(m + n + 1) : r[i] = IF i <= m THEN a[i] ELSE b[i - m]
  BY ConcatProperties
<1>3. /\ Front(b) \in Seq(S) /\ Len(Front(b)) = n
      /\ \A k \in 1..n : Front(b)[k] = b[k]
  <2>1. \A i \in 1..n : b[i] \in S
    BY ElementOfSeq
  <2>2. /\ SubSeq(b, 1, n) \in Seq(S) /\ Len(SubSeq(b, 1, n)) = IF 1 <= n THEN n - 1 + 1 ELSE 0
        /\ \A i \in 1..(n - 1 + 1) : SubSeq(b, 1, n)[i] = b[1 + i - 1]
    BY <2>1, SubSeqProperties
  <2> QED
    BY <2>2 DEF Front
<1>4. /\ Front(r) \in Seq(S) /\ Len(Front(r)) = m + n
      /\ \A k \in 1..(m + n) : Front(r)[k] = r[k]
  <2>1. \A i \in 1..(m + n) : r[i] \in S
    BY <1>2, ElementOfSeq
  <2>2. /\ SubSeq(r, 1, m + n) \in Seq(S)
        /\ Len(SubSeq(r, 1, m + n)) = IF 1 <= m + n THEN (m + n) - 1 + 1 ELSE 0
        /\ \A i \in 1..((m + n) - 1 + 1) : SubSeq(r, 1, m + n)[i] = r[1 + i - 1]
    BY <2>1, SubSeqProperties
  <2> QED
    BY <1>2, <2>2 DEF Front
<1>5. /\ a \o Front(b) \in Seq(S) /\ Len(a \o Front(b)) = m + n
      /\ \A i \in 1..(m + n) : (a \o Front(b))[i] = IF i <= m THEN a[i] ELSE Front(b)[i - m]
  <2> PICK f \in Seq(S) : f = Front(b) /\ Len(f) = n
    BY <1>3
  <2>1. /\ a \o f \in Seq(S) /\ Len(a \o f) = m + n
        /\ \A i \in 1..(m + n) : (a \o f)[i] = IF i <= m THEN a[i] ELSE f[i - m]
    <3>1. /\ a \o f \in Seq(S) /\ Len(a \o f) = Len(a) + Len(f)
          /\ \A i \in 1..(Len(a) + Len(f)) :
               (a \o f)[i] = IF i <= Len(a) THEN a[i] ELSE f[i - Len(a)]
      BY ConcatProperties
    <3> QED
      BY <3>1
  <2> QED
    BY <2>1
<1>6. ASSUME NEW i \in 1..(m + n) PROVE Front(r)[i] = (a \o Front(b))[i]
  <2>1. CASE i <= m
    BY <1>2, <1>4, <1>5, <2>1
  <2>2. CASE ~(i <= m)
    <3>1. i - m \in 1..n
      BY <2>2
    <3> QED
      BY <1>2, <1>3, <1>4, <1>5, <2>2, <3>1
  <2> QED
    BY <2>1, <2>2
<1>7. Front(r) = a \o Front(b)
  BY <1>4, <1>5, <1>6, SeqEqual
<1>8. Last(r) = Last(b)
  BY <1>2 DEF Last
<1> QED
  BY <1>7, <1>8

(* The parts of two names with a slash in between. *)
LEMMA CutConcat ==
  ASSUME NEW s \in Name
  PROVE  \A t \in Name : Cut(s \o <<SLASH>> \o t) = Cut(s) \o Cut(t)
<1> PICK r : r = s \o <<SLASH>>
  OBVIOUS
<1>1. r \in Name /\ r = Append(s, SLASH)
  BY AppendIsConcat DEF Name, SLASH
<1>2. Cut(s) \in Seq(Name) /\ Cut(s) \in Parting
  BY CutType DEF Parting
<1> DEFINE T == {t \in Name : Cut(r \o t) = Cut(s) \o Cut(t)}
<1>3. << >> \in T
  <2>1. Cut(r) = Append(Cut(s), << >>)
    <3>1. SLASH \in Nat
      BY DEF SLASH
    <3> QED
      BY <1>1, <3>1, CutAppend DEF CutStep
  <2>2. Append(Cut(s), << >>) = Cut(s) \o << << >> >>
    <3>1. << >> \in Name
      BY DEF Name
    <3> QED
      BY <1>2, <3>1, AppendIsConcat
  <2>3. r \o << >> = r
    BY <1>1, ConcatEmptySeq DEF Name
  <2> QED
    BY <2>1, <2>2, <2>3, CutEmpty, EmptyName
<1>4. ASSUME NEW t \in Seq(Nat), NEW c \in Nat, t \in T PROVE Append(t, c) \in T
  <2>1. r \o Append(t, c) = Append(r \o t, c) /\ r \o t \in Name /\ Append(t, c) \in Name
    <3>1. r \o t \in Seq(Nat)
      BY <1>1, ConcatProperties DEF Name
    <3>2. <<c>> \in Seq(Nat)
      OBVIOUS
    <3>3. (r \o t) \o <<c>> = r \o (t \o <<c>>)
      <4>1. r \in Seq(Nat) /\ t \in Seq(Nat)
        BY <1>1 DEF Name
      <4> QED
        BY ONLY <3>2, <4>1, ConcatAssociative
    <3> QED
      BY <3>1, <3>3, AppendIsConcat, AppendProperties DEF Name
  <2>2. t \in Name /\ Cut(r \o t) = Cut(s) \o Cut(t)
    BY <1>4
  <2>3. Cut(Append(r \o t, c)) = CutStep(Cut(s) \o Cut(t), c)
    BY <2>1, <2>2, CutAppend
  <2>4. Cut(Append(t, c)) = CutStep(Cut(t), c) /\ Cut(t) \in Parting
    BY <2>2, CutAppend
  <2> PICK a \in Seq(Name) : a = Cut(s)
    BY <1>2
  <2> PICK b \in Parting : b = Cut(t)
    BY <2>4
  <2>5. CutStep(a \o b, c) = a \o CutStep(b, c)
    <3>0. b \in Seq(Name)
      BY DEF Parting
    <3>1. CASE c = SLASH
      <4> PICK e \in Name : e = << >>
        BY EmptyName
      <4>1. a \o b \in Seq(Name) /\ <<e>> \in Seq(Name)
        BY <3>0, ConcatProperties
      <4>2. Append(a \o b, e) = (a \o b) \o <<e>> /\ Append(b, e) = b \o <<e>>
        BY <3>0, <4>1, AppendIsConcat
      <4>3. (a \o b) \o <<e>> = a \o (b \o <<e>>)
        BY <3>0, <4>1, ConcatAssociative
      <4> QED
        BY <3>1, <4>2, <4>3 DEF CutStep
    <3>2. CASE c # SLASH
      <4>1. Front(a \o b) = a \o Front(b) /\ Last(a \o b) = Last(b)
        BY <3>0, FrontOfConcat DEF Parting
      <4> PICK e \in Name : e = Append(Last(b), c)
        BY PartingFacts, AppendProperties DEF Name
      <4>2. CutStep(a \o b, c) = (a \o Front(b)) \o <<e>>
        BY <3>2, <4>1 DEF CutStep
      <4>3. CutStep(b, c) = Front(b) \o <<e>>
        BY <3>2 DEF CutStep
      <4>4. Front(b) \in Seq(Name) /\ <<e>> \in Seq(Name)
        BY PartingFacts
      <4>5. (a \o Front(b)) \o <<e>> = a \o (Front(b) \o <<e>>)
        <5>1. a \in Seq(Name)
          BY PartingFacts
        <5> QED
          BY ONLY <4>4, <5>1, ConcatAssociative
      <4> QED
        BY <4>2, <4>3, <4>5
    <3> QED
      BY <3>1, <3>2
  <2> QED
    BY <2>1, <2>3, <2>4, <2>5
<1> HIDE DEF T
<1>5. \A t \in Seq(Nat) : t \in T
  BY <1>3, <1>4, SeqInduction
<1> QED
  BY <1>5 DEF T, Name

Slashless(s) == \A i \in 1..Len(s) : s[i] # SLASH

(* A name without a slash is one part. *)
LEMMA CutWhole == \A s \in Name : Slashless(s) => Cut(s) = <<s>>
<1> DEFINE T == {s \in Name : Slashless(s) => Cut(s) = <<s>>}
<1>1. << >> \in T
  BY CutEmpty DEF Name
<1>2. ASSUME NEW s \in Seq(Nat), NEW c \in Nat, s \in T PROVE Append(s, c) \in T
  <2> PICK t : t = Append(s, c)
    OBVIOUS
  <2> PICK n \in Nat : n = Len(s)
    BY LenProperties
  <2>1. t \in Name /\ Len(t) = n + 1 /\ t[n + 1] = c /\ \A k \in 1..n : t[k] = s[k]
    BY AppendProperties DEF Name
  <2> SUFFICES ASSUME Slashless(t) PROVE Cut(t) = <<t>>
    BY <2>1
  <2>2. Slashless(s) /\ c # SLASH
    BY <2>1 DEF Slashless
  <2>3. Cut(s) = <<s>>
    BY <1>2, <2>2
  <2>4. Cut(t) = CutStep(<<s>>, c)
    BY <2>3, CutAppend DEF Name
  <2>5. Last(<<s>>) = s /\ Front(<<s>>) = << >>
    BY SubSeqEmpty DEF Last, Front
  <2>6. << >> \o <<t>> = <<t>>
    BY ConcatEmptySeq
  <2> QED
    BY <2>2, <2>4, <2>5, <2>6 DEF CutStep
<1> HIDE DEF T
<1>3. \A s \in Seq(Nat) : s \in T
  BY <1>1, <1>2, SeqInduction
<1> QED
  BY <1>3 DEF T, Name

-----------------------------------------------------------------------------
(* The parts that are not empty. *)

DenseStep(path, c) == IF c = << >> THEN path ELSE Append(path, c)

IsDense(parts, path) ==
  path = [k \in 0..Len(parts) |-> IF k = 0 THEN << >> ELSE DenseStep(path[k - 1], parts[k])]

DenseOf(parts) == CHOOSE path : IsDense(parts, path)

Dense(parts) == DenseOf(parts)[Len(parts)]

(* Path by the function that its definition chooses. *)
LEMMA PathDef ==
  ASSUME NEW name
  PROVE  Path(name) = Dense(Cut(name))
BY DEF Path, Dense, DenseOf, IsDense, DenseStep

(* One part more makes a path of a path. *)
LEMMA DenseStepType ==
  ASSUME NEW path \in Seq(Name), NEW c \in Name
  PROVE  DenseStep(path, c) \in Seq(Name)
BY AppendProperties DEF DenseStep

(* The recursive function of Path satisfies its equation. *)
LEMMA DenseEquation ==
  ASSUME NEW parts \in Seq(Name)
  PROVE  /\ IsDense(parts, DenseOf(parts))
         /\ \A k \in 0..Len(parts) : DenseOf(parts)[k] \in Seq(Name)
<1> PICK n \in Nat : n = Len(parts)
  BY LenProperties
<1> PICK V : V = Seq(Name)
  OBVIOUS
<1> PICK step : step = [x \in (1..n) \X V |-> DenseStep(x[2], parts[x[1]])]
  OBVIOUS
<1>1. step \in [(1..n) \X V -> V]
  BY DenseStepType, ElementOfSeq
<1>2. << >> \in V
  BY EmptySeq
<1>3. PICK f \in [0..n -> V] : IsIteration(f, n, << >>, step)
  BY <1>1, <1>2, Recursion
<1>4. ASSUME NEW k \in 0..n, k # 0 PROVE step[<<k, f[k - 1]>>] = DenseStep(f[k - 1], parts[k])
  <2>1. k - 1 \in 0..n /\ k \in 1..n
    BY <1>4
  <2>2. <<k, f[k - 1]>> \in (1..n) \X V
    BY <2>1
  <2> QED
    BY <2>2
<1>5. IsDense(parts, f)
  BY <1>3, <1>4 DEF IsDense, IsIteration
<1>6. IsDense(parts, DenseOf(parts))
  BY <1>5, Zenon DEF DenseOf
<1> PICK g : g = DenseOf(parts)
  OBVIOUS
<1> DEFINE T == {k \in Nat : k <= n => g[k] \in V}
<1>7. \A k \in 0..n : g[k] = IF k = 0 THEN << >> ELSE DenseStep(g[k - 1], parts[k])
  BY <1>6 DEF IsDense
<1>8. 0 \in T
  <2>1. g[0] = << >>
    BY <1>7
  <2> QED
    BY <1>2, <2>1
<1>9. ASSUME NEW k \in Nat, k \in T PROVE k + 1 \in T
  <2> SUFFICES ASSUME k + 1 <= n PROVE g[k + 1] \in V
    OBVIOUS
  <2>1. k + 1 \in 1..n /\ (k + 1) - 1 = k /\ g[k] \in V
    BY <1>9
  <2>2. parts[k + 1] \in Name
    BY <2>1, ElementOfSeq
  <2>3. g[k + 1] = DenseStep(g[k], parts[k + 1])
    BY <1>7, <2>1
  <2> QED
    BY <2>1, <2>2, <2>3, DenseStepType
<1> HIDE DEF T
<1>10. \A k \in Nat : k \in T
  BY <1>8, <1>9, Induction
<1> QED
  BY <1>6, <1>10 DEF T

(* No parts, no path. *)
LEMMA DenseEmpty == Dense(<< >>) = << >>
<1>1. << >> \in Seq(Name) /\ Len(<< >>) = 0
  OBVIOUS
<1> PICK e \in Seq(Name) : e = << >>
  BY <1>1
<1>2. DenseOf(e)[0] = << >>
  <2>1. IsDense(e, DenseOf(e)) /\ Len(e) = 0
    BY DenseEquation
  <2> QED
    BY <2>1 DEF IsDense
<1> QED
  BY <1>1, <1>2 DEF Dense

(* One part more: it is left out if it is empty. *)
LEMMA DenseAppend ==
  ASSUME NEW s \in Seq(Name), NEW c \in Name
  PROVE  Dense(Append(s, c)) = DenseStep(Dense(s), c) /\ Dense(s) \in Seq(Name)
<1> PICK t : t = Append(s, c)
  OBVIOUS
<1> PICK n \in Nat : n = Len(s)
  BY LenProperties
<1>1. t \in Seq(Name) /\ Len(t) = n + 1 /\ t[n + 1] = c /\ \A k \in 1..n : t[k] = s[k]
  BY AppendProperties
<1> PICK f : f = DenseOf(s)
  OBVIOUS
<1> PICK g : g = DenseOf(t)
  OBVIOUS
<1>2. \A k \in 0..n : f[k] = IF k = 0 THEN << >> ELSE DenseStep(f[k - 1], s[k])
  BY DenseEquation DEF IsDense
<1>3. \A k \in 0..(n + 1) : g[k] = IF k = 0 THEN << >> ELSE DenseStep(g[k - 1], t[k])
  BY <1>1, DenseEquation DEF IsDense
<1> DEFINE T == {k \in Nat : k <= n => g[k] = f[k]}
<1>4. 0 \in T
  BY <1>2, <1>3
<1>5. ASSUME NEW k \in Nat, k \in T PROVE k + 1 \in T
  <2> SUFFICES ASSUME k + 1 <= n PROVE g[k + 1] = f[k + 1]
    OBVIOUS
  <2>1. (k + 1) - 1 = k /\ k + 1 # 0 /\ g[k] = f[k] /\ t[k + 1] = s[k + 1]
    BY <1>1, <1>5
  <2>2. f[k + 1] = DenseStep(f[k], s[k + 1])
    BY <1>2, <2>1
  <2>3. g[k + 1] = DenseStep(g[k], t[k + 1])
    BY <1>3, <2>1
  <2> QED
    BY <2>1, <2>2, <2>3
<1> HIDE DEF T
<1>6. n \in T
  BY <1>4, <1>5, Induction
<1>7. g[n] = f[n]
  BY <1>6 DEF T
<1>8. g[n + 1] = DenseStep(g[n], c)
  <2>1. (n + 1) - 1 = n /\ n + 1 # 0 /\ n + 1 \in 0..(n + 1)
    OBVIOUS
  <2> QED
    BY <1>1, <1>3, <2>1
<1>9. f[n] \in Seq(Name)
  BY DenseEquation
<1> QED
  BY <1>1, <1>7, <1>8, <1>9 DEF Dense

(* A path is a sequence of names. *)
LEMMA DenseType ==
  ASSUME NEW s \in Seq(Name)
  PROVE  Dense(s) \in Seq(Name)
<1>1. Len(s) \in 0..Len(s)
  BY LenProperties
<1> QED
  BY <1>1, DenseEquation DEF Dense

(* The path of two sequences of parts. *)
LEMMA DenseConcat ==
  ASSUME NEW a \in Seq(Name)
  PROVE  \A b \in Seq(Name) : Dense(a \o b) = Dense(a) \o Dense(b)
<1> DEFINE T == {b \in Seq(Name) : Dense(a \o b) = Dense(a) \o Dense(b)}
<1>0. Dense(a) \in Seq(Name)
  BY DenseType
<1>1. << >> \in T
  BY <1>0, DenseEmpty, ConcatEmptySeq
<1>2. ASSUME NEW b \in Seq(Name), NEW c \in Name, b \in T PROVE Append(b, c) \in T
  <2>1. Append(b, c) \in Seq(Name) /\ a \o b \in Seq(Name) /\ <<c>> \in Seq(Name)
    BY AppendProperties, ConcatProperties
  <2>2. a \o Append(b, c) = Append(a \o b, c)
    <3>1. (a \o b) \o <<c>> = a \o (b \o <<c>>)
      BY <2>1, ConcatAssociative
    <3> QED
      BY <2>1, <3>1, AppendIsConcat
  <2>3. Dense(Append(a \o b, c)) = DenseStep(Dense(a) \o Dense(b), c)
    BY <1>2, <2>1, DenseAppend
  <2>4. Dense(Append(b, c)) = DenseStep(Dense(b), c) /\ Dense(b) \in Seq(Name)
    BY DenseAppend
  <2> PICK p \in Seq(Name) : p = Dense(a)
    BY <1>0
  <2> PICK q \in Seq(Name) : q = Dense(b)
    BY <2>4
  <2>5. DenseStep(p \o q, c) = p \o DenseStep(q, c)
    <3>1. p \o q \in Seq(Name)
      BY ConcatProperties
    <3>2. Append(p \o q, c) = (p \o q) \o <<c>> /\ Append(q, c) = q \o <<c>>
      BY <3>1, AppendIsConcat
    <3>3. (p \o q) \o <<c>> = p \o (q \o <<c>>)
      BY <2>1, ConcatAssociative
    <3> QED
      BY <3>2, <3>3 DEF DenseStep
  <2> QED
    BY <2>1, <2>2, <2>3, <2>4, <2>5
<1> HIDE DEF T
<1>3. \A b \in Seq(Name) : b \in T
  BY <1>1, <1>2, SeqInduction
<1> QED
  BY <1>3 DEF T

(* The path of a name is made of parts that are not empty. *)
LEMMA PathType ==
  ASSUME NEW name \in Name
  PROVE  Path(name) \in Seq(Name)
BY PathDef, CutType, DenseType DEF Parting

(* The path of two names with a slash in between. *)
LEMMA PathConcat ==
  ASSUME NEW s \in Name, NEW t \in Name
  PROVE  Path(s \o <<SLASH>> \o t) = Path(s) \o Path(t)
<1>1. Cut(s \o <<SLASH>> \o t) = Cut(s) \o Cut(t)
  BY CutConcat
<1>2. Cut(s) \in Seq(Name) /\ Cut(t) \in Seq(Name)
  BY CutType DEF Parting
<1> QED
  BY <1>1, <1>2, PathDef, DenseConcat

(* The empty name is the root. *)
LEMMA PathEmpty == Path(<< >>) = << >>
<1>1. << >> \in Name /\ << >> \in Seq(Name) /\ Append(<< >>, << >>) = << << >> >>
  BY DEF Name
<1>2. Dense(<< << >> >>) = << >>
  BY <1>1, DenseAppend, DenseEmpty DEF DenseStep
<1> QED
  BY <1>2, PathDef, CutEmpty

(* A slash behind a name does not change its path. *)
LEMMA PathOfSlashed ==
  ASSUME NEW s \in Name
  PROVE  Path(Append(s, SLASH)) = Path(s)
<1>1. << >> \in Name /\ SLASH \in Nat /\ <<SLASH>> \in Name
  BY DEF Name, SLASH
<1>2. s \o <<SLASH>> \in Name
  BY <1>1, ConcatProperties DEF Name
<1>3. s \o <<SLASH>> \o << >> = Append(s, SLASH)
  BY <1>1, <1>2, ConcatEmptySeq, AppendIsConcat DEF Name
<1>4. Path(s) \o << >> = Path(s)
  BY PathType, ConcatEmptySeq
<1> QED
  BY <1>1, <1>3, <1>4, PathConcat, PathEmpty

(* The path of the name of one file. *)
LEMMA PathOfFileName ==
  ASSUME NEW c \in FileName
  PROVE  Path(c) = <<c>> /\ Cut(c) = <<c>>
<1>1. c \in Name /\ Slashless(c) /\ c # << >>
  BY DEF FileName, Name, Slashless
<1>2. Cut(c) = <<c>>
  BY <1>1, CutWhole
<1>3. << >> \in Seq(Name) /\ Append(<< >>, c) = <<c>>
  OBVIOUS
<1>4. Dense(<<c>>) = <<c>>
  BY <1>1, <1>3, DenseAppend, DenseEmpty DEF DenseStep
<1> QED
  BY <1>2, <1>4, PathDef

-----------------------------------------------------------------------------
(* Joining. *)

Holds(s, x) == \E k \in 1..Len(s) : s[k] = x

Once(s) == \A j, k \in 1..Len(s) : s[j] = s[k] => j = k

(* A function on 1..n is a sequence. *)
LEMMA FunctionIsSeq ==
  ASSUME NEW S, NEW n \in Nat, NEW f \in [1..n -> S]
  PROVE  f \in Seq(S) /\ Len(f) = n
<1>1. f \in Seq(S)
  BY SeqDef
<1> QED
  BY <1>1, LenProperties

IsFlatten(seqs, flat) ==
  flat = [i \in 1..Len(seqs) |-> IF i = 1 THEN seqs[i] ELSE flat[i - 1] \o seqs[i]]

FlattenOf(seqs) == CHOOSE flat : IsFlatten(seqs, flat)

(* FlattenSeq by the function that its definition chooses. *)
LEMMA FlattenDef ==
  ASSUME NEW seqs, Len(seqs) # 0
  PROVE  FlattenSeq(seqs) = FlattenOf(seqs)[Len(seqs)]
BY DEF FlattenSeq, FlattenOf, IsFlatten

(* The recursive function of FlattenSeq satisfies its equation. *)
LEMMA FlattenEquation ==
  ASSUME NEW S, NEW seqs \in Seq(Seq(S))
  PROVE  /\ IsFlatten(seqs, FlattenOf(seqs))
         /\ \A k \in 1..Len(seqs) : FlattenOf(seqs)[k] \in Seq(S)
<1> PICK n \in Nat : n = Len(seqs)
  BY LenProperties
<1> PICK V : V = Seq(S)
  OBVIOUS
<1> PICK base \in V : base = << >>
  BY EmptySeq
<1>0. \A i \in 1..n : seqs[i] \in V
  BY ElementOfSeq
<1> PICK step : step = [x \in (1..n) \X V |-> x[2] \o seqs[x[1]]]
  OBVIOUS
<1>1. step \in [(1..n) \X V -> V]
  BY <1>0, ConcatProperties
<1>2. PICK f \in [0..n -> V] : IsIteration(f, n, base, step)
  BY <1>1, Recursion
<1>3. \A k \in 0..n : f[k] = IF k = 0 THEN base ELSE step[<<k, f[k - 1]>>]
  BY <1>2 DEF IsIteration
<1> PICK g : g = [k \in 1..n |-> f[k]]
  OBVIOUS
<1>4. ASSUME NEW k \in 1..n PROVE g[k] = IF k = 1 THEN seqs[k] ELSE g[k - 1] \o seqs[k]
  <2> PICK l \in 0..n : l = k - 1
    OBVIOUS
  <2>1. l \in 0..n /\ k - 1 = l /\ k \in 0..n /\ k # 0 /\ g[k] = f[k] /\ f[k - 1] \in V
    <3>1. f[l] \in V
      OBVIOUS
    <3> QED
      BY <3>1
  <2>2. <<k, f[k - 1]>> \in (1..n) \X V
    BY <2>1
  <2>3. g[k] = f[k - 1] \o seqs[k]
    <3>1. step[<<k, f[k - 1]>>] = f[k - 1] \o seqs[k]
      BY <2>2
    <3> QED
      BY <1>3, <2>1, <3>1
  <2>4. CASE k = 1
    <3>1. f[k - 1] = << >>
      <4>1. k - 1 = 0 /\ 0 \in 0..n
        BY <2>4
      <4>2. f[0] = base
        BY <1>3, <4>1
      <4> QED
        BY <4>1, <4>2
    <3>2. << >> \o seqs[k] = seqs[k]
      BY <1>0, ConcatEmptySeq
    <3> QED
      BY <2>3, <2>4, <3>1, <3>2
  <2>5. CASE k # 1
    <3>1. k - 1 \in 1..n
      BY <2>5
    <3>2. g[k - 1] = f[k - 1]
      BY <3>1
    <3> QED
      BY <2>3, <2>5, <3>2
  <2> QED
    BY <2>4, <2>5
<1>5. IsFlatten(seqs, g)
  BY <1>4 DEF IsFlatten
<1>6. IsFlatten(seqs, FlattenOf(seqs))
  BY <1>5, Zenon DEF FlattenOf
<1> PICK h : h = FlattenOf(seqs)
  OBVIOUS
<1>7. \A k \in 1..n : h[k] = IF k = 1 THEN seqs[k] ELSE h[k - 1] \o seqs[k]
  BY <1>6 DEF IsFlatten
<1> DEFINE T == {k \in Nat : k \in 1..n => h[k] \in V}
<1>8. 0 \in T
  OBVIOUS
<1>9. ASSUME NEW k \in Nat, k \in T PROVE k + 1 \in T
  <2> SUFFICES ASSUME k + 1 <= n PROVE h[k + 1] \in V
    OBVIOUS
  <2> PICK j \in 1..n : j = k + 1
    OBVIOUS
  <2>1. CASE k = 0
    BY <1>0, <1>7, <2>1
  <2>2. CASE k # 0
    <3>1. j # 1 /\ j - 1 = k /\ h[k] \in V
      BY <1>9, <2>2
    <3>2. h[j] = h[k] \o seqs[j]
      BY <1>7, <3>1
    <3> QED
      BY <1>0, <3>1, <3>2, ConcatProperties
  <2> QED
    BY <2>1, <2>2
<1> HIDE DEF T
<1>10. \A k \in Nat : k \in T
  BY <1>8, <1>9, Induction
<1> QED
  BY <1>6, <1>10 DEF T

(* Nothing flattened is nothing. *)
LEMMA FlattenEmpty == FlattenSeq(<< >>) = << >>
BY DEF FlattenSeq

(* A sequence more. *)
LEMMA FlattenAppend ==
  ASSUME NEW S, NEW s \in Seq(Seq(S)), NEW e \in Seq(S)
  PROVE  FlattenSeq(Append(s, e)) = FlattenSeq(s) \o e /\ FlattenSeq(s) \in Seq(S)
<1> PICK t : t = Append(s, e)
  OBVIOUS
<1> PICK n \in Nat : n = Len(s)
  BY LenProperties
<1>1. t \in Seq(Seq(S)) /\ Len(t) = n + 1 /\ t[n + 1] = e /\ \A k \in 1..n : t[k] = s[k]
  BY AppendProperties
<1> PICK f : f = FlattenOf(s)
  OBVIOUS
<1> PICK g : g = FlattenOf(t)
  OBVIOUS
<1>2. \A k \in 1..n : f[k] = IF k = 1 THEN s[k] ELSE f[k - 1] \o s[k]
  BY FlattenEquation DEF IsFlatten
<1>3. \A k \in 1..(n + 1) : g[k] = IF k = 1 THEN t[k] ELSE g[k - 1] \o t[k]
  <2>1. IsFlatten(t, g)
    BY <1>1, FlattenEquation
  <2> QED
    BY <1>1, <2>1 DEF IsFlatten
<1> DEFINE T == {k \in Nat : k \in 1..n => g[k] = f[k]}
<1>4. 0 \in T
  OBVIOUS
<1>5. ASSUME NEW k \in Nat, k \in T PROVE k + 1 \in T
  <2> SUFFICES ASSUME k + 1 <= n PROVE g[k + 1] = f[k + 1]
    OBVIOUS
  <2> PICK j \in 1..n : j = k + 1
    OBVIOUS
  <2>1. t[j] = s[j] /\ j \in 1..(n + 1)
    BY <1>1
  <2>2. CASE k = 0
    BY <1>2, <1>3, <2>1, <2>2
  <2>3. CASE k # 0
    <3>1. j # 1 /\ j - 1 = k /\ g[k] = f[k]
      BY <1>5, <2>3
    <3>2. f[j] = f[k] \o s[j]
      BY <1>2, <3>1
    <3>3. g[j] = g[k] \o t[j]
      BY <1>3, <2>1, <3>1
    <3> QED
      BY <2>1, <3>1, <3>2, <3>3
  <2> QED
    BY <2>2, <2>3
<1> HIDE DEF T
<1>6. \A k \in Nat : k \in T
  BY <1>4, <1>5, Induction
<1>7. FlattenSeq(t) = g[n + 1]
  <2>1. Len(t) # 0
    BY <1>1
  <2>2. FlattenSeq(t) = FlattenOf(t)[Len(t)]
    BY <2>1, FlattenDef
  <2> QED
    BY <1>1, <2>2
<1>8. CASE n = 0
  <2>1. s = << >>
    BY <1>8, EmptySeq
  <2>2. g[n + 1] = e
    BY <1>1, <1>3, <1>8
  <2>3. << >> \o e = e /\ << >> \in Seq(S)
    BY ConcatEmptySeq
  <2> QED
    BY <1>7, <2>1, <2>2, <2>3, FlattenEmpty
<1>9. CASE n # 0
  <2>1. FlattenSeq(s) = f[n]
    BY <1>9, FlattenDef
  <2>2. f[n] \in Seq(S)
    BY <1>9, FlattenEquation
  <2>3. g[n] = f[n]
    BY <1>6, <1>9 DEF T
  <2>4. g[n + 1] = g[n] \o e
    <3>1. n + 1 # 1 /\ (n + 1) - 1 = n /\ n + 1 \in 1..(n + 1)
      BY <1>9
    <3> QED
      BY <1>1, <1>3, <3>1
  <2> QED
    BY <1>7, <2>1, <2>2, <2>3, <2>4
<1> QED
  BY <1>8, <1>9

(* Sequences over a set are flattened to a sequence over it. *)
LEMMA FlattenType ==
  ASSUME NEW S, NEW s \in Seq(Seq(S))
  PROVE  FlattenSeq(s) \in Seq(S)
<1>1. << >> \in Seq(S)
  OBVIOUS
<1> QED
  BY <1>1, FlattenAppend

(* What two sequences hold together. *)
LEMMA HoldsConcat ==
  ASSUME NEW S, NEW f \in Seq(S), NEW e \in Seq(S)
  PROVE  \A x : Holds(f \o e, x) <=> Holds(f, x) \/ Holds(e, x)
<1> PICK m \in Nat : m = Len(f)
  BY LenProperties
<1> PICK l \in Nat : l = Len(e)
  BY LenProperties
<1> PICK g : g = f \o e
  OBVIOUS
<1>1. /\ Len(g) = m + l
      /\ \A j \in 1..(m + l) : g[j] = IF j <= m THEN f[j] ELSE e[j - m]
  BY ConcatProperties
<1> SUFFICES ASSUME NEW x PROVE Holds(g, x) <=> Holds(f, x) \/ Holds(e, x)
  OBVIOUS
<1>2. ASSUME NEW j \in 1..(m + l), g[j] = x PROVE Holds(f, x) \/ Holds(e, x)
  <2>1. CASE j <= m
    <3>1. j \in 1..m /\ f[j] = x
      BY <1>1, <1>2, <2>1
    <3> QED
      BY <3>1 DEF Holds
  <2>2. CASE ~(j <= m)
    <3>1. j - m \in 1..l /\ e[j - m] = x
      BY <1>1, <1>2, <2>2
    <3> QED
      BY <3>1 DEF Holds
  <2> QED
    BY <2>1, <2>2
<1>3. ASSUME NEW j \in 1..m, f[j] = x PROVE Holds(g, x)
  <2>1. j \in 1..(m + l) /\ g[j] = x
    BY <1>1, <1>3
  <2> QED
    BY <1>1, <2>1 DEF Holds
<1>4. ASSUME NEW k \in 1..l, e[k] = x PROVE Holds(g, x)
  <2>1. m + k \in 1..(m + l) /\ ~(m + k <= m) /\ (m + k) - m = k
    OBVIOUS
  <2>2. g[m + k] = x
    BY <1>1, <1>4, <2>1
  <2> QED
    BY <1>1, <2>1, <2>2 DEF Holds
<1> QED
  BY <1>1, <1>2, <1>3, <1>4 DEF Holds

(* What is joined holds what its parts hold, and nothing else. *)
LEMMA FlattenRange ==
  ASSUME NEW S
  PROVE  \A s \in Seq(Seq(S)) : \A x :
           Holds(FlattenSeq(s), x) <=> \E i \in 1..Len(s) : Holds(s[i], x)
<1> DEFINE Of(s, x) == \E i \in 1..Len(s) : Holds(s[i], x)
           T == {s \in Seq(Seq(S)) : \A x : Holds(FlattenSeq(s), x) <=> Of(s, x)}
<1>1. << >> \in T
  BY FlattenEmpty DEF Holds
<1>2. ASSUME NEW s \in Seq(Seq(S)), NEW e \in Seq(S), s \in T PROVE Append(s, e) \in T
  <2> PICK t : t = Append(s, e)
    OBVIOUS
  <2> PICK n \in Nat : n = Len(s)
    BY LenProperties
  <2>1. t \in Seq(Seq(S)) /\ Len(t) = n + 1 /\ t[n + 1] = e /\ \A k \in 1..n : t[k] = s[k]
    BY AppendProperties
  <2>2. FlattenSeq(t) = FlattenSeq(s) \o e /\ FlattenSeq(s) \in Seq(S)
    BY FlattenAppend
  <2>3. \A x : Holds(FlattenSeq(t), x) <=> Holds(FlattenSeq(s), x) \/ Holds(e, x)
    BY <2>2, HoldsConcat
  <2>4. \A x : Of(t, x) <=> Of(s, x) \/ Holds(e, x)
    <3>1. \A i \in 1..(n + 1) : i \in 1..n \/ i = n + 1
      OBVIOUS
    <3>2. \A i \in 1..n : i \in 1..(n + 1)
      OBVIOUS
    <3>3. n + 1 \in 1..(n + 1)
      OBVIOUS
    <3> QED
      BY <2>1, <3>1, <3>2, <3>3
  <2> HIDE DEF Of
  <2> QED
    BY <1>2, <2>1, <2>3, <2>4
<1> HIDE DEF T
<1>3. \A s \in Seq(Seq(S)) : s \in T
  BY <1>1, <1>2, SeqInduction
<1> QED
  BY <1>3 DEF T

(* It holds nothing twice if they do not, and share nothing. *)
Unmixed(s) ==
  /\ \A i \in 1..Len(s) : Once(s[i])
  /\ \A i, j \in 1..Len(s) : \A x : Holds(s[i], x) /\ Holds(s[j], x) => i = j

(* Two sequences without repetitions, and nothing in common, have none together. *)
LEMMA OnceConcat ==
  ASSUME NEW S, NEW f \in Seq(S), NEW e \in Seq(S), Once(f), Once(e),
         \A x : ~(Holds(f, x) /\ Holds(e, x))
  PROVE  Once(f \o e)
<1> PICK m \in Nat : m = Len(f)
  BY LenProperties
<1> PICK l \in Nat : l = Len(e)
  BY LenProperties
<1> PICK g : g = f \o e
  OBVIOUS
<1>1. /\ Len(g) = m + l
      /\ \A j \in 1..(m + l) : g[j] = IF j <= m THEN f[j] ELSE e[j - m]
  BY ConcatProperties
<1>2. \A j \in 1..m, k \in 1..l : f[j] # e[k]
  BY DEF Holds
<1>3. \A j \in 1..(m + l) : \/ j \in 1..m /\ g[j] = f[j]
                            \/ j - m \in 1..l /\ g[j] = e[j - m]
  BY <1>1
<1> SUFFICES ASSUME NEW j \in 1..(m + l), NEW k \in 1..(m + l), g[j] = g[k] PROVE j = k
  BY <1>1 DEF Once
<1>4. CASE j \in 1..m /\ g[j] = f[j] /\ k \in 1..m /\ g[k] = f[k]
  BY <1>4 DEF Once
<1>5. CASE j - m \in 1..l /\ g[j] = e[j - m] /\ k - m \in 1..l /\ g[k] = e[k - m]
  <2>1. j - m = k - m
    BY <1>5 DEF Once
  <2> QED
    BY <2>1
<1>6. CASE j \in 1..m /\ g[j] = f[j] /\ k - m \in 1..l /\ g[k] = e[k - m]
  BY <1>2, <1>6
<1>7. CASE k \in 1..m /\ g[k] = f[k] /\ j - m \in 1..l /\ g[j] = e[j - m]
  BY <1>2, <1>7
<1> QED
  BY <1>3, <1>4, <1>5, <1>6, <1>7

(* Nor have many. *)
LEMMA FlattenOnce ==
  ASSUME NEW S
  PROVE  \A s \in Seq(Seq(S)) : Unmixed(s) => Once(FlattenSeq(s))
<1> DEFINE T == {s \in Seq(Seq(S)) : Unmixed(s) => Once(FlattenSeq(s))}
<1>1. << >> \in T
  BY FlattenEmpty DEF Once
<1>2. ASSUME NEW s \in Seq(Seq(S)), NEW e \in Seq(S), s \in T PROVE Append(s, e) \in T
  <2> PICK t : t = Append(s, e)
    OBVIOUS
  <2> PICK n \in Nat : n = Len(s)
    BY LenProperties
  <2>1. t \in Seq(Seq(S)) /\ Len(t) = n + 1 /\ t[n + 1] = e /\ \A k \in 1..n : t[k] = s[k]
    BY AppendProperties
  <2>2. FlattenSeq(t) = FlattenSeq(s) \o e /\ FlattenSeq(s) \in Seq(S)
    BY FlattenAppend
  <2>3. \A i \in 1..n : i \in 1..(n + 1) /\ i # n + 1
    OBVIOUS
  <2>4. n + 1 \in 1..(n + 1)
    OBVIOUS
  <2> SUFFICES ASSUME Unmixed(t) PROVE Once(FlattenSeq(t))
    BY <2>1
  <2>5. Unmixed(s) /\ Once(e)
    BY <2>1, <2>3, <2>4 DEF Unmixed
  <2>6. Once(FlattenSeq(s))
    BY <1>2, <2>5
  <2>7. \A x : ~(Holds(FlattenSeq(s), x) /\ Holds(e, x))
    <3> SUFFICES ASSUME NEW x, Holds(FlattenSeq(s), x), Holds(e, x) PROVE FALSE
      OBVIOUS
    <3>1. PICK i \in 1..n : Holds(s[i], x)
      BY FlattenRange
    <3>2. Holds(t[i], x) /\ Holds(t[n + 1], x) /\ i \in 1..Len(t) /\ n + 1 \in 1..Len(t)
      BY <2>1, <2>3, <2>4, <3>1
    <3> QED
      BY <2>3, <3>2 DEF Unmixed
  <2> QED
    BY <2>2, <2>5, <2>6, <2>7, OnceConcat
<1> HIDE DEF T
<1>3. \A s \in Seq(Seq(S)) : s \in T
  BY <1>1, <1>2, SeqInduction
<1> QED
  BY <1>3 DEF T

(* The name of what is at cs below fname. *)
NameAt(fname, cs) == fname \o FlattenSeq([k \in DOMAIN cs |-> <<SLASH>> \o cs[k]])

(* A part with a slash before it is a name. *)
LEMMA SlashedType ==
  ASSUME NEW c \in Name
  PROVE  <<SLASH>> \o c \in Name
<1>1. <<SLASH>> \in Seq(Nat)
  BY DEF SLASH
<1> QED
  BY <1>1, ConcatProperties DEF Name

(* A name and a part, in whichever order they are joined. *)
LEMMA SlashConcat ==
  ASSUME NEW s \in Name, NEW t \in Name
  PROVE  s \o (<<SLASH>> \o t) = (s \o <<SLASH>>) \o t
<1>0. <<SLASH>> \in Name
  BY DEF SLASH, Name
<1> PICK l \in Name : l = <<SLASH>>
  BY <1>0
<1>1. s \o (l \o t) = (s \o l) \o t
  BY NameConcat
<1> QED
  BY <1>1

(* The name of what was asked for itself. *)
LEMMA NameAtEmpty ==
  ASSUME NEW fname \in Name
  PROVE  NameAt(fname, << >>) = fname
<1>1. [k \in DOMAIN << >> |-> <<SLASH>> \o << >>[k]] = << >>
  OBVIOUS
<1> QED
  BY <1>1, FlattenEmpty, ConcatEmptySeq DEF NameAt, Name

(* The name of an entry of a directory. *)
LEMMA NameAtAppend ==
  ASSUME NEW fname \in Name, NEW cs \in Seq(Name), NEW c \in Name
  PROVE  /\ NameAt(fname, cs) \in Name
         /\ NameAt(fname, Append(cs, c)) = NameAt(fname, cs) \o <<SLASH>> \o c
<1> PICK n \in Nat : n = Len(cs)
  BY LenProperties
<1> PICK ds : ds = Append(cs, c)
  OBVIOUS
<1>1. ds \in Seq(Name) /\ Len(ds) = n + 1 /\ ds[n + 1] = c /\ \A k \in 1..n : ds[k] = cs[k]
  BY AppendProperties
<1> PICK a : a = [k \in DOMAIN cs |-> <<SLASH>> \o cs[k]]
  OBVIOUS
<1> PICK b : b = [k \in DOMAIN ds |-> <<SLASH>> \o ds[k]]
  OBVIOUS
<1> PICK e \in Name : e = <<SLASH>> \o c
  BY SlashedType
<1>2. a \in Seq(Name) /\ Len(a) = n
  <2>1. DOMAIN cs = 1..n
    BY LenProperties
  <2>2. \A k \in 1..n : <<SLASH>> \o cs[k] \in Name
    BY SlashedType, ElementOfSeq
  <2>3. a = [k \in 1..n |-> <<SLASH>> \o cs[k]]
    BY <2>1
  <2>4. a \in [1..n -> Name]
    BY <2>2, <2>3, Zenon
  <2>5. a \in Seq(Name)
    BY <2>4, SeqDef, Zenon
  <2>6. Len(a) = n
    BY <2>4, <2>5, LenProperties
  <2> QED
    BY <2>5, <2>6
<1>3. b = Append(a, e)
  <2>1. DOMAIN ds = 1..(n + 1)
    BY <1>1, LenProperties
  <2>2. /\ Append(a, e) \in Seq(Name) /\ Len(Append(a, e)) = n + 1 /\ Append(a, e)[n + 1] = e
        /\ \A k \in 1..n : Append(a, e)[k] = a[k]
    BY <1>2, AppendProperties
  <2>3. \A k \in 1..(n + 1) : b[k] = <<SLASH>> \o ds[k]
    BY <2>1
  <2>4. \A k \in 1..n : a[k] = <<SLASH>> \o cs[k]
    BY <1>2
  <2>5. \A k \in 1..(n + 1) : b[k] = Append(a, e)[k]
    <3>1. \A k \in 1..n : b[k] = Append(a, e)[k]
      BY <1>1, <2>2, <2>3, <2>4
    <3>2. b[n + 1] = Append(a, e)[n + 1]
      BY <1>1, <2>2, <2>3
    <3>3. \A k \in 1..(n + 1) : k \in 1..n \/ k = n + 1
      OBVIOUS
    <3> QED
      BY <3>1, <3>2, <3>3
  <2>6. DOMAIN Append(a, e) = 1..(n + 1)
    BY <2>2, LenProperties
  <2>7. b = [k \in 1..(n + 1) |-> b[k]]
    BY <2>1
  <2>8. Append(a, e) = [k \in 1..(n + 1) |-> Append(a, e)[k]]
    BY <2>2, <2>6
  <2> QED
    BY <2>5, <2>7, <2>8
<1>4. FlattenSeq(b) = FlattenSeq(a) \o e /\ FlattenSeq(a) \in Name
  BY <1>2, <1>3, FlattenAppend DEF Name
<1> PICK f \in Seq(Nat) : f = FlattenSeq(a)
  BY <1>4 DEF Name
<1> PICK g \in Seq(Nat) : g = fname
  BY DEF Name
<1>5. g \o f \in Name
  BY ConcatProperties DEF Name
<1>6. g \o (f \o e) = (g \o f) \o e
  <2>1. e \in Seq(Nat)
    BY DEF Name
  <2> QED
    BY <2>1, NameConcat DEF Name
<1>7. (g \o f) \o e = ((g \o f) \o <<SLASH>>) \o c
  <2> PICK h \in Name : h = g \o f
    BY <1>5
  <2>1. h \o (<<SLASH>> \o c) = (h \o <<SLASH>>) \o c
    BY SlashConcat, Zenon
  <2> QED
    BY <2>1
<1> QED
  BY <1>4, <1>5, <1>6, <1>7 DEF NameAt

(* The parts of paths of a file system are names. *)
LEMMA FileNamesAreNames ==
  /\ \A c \in FileName : c \in Name /\ c # << >>
  /\ \A p \in Seq(FileName) : p \in Seq(Name)
<1>1. \A c \in FileName : c \in Name /\ c # << >>
  BY DEF FileName, Name
<1> QED
  BY <1>1, SeqMonotonic

(* The name of something below is a name. *)
LEMMA NameAtType ==
  ASSUME NEW fname \in Name, NEW cs \in Seq(Name)
  PROVE  NameAt(fname, cs) \in Name
<1>1. << >> \in Name
  BY EmptyName
<1> QED
  BY <1>1, NameAtAppend

(* It is at cs below the path of fname, and in parts as given. *)
LEMMA PathOfNameAt ==
  ASSUME NEW fname \in Name
  PROVE  \A cs \in Seq(FileName) : /\ Path(NameAt(fname, cs)) = Path(fname) \o cs
                                   /\ Cut(NameAt(fname, cs)) = Cut(fname) \o cs
<1> DEFINE T == {cs \in Seq(FileName) : /\ Path(NameAt(fname, cs)) = Path(fname) \o cs
                                        /\ Cut(NameAt(fname, cs)) = Cut(fname) \o cs}
<1>0. Path(fname) \in Seq(Name) /\ Cut(fname) \in Seq(Name)
  BY PathType, CutType DEF Parting
<1> PICK p \in Seq(Name) : p = Path(fname)
  BY <1>0
<1> PICK q \in Seq(Name) : q = Cut(fname)
  BY <1>0
<1>1. << >> \in T
  BY <1>0, NameAtEmpty, ConcatEmptySeq
<1>2. ASSUME NEW cs \in Seq(FileName), NEW c \in FileName, cs \in T PROVE Append(cs, c) \in T
  <2>1. cs \in Seq(Name) /\ c \in Name /\ <<c>> \in Seq(Name) /\ Append(cs, c) \in Seq(FileName)
    BY FileNamesAreNames, AppendProperties
  <2> PICK s \in Name : s = NameAt(fname, cs)
    BY <2>1, NameAtType
  <2>2. NameAt(fname, Append(cs, c)) = s \o <<SLASH>> \o c
    BY <2>1, NameAtAppend
  <2>3. Path(c) = <<c>> /\ Cut(c) = <<c>>
    BY PathOfFileName
  <2>4. Path(s) = p \o cs /\ Cut(s) = q \o cs
    BY <1>2
  <2>5. Path(s \o <<SLASH>> \o c) = (p \o cs) \o <<c>>
    BY <2>1, <2>3, <2>4, PathConcat
  <2>6. Cut(s \o <<SLASH>> \o c) = (q \o cs) \o <<c>>
    BY <2>1, <2>3, <2>4, CutConcat
  <2>7. (p \o cs) \o <<c>> = p \o (cs \o <<c>>) /\ (q \o cs) \o <<c>> = q \o (cs \o <<c>>)
    BY <2>1, ConcatAssociative
  <2>8. cs \o <<c>> = Append(cs, c)
    BY AppendIsConcat
  <2> QED
    BY <2>1, <2>2, <2>5, <2>6, <2>7, <2>8
<1> HIDE DEF T
<1>3. \A cs \in Seq(FileName) : cs \in T
  BY <1>1, <1>2, SeqInduction
<1> QED
  BY <1>3 DEF T

-----------------------------------------------------------------------------
(* Sorting. *)

(* r is a strict total order on X. *)
Orders(r, X) ==
  /\ \A x \in X : <<x, x>> \notin r
  /\ \A x, y \in X : x = y \/ <<x, y>> \in r \/ <<y, x>> \in r
  /\ \A x, y, z \in X : <<x, y>> \in r /\ <<y, z>> \in r => <<x, z>> \in r

(* Sequences in the order of their first difference. *)
Lexical(s, t, r) ==
  \/ IsStrictPrefix(s, t)
  \/ \E k \in DOMAIN s \cap DOMAIN t :
       /\ SubSeq(s, 1, k - 1) = SubSeq(t, 1, k - 1)
       /\ <<s[k], t[k]>> \in r

Agree(s, t, n) == \A i \in 1..n : s[i] = t[i]

(* Two sequences with the same beginning agree on it. *)
LEMMA SubSeqAgree ==
  ASSUME NEW X, NEW s \in Seq(X), NEW t \in Seq(X), NEW n \in Nat,
         n <= Len(s), n <= Len(t)
  PROVE  SubSeq(s, 1, n) = SubSeq(t, 1, n) <=> Agree(s, t, n)
<1>1. (\A i \in 1..n : s[i] \in X) /\ (\A i \in 1..n : t[i] \in X)
  BY ElementOfSeq, LenProperties
<1>2. /\ SubSeq(s, 1, n) \in Seq(X) /\ Len(SubSeq(s, 1, n)) = n
      /\ \A i \in 1..n : SubSeq(s, 1, n)[i] = s[i]
  <2>1. /\ SubSeq(s, 1, n) \in Seq(X)
        /\ Len(SubSeq(s, 1, n)) = IF 1 <= n THEN n - 1 + 1 ELSE 0
        /\ \A i \in 1..(n - 1 + 1) : SubSeq(s, 1, n)[i] = s[1 + i - 1]
    BY <1>1, SubSeqProperties
  <2> QED
    BY <2>1
<1>3. /\ SubSeq(t, 1, n) \in Seq(X) /\ Len(SubSeq(t, 1, n)) = n
      /\ \A i \in 1..n : SubSeq(t, 1, n)[i] = t[i]
  <2>1. /\ SubSeq(t, 1, n) \in Seq(X)
        /\ Len(SubSeq(t, 1, n)) = IF 1 <= n THEN n - 1 + 1 ELSE 0
        /\ \A i \in 1..(n - 1 + 1) : SubSeq(t, 1, n)[i] = t[1 + i - 1]
    BY <1>1, SubSeqProperties
  <2> QED
    BY <2>1
<1>4. Agree(s, t, n) => SubSeq(s, 1, n) = SubSeq(t, 1, n)
  <2> SUFFICES ASSUME Agree(s, t, n) PROVE SubSeq(s, 1, n) = SubSeq(t, 1, n)
    OBVIOUS
  <2>1. \A i \in 1..Len(SubSeq(s, 1, n)) : SubSeq(s, 1, n)[i] = SubSeq(t, 1, n)[i]
    BY <1>2, <1>3 DEF Agree
  <2> QED
    BY <1>2, <1>3, <2>1, SeqEqual
<1>5. SubSeq(s, 1, n) = SubSeq(t, 1, n) => Agree(s, t, n)
  BY <1>2, <1>3 DEF Agree
<1> QED
  BY <1>4, <1>5

(* The beginning of a sequence, element by element. *)
LEMMA PrefixAgree ==
  ASSUME NEW X, NEW s \in Seq(X), NEW t \in Seq(X)
  PROVE  IsPrefix(s, t) <=> Len(s) <= Len(t) /\ Agree(s, t, Len(s))
<1>1. Len(s) \in Nat /\ Len(t) \in Nat
  BY LenProperties
<1>2. ASSUME Len(s) <= Len(t)
      PROVE  SubSeq(s, 1, Len(s)) = SubSeq(t, 1, Len(s)) <=> Agree(s, t, Len(s))
  BY <1>1, <1>2, SubSeqAgree
<1> QED
  BY <1>2 DEF IsPrefix

(* The lexical order, by the first place where two differ. *)
LEMMA LexicalAgree ==
  ASSUME NEW X, NEW r, NEW s \in Seq(X), NEW t \in Seq(X)
  PROVE  Lexical(s, t, r) <=>
           \/ Len(s) < Len(t) /\ Agree(s, t, Len(s))
           \/ \E k \in Nat : /\ k < Len(s) /\ k < Len(t) /\ Agree(s, t, k)
                             /\ <<s[k + 1], t[k + 1]>> \in r
<1>1. Len(s) \in Nat /\ Len(t) \in Nat /\ DOMAIN s = 1..Len(s) /\ DOMAIN t = 1..Len(t)
  BY LenProperties
<1>2. IsStrictPrefix(s, t) <=> Len(s) < Len(t) /\ Agree(s, t, Len(s))
  <2>1. Len(s) = Len(t) /\ Agree(s, t, Len(s)) => s = t
    BY <1>1, SeqEqual DEF Agree
  <2>2. s = t => ~(Len(s) < Len(t))
    BY <1>1
  <2>3. IsPrefix(s, t) <=> Len(s) <= Len(t) /\ Agree(s, t, Len(s))
    BY PrefixAgree
  <2>4. IsStrictPrefix(s, t) <=> IsPrefix(s, t) /\ s # t
    BY DEF IsStrictPrefix
  <2>5. CASE Len(s) = Len(t)
    BY <1>1, <2>1, <2>3, <2>4, <2>5
  <2>6. CASE Len(s) # Len(t)
    <3>1. s # t
      BY <2>6
    <3> PICK m \in Nat : m = Len(s)
      BY <1>1
    <3> PICK n \in Nat : n = Len(t)
      BY <1>1
    <3>2. m <= n <=> m < n
      BY <2>6
    <3> QED
      BY <2>3, <2>4, <3>1, <3>2
  <2> QED
    BY <2>5, <2>6
<1>3. ASSUME NEW k \in DOMAIN s \cap DOMAIN t, SubSeq(s, 1, k - 1) = SubSeq(t, 1, k - 1),
             <<s[k], t[k]>> \in r
      PROVE  \E j \in Nat : /\ j < Len(s) /\ j < Len(t) /\ Agree(s, t, j)
                            /\ <<s[j + 1], t[j + 1]>> \in r
  <2> PICK j \in Nat : j = k - 1
    BY <1>1
  <2>1. j < Len(s) /\ j < Len(t) /\ j + 1 = k
    BY <1>1
  <2>2. Agree(s, t, j)
    <3>0. j <= Len(s) /\ j <= Len(t)
      BY <1>1, <2>1
    <3>1. SubSeq(s, 1, j) = SubSeq(t, 1, j) <=> Agree(s, t, j)
      BY <3>0, SubSeqAgree, Zenon
    <3>2. SubSeq(s, 1, j) = SubSeq(t, 1, j)
      BY <1>3
    <3> QED
      BY <3>1, <3>2
  <2> QED
    BY <1>3, <2>1, <2>2
<1>4. ASSUME NEW j \in Nat, j < Len(s), j < Len(t), Agree(s, t, j), <<s[j + 1], t[j + 1]>> \in r
      PROVE  \E k \in DOMAIN s \cap DOMAIN t :
               SubSeq(s, 1, k - 1) = SubSeq(t, 1, k - 1) /\ <<s[k], t[k]>> \in r
  <2> PICK k \in DOMAIN s \cap DOMAIN t : k = j + 1 /\ k - 1 = j
    BY <1>1, <1>4
  <2>1. SubSeq(s, 1, j) = SubSeq(t, 1, j)
    <3>0. j <= Len(s) /\ j <= Len(t)
      BY <1>1, <1>4
    <3>1. SubSeq(s, 1, j) = SubSeq(t, 1, j) <=> Agree(s, t, j)
      BY <3>0, SubSeqAgree, Zenon
    <3> QED
      BY <1>4, <3>1
  <2> QED
    BY <1>4, <2>1
<1> QED
  BY <1>2, <1>3, <1>4 DEF Lexical

(* It is a total order if that of the elements is one. *)
LEMMA LexicalOrders ==
  ASSUME NEW X, NEW r, Orders(r, X),
         NEW l, \A s, t \in Seq(X) : <<s, t>> \in l <=> Lexical(s, t, r)
  PROVE  Orders(l, Seq(X))
<1>0. \A s \in Seq(X) : Len(s) \in Nat
  BY LenProperties
<1>1. ASSUME NEW s \in Seq(X) PROVE <<s, s>> \notin l
  <2>1. \A k \in Nat : k < Len(s) => s[k + 1] \in X
    BY <1>0, ElementOfSeq
  <2>2. \A k \in Nat : k < Len(s) => <<s[k + 1], s[k + 1]>> \notin r
    BY <2>1 DEF Orders
  <2>3. Lexical(s, s, r) <=>
          \/ Len(s) < Len(s) /\ Agree(s, s, Len(s))
          \/ \E k \in Nat : /\ k < Len(s) /\ k < Len(s) /\ Agree(s, s, k)
                            /\ <<s[k + 1], s[k + 1]>> \in r
    BY LexicalAgree
  <2>4. ~(Len(s) < Len(s))
    BY <1>0
  <2> QED
    BY <2>2, <2>3, <2>4
<1>2. ASSUME NEW s \in Seq(X), NEW t \in Seq(X), s # t PROVE <<s, t>> \in l \/ <<t, s>> \in l
  <2> PICK m \in Nat : m = Len(s)
    BY <1>0
  <2> PICK n \in Nat : n = Len(t)
    BY <1>0
  <2> PICK D : D = {k \in Nat : k < m /\ k < n /\ s[k + 1] # t[k + 1]}
    OBVIOUS
  <2>1. CASE D = {}
    <3>1. \A k \in Nat : k <= m /\ k <= n => Agree(s, t, k)
      <4> SUFFICES ASSUME NEW k \in Nat, k <= m, k <= n, NEW i \in 1..k PROVE s[i] = t[i]
        BY DEF Agree
      <4> PICK j \in Nat : j = i - 1 /\ j + 1 = i
        OBVIOUS
      <4>1. j < m /\ j < n
        OBVIOUS
      <4>2. j \notin D
        BY <2>1
      <4>3. s[j + 1] = t[j + 1]
        BY <4>1, <4>2
      <4> QED
        BY <4>3
    <3>2. CASE m < n
      <4>1. Agree(s, t, m)
        BY <3>1, <3>2
      <4> QED
        BY <3>2, <4>1, LexicalAgree
    <3>3. CASE n < m
      <4>1. Agree(t, s, n)
        BY <3>1, <3>3 DEF Agree
      <4> QED
        BY <3>3, <4>1, LexicalAgree
    <3>4. CASE m = n
      <4>1. \A i \in 1..m : s[i] = t[i]
        BY <3>1, <3>4 DEF Agree
      <4> QED
        BY <1>2, <3>4, <4>1, SeqEqual
    <3> QED
      BY <3>2, <3>3, <3>4
  <2>2. CASE D # {}
    <3>1. D \subseteq Nat
      OBVIOUS
    <3> PICK k \in D : \A j \in D : k <= j
      BY <2>2, <3>1, Least
    <3>2. k \in Nat /\ k < m /\ k < n /\ s[k + 1] # t[k + 1]
      OBVIOUS
    <3>3. Agree(s, t, k) /\ Agree(t, s, k)
      <4> SUFFICES ASSUME NEW i \in 1..k PROVE s[i] = t[i]
        BY DEF Agree
      <4> PICK j \in Nat : j = i - 1 /\ j + 1 = i /\ j < k
        BY <3>2
      <4>1. j \notin D
        BY <3>2
      <4> QED
        BY <3>2, <4>1
    <3>4. s[k + 1] \in X /\ t[k + 1] \in X
      BY <3>2, ElementOfSeq
    <3>5. <<s[k + 1], t[k + 1]>> \in r \/ <<t[k + 1], s[k + 1]>> \in r
      BY <3>2, <3>4 DEF Orders
    <3> QED
      BY <3>2, <3>3, <3>5, LexicalAgree
  <2> QED
    BY <2>1, <2>2
<1>3. ASSUME NEW s \in Seq(X), NEW t \in Seq(X), NEW u \in Seq(X), <<s, t>> \in l, <<t, u>> \in l
      PROVE  <<s, u>> \in l
  <2> PICK m \in Nat : m = Len(s)
    BY <1>0
  <2> PICK n \in Nat : n = Len(t)
    BY <1>0
  <2> PICK o \in Nat : o = Len(u)
    BY <1>0
  <2> DEFINE Differ(a, b, k) == /\ k < Len(a) /\ k < Len(b) /\ Agree(a, b, k)
                                /\ <<a[k + 1], b[k + 1]>> \in r
  <2>1. (m < n /\ Agree(s, t, m)) \/ \E k \in Nat : Differ(s, t, k)
    BY <1>3, LexicalAgree
  <2>2. (n < o /\ Agree(t, u, n)) \/ \E k \in Nat : Differ(t, u, k)
    BY <1>3, LexicalAgree
  <2>3. CASE m < n /\ Agree(s, t, m) /\ n < o /\ Agree(t, u, n)
    <3>1. m < o /\ Agree(s, u, m)
      BY <2>3 DEF Agree
    <3> QED
      BY <3>1, LexicalAgree
  <2>4. ASSUME m < n, Agree(s, t, m), NEW k \in Nat, Differ(t, u, k) PROVE <<s, u>> \in l
    <3>1. CASE k < m
      <4>1. k < o /\ Agree(s, u, k) /\ s[k + 1] = t[k + 1]
        BY <2>4, <3>1 DEF Agree
      <4> QED
        BY <2>4, <3>1, <4>1, LexicalAgree
    <3>2. CASE m <= k
      <4>1. m < o /\ Agree(s, u, m)
        BY <2>4, <3>2 DEF Agree
      <4> QED
        BY <4>1, LexicalAgree
    <3> QED
      BY <3>1, <3>2
  <2>5. ASSUME NEW k \in Nat, Differ(s, t, k), n < o, Agree(t, u, n) PROVE <<s, u>> \in l
    <3>1. k < o /\ Agree(s, u, k) /\ u[k + 1] = t[k + 1]
      BY <2>5 DEF Agree
    <3> QED
      BY <2>5, <3>1, LexicalAgree
  <2>6. ASSUME NEW j \in Nat, Differ(s, t, j), NEW k \in Nat, Differ(t, u, k) PROVE <<s, u>> \in l
    <3>1. CASE j < k
      <4>1. Agree(s, u, j) /\ u[j + 1] = t[j + 1] /\ j < o
        BY <2>6, <3>1 DEF Agree
      <4> QED
        BY <2>6, <4>1, LexicalAgree
    <3>2. CASE k < j
      <4>1. Agree(s, u, k) /\ s[k + 1] = t[k + 1] /\ k < m
        BY <2>6, <3>2 DEF Agree
      <4> QED
        BY <2>6, <4>1, LexicalAgree
    <3>3. CASE j = k
      <4>1. Agree(s, u, k)
        BY <2>6, <3>3 DEF Agree
      <4>2. s[k + 1] \in X /\ t[k + 1] \in X /\ u[k + 1] \in X
        BY <2>6, <3>3, ElementOfSeq
      <4>3. <<s[k + 1], u[k + 1]>> \in r
        BY <2>6, <3>3, <4>2 DEF Orders
      <4> QED
        BY <2>6, <3>3, <4>1, <4>3, LexicalAgree
    <3> QED
      BY <3>1, <3>2, <3>3
  <2> QED
    BY <2>1, <2>2, <2>3, <2>4, <2>5, <2>6
<1> QED
  BY <1>1, <1>2, <1>3 DEF Orders

(* A finite set can be enumerated in order. *)
Enumeration(q, S, r) ==
  /\ q \in SetToSeqs(S)
  /\ \A i, j \in DOMAIN q : i < j => <<q[i], q[j]>> \in r

(* It has every element. *)
LEMMA EnumerationIsFull ==
  ASSUME NEW S, IsFiniteSet(S), NEW q \in SetToSeqs(S)
  PROVE  /\ Cardinality(S) \in Nat /\ q \in [1..Cardinality(S) -> S]
         /\ \A i, j \in 1..Cardinality(S) : q[i] = q[j] => i = j
         /\ \A x \in S : \E i \in 1..Cardinality(S) : q[i] = x
<1> PICK n \in Nat : n = Cardinality(S)
  BY FS_CardinalityType
<1>1. q \in [1..n -> S] /\ \A i, j \in 1..n : i # j => q[i] # q[j]
  BY DEF SetToSeqs
<1>2. q \in Injection(1..n, S)
  BY <1>1 DEF Injection, IsInjective
<1>3. Cardinality(1..n) = n
  BY FS_Interval
<1>4. q \in Surjection(1..n, S)
  BY <1>2, <1>3, FS_Injection
<1>5. \A x \in S : \E i \in 1..n : q[i] = x
  BY <1>4 DEF Surjection
<1> QED
  BY <1>1, <1>5

(* A finite set has an enumeration in a given order. *)
LEMMA EnumerationExists ==
  ASSUME NEW X, NEW r, Orders(r, X)
  PROVE  \A S \in SUBSET X : IsFiniteSet(S) => \E q : Enumeration(q, S, r)
<1> DEFINE T == {n \in Nat : \A S \in SUBSET X :
                   IsFiniteSet(S) /\ Cardinality(S) = n => \E q : Enumeration(q, S, r)}
<1>1. 0 \in T
  <2> SUFFICES ASSUME NEW S \in SUBSET X, IsFiniteSet(S), Cardinality(S) = 0
               PROVE  \E q : Enumeration(q, S, r)
    OBVIOUS
  <2>1. 1..0 = {}
    OBVIOUS
  <2> PICK q : q = [i \in 1..0 |-> i]
    OBVIOUS
  <2>2. DOMAIN q = {} /\ q \in [1..0 -> S]
    OBVIOUS
  <2>3. Enumeration(q, S, r)
    BY <2>1, <2>2 DEF Enumeration, SetToSeqs
  <2> QED
    BY <2>3
<1>2. ASSUME NEW n \in Nat, n \in T PROVE n + 1 \in T
  <2> SUFFICES ASSUME NEW S \in SUBSET X, IsFiniteSet(S), Cardinality(S) = n + 1
               PROVE  \E q : Enumeration(q, S, r)
    OBVIOUS
  <2>1. ASSUME NEW x \in S
        PROVE  \E q : Enumeration(q, S \ {x}, r) /\ IsFiniteSet(S \ {x}) /\ Cardinality(S \ {x}) = n
    <3>1. IsFiniteSet(S \ {x}) /\ Cardinality(S \ {x}) = n
      BY FS_RemoveElement
    <3>2. S \ {x} \in SUBSET X
      OBVIOUS
    <3>3. \E q : Enumeration(q, S \ {x}, r)
      BY <1>2, <3>1, <3>2
    <3> QED
      BY <3>1, <3>3
  <2>2. PICK m \in S : \A x \in S : x = m \/ <<x, m>> \in r
    <3>1. S # {}
      BY FS_EmptySet
    <3> PICK x \in S : TRUE
      BY <3>1
    <3> PICK q : Enumeration(q, S \ {x}, r) /\ IsFiniteSet(S \ {x}) /\ Cardinality(S \ {x}) = n
      BY <2>1
    <3>2. /\ q \in [1..n -> S \ {x}]
          /\ \A y \in S \ {x} : \E i \in 1..n : q[i] = y
          /\ \A i, j \in 1..n : i < j => <<q[i], q[j]>> \in r
      <4>1. q \in SetToSeqs(S \ {x})
        BY DEF Enumeration
      <4>2. /\ q \in [1..n -> S \ {x}]
            /\ \A y \in S \ {x} : \E i \in 1..n : q[i] = y
        BY <4>1, EnumerationIsFull
      <4>3. DOMAIN q = 1..n
        BY <4>2
      <4> QED
        BY <4>2, <4>3 DEF Enumeration
    <3>3. CASE n = 0
      <4>1. \A y \in S : y = x
        BY <3>2, <3>3
      <4> QED
        BY <4>1
    <3>4. CASE n # 0
      <4>1. n \in 1..n /\ q[n] \in S /\ q[n] # x
        BY <3>2, <3>4
      <4>2. \A y \in S \ {x} : y = q[n] \/ <<y, q[n]>> \in r
        <5> SUFFICES ASSUME NEW y \in S \ {x} PROVE y = q[n] \/ <<y, q[n]>> \in r
          OBVIOUS
        <5> PICK i \in 1..n : q[i] = y
          BY <3>2
        <5>1. i = n \/ i < n
          OBVIOUS
        <5> QED
          BY <3>2, <4>1, <5>1
      <4>3. CASE <<x, q[n]>> \in r
        BY <4>1, <4>2, <4>3
      <4>4. CASE <<x, q[n]>> \notin r
        <5>1. <<q[n], x>> \in r
          BY <4>1, <4>4 DEF Orders
        <5>2. \A y \in S : y = x \/ <<y, x>> \in r
          BY <4>1, <4>2, <5>1 DEF Orders
        <5> QED
          BY <5>2
      <4> QED
        BY <4>3, <4>4
    <3> QED
      BY <3>3, <3>4
  <2> PICK q : Enumeration(q, S \ {m}, r) /\ IsFiniteSet(S \ {m}) /\ Cardinality(S \ {m}) = n
    BY <2>1
  <2>3. /\ q \in [1..n -> S \ {m}]
        /\ \A i, j \in 1..n : q[i] = q[j] => i = j
        /\ \A i, j \in 1..n : i < j => <<q[i], q[j]>> \in r
    <3>1. q \in SetToSeqs(S \ {m})
      BY DEF Enumeration
    <3>2. q \in [1..n -> S \ {m}] /\ \A i, j \in 1..n : q[i] = q[j] => i = j
      BY <3>1, EnumerationIsFull
    <3>3. DOMAIN q = 1..n
      BY <3>2
    <3> QED
      BY <3>2, <3>3 DEF Enumeration
  <2> PICK p : p = [i \in 1..(n + 1) |-> IF i = n + 1 THEN m ELSE q[i]]
    OBVIOUS
  <2>4. DOMAIN p = 1..(n + 1) /\ p[n + 1] = m /\ \A i \in 1..n : p[i] = q[i] /\ q[i] \in S /\ q[i] # m
    BY <2>3
  <2>5. \A i \in 1..(n + 1) : i = n + 1 \/ i \in 1..n
    OBVIOUS
  <2>6. p \in [1..(n + 1) -> S]
    BY <2>3
  <2>7. \A i, j \in 1..(n + 1) : i # j => p[i] # p[j]
    BY <2>3, <2>4, <2>5
  <2>8. ASSUME NEW i \in 1..(n + 1), NEW j \in 1..(n + 1), i < j PROVE <<p[i], p[j]>> \in r
    <3>1. i \in 1..n
      BY <2>8
    <3>2. CASE j = n + 1
      BY <2>2, <2>4, <3>1, <3>2
    <3>3. CASE j # n + 1
      BY <2>3, <2>4, <2>5, <2>8, <3>1, <3>3
    <3> QED
      BY <3>2, <3>3
  <2>9. Enumeration(p, S, r)
    BY <2>4, <2>6, <2>7, <2>8 DEF Enumeration, SetToSeqs
  <2> QED
    BY <2>9
<1> HIDE DEF T
<1>3. \A n \in Nat : n \in T
  BY <1>1, <1>2, Induction
<1> SUFFICES ASSUME NEW S \in SUBSET X, IsFiniteSet(S) PROVE \E q : Enumeration(q, S, r)
  OBVIOUS
<1>4. Cardinality(S) \in T
  BY <1>3, FS_CardinalityType
<1> QED
  BY <1>4 DEF T

(* The order in which a tree is visited. *)
VisitOrder == {x \in Seq(Name) \X Seq(Name) : VisitedBefore(x[1], x[2])}

(* The order of the visits is total on paths. *)
LEMMA VisitsAreOrdered == Orders(VisitOrder, Seq(Name))
<1> PICK less : less = {x \in Nat \X Nat : x[1] < x[2]}
  OBVIOUS
<1>1. \A m, n \in Nat : <<m, n>> \in less <=> m < n
  OBVIOUS
<1>2. Orders(less, Nat)
  BY <1>1 DEF Orders
<1> PICK bytes : bytes = {x \in Name \X Name : ByteLess(x[1], x[2])}
  OBVIOUS
<1>3. \A s, t \in Name : <<s, t>> \in bytes <=> ByteLess(s, t)
  OBVIOUS
<1>4. ASSUME NEW s \in Name, NEW t \in Name PROVE ByteLess(s, t) <=> Lexical(s, t, less)
  <2>1. \A k \in DOMAIN s \cap DOMAIN t : s[k] < t[k] <=> <<s[k], t[k]>> \in less
    <3>1. \A k \in DOMAIN s \cap DOMAIN t : s[k] \in Nat /\ t[k] \in Nat
      BY ElementOfSeq, LenProperties DEF Name
    <3> QED
      BY <1>1, <3>1
  <2> QED
    BY <2>1 DEF ByteLess, Lexical
<1>5. Orders(bytes, Name)
  <2>1. \A s, t \in Seq(Nat) : <<s, t>> \in bytes <=> Lexical(s, t, less)
    BY <1>3, <1>4 DEF Name
  <2> QED
    BY <1>2, <2>1, LexicalOrders DEF Name
<1>6. ASSUME NEW p \in Seq(Name), NEW q \in Seq(Name)
      PROVE  VisitedBefore(p, q) <=> Lexical(p, q, bytes)
  <2>1. \A k \in DOMAIN p \cap DOMAIN q : ByteLess(p[k], q[k]) <=> <<p[k], q[k]>> \in bytes
    <3>1. \A k \in DOMAIN p \cap DOMAIN q : p[k] \in Name /\ q[k] \in Name
      BY ElementOfSeq, LenProperties
    <3> QED
      BY <1>3, <3>1
  <2> QED
    BY <2>1 DEF VisitedBefore, Lexical
<1>7. \A p, q \in Seq(Name) : <<p, q>> \in VisitOrder <=> Lexical(p, q, bytes)
  BY <1>6 DEF VisitOrder
<1> QED
  BY <1>5, <1>7, LexicalOrders

-----------------------------------------------------------------------------
(* What is found below a name. *)

FoundBelow(fs, fname) == {p \in DOMAIN fs : IsPrefix(Path(fname), p)}

FoundIn(fs, fname) ==
  CHOOSE q \in SetToSeqs(FoundBelow(fs, fname)) :
    \A i, j \in DOMAIN q : i < j => VisitedBefore(q[i], q[j])

Below(fname, p) == SubSeq(p, Len(Path(fname)) + 1, Len(p))

(* The paths that expand_entry finds, in their order. *)
LEMMA FoundFacts ==
  ASSUME NEW fs, IsFileSystem(fs), NEW fname \in Name
  PROVE  FoundIn(fs, fname) \in SetToSeqs(FoundBelow(fs, fname)) /\ IsFiniteSet(FoundBelow(fs, fname))
<1> PICK S : S = FoundBelow(fs, fname)
  OBVIOUS
<1>1. S \subseteq Seq(Name) /\ IsFiniteSet(S)
  <2>1. S \subseteq DOMAIN fs /\ IsFiniteSet(DOMAIN fs)
    BY DEF FoundBelow, IsFileSystem
  <2>2. \A p \in DOMAIN fs : p \in Seq(Name)
    BY FileNamesAreNames DEF IsFileSystem
  <2> QED
    BY <2>1, <2>2, FS_Subset
<1>2. PICK q : Enumeration(q, S, VisitOrder)
  BY <1>1, VisitsAreOrdered, EnumerationExists
<1>3. q \in SetToSeqs(S) /\ \A i, j \in DOMAIN q : i < j => VisitedBefore(q[i], q[j])
  <2>1. q \in SetToSeqs(S)
    BY <1>2 DEF Enumeration
  <2>2. \A i \in DOMAIN q : q[i] \in Seq(Name)
    BY <1>1, <2>1 DEF SetToSeqs
  <2> QED
    BY <1>2, <2>1, <2>2 DEF Enumeration, VisitOrder
<1>4. FoundIn(fs, fname) \in SetToSeqs(S)
  BY <1>3, Zenon DEF FoundIn
<1> QED
  BY <1>1, <1>4

(* The names it makes of them. *)
LEMMA ExpandEntryIs ==
  ASSUME NEW fs, NEW fname
  PROVE  expand_entry(fs, fname) =
           [i \in DOMAIN FoundIn(fs, fname) |-> NameAt(fname, Below(fname, FoundIn(fs, fname)[i]))]
BY DEF expand_entry, FoundIn, FoundBelow, NameAt, Below

(* What is at or below a name, and its rest. *)
LEMMA BelowFacts ==
  ASSUME NEW X, NEW a \in Seq(X), NEW p \in Seq(X), IsPrefix(a, p)
  PROVE  /\ SubSeq(p, Len(a) + 1, Len(p)) \in Seq(X)
         /\ a \o SubSeq(p, Len(a) + 1, Len(p)) = p
<1> PICK m \in Nat : m = Len(a)
  BY LenProperties
<1> PICK n \in Nat : n = Len(p)
  BY LenProperties
<1>1. m <= n /\ Agree(a, p, m)
  BY PrefixAgree
<1> PICK b : b = SubSeq(p, m + 1, n)
  OBVIOUS
<1>2. \A i \in (m + 1)..n : p[i] \in X
  BY ElementOfSeq
<1>3. /\ b \in Seq(X)
      /\ Len(b) = IF m + 1 <= n THEN n - (m + 1) + 1 ELSE 0
      /\ \A i \in 1..(n - (m + 1) + 1) : b[i] = p[m + 1 + i - 1]
  BY <1>2, SubSeqProperties
<1>4. Len(b) = n - m /\ \A i \in 1..(n - m) : b[i] = p[m + i]
  BY <1>1, <1>3
<1>5. /\ a \o b \in Seq(X) /\ Len(a \o b) = n
      /\ \A i \in 1..n : (a \o b)[i] = IF i <= m THEN a[i] ELSE b[i - m]
  <2>1. /\ a \o b \in Seq(X) /\ Len(a \o b) = Len(a) + Len(b)
        /\ \A i \in 1..(Len(a) + Len(b)) :
             (a \o b)[i] = IF i <= Len(a) THEN a[i] ELSE b[i - Len(a)]
    BY <1>3, ConcatProperties
  <2>2. Len(a) + Len(b) = n
    BY <1>4
  <2> QED
    BY <2>1, <2>2
<1>6. ASSUME NEW i \in 1..n PROVE (a \o b)[i] = p[i]
  <2>1. CASE i <= m
    BY <1>1, <1>5, <2>1 DEF Agree
  <2>2. CASE ~(i <= m)
    <3>1. i - m \in 1..(n - m) /\ m + (i - m) = i
      BY <2>2
    <3> QED
      BY <1>4, <1>5, <2>2, <3>1
  <2> QED
    BY <2>1, <2>2
<1>7. a \o b = p
  BY <1>5, <1>6, SeqEqual
<1> QED
  BY <1>3, <1>7

(* The names that expand_files makes are of what is at and below its       *)
(* arguments, each with the path of what it names.                         *)
NameOf(fname, p) == NameAt(fname, Below(fname, p))

(* The name of what was found leads to it. *)
LEMMA NameOfFacts ==
  ASSUME NEW fs, IsFileSystem(fs), NEW fname \in Name, NEW p \in FoundBelow(fs, fname)
  PROVE  /\ NameOf(fname, p) \in Name /\ Path(NameOf(fname, p)) = p
         /\ Below(fname, p) \in Seq(FileName)
         /\ Path(fname) \o Below(fname, p) = p
         /\ Cut(NameOf(fname, p)) = Cut(fname) \o Below(fname, p)
<1>1. p \in Seq(FileName) /\ p \in Seq(Name) /\ IsPrefix(Path(fname), p)
  BY FileNamesAreNames DEF FoundBelow, IsFileSystem
<1> PICK a \in Seq(Name) : a = Path(fname)
  BY PathType
<1>2. a \o Below(fname, p) = p
  BY <1>1, BelowFacts DEF Below
<1>3. Below(fname, p) \in Seq(FileName)
  <2> PICK m \in Nat : m = Len(a) + 1
    BY LenProperties
  <2> PICK n \in Nat : n = Len(p)
    BY <1>1, LenProperties
  <2>1. \A i \in m..n : p[i] \in FileName
    BY <1>1, ElementOfSeq
  <2>2. SubSeq(p, m, n) \in Seq(FileName)
    BY <2>1, SubSeqProperties
  <2> QED
    BY <2>2 DEF Below
<1>4. NameOf(fname, p) \in Name
  BY <1>3, FileNamesAreNames, NameAtType DEF NameOf
<1> QED
  BY <1>2, <1>3, <1>4, PathOfNameAt DEF NameOf

NamesBelow(fs, fname) == {NameOf(fname, p) : p \in FoundBelow(fs, fname)}

(* expand_entry finds what is at and below its argument, once. *)
LEMMA ExpandEntryFacts ==
  ASSUME NEW fs, IsFileSystem(fs), NEW fname \in Name
  PROVE  /\ expand_entry(fs, fname) \in Seq(Name)
         /\ \A x : Holds(expand_entry(fs, fname), x) <=> x \in NamesBelow(fs, fname)
         /\ Once(expand_entry(fs, fname))
<1> PICK S : S = FoundBelow(fs, fname)
  OBVIOUS
<1> PICK q : q = FoundIn(fs, fname)
  OBVIOUS
<1> PICK n : n = Cardinality(S)
  OBVIOUS
<1>1. /\ n \in Nat /\ q \in [1..n -> S]
      /\ \A i, j \in 1..n : q[i] = q[j] => i = j
      /\ \A x \in S : \E i \in 1..n : q[i] = x
  BY FoundFacts, EnumerationIsFull
<1> PICK e : e = expand_entry(fs, fname)
  OBVIOUS
<1>2. e = [i \in 1..n |-> NameOf(fname, q[i])]
  BY <1>1, ExpandEntryIs DEF NameOf
<1>3. \A i \in 1..n : e[i] = NameOf(fname, q[i]) /\ e[i] \in Name /\ Path(e[i]) = q[i]
  BY <1>1, <1>2, NameOfFacts
<1>4. e \in Seq(Name) /\ Len(e) = n
  <2>1. e \in [1..n -> Name]
    BY <1>2, <1>3
  <2> QED
    BY <1>1, <2>1, FunctionIsSeq
<1>5. Once(e)
  BY <1>1, <1>3, <1>4 DEF Once
<1>6. \A x : Holds(e, x) <=> x \in NamesBelow(fs, fname)
  BY <1>1, <1>3, <1>4 DEF Holds, NamesBelow
<1> QED
  BY <1>4, <1>5, <1>6

(* No argument is at or below another. *)
Apart(names) ==
  \A i, j \in DOMAIN names : i # j => ~IsPrefix(Path(names[i]), Path(names[j]))

(* Of arguments apart, what is found below one is not found below another. *)
LEMMA ApartFinds ==
  ASSUME NEW fs, IsFileSystem(fs), NEW names \in Seq(Name), Apart(names),
         NEW i \in 1..Len(names), NEW j \in 1..Len(names),
         NEW p \in FoundBelow(fs, names[i]), p \in FoundBelow(fs, names[j])
  PROVE  i = j
<1>1. names[i] \in Name /\ names[j] \in Name /\ i \in DOMAIN names /\ j \in DOMAIN names
  BY ElementOfSeq, LenProperties
<1> PICK a \in Seq(Name) : a = Path(names[i])
  BY <1>1, PathType
<1> PICK b \in Seq(Name) : b = Path(names[j])
  BY <1>1, PathType
<1>2. p \in Seq(Name) /\ IsPrefix(a, p) /\ IsPrefix(b, p)
  BY FileNamesAreNames DEF FoundBelow, IsFileSystem
<1>3. /\ Len(a) <= Len(p) /\ Agree(a, p, Len(a))
      /\ Len(b) <= Len(p) /\ Agree(b, p, Len(b))
  BY <1>2, PrefixAgree
<1> PICK m \in Nat : m = Len(a)
  BY LenProperties
<1> PICK n \in Nat : n = Len(b)
  BY LenProperties
<1>4. CASE m <= n
  <2>1. Agree(a, b, m)
    BY <1>3, <1>4 DEF Agree
  <2>2. IsPrefix(a, b)
    BY <1>4, <2>1, PrefixAgree
  <2> QED
    BY <1>1, <2>2 DEF Apart
<1>5. CASE n <= m
  <2>1. Agree(b, a, n)
    BY <1>3, <1>5 DEF Agree
  <2>2. IsPrefix(b, a)
    BY <1>5, <2>1, PrefixAgree
  <2> QED
    BY <1>1, <2>2 DEF Apart
<1> QED
  BY <1>4, <1>5

NamesFound(fs, names) == UNION {NamesBelow(fs, names[i]) : i \in DOMAIN names}

(* expand_files finds what is at and below its arguments, and once if they are apart. *)
LEMMA ExpandFilesFacts ==
  ASSUME NEW fs, IsFileSystem(fs), NEW names \in Seq(Name)
  PROVE  /\ expand_files(fs, names) \in Seq(Name)
         /\ \A x : Holds(expand_files(fs, names), x) <=> x \in NamesFound(fs, names)
         /\ Apart(names) => Once(expand_files(fs, names))
<1> PICK n \in Nat : n = Len(names)
  BY LenProperties
<1>0. DOMAIN names = 1..n /\ \A i \in 1..n : names[i] \in Name
  BY ElementOfSeq, LenProperties
<1> PICK s : s = [i \in 1..n |-> expand_entry(fs, names[i])]
  OBVIOUS
<1>1. \A i \in 1..n : s[i] = expand_entry(fs, names[i])
  OBVIOUS
<1>2. \A i \in 1..n : /\ s[i] \in Seq(Name)
                      /\ \A x : Holds(s[i], x) <=> x \in NamesBelow(fs, names[i])
                      /\ Once(s[i])
  <2> SUFFICES ASSUME NEW i \in 1..n
               PROVE  /\ s[i] \in Seq(Name)
                      /\ \A x : Holds(s[i], x) <=> x \in NamesBelow(fs, names[i])
                      /\ Once(s[i])
    OBVIOUS
  <2> PICK fname \in Name : fname = names[i]
    BY <1>0
  <2>1. /\ expand_entry(fs, fname) \in Seq(Name)
        /\ \A x : Holds(expand_entry(fs, fname), x) <=> x \in NamesBelow(fs, fname)
        /\ Once(expand_entry(fs, fname))
    BY ExpandEntryFacts
  <2>2. s[i] = expand_entry(fs, fname)
    BY <1>1
  <2> QED
    BY <2>1, <2>2
<1>3. s \in Seq(Seq(Name)) /\ Len(s) = n
  <2>1. s \in [1..n -> Seq(Name)]
    BY <1>2
  <2> QED
    BY <2>1, FunctionIsSeq
<1>4. expand_files(fs, names) = FlattenSeq(s)
  BY <1>0 DEF expand_files
<1>5. FlattenSeq(s) \in Seq(Name)
  BY <1>3, FlattenType
<1>6. \A x : Holds(FlattenSeq(s), x) <=> x \in NamesFound(fs, names)
  <2>1. \A x : Holds(FlattenSeq(s), x) <=> \E i \in 1..n : Holds(s[i], x)
    BY <1>3, FlattenRange
  <2>2. \A x : x \in NamesFound(fs, names) <=> \E i \in 1..n : x \in NamesBelow(fs, names[i])
    BY <1>0 DEF NamesFound
  <2> QED
    BY <1>2, <2>1, <2>2
<1>7. ASSUME Apart(names) PROVE Once(FlattenSeq(s))
  <2>1. ASSUME NEW i \in 1..n, NEW j \in 1..n, NEW x, Holds(s[i], x), Holds(s[j], x)
        PROVE  i = j
    <3>1. x \in NamesBelow(fs, names[i]) /\ x \in NamesBelow(fs, names[j])
      BY <1>2, <2>1
    <3>2. PICK p \in FoundBelow(fs, names[i]) : x = NameOf(names[i], p)
      BY <3>1 DEF NamesBelow
    <3>3. PICK q \in FoundBelow(fs, names[j]) : x = NameOf(names[j], q)
      BY <3>1 DEF NamesBelow
    <3>4. p = q
      <4>1. Path(NameOf(names[i], p)) = p
        BY <1>0, NameOfFacts
      <4>2. Path(NameOf(names[j], q)) = q
        BY <1>0, NameOfFacts
      <4> QED
        BY <3>2, <3>3, <4>1, <4>2
    <3> QED
      BY <1>7, <3>4, ApartFinds
  <2>2. Unmixed(s)
    BY <1>2, <1>3, <2>1 DEF Unmixed
  <2> QED
    BY <1>3, <2>2, FlattenOnce
<1> QED
  BY <1>4, <1>5, <1>6, <1>7

-----------------------------------------------------------------------------
(* The natural order: a loop over two names, with a loop over the digits. *)

(* The result of a loop that goes from x to next[x] until it halts, from   *)
(* every x.                                                                *)
IsLoop(f, D, halt, out, next) ==
  f = [x \in D |-> IF x \in halt THEN out[x] ELSE f[next[x]]]

(* If it halts after rank[x] turns at the latest, there is one. *)
LEMMA LoopRecursion ==
  ASSUME NEW D, NEW V, NEW n \in Nat, NEW halt \in SUBSET D, NEW out \in [D -> V],
         NEW next, NEW rank \in [D -> 0..n],
         \A x \in D \ halt : next[x] \in D /\ rank[next[x]] < rank[x]
  PROVE  \E f \in [D -> V] : IsLoop(f, D, halt, out, next)
<1> DEFINE Turned(f, x) == IF x \in halt THEN out[x] ELSE f[next[x]]
           T == {m \in Nat : \E f \in [D -> V] : \A x \in D : rank[x] <= m => f[x] = Turned(f, x)}
<1>1. 0 \in T
  <2>1. ASSUME NEW x \in D, rank[x] <= 0 PROVE out[x] = Turned(out, x)
    <3>1. ASSUME x \notin halt PROVE FALSE
      <4>1. next[x] \in D /\ rank[next[x]] < rank[x]
        BY <3>1
      <4>2. rank[next[x]] \in 0..n /\ rank[x] \in 0..n
        BY <4>1
      <4> QED
        BY <2>1, <4>1, <4>2
    <3> QED
      BY <3>1
  <2> QED
    BY <2>1
<1>2. ASSUME NEW m \in Nat, m \in T PROVE m + 1 \in T
  <2> PICK f \in [D -> V] : \A x \in D : rank[x] <= m => f[x] = Turned(f, x)
    BY <1>2
  <2> PICK g : g = [x \in D |-> Turned(f, x)]
    OBVIOUS
  <2>1. g \in [D -> V]
    OBVIOUS
  <2>2. ASSUME NEW x \in D, rank[x] <= m + 1 PROVE g[x] = Turned(g, x)
    <3>1. CASE x \in halt
      BY <3>1
    <3>2. CASE x \notin halt
      <4> PICK y \in D : y = next[x]
        BY <3>2
      <4>1. rank[y] < rank[x] /\ rank[y] \in 0..n /\ rank[x] \in 0..n
        BY <3>2
      <4>2. rank[y] <= m
        BY <2>2, <4>1
      <4>3. f[y] = Turned(f, y)
        BY <4>2
      <4>4. g[x] = f[y] /\ g[y] = f[y]
        BY <3>2, <4>3
      <4> QED
        BY <3>2, <4>4
    <3> QED
      BY <3>1, <3>2
  <2> QED
    BY <2>1, <2>2
<1> HIDE DEF T
<1>3. n \in T
  BY <1>1, <1>2, Induction
<1> USE DEF T
<1> PICK f \in [D -> V] : \A x \in D : rank[x] <= n => f[x] = Turned(f, x)
  BY <1>3
<1>4. \A x \in D : f[x] = Turned(f, x)
  <2> TAKE x \in D
  <2>1. rank[x] <= n
    OBVIOUS
  <2> QED
    BY <2>1
<1>5. f = [x \in D |-> Turned(f, x)]
  BY <1>4
<1> QED
  BY <1>5 DEF IsLoop

-----------------------------------------------------------------------------
(* Where tryint() stops. *)
EndsFrom(s, b) == {i \in b..Len(s) : i = Len(s) \/ ~IsDigit(s[i])}

EndOf(s, b) == CHOOSE i \in EndsFrom(s, b) : \A j \in EndsFrom(s, b) : i <= j

(* It is the first character that is no digit, or the last one. *)
LEMMA EndFacts ==
  ASSUME NEW s \in Name, NEW b \in 1..Len(s)
  PROVE  /\ EndOf(s, b) \in b..Len(s)
         /\ EndOf(s, b) = Len(s) \/ ~IsDigit(s[EndOf(s, b)])
         /\ \A j \in b..(EndOf(s, b) - 1) : IsDigit(s[j])
<1> PICK l \in Nat : l = Len(s)
  BY LenProperties DEF Name
<1> PICK T : T = EndsFrom(s, b)
  OBVIOUS
<1>1. T \subseteq Nat /\ l \in T
  BY DEF EndsFrom
<1>2. \E i \in T : \A j \in T : i <= j
  BY <1>1, Least
<1> PICK e : e = EndOf(s, b)
  OBVIOUS
<1>3. e \in T /\ \A j \in T : e <= j
  BY <1>2 DEF EndOf
<1>4. e \in b..l /\ (e = l \/ ~IsDigit(s[e]))
  BY <1>3 DEF EndsFrom
<1>5. ASSUME NEW j \in b..(e - 1), ~IsDigit(s[j]) PROVE FALSE
  <2>1. j \in T
    BY <1>4, <1>5 DEF EndsFrom
  <2> QED
    BY <1>3, <1>4, <2>1
<1> QED
  BY <1>4, <1>5

(* No other character is. *)
LEMMA EndIs ==
  ASSUME NEW s \in Name, NEW b \in 1..Len(s), NEW e \in b..Len(s),
         e = Len(s) \/ ~IsDigit(s[e]), \A j \in b..(e - 1) : IsDigit(s[j])
  PROVE  EndOf(s, b) = e
<1> PICK l \in Nat : l = Len(s)
  BY LenProperties DEF Name
<1> PICK d : d = EndOf(s, b)
  OBVIOUS
<1>1. d \in b..l /\ (d = l \/ ~IsDigit(s[d])) /\ \A j \in b..(d - 1) : IsDigit(s[j])
  BY EndFacts
<1>2. ASSUME d < e PROVE FALSE
  BY <1>1, <1>2
<1>3. ASSUME e < d PROVE FALSE
  BY <1>1, <1>3
<1> QED
  BY <1>1, <1>2, <1>3

(* The recursive function of TryInt. *)
Digits(s, b, v, n) ==
  IF n = 0 THEN 0
  ELSE LET c == s[b + n - 1] IN IF IsDigit(c) THEN 10 * v[n - 1] + (c - ZERO) ELSE v[n - 1]

IsValue(s, b, e, v) == v = [n \in 0..(e + 1 - b) |-> Digits(s, b, v, n)]

ValueOf(s, b, e) == CHOOSE v : IsValue(s, b, e, v)

(* TryInt, by the names of its parts. *)
LEMMA TryIntDef ==
  ASSUME NEW s, NEW b
  PROVE  TryInt(s, b) = [was_num |-> IsDigit(s[b]), value |-> ValueOf(s, b, EndOf(s, b))[EndOf(s, b) + 1 - b],
                         next_char |-> s[EndOf(s, b)], rest |-> EndOf(s, b) + 1]
BY DEF TryInt, EndOf, EndsFrom, ValueOf, IsValue, Digits

(* The value of a number is a number. *)
LEMMA ValueType ==
  ASSUME NEW s \in Name, NEW b \in 1..Len(s), NEW e \in b..Len(s)
  PROVE  ValueOf(s, b, e)[e + 1 - b] \in Nat
<1> PICK l \in Nat : l = Len(s)
  BY LenProperties DEF Name
<1> PICK n \in Nat : n = e + 1 - b
  OBVIOUS
<1>0. \A k \in 1..n : b + k - 1 \in 1..l /\ s[b + k - 1] \in Nat
  <2> TAKE k \in 1..n
  <2>1. b + k - 1 \in 1..l
    OBVIOUS
  <2> QED
    BY <2>1, ElementOfSeq DEF Name
<1> DEFINE Go(c, x) == IF IsDigit(c) THEN 10 * x + (c - ZERO) ELSE x
<1>1. \A c \in Nat, x \in Nat : Go(c, x) \in Nat
  BY DEF IsDigit, ZERO, NINE
<1> HIDE DEF Go
<1> PICK step : step = [x \in (1..n) \X Nat |-> Go(s[b + x[1] - 1], x[2])]
  OBVIOUS
<1>2. step \in [(1..n) \X Nat -> Nat]
  BY <1>0, <1>1
<1> PICK f \in [0..n -> Nat] : IsIteration(f, n, 0, step)
  BY <1>2, Recursion
<1>3. f = [k \in 0..n |-> Digits(s, b, f, k)]
  <2>1. f = [k \in 0..n |-> IF k = 0 THEN 0 ELSE step[<<k, f[k - 1]>>]]
    BY DEF IsIteration
  <2>2. ASSUME NEW k \in 0..n PROVE f[k] = Digits(s, b, f, k)
    <3>1. CASE k = 0
      BY <2>1, <3>1 DEF Digits
    <3>2. CASE k # 0
      <4>1. k \in 1..n /\ k - 1 \in 0..n
        BY <3>2
      <4>2. f[k - 1] \in Nat
        BY <4>1
      <4>3. step[<<k, f[k - 1]>>] = Go(s[b + k - 1], f[k - 1])
        BY <4>1, <4>2
      <4>4. f[k] = step[<<k, f[k - 1]>>]
        BY <2>1, <3>2
      <4> QED
        BY <3>2, <4>3, <4>4 DEF Digits, Go
    <3> QED
      BY <3>1, <3>2
  <2> QED
    BY <2>2
<1>4. IsValue(s, b, e, f)
  BY <1>3 DEF IsValue
<1> PICK v : v = ValueOf(s, b, e)
  OBVIOUS
<1>5. IsValue(s, b, e, v)
  BY <1>4 DEF ValueOf
<1>6. v = [k \in 0..n |-> Digits(s, b, v, k)]
  BY <1>5 DEF IsValue
<1>7. \A k \in 0..n : v[k] = Digits(s, b, v, k)
  BY <1>6
<1> DEFINE T == {k \in Nat : k <= n => v[k] \in Nat}
<1>8. 0 \in T
  BY <1>7 DEF Digits
<1>9. ASSUME NEW k \in Nat, k \in T PROVE k + 1 \in T
  <2> SUFFICES ASSUME k + 1 <= n PROVE v[k + 1] \in Nat
    OBVIOUS
  <2>1. v[k] \in Nat /\ (k + 1) - 1 = k /\ k + 1 # 0 /\ k + 1 \in 0..n /\ k + 1 \in 1..n
    BY <1>9
  <2>2. s[b + (k + 1) - 1] \in Nat
    BY <1>0, <2>1
  <2>3. v[k + 1] = Go(s[b + (k + 1) - 1], v[k])
    BY <1>7, <2>1 DEF Digits, Go
  <2> QED
    BY <1>1, <2>1, <2>2, <2>3
<1> HIDE DEF T
<1>10. n \in T
  BY <1>8, <1>9, Induction
<1> QED
  BY <1>10 DEF T

(* What a turn of natural_compare returns. *)
LEMMA StepType ==
  \A r1, r2 : CompareStep(r1, r2) \in {-1, 0, 1}
BY DEF CompareStep, Sign

(* The recursive function of NaturalCompare. *)
PairsOf(s, t) == (1..(Len(s) + 1)) \X (1..(Len(t) + 1))

Turn(s, t, p) == CompareStep(TryInt(s, p[1]), TryInt(t, p[2]))

IsFrom(s, t, f) ==
  f = [p \in PairsOf(s, t) |->
         IF p[1] > Len(s) THEN IF p[2] > Len(t) THEN 0 ELSE -1
         ELSE IF p[2] > Len(t) THEN 1
         ELSE IF Turn(s, t, p) # 0 THEN Turn(s, t, p)
         ELSE f[<<TryInt(s, p[1]).rest, TryInt(t, p[2]).rest>>]]

FromOf(s, t) == CHOOSE f : IsFrom(s, t, f)

(* NaturalCompare, by the name of its function. *)
LEMMA NaturalDef ==
  ASSUME NEW s, NEW t
  PROVE  NaturalCompare(s, t) = FromOf(s, t)[<<1, 1>>]
BY DEF NaturalCompare, FromOf, IsFrom, Turn, PairsOf

(* A turn goes on behind where it began. *)
LEMMA RestFacts ==
  ASSUME NEW s \in Name, NEW b \in 1..Len(s)
  PROVE  TryInt(s, b).rest \in (b + 1)..(Len(s) + 1)
<1>1. EndOf(s, b) \in b..Len(s) /\ TryInt(s, b).rest = EndOf(s, b) + 1
  BY EndFacts, TryIntDef
<1>2. Len(s) \in Nat
  BY LenProperties DEF Name
<1> QED
  BY <1>1, <1>2

(* The recursive function of NaturalCompare satisfies its equation. *)
LEMMA FromEquation ==
  ASSUME NEW s \in Name, NEW t \in Name
  PROVE  IsFrom(s, t, FromOf(s, t))
<1> PICK m \in Nat : m = Len(s)
  BY LenProperties DEF Name
<1> PICK n \in Nat : n = Len(t)
  BY LenProperties DEF Name
<1> PICK D : D = PairsOf(s, t)
  OBVIOUS
<1>0. D = (1..(m + 1)) \X (1..(n + 1))
  BY DEF PairsOf
<1> PICK V : V = {-1, 0, 1}
  OBVIOUS
<1> DEFINE Out(p) == IF p[1] > m THEN IF p[2] > n THEN 0 ELSE -1
                     ELSE IF p[2] > n THEN 1 ELSE Turn(s, t, p)
           Next(p) == <<TryInt(s, p[1]).rest, TryInt(t, p[2]).rest>>
           Stops(p) == p[1] > m \/ p[2] > n \/ Turn(s, t, p) # 0
<1> PICK out : out = [p \in D |-> Out(p)]
  OBVIOUS
<1> PICK next : next = [p \in D |-> Next(p)]
  OBVIOUS
<1> PICK halt : halt = {p \in D : Stops(p)}
  OBVIOUS
<1> PICK rank : rank = [p \in D |-> m + 1 - p[1]]
  OBVIOUS
<1>1. out \in [D -> V]
  <2>1. \A p \in D : Turn(s, t, p) \in V
    BY StepType DEF Turn
  <2> QED
    BY <2>1
<1>2. rank \in [D -> 0..m]
  <2>1. \A p \in D : p[1] \in 1..(m + 1)
    BY <1>0
  <2>2. \A p \in D : m + 1 - p[1] \in 0..m
    BY <2>1
  <2> QED
    BY <2>2
<1>3. ASSUME NEW p \in D \ halt PROVE next[p] \in D /\ rank[next[p]] < rank[p]
  <2>1. p[1] \in 1..m /\ p[2] \in 1..n /\ p \in D
    BY <1>0, <1>3
  <2>2. TryInt(s, p[1]).rest \in (p[1] + 1)..(m + 1) /\ TryInt(t, p[2]).rest \in (p[2] + 1)..(n + 1)
    BY <2>1, RestFacts
  <2> PICK i, j : i = TryInt(s, p[1]).rest /\ j = TryInt(t, p[2]).rest
    OBVIOUS
  <2>3. next[p] = <<i, j>>
    BY <2>1
  <2>4. <<i, j>> \in D
    BY <1>0, <2>1, <2>2
  <2>5. rank[<<i, j>>] = m + 1 - i /\ rank[p] = m + 1 - p[1]
    BY <2>1, <2>4
  <2> QED
    BY <2>1, <2>2, <2>3, <2>4, <2>5
<1>4. halt \in SUBSET D
  OBVIOUS
<1>f. \E f \in [D -> V] : IsLoop(f, D, halt, out, next)
  <2>1. \A p \in D \ halt : next[p] \in D /\ rank[next[p]] < rank[p]
    BY <1>3
  <2> QED
    BY ONLY m \in Nat, <1>1, <1>2, <1>4, <2>1, LoopRecursion
<1> PICK f \in [D -> V] : IsLoop(f, D, halt, out, next)
  BY <1>f
<1>5. \A p \in D : f[p] = IF p \in halt THEN out[p] ELSE f[next[p]]
  BY DEF IsLoop
<1> DEFINE Body(p) == IF p[1] > m THEN IF p[2] > n THEN 0 ELSE -1
                      ELSE IF p[2] > n THEN 1
                      ELSE IF Turn(s, t, p) # 0 THEN Turn(s, t, p) ELSE f[Next(p)]
<1>6. ASSUME NEW p \in D PROVE f[p] = Body(p)
  <2>1. CASE Stops(p)
    <3>1. f[p] = Out(p)
      BY <1>5, <2>1
    <3> QED
      BY <2>1, <3>1
  <2>2. CASE ~Stops(p)
    <3>1. f[p] = f[Next(p)]
      BY <1>5, <2>2
    <3> QED
      BY <2>2, <3>1
  <2> QED
    BY <2>1, <2>2
<1>7. f = [p \in D |-> Body(p)]
  BY <1>6
<1>8. IsFrom(s, t, f)
  BY <1>7 DEF IsFrom
<1> QED
  BY <1>8 DEF FromOf

-----------------------------------------------------------------------------
(* Two numbers that are alike up to where they end. *)
LEMMA SameValue ==
  ASSUME NEW s, NEW t, NEW b \in Nat, NEW e \in Nat, b <= e,
         \A j \in b..(e - 1) : s[j] = t[j],
         s[e] = t[e] \/ (~IsDigit(s[e]) /\ ~IsDigit(t[e]))
  PROVE  ValueOf(s, b, e) = ValueOf(t, b, e)
<1>1. ASSUME NEW v, NEW k \in 0..(e + 1 - b) PROVE Digits(s, b, v, k) = Digits(t, b, v, k)
  <2> PICK j : j = b + k - 1
    OBVIOUS
  <2>1. CASE k = 0
    BY <2>1 DEF Digits
  <2>2. CASE k # 0 /\ j = e
    BY <2>2 DEF Digits
  <2>3. CASE k # 0 /\ j # e
    <3>1. j \in b..(e - 1)
      BY <2>3
    <3> QED
      BY <3>1 DEF Digits
  <2> QED
    BY <2>1, <2>2, <2>3
<1>2. ASSUME NEW v PROVE IsValue(s, b, e, v) <=> IsValue(t, b, e, v)
  <2>1. [n \in 0..(e + 1 - b) |-> Digits(s, b, v, n)] = [n \in 0..(e + 1 - b) |-> Digits(t, b, v, n)]
    BY <1>1
  <2> QED
    BY <2>1 DEF IsValue
<1> QED
  BY <1>2 DEF ValueOf

(* A number, or a character, that ends before the names differ. *)
LEMMA SameToken ==
  ASSUME NEW s \in Name, NEW t \in Name, NEW b \in Nat, NEW e \in Nat,
         1 <= b, b <= e, e < Len(s), e < Len(t),
         \A j \in b..e : s[j] = t[j], EndOf(t, b) = e
  PROVE  EndOf(s, b) = e /\ TryInt(s, b) = TryInt(t, b)
<1>0. Len(s) \in Nat /\ Len(t) \in Nat
  BY LenProperties DEF Name
<1>1. b \in 1..Len(t) /\ b \in 1..Len(s) /\ e \in b..Len(s)
  BY <1>0
<1>2. ~IsDigit(t[e]) /\ \A j \in b..(e - 1) : IsDigit(t[j])
  <2>1. EndOf(t, b) = Len(t) \/ ~IsDigit(t[EndOf(t, b)])
    BY <1>1, EndFacts
  <2>2. \A j \in b..(EndOf(t, b) - 1) : IsDigit(t[j])
    BY <1>1, EndFacts
  <2> QED
    BY <1>0, <2>1, <2>2
<1>3. EndOf(s, b) = e
  <2>1. ~IsDigit(s[e]) /\ \A j \in b..(e - 1) : IsDigit(s[j])
    BY <1>0, <1>2
  <2> QED
    BY <1>1, <2>1, EndIs
<1>4. ValueOf(s, b, e) = ValueOf(t, b, e)
  <2>1. \A j \in b..(e - 1) : s[j] = t[j]
    OBVIOUS
  <2>2. s[e] = t[e]
    OBVIOUS
  <2> QED
    BY <2>1, <2>2, SameValue
<1>5. s[b] = t[b] /\ s[e] = t[e]
  OBVIOUS
<1> QED
  BY <1>3, <1>4, <1>5, TryIntDef

-----------------------------------------------------------------------------
(* From b on, t comes before s. *)
Before(t, s, b) == FromOf(t, s)[<<b, b>>] = -1

(* A turn that decides, and one that does not. *)
LEMMA TurnFacts ==
  ASSUME NEW s \in Name, NEW t \in Name, NEW b \in 1..Len(s), b <= Len(t)
  PROVE  /\ Turn(t, s, <<b, b>>) = -1 => Before(t, s, b)
         /\ TryInt(s, b) = TryInt(t, b) =>
              (Before(t, s, TryInt(t, b).rest) => Before(t, s, b))
<1>0. Len(s) \in Nat /\ Len(t) \in Nat
  BY LenProperties DEF Name
<1> PICK p : p = <<b, b>>
  OBVIOUS
<1>1. p \in PairsOf(t, s) /\ p[1] = b /\ p[2] = b /\ ~(b > Len(s)) /\ ~(b > Len(t))
  BY <1>0 DEF PairsOf
<1> PICK f : f = FromOf(t, s)
  OBVIOUS
<1>2. IsFrom(t, s, f)
  BY FromEquation
<1>3. f[p] = IF Turn(t, s, p) # 0 THEN Turn(t, s, p)
             ELSE f[<<TryInt(t, b).rest, TryInt(s, b).rest>>]
  BY <1>1, <1>2 DEF IsFrom
<1>4. Turn(t, s, p) = -1 => f[p] = -1
  BY <1>3
<1>5. ASSUME TryInt(s, b) = TryInt(t, b) PROVE Turn(t, s, p) = 0
  <2> PICK r : r = TryInt(t, b)
    OBVIOUS
  <2>1. r.next_char \in Nat
    <3>1. b \in 1..Len(t)
      BY <1>0
    <3>2. EndOf(t, b) \in 1..Len(t)
      BY <1>0, <3>1, EndFacts
    <3>3. t[EndOf(t, b)] \in Nat
      BY <3>2, ElementOfSeq DEF Name
    <3> QED
      BY <3>3, TryIntDef
  <2>2. Turn(t, s, p) = CompareStep(r, r)
    BY <1>1, <1>5 DEF Turn
  <2> QED
    BY <2>1, <2>2 DEF CompareStep, Sign
<1> QED
  BY <1>3, <1>4, <1>5 DEF Before

(* Where they differ, t is smaller. *)
Smaller(t, s, k) ==
  \/ /\ k > 1 => ~IsDigit(s[k - 1])
     /\ IsDigit(s[k]) /\ IsDigit(t[k])
     /\ TryInt(s, k).value > TryInt(t, k).value
  \/ ~IsDigit(s[k]) /\ ~IsDigit(t[k]) /\ s[k] > t[k]

(* Then the loop decides so. *)
LEMMA DecidesThere ==
  ASSUME NEW s \in Name, NEW t \in Name, NEW k \in 1..Len(s), k <= Len(t), Smaller(t, s, k)
  PROVE  Before(t, s, k)
<1>0. Len(s) \in Nat /\ Len(t) \in Nat /\ k \in 1..Len(t)
  BY LenProperties DEF Name
<1> PICK r1 : r1 = TryInt(t, k)
  OBVIOUS
<1> PICK r2 : r2 = TryInt(s, k)
  OBVIOUS
<1>1. /\ r1.was_num = IsDigit(t[k]) /\ r2.was_num = IsDigit(s[k])
      /\ r1.next_char = t[EndOf(t, k)] /\ r2.next_char = s[EndOf(s, k)]
  BY TryIntDef
<1>2. r1.value \in Nat /\ r2.value \in Nat
  BY <1>0, TryIntDef, EndFacts, ValueType
<1>3. Turn(t, s, <<k, k>>) = CompareStep(r1, r2)
  BY DEF Turn
<1>4. CASE IsDigit(s[k]) /\ IsDigit(t[k])
  <2>1. r2.value > r1.value
    BY <1>4 DEF Smaller
  <2>2. CompareStep(r1, r2) = -1
    BY <1>1, <1>2, <1>4, <2>1 DEF CompareStep, Sign
  <2> QED
    BY <1>0, <1>3, <2>2, TurnFacts
<1>5. CASE ~(IsDigit(s[k]) /\ IsDigit(t[k]))
  <2>1. ~IsDigit(s[k]) /\ ~IsDigit(t[k]) /\ s[k] > t[k]
    BY <1>5 DEF Smaller
  <2>2. EndOf(s, k) = k /\ EndOf(t, k) = k
    <3>1. k \in k..Len(s) /\ \A j \in k..(k - 1) : IsDigit(s[j])
      BY <1>0
    <3>2. k \in k..Len(t) /\ \A j \in k..(k - 1) : IsDigit(t[j])
      BY <1>0
    <3> QED
      BY <1>0, <2>1, <3>1, <3>2, EndIs
  <2>3. s[k] \in Nat /\ t[k] \in Nat
    BY <1>0, ElementOfSeq DEF Name
  <2>4. CompareStep(r1, r2) = -1
    BY <1>1, <2>1, <2>2, <2>3 DEF CompareStep, Sign
  <2> QED
    BY <1>0, <1>3, <2>4, TurnFacts
<1> QED
  BY <1>4, <1>5

(* And from wherever it began a turn before. *)
LEMMA DecidesFrom ==
  ASSUME NEW s \in Name, NEW t \in Name, NEW k \in 1..Len(s), k <= Len(t),
         \A j \in 1..(k - 1) : s[j] = t[j], Smaller(t, s, k)
  PROVE  Before(t, s, 1)
<1>0. Len(s) \in Nat /\ Len(t) \in Nat /\ k \in 1..Len(t)
  BY LenProperties DEF Name
<1> DEFINE T == {m \in Nat : \A b \in 1..k : b >= k - m => Before(t, s, b)}
<1>1. 0 \in T
  <2>1. ASSUME NEW b \in 1..k, b >= k - 0 PROVE Before(t, s, b)
    <3>1. b = k
      BY <2>1
    <3> QED
      BY <3>1, DecidesThere
  <2> QED
    BY <2>1
<1>2. ASSUME NEW m \in Nat, m \in T PROVE m + 1 \in T
  <2>0. \A d \in 1..k : d >= k - m => Before(t, s, d)
    BY <1>2
  <2> SUFFICES ASSUME NEW b \in 1..k, b = k - (m + 1) PROVE Before(t, s, b)
    BY <2>0
  <2> PICK e : e = EndOf(t, b)
    OBVIOUS
  <2>1. b \in 1..Len(s) /\ b \in 1..Len(t) /\ b <= k - 1
    BY <1>0
  <2>2. e \in b..Len(t) /\ (e = Len(t) \/ ~IsDigit(t[e])) /\ \A j \in b..(e - 1) : IsDigit(t[j])
    BY <2>1, EndFacts
  <2>3. CASE e < k
    <3>1. e < Len(s) /\ e < Len(t) /\ b \in Nat /\ e \in Nat /\ \A j \in b..e : s[j] = t[j]
      BY <1>0, <2>1, <2>2, <2>3
    <3>2. TryInt(s, b) = TryInt(t, b)
      BY <2>1, <2>2, <3>1, SameToken
    <3>3. TryInt(t, b).rest = e + 1
      BY TryIntDef
    <3>4. Before(t, s, e + 1)
      <4>1. e + 1 \in 1..k /\ e + 1 >= k - m
        BY <2>1, <2>2, <2>3
      <4> QED
        BY <2>0, <4>1
    <3>5. Before(t, s, TryInt(t, b).rest)
      BY ONLY <3>3, <3>4
    <3>6. b \in 1..Len(s) /\ b <= Len(t)
      BY <1>0, <2>1
    <3> QED
      BY ONLY s \in Name, t \in Name, <3>2, <3>5, <3>6, TurnFacts
  <2>4. CASE e >= k
    <3>1. \A j \in b..(k - 1) : IsDigit(t[j]) /\ IsDigit(s[j]) /\ s[j] = t[j]
      BY <1>0, <2>1, <2>2, <2>4
    <3>2. k > 1 /\ IsDigit(s[k - 1])
      BY <1>0, <2>1, <3>1
    <3>3. ~IsDigit(s[k]) /\ ~IsDigit(t[k]) /\ s[k] > t[k]
      BY <3>2 DEF Smaller
    <3>4. EndOf(t, b) = k /\ EndOf(s, b) = k
      <4>1. k \in b..Len(s) /\ k \in b..Len(t)
        BY <1>0, <2>1
      <4>2. \A j \in b..(k - 1) : IsDigit(s[j])
        BY <3>1
      <4>3. \A j \in b..(k - 1) : IsDigit(t[j])
        BY <3>1
      <4> QED
        BY <2>1, <3>3, <4>1, <4>2, <4>3, EndIs
    <3>5. ValueOf(s, b, k) = ValueOf(t, b, k)
      <4>1. \A j \in b..(k - 1) : s[j] = t[j]
        BY <3>1
      <4>2. b \in Nat /\ k \in Nat /\ b <= k
        BY <2>1
      <4> QED
        BY <3>3, <4>1, <4>2, SameValue
    <3> PICK r1 : r1 = TryInt(t, b)
      OBVIOUS
    <3> PICK r2 : r2 = TryInt(s, b)
      OBVIOUS
    <3>6. /\ r1.was_num = TRUE /\ r2.was_num = TRUE /\ r1.value = r2.value
          /\ r1.next_char = t[k] /\ r2.next_char = s[k]
      <4>1. b \in b..(k - 1)
        BY <2>1
      <4>2. IsDigit(t[b]) /\ IsDigit(s[b])
        BY <3>1, <4>1
      <4> QED
        BY <3>4, <3>5, <4>2, TryIntDef
    <3>7. s[k] \in Nat /\ t[k] \in Nat
      BY <1>0, ElementOfSeq DEF Name
    <3>8. CompareStep(r1, r2) = -1
      BY <3>3, <3>6, <3>7 DEF CompareStep, Sign
    <3>9. Turn(t, s, <<b, b>>) = -1
      BY <3>8 DEF Turn
    <3> QED
      BY <1>0, <2>1, <3>9, TurnFacts
  <2> QED
    BY <2>2, <2>3, <2>4
<1> HIDE DEF T
<1>3. k \in T
  BY <1>1, <1>2, Induction
<1> QED
  BY <1>3 DEF T


-----------------------------------------------------------------------------
(* Where the natural order is one. *)

(* Where the numbers and characters begin that natural_compare compares,   *)
(* the first one at 0.                                                     *)
WordStep(s, b) == IF b > Len(s) THEN b ELSE TryInt(s, b).rest

WordAt(s, n) ==
  LET at[k \in 0..n] == IF k = 0 THEN 1 ELSE WordStep(s, at[k - 1])
  IN  at[n]

(* The n-th words of two names are both numbers, or neither is. *)
WordsAreAlike(names) ==
  \A s, t \in names : \A n \in 0..Len(s) :
    LET b == WordAt(s, n)
        c == WordAt(t, n)
    IN  b <= Len(s) /\ c <= Len(t) => (IsDigit(s[b]) <=> IsDigit(t[c]))

(* The recursive function of WordAt. *)
IsWords(s, n, f) == f = [k \in 0..n |-> IF k = 0 THEN 1 ELSE WordStep(s, f[k - 1])]

WordsOf(s, n) == CHOOSE f : IsWords(s, n, f)

(* WordAt, by the name of its function. *)
LEMMA WordDef ==
  ASSUME NEW s, NEW n
  PROVE  WordAt(s, n) = WordsOf(s, n)[n]
BY DEF WordAt, WordsOf, IsWords

(* A step goes on unless the name has ended. *)
LEMMA WordStepType ==
  ASSUME NEW s \in Name, NEW b \in 1..(Len(s) + 1)
  PROVE  WordStep(s, b) \in 1..(Len(s) + 1) /\ (b <= Len(s) => WordStep(s, b) > b)
<1>1. Len(s) \in Nat
  BY LenProperties DEF Name
<1>2. CASE b > Len(s)
  BY <1>1, <1>2 DEF WordStep
<1>3. CASE b <= Len(s)
  <2>1. TryInt(s, b).rest \in (b + 1)..(Len(s) + 1)
    BY <1>1, <1>3, RestFacts
  <2> QED
    BY <1>1, <1>3, <2>1 DEF WordStep
<1> QED
  BY <1>1, <1>2, <1>3

(* The recursive function of WordAt satisfies its equation. *)
LEMMA WordEquation ==
  ASSUME NEW s \in Name, NEW n \in Nat
  PROVE  /\ \A k \in 0..n : WordsOf(s, n)[k] \in 1..(Len(s) + 1)
         /\ WordsOf(s, n)[0] = 1
         /\ \A k \in 1..n : WordsOf(s, n)[k] = WordStep(s, WordsOf(s, n)[k - 1])
<1> PICK l \in Nat : l = Len(s)
  BY LenProperties DEF Name
<1> PICK V : V = 1..(l + 1)
  OBVIOUS
<1> PICK step : step = [x \in (1..n) \X V |-> WordStep(s, x[2])]
  OBVIOUS
<1>1. step \in [(1..n) \X V -> V] /\ 1 \in V
  BY WordStepType
<1> PICK f \in [0..n -> V] : IsIteration(f, n, 1, step)
  BY <1>1, Recursion
<1>2. f = [k \in 0..n |-> IF k = 0 THEN 1 ELSE WordStep(s, f[k - 1])]
  <2>1. f = [k \in 0..n |-> IF k = 0 THEN 1 ELSE step[<<k, f[k - 1]>>]]
    BY DEF IsIteration
  <2>2. ASSUME NEW k \in 0..n, k # 0 PROVE step[<<k, f[k - 1]>>] = WordStep(s, f[k - 1])
    <3>1. k \in 1..n /\ k - 1 \in 0..n
      BY <2>2
    <3>2. f[k - 1] \in V
      BY <3>1
    <3> QED
      BY <3>1, <3>2
  <2> QED
    BY <2>1, <2>2
<1> PICK w : w = WordsOf(s, n)
  OBVIOUS
<1>3. IsWords(s, n, w)
  BY <1>2 DEF WordsOf, IsWords
<1>4. w = [k \in 0..n |-> IF k = 0 THEN 1 ELSE WordStep(s, w[k - 1])]
  BY <1>3 DEF IsWords
<1>5. w[0] = 1 /\ \A k \in 1..n : w[k] = WordStep(s, w[k - 1])
  <2>1. \A k \in 0..n : w[k] = IF k = 0 THEN 1 ELSE WordStep(s, w[k - 1])
    BY ONLY n \in Nat, <1>4
  <2>2. 0 \in 0..n /\ \A k \in 1..n : k \in 0..n /\ k # 0
    OBVIOUS
  <2> QED
    BY ONLY <2>1, <2>2
<1> DEFINE T == {k \in Nat : k <= n => w[k] \in V}
<1>6. 0 \in T
  BY <1>1, <1>5
<1>7. ASSUME NEW k \in Nat, k \in T PROVE k + 1 \in T
  <2> SUFFICES ASSUME k + 1 <= n PROVE w[k + 1] \in V
    OBVIOUS
  <2>1. w[k] \in V /\ (k + 1) - 1 = k /\ k + 1 \in 1..n
    BY <1>7
  <2>2. w[k + 1] = WordStep(s, w[k])
    BY <1>5, <2>1
  <2> QED
    BY <2>1, <2>2, WordStepType
<1> HIDE DEF T
<1>8. \A k \in Nat : k \in T
  BY <1>6, <1>7, Induction
<1> QED
  BY <1>5, <1>8 DEF T

(* One word more changes none of those before. *)
LEMMA WordsAgree ==
  ASSUME NEW s \in Name, NEW n \in Nat
  PROVE  WordsOf(s, n + 1)[n] = WordAt(s, n)
<1> PICK w : w = WordsOf(s, n)
  OBVIOUS
<1> PICK v : v = WordsOf(s, n + 1)
  OBVIOUS
<1>1. w[0] = 1 /\ \A k \in 1..n : w[k] = WordStep(s, w[k - 1])
  BY WordEquation
<1>2. v[0] = 1 /\ \A k \in 1..(n + 1) : v[k] = WordStep(s, v[k - 1])
  BY WordEquation
<1> DEFINE T == {k \in Nat : k <= n => w[k] = v[k]}
<1>3. 0 \in T
  BY <1>1, <1>2
<1>4. ASSUME NEW k \in Nat, k \in T PROVE k + 1 \in T
  <2> SUFFICES ASSUME k + 1 <= n PROVE w[k + 1] = v[k + 1]
    OBVIOUS
  <2>1. w[k] = v[k] /\ (k + 1) - 1 = k /\ k + 1 \in 1..n /\ k + 1 \in 1..(n + 1)
    BY <1>4
  <2> QED
    BY <1>1, <1>2, <2>1
<1> HIDE DEF T
<1>5. n \in T
  BY <1>3, <1>4, Induction
<1> QED
  BY <1>5, WordDef DEF T

(* Word after word. *)
LEMMA WordFacts ==
  ASSUME NEW s \in Name
  PROVE  /\ WordAt(s, 0) = 1
         /\ \A n \in Nat : /\ WordAt(s, n) \in 1..(Len(s) + 1)
                           /\ WordAt(s, n) <= Len(s) => WordAt(s, n + 1) = TryInt(s, WordAt(s, n)).rest
                           /\ WordAt(s, n) > Len(s) \/ WordAt(s, n) > n
<1>0. Len(s) \in Nat
  BY LenProperties DEF Name
<1>1. WordAt(s, 0) = 1
  BY WordDef, WordEquation
<1>2. ASSUME NEW n \in Nat
      PROVE  WordAt(s, n) \in 1..(Len(s) + 1) /\ WordAt(s, n + 1) = WordStep(s, WordAt(s, n))
  <2>1. WordAt(s, n) \in 1..(Len(s) + 1)
    BY WordDef, WordEquation
  <2>2. n + 1 \in Nat /\ n + 1 \in 1..(n + 1) /\ (n + 1) - 1 = n
    OBVIOUS
  <2>3. WordsOf(s, n + 1)[n + 1] = WordStep(s, WordsOf(s, n + 1)[(n + 1) - 1])
    BY <2>2, WordEquation
  <2> QED
    BY <2>1, <2>2, <2>3, WordDef, WordsAgree
<1> DEFINE T == {n \in Nat : WordAt(s, n) > Len(s) \/ WordAt(s, n) > n}
<1>3. 0 \in T
  BY <1>1
<1>4. ASSUME NEW n \in Nat, n \in T PROVE n + 1 \in T
  <2> PICK b \in 1..(Len(s) + 1) : b = WordAt(s, n)
    BY <1>2
  <2> PICK c : c = WordAt(s, n + 1)
    OBVIOUS
  <2>1. c = WordStep(s, b) /\ (b > Len(s) \/ b > n)
    BY <1>2, <1>4
  <2>2. c \in 1..(Len(s) + 1) /\ (b <= Len(s) => c > b)
    BY <2>1, WordStepType
  <2>3. b > Len(s) => c = b
    BY <2>1 DEF WordStep
  <2> QED
    BY <1>0, <2>1, <2>2, <2>3
<1> HIDE DEF T
<1>5. \A n \in Nat : n \in T
  BY <1>3, <1>4, Induction
<1>6. ASSUME NEW n \in Nat, WordAt(s, n) <= Len(s)
      PROVE  WordAt(s, n + 1) = TryInt(s, WordAt(s, n)).rest
  <2> PICK b \in 1..(Len(s) + 1) : b = WordAt(s, n)
    BY <1>2
  <2>1. ~(b > Len(s))
    BY <1>0, <1>6
  <2> QED
    BY <1>2, <2>1 DEF WordStep
<1> QED
  BY <1>1, <1>2, <1>5, <1>6 DEF T

(* What natural_compare returns if it comes to the n-th words. *)
FromWord(s, t, n) == FromOf(s, t)[<<WordAt(s, n), WordAt(t, n)>>]

(* A turn of its loop: whether either name has ended, what the words say,  *)
(* and what is said of the rest.                                           *)
Decide(e, f, k, r) ==
  IF e THEN IF f THEN 0 ELSE -1 ELSE IF f THEN 1 ELSE IF k # 0 THEN k ELSE r

WordTurn(s, t, n) == CompareStep(TryInt(s, WordAt(s, n)), TryInt(t, WordAt(t, n)))

Ended(s, n) == WordAt(s, n) > Len(s)

(* So it is decided turn by turn. *)
LEMMA FromWordEquation ==
  ASSUME NEW s \in Name, NEW t \in Name, NEW n \in Nat
  PROVE  FromWord(s, t, n) = Decide(Ended(s, n), Ended(t, n), WordTurn(s, t, n), FromWord(s, t, n + 1))
<1>0. Len(s) \in Nat /\ Len(t) \in Nat
  BY LenProperties DEF Name
<1> PICK b \in 1..(Len(s) + 1) : b = WordAt(s, n)
  BY WordFacts
<1> PICK c \in 1..(Len(t) + 1) : c = WordAt(t, n)
  BY WordFacts
<1> PICK p : p = <<b, c>>
  OBVIOUS
<1> PICK f : f = FromOf(s, t)
  OBVIOUS
<1>1. p \in PairsOf(s, t) /\ p[1] = b /\ p[2] = c
  BY DEF PairsOf
<1>2. f[p] = IF b > Len(s) THEN IF c > Len(t) THEN 0 ELSE -1
             ELSE IF c > Len(t) THEN 1
             ELSE IF Turn(s, t, p) # 0 THEN Turn(s, t, p)
             ELSE f[<<TryInt(s, b).rest, TryInt(t, c).rest>>]
  BY <1>1, FromEquation DEF IsFrom
<1>3. Turn(s, t, p) = WordTurn(s, t, n)
  BY <1>1 DEF Turn, WordTurn
<1>4. ASSUME ~(b > Len(s)), ~(c > Len(t))
      PROVE  f[<<TryInt(s, b).rest, TryInt(t, c).rest>>] = FromWord(s, t, n + 1)
  <2>1. b <= Len(s) /\ c <= Len(t)
    BY <1>0, <1>4
  <2>2. WordAt(s, n + 1) = TryInt(s, b).rest /\ WordAt(t, n + 1) = TryInt(t, c).rest
    BY <2>1, WordFacts
  <2> QED
    BY <2>2 DEF FromWord
<1>5. f[p] = FromWord(s, t, n)
  BY DEF FromWord
<1>6. (Ended(s, n) <=> b > Len(s)) /\ (Ended(t, n) <=> c > Len(t))
  BY DEF Ended
<1> QED
  BY ONLY <1>2, <1>3, <1>4, <1>5, <1>6 DEF Decide

(* What a comparison may say. *)
Results == {-1, 0, 1}

(* Of three, the first before or with the second, that before the third. *)
Ordered(x, y, z) ==
  /\ x = 0 /\ y = 0 => z = 0
  /\ x # 1 /\ y # 1 /\ (x = -1 \/ y = -1) => z = -1

(* A turn keeps what holds of the words and of the rest. *)
LEMMA DecideFacts ==
  ASSUME NEW e, NEW f, NEW k \in Results, NEW j \in Results, NEW r \in Results,
         ~e /\ ~f => j = 0 - k
  PROVE  /\ Decide(e, f, k, r) \in Results
         /\ Decide(f, e, j, 0 - r) = 0 - Decide(e, f, k, r)
BY DEF Decide, Results

(* For three names as well. *)
LEMMA DecideOrders ==
  ASSUME NEW e, NEW f, NEW g,
         NEW k1 \in Results, NEW k2 \in Results, NEW k3 \in Results,
         NEW r1 \in Results, NEW r2 \in Results, NEW r3 \in Results,
         ~e /\ ~f /\ ~g => Ordered(k1, k2, k3), Ordered(r1, r2, r3)
  PROVE  Ordered(Decide(e, f, k1, r1), Decide(f, g, k2, r2), Decide(e, g, k3, r3))
BY DEF Decide, Ordered, Results

(* One turn compares numbers with numbers and characters with characters. *)
IsWord(r) == r.was_num \in BOOLEAN /\ r.value \in Nat /\ r.next_char \in Nat

(* The opposite, when exchanged. *)
LEMMA StepFacts ==
  ASSUME NEW r1, NEW r2, IsWord(r1), IsWord(r2), r1.was_num = r2.was_num
  PROVE  CompareStep(r1, r2) \in Results /\ CompareStep(r2, r1) = 0 - CompareStep(r1, r2)
BY DEF CompareStep, Sign, IsWord, Results

(* By value and then by the character behind. *)
LEMMA StepOrders ==
  ASSUME NEW r1, NEW r2, NEW r3, IsWord(r1), IsWord(r2), IsWord(r3),
         r1.was_num = r2.was_num, r2.was_num = r3.was_num
  PROVE  Ordered(CompareStep(r1, r2), CompareStep(r2, r3), CompareStep(r1, r3))
BY DEF CompareStep, Sign, IsWord, Ordered

(* What TryInt makes of a word. *)
LEMMA WordType ==
  ASSUME NEW s \in Name, NEW n \in Nat, ~Ended(s, n)
  PROVE  /\ IsWord(TryInt(s, WordAt(s, n)))
         /\ TryInt(s, WordAt(s, n)).was_num = IsDigit(s[WordAt(s, n)])
<1>0. Len(s) \in Nat
  BY LenProperties DEF Name
<1> PICK b : b = WordAt(s, n)
  OBVIOUS
<1>1. b \in 1..Len(s)
  BY <1>0, WordFacts DEF Ended
<1> PICK e : e = EndOf(s, b)
  OBVIOUS
<1>2. e \in b..Len(s)
  BY <1>1, EndFacts
<1>3. s[e] \in Nat
  BY <1>0, <1>1, <1>2, ElementOfSeq DEF Name
<1>4. ValueOf(s, b, e)[e + 1 - b] \in Nat
  BY <1>1, <1>2, ValueType
<1>5. TryInt(s, b) = [was_num |-> IsDigit(s[b]), value |-> ValueOf(s, b, e)[e + 1 - b],
                      next_char |-> s[e], rest |-> e + 1]
  BY TryIntDef
<1>6. IsDigit(s[b]) \in BOOLEAN
  BY DEF IsDigit
<1> QED
  BY <1>3, <1>4, <1>5, <1>6 DEF IsWord

(* The turns of two names of which neither has ended. *)
LEMMA TurnsAreAlike ==
  ASSUME NEW names, names \subseteq Name, WordsAreAlike(names),
         NEW s \in names, NEW t \in names, NEW n \in Nat, ~Ended(s, n), ~Ended(t, n)
  PROVE  TryInt(s, WordAt(s, n)).was_num = TryInt(t, WordAt(t, n)).was_num
<1>0. s \in Name /\ t \in Name /\ Len(s) \in Nat /\ Len(t) \in Nat
  BY LenProperties DEF Name
<1>1. WordAt(s, n) <= Len(s) /\ WordAt(t, n) <= Len(t)
  <2> PICK b \in 1..(Len(s) + 1) : b = WordAt(s, n)
    BY <1>0, WordFacts
  <2> PICK c \in 1..(Len(t) + 1) : c = WordAt(t, n)
    BY <1>0, WordFacts
  <2>1. ~(b > Len(s)) /\ ~(c > Len(t))
    BY DEF Ended
  <2> QED
    BY <1>0, <2>1
<1>2. IsDigit(s[WordAt(s, n)]) <=> IsDigit(t[WordAt(t, n)])
  <2>1. n \in 0..Len(s)
    <3> PICK b \in 1..(Len(s) + 1) : b = WordAt(s, n)
      BY <1>0, WordFacts
    <3>1. b > Len(s) \/ b > n
      BY <1>0, WordFacts
    <3> QED
      BY <1>0, <1>1, <3>1
  <2> QED
    BY <1>1, <2>1 DEF WordsAreAlike
<1>3. IsDigit(s[WordAt(s, n)]) = IsDigit(t[WordAt(t, n)])
  BY <1>2 DEF IsDigit
<1> QED
  BY <1>0, <1>3, WordType

(* Which therefore say the opposite when exchanged. *)
LEMMA WordTurnFacts ==
  ASSUME NEW names, names \subseteq Name, WordsAreAlike(names),
         NEW s \in names, NEW t \in names, NEW n \in Nat
  PROVE  /\ WordTurn(s, t, n) \in Results
         /\ ~Ended(s, n) /\ ~Ended(t, n) => WordTurn(t, s, n) = 0 - WordTurn(s, t, n)
<1>1. WordTurn(s, t, n) \in Results
  BY StepType DEF WordTurn, Results
<1>2. ASSUME ~Ended(s, n), ~Ended(t, n) PROVE WordTurn(t, s, n) = 0 - WordTurn(s, t, n)
  <2> PICK r1 : r1 = TryInt(s, WordAt(s, n))
    OBVIOUS
  <2> PICK r2 : r2 = TryInt(t, WordAt(t, n))
    OBVIOUS
  <2>1. IsWord(r1) /\ IsWord(r2) /\ r1.was_num = r2.was_num
    BY <1>2, WordType, TurnsAreAlike
  <2>2. CompareStep(r2, r1) = 0 - CompareStep(r1, r2)
    BY <2>1, StepFacts
  <2> QED
    BY <2>2 DEF WordTurn
<1> QED
  BY <1>1, <1>2

(* All words have ended at some time. *)
LEMMA WordsEnd ==
  ASSUME NEW s \in Name, NEW n \in Nat, n >= Len(s)
  PROVE  Ended(s, n)
<1>1. Len(s) \in Nat /\ WordAt(s, n) \in 1..(Len(s) + 1) /\ (WordAt(s, n) > Len(s) \/ WordAt(s, n) > n)
  BY LenProperties, WordFacts DEF Name
<1> QED
  BY <1>1 DEF Ended

(* The result is the opposite if the names are exchanged. *)
LEMMA OppositeResults ==
  ASSUME NEW names, names \subseteq Name, WordsAreAlike(names),
         NEW s \in names, NEW t \in names
  PROVE  \A n \in Nat : FromWord(s, t, n) \in Results /\ FromWord(t, s, n) = 0 - FromWord(s, t, n)
<1>0. s \in Name /\ t \in Name
  OBVIOUS
<1> PICK l \in Nat : l = Len(s) + Len(t) /\ l >= Len(s) /\ l >= Len(t)
  <2>1. Len(s) \in Nat /\ Len(t) \in Nat
    BY <1>0, LenProperties DEF Name
  <2> QED
    BY <2>1
<1> DEFINE P(n) == FromWord(s, t, n) \in Results /\ FromWord(t, s, n) = 0 - FromWord(s, t, n)
           T == {m \in Nat : \A n \in Nat : n + m >= l => P(n)}
<1>1. 0 \in T
  <2>1. ASSUME NEW n \in Nat, n + 0 >= l PROVE P(n)
    <3>1. n >= Len(s) /\ n >= Len(t)
      <4>1. Len(s) \in Nat /\ Len(t) \in Nat
        BY <1>0, LenProperties DEF Name
      <4> QED
        BY <2>1, <4>1
    <3>2. Ended(s, n) /\ Ended(t, n)
      BY <1>0, <3>1, WordsEnd
    <3>3. FromWord(s, t, n) = 0 /\ FromWord(t, s, n) = 0
      BY <1>0, <3>2, FromWordEquation DEF Decide
    <3>4. FromWord(s, t, n) \in Results
      BY <3>3 DEF Results
    <3>5. FromWord(t, s, n) = 0 - FromWord(s, t, n)
      BY <3>3
    <3> QED
      BY <3>4, <3>5
  <2> QED
    BY <2>1
<1>2. ASSUME NEW m \in Nat, m \in T PROVE m + 1 \in T
  <2>1. ASSUME NEW n \in Nat, n + (m + 1) >= l PROVE P(n)
    <3>1. P(n + 1)
      <4>1. n + 1 \in Nat /\ (n + 1) + m >= l
        BY <2>1
      <4> QED
        BY <1>2, <4>1
    <3> HIDE DEF P
    <3> PICK r \in Results : r = FromWord(s, t, n + 1) /\ 0 - r = FromWord(t, s, n + 1)
      BY <3>1 DEF P
    <3> PICK k \in Results : k = WordTurn(s, t, n)
      BY WordTurnFacts
    <3> PICK j \in Results : j = WordTurn(t, s, n)
      BY WordTurnFacts
    <3> PICK e : e = Ended(s, n)
      OBVIOUS
    <3> PICK f : f = Ended(t, n)
      OBVIOUS
    <3>2. ~e /\ ~f => j = 0 - k
      BY WordTurnFacts
    <3>3. FromWord(s, t, n) = Decide(e, f, k, r) /\ FromWord(t, s, n) = Decide(f, e, j, 0 - r)
      BY <1>0, FromWordEquation
    <3>4. Decide(e, f, k, r) \in Results /\ Decide(f, e, j, 0 - r) = 0 - Decide(e, f, k, r)
      BY ONLY k \in Results, j \in Results, r \in Results, <3>2, DecideFacts
    <3> QED
      BY <3>3, <3>4 DEF P
  <2> HIDE DEF P
  <2> QED
    BY <2>1
<1> HIDE DEF T, P
<1>3. \A m \in Nat : m \in T
  BY <1>1, <1>2, Induction
<1>4. ASSUME NEW n \in Nat PROVE P(n)
  <2>1. l \in T /\ n + l >= l
    BY <1>3
  <2> QED
    BY <2>1 DEF T
<1> QED
  BY <1>4 DEF P

(* Of three names, too. *)
LEMMA OrderedResults ==
  ASSUME NEW names, names \subseteq Name, WordsAreAlike(names),
         NEW s \in names, NEW t \in names, NEW u \in names
  PROVE  \A n \in Nat : Ordered(FromWord(s, t, n), FromWord(t, u, n), FromWord(s, u, n))
<1>0. s \in Name /\ t \in Name /\ u \in Name
  OBVIOUS
<1>l. Len(s) \in Nat /\ Len(t) \in Nat /\ Len(u) \in Nat
  BY <1>0, LenProperties DEF Name
<1> PICK l \in Nat : l >= Len(s) /\ l >= Len(t) /\ l >= Len(u)
  <2>1. Len(s) + Len(t) + Len(u) \in Nat
    BY <1>l
  <2> QED
    BY <1>l, <2>1
<1> DEFINE P(n) == Ordered(FromWord(s, t, n), FromWord(t, u, n), FromWord(s, u, n))
           T == {m \in Nat : \A n \in Nat : n + m >= l => P(n)}
<1>1. 0 \in T
  <2>1. ASSUME NEW n \in Nat, n + 0 >= l PROVE P(n)
    <3>1. n >= Len(s) /\ n >= Len(t) /\ n >= Len(u)
      BY <1>l, <2>1
    <3>2. Ended(s, n) /\ Ended(t, n) /\ Ended(u, n)
      BY <1>0, <3>1, WordsEnd
    <3>3. FromWord(s, t, n) = 0 /\ FromWord(t, u, n) = 0 /\ FromWord(s, u, n) = 0
      BY <1>0, <3>2, FromWordEquation DEF Decide
    <3> QED
      BY <3>3 DEF Ordered
  <2> QED
    BY <2>1
<1>2. ASSUME NEW m \in Nat, m \in T PROVE m + 1 \in T
  <2>1. ASSUME NEW n \in Nat, n + (m + 1) >= l PROVE P(n)
    <3>1. P(n + 1)
      <4>1. n + 1 \in Nat /\ (n + 1) + m >= l
        BY <2>1
      <4> QED
        BY <1>2, <4>1
    <3> HIDE DEF P
    <3>n. n + 1 \in Nat
      OBVIOUS
    <3> PICK r1 \in Results : r1 = FromWord(s, t, n + 1)
      BY <3>n, OppositeResults
    <3> PICK r2 \in Results : r2 = FromWord(t, u, n + 1)
      BY <3>n, OppositeResults
    <3> PICK r3 \in Results : r3 = FromWord(s, u, n + 1)
      BY <3>n, OppositeResults
    <3> PICK k1 \in Results : k1 = WordTurn(s, t, n)
      BY WordTurnFacts
    <3> PICK k2 \in Results : k2 = WordTurn(t, u, n)
      BY WordTurnFacts
    <3> PICK k3 \in Results : k3 = WordTurn(s, u, n)
      BY WordTurnFacts
    <3> PICK e : e = Ended(s, n)
      OBVIOUS
    <3> PICK f : f = Ended(t, n)
      OBVIOUS
    <3> PICK g : g = Ended(u, n)
      OBVIOUS
    <3>2. ASSUME ~e, ~f, ~g PROVE Ordered(k1, k2, k3)
      <4> PICK w1 : w1 = TryInt(s, WordAt(s, n))
        OBVIOUS
      <4> PICK w2 : w2 = TryInt(t, WordAt(t, n))
        OBVIOUS
      <4> PICK w3 : w3 = TryInt(u, WordAt(u, n))
        OBVIOUS
      <4>1. IsWord(w1) /\ IsWord(w2) /\ IsWord(w3)
        BY <3>2, WordType
      <4>2. w1.was_num = w2.was_num /\ w2.was_num = w3.was_num
        BY <3>2, TurnsAreAlike
      <4>3. Ordered(CompareStep(w1, w2), CompareStep(w2, w3), CompareStep(w1, w3))
        BY ONLY <4>1, <4>2, StepOrders
      <4> QED
        BY <4>3 DEF WordTurn
    <3>3. Ordered(r1, r2, r3)
      BY <3>1 DEF P
    <3>4. /\ FromWord(s, t, n) = Decide(e, f, k1, r1)
          /\ FromWord(t, u, n) = Decide(f, g, k2, r2)
          /\ FromWord(s, u, n) = Decide(e, g, k3, r3)
      BY <1>0, FromWordEquation
    <3>5. Ordered(Decide(e, f, k1, r1), Decide(f, g, k2, r2), Decide(e, g, k3, r3))
      BY ONLY k1 \in Results, k2 \in Results, k3 \in Results,
              r1 \in Results, r2 \in Results, r3 \in Results, <3>2, <3>3, DecideOrders
    <3> QED
      BY <3>4, <3>5 DEF P
  <2> HIDE DEF P
  <2> QED
    BY <2>1
<1> HIDE DEF T, P
<1>3. \A m \in Nat : m \in T
  BY <1>1, <1>2, Induction
<1>4. ASSUME NEW n \in Nat PROVE P(n)
  <2>1. l \in T /\ n + l >= l
    BY <1>3
  <2> QED
    BY <2>1 DEF T
<1> QED
  BY <1>4 DEF P

(* natural_less is a strict weak order, as std::sort requires, on names of *)
(* which it compares numbers with numbers and characters with characters   *)
(* only.                                                                   *)
THEOREM AlikeIsSound ==
  ASSUME NEW names, names \subseteq Name, WordsAreAlike(names)
  PROVE  IsStrictWeak(names)
<1> DEFINE C(s, t) == NaturalCompare(s, t)
<1>1. ASSUME NEW s \in names, NEW t \in names PROVE C(s, t) = FromWord(s, t, 0)
  <2>1. WordAt(s, 0) = 1 /\ WordAt(t, 0) = 1
    BY WordFacts
  <2> QED
    BY <2>1, NaturalDef DEF FromWord
<1>2. ASSUME NEW s \in names, NEW t \in names PROVE C(s, t) \in Results /\ C(t, s) = 0 - C(s, t)
  BY <1>1, OppositeResults
<1>3. ASSUME NEW s \in names, NEW t \in names, NEW u \in names PROVE Ordered(C(s, t), C(t, u), C(s, u))
  BY <1>1, OrderedResults
<1> HIDE DEF C
<1>4. ASSUME NEW s \in names, NEW t \in names
      PROVE  /\ NaturalLess(s, t) <=> C(s, t) = -1
             /\ ~NaturalLess(s, t) /\ ~NaturalLess(t, s) => C(s, t) = 0
  <2>1. NaturalLess(s, t) <=> C(s, t) < 0
    BY DEF NaturalLess, C
  <2>2. NaturalLess(t, s) <=> C(t, s) < 0
    BY DEF NaturalLess, C
  <2> QED
    BY <1>2, <2>1, <2>2 DEF Results
<1>5. ASSUME NEW s \in names, NEW t \in names, NEW u \in names
      PROVE  /\ NaturalLess(s, t) => ~NaturalLess(t, s)
             /\ NaturalLess(s, t) /\ NaturalLess(t, u) => NaturalLess(s, u)
             /\ ~NaturalLess(s, t) /\ ~NaturalLess(t, s) /\ ~NaturalLess(t, u) /\ ~NaturalLess(u, t) =>
                  ~NaturalLess(s, u) /\ ~NaturalLess(u, s)
  <2>1. C(s, t) \in Results /\ C(t, s) = 0 - C(s, t) /\ C(u, s) = 0 - C(s, u)
    BY <1>2
  <2>2. Ordered(C(s, t), C(t, u), C(s, u))
    BY <1>3
  <2>3. (NaturalLess(s, t) <=> C(s, t) = -1) /\ (NaturalLess(t, s) <=> C(t, s) = -1)
    BY <1>4
  <2>4. (NaturalLess(t, u) <=> C(t, u) = -1) /\ (NaturalLess(s, u) <=> C(s, u) = -1)
        /\ (NaturalLess(u, s) <=> C(u, s) = -1)
    BY <1>4
  <2>5. /\ ~NaturalLess(s, t) /\ ~NaturalLess(t, s) => C(s, t) = 0
        /\ ~NaturalLess(t, u) /\ ~NaturalLess(u, t) => C(t, u) = 0
    BY <1>4
  <2> QED
    BY ONLY <2>1, <2>2, <2>3, <2>4, <2>5 DEF Ordered, Results
<1> QED
  BY <1>5 DEF IsStrictWeak
=============================================================================
