----------------------------- MODULE TaskLemmas ------------------------------
(***************************************************************************)
(* Lemmas about what ZipCreator and Unzipper share: a vector of distinct   *)
(* tasks from which one is erased, and a TaskControl that reports them.    *)
(***************************************************************************)
EXTENDS TaskControl, SequencesExt, SequenceTheorems, FiniteSetTheorems, TLAPS

(* No two places of s hold the same. *)
Distinct(s) == \A i, j \in DOMAIN s : s[i] = s[j] => i = j

(* The files a TaskControl has a result for, and that it has one for each. *)
ReportedIn(tc) == {r.file : r \in ToSet(tc.results)}

ReportedOnce(tc) ==
  \A i, j \in DOMAIN tc.results : tc.results[i].file = tc.results[j].file => i = j

-----------------------------------------------------------------------------
(* erase() keeps the order of the others. *)
LEMMA RemoveAtFacts ==
  ASSUME NEW S, NEW s \in Seq(S), NEW i \in 1..Len(s)
  PROVE  /\ RemoveAt(s, i) \in Seq(S)
         /\ Len(RemoveAt(s, i)) = Len(s) - 1
         /\ \A j \in 1..(Len(s) - 1) : RemoveAt(s, i)[j] = IF j < i THEN s[j] ELSE s[j + 1]
<1>1. Len(s) \in Nat /\ i \in Nat /\ i <= Len(s) /\ i >= 1
  BY LenProperties
<1>2. PICK a : a = SubSeq(s, 1, i - 1)
  OBVIOUS
<1>3. PICK b : b = SubSeq(s, i + 1, Len(s))
  OBVIOUS
<1>4. a \in Seq(S) /\ Len(a) = i - 1 /\ \A j \in 1..(i - 1) : a[j] = s[j]
  <2>1. 1 \in Int /\ i - 1 \in Int /\ \A j \in 1..(i - 1) : s[j] \in S
    BY <1>1, ElementOfSeq
  <2>2. /\ a \in Seq(S)
        /\ Len(a) = IF 1 <= i - 1 THEN (i - 1) - 1 + 1 ELSE 0
        /\ \A j \in 1..((i - 1) - 1 + 1) : a[j] = s[1 + j - 1]
    BY <1>2, <2>1, SubSeqProperties
  <2> QED
    BY <1>1, <2>2
<1>5. b \in Seq(S) /\ Len(b) = Len(s) - i /\ \A j \in 1..(Len(s) - i) : b[j] = s[i + j]
  <2>1. i + 1 \in Int /\ Len(s) \in Int /\ \A j \in (i + 1)..Len(s) : s[j] \in S
    BY <1>1, ElementOfSeq
  <2>2. /\ b \in Seq(S)
        /\ Len(b) = IF i + 1 <= Len(s) THEN Len(s) - (i + 1) + 1 ELSE 0
        /\ \A j \in 1..(Len(s) - (i + 1) + 1) : b[j] = s[(i + 1) + j - 1]
    BY <1>3, <2>1, SubSeqProperties
  <2> QED
    BY <1>1, <2>2
<1>6. /\ a \o b \in Seq(S)
      /\ Len(a \o b) = Len(a) + Len(b)
      /\ \A j \in 1..(Len(a) + Len(b)) : (a \o b)[j] = IF j <= Len(a) THEN a[j] ELSE b[j - Len(a)]
  BY <1>4, <1>5, ConcatProperties
<1>7. RemoveAt(s, i) = a \o b
  BY <1>2, <1>3 DEF RemoveAt
<1>8. ASSUME NEW j \in 1..(Len(s) - 1) PROVE (a \o b)[j] = IF j < i THEN s[j] ELSE s[j + 1]
  <2>1. j \in 1..(Len(a) + Len(b))
    BY <1>1, <1>4, <1>5
  <2>2. CASE j < i
    BY <1>1, <1>4, <1>6, <2>1, <2>2
  <2>3. CASE ~(j < i)
    <3>1. j - (i - 1) \in 1..(Len(s) - i) /\ i + (j - (i - 1)) = j + 1
      BY <1>1, <2>3
    <3>2. (a \o b)[j] = b[j - (i - 1)]
      BY <1>1, <1>4, <1>6, <2>1, <2>3
    <3> QED
      BY <1>5, <2>3, <3>1, <3>2
  <2> QED
    BY <2>2, <2>3
<1>9. PICK r : r = a \o b
  OBVIOUS
<1>10. r \in Seq(S) /\ Len(r) = Len(s) - 1
  BY <1>1, <1>4, <1>5, <1>6, <1>9
<1> QED
  BY <1>7, <1>8, <1>9, <1>10

(* Erasing one of distinct tasks leaves the others, and them distinct.     *)
LEMMA RemoveDistinct ==
  ASSUME NEW S, NEW s \in Seq(S), Distinct(s), NEW i \in 1..Len(s)
  PROVE  /\ RemoveAt(s, i) \in Seq(S)
         /\ Len(RemoveAt(s, i)) = Len(s) - 1
         /\ ToSet(RemoveAt(s, i)) = ToSet(s) \ {s[i]}
         /\ Distinct(RemoveAt(s, i))
<1>1. PICK r : r = RemoveAt(s, i)
  OBVIOUS
<1>2. /\ r \in Seq(S)
      /\ Len(r) = Len(s) - 1
      /\ \A j \in 1..(Len(s) - 1) : r[j] = IF j < i THEN s[j] ELSE s[j + 1]
  BY <1>1, RemoveAtFacts
<1>3. Len(s) \in Nat /\ DOMAIN s = 1..Len(s) /\ DOMAIN r = 1..(Len(s) - 1)
  BY <1>2, LenProperties
<1>4. ASSUME NEW j \in DOMAIN r PROVE r[j] \in ToSet(s) \ {s[i]}
  <2>1. PICK k \in DOMAIN s : k # i /\ r[j] = s[k]
    <3>1. CASE j < i
      BY <1>2, <1>3, <3>1
    <3>2. CASE ~(j < i)
      <4>1. j + 1 \in DOMAIN s /\ j + 1 # i /\ r[j] = s[j + 1]
        BY <1>2, <1>3, <3>2
      <4> QED
        BY <4>1
    <3> QED
      BY <3>1, <3>2
  <2> QED
    BY <1>3, <2>1 DEF Distinct, ToSet
<1>5. ASSUME NEW x \in ToSet(s), x # s[i] PROVE x \in ToSet(r)
  <2>1. PICK k \in DOMAIN s : x = s[k]
    BY DEF ToSet
  <2>2. k # i
    BY <1>5, <2>1
  <2>3. CASE k < i
    <3>1. k \in DOMAIN r /\ r[k] = s[k]
      BY <1>2, <1>3, <2>3
    <3> QED
      BY <2>1, <3>1 DEF ToSet
  <2>4. CASE ~(k < i)
    <3>1. k - 1 \in 1..(Len(s) - 1) /\ ~(k - 1 < i) /\ (k - 1) + 1 = k
      BY <1>3, <2>2, <2>4
    <3>2. k - 1 \in DOMAIN r /\ r[k - 1] = s[k]
      BY <1>2, <1>3, <3>1
    <3> QED
      BY <2>1, <3>2 DEF ToSet
  <2> QED
    BY <2>3, <2>4
<1>6. ToSet(r) = ToSet(s) \ {s[i]}
  BY <1>4, <1>5 DEF ToSet
<1>7. Distinct(r)
  <2> SUFFICES ASSUME NEW j \in DOMAIN r, NEW k \in DOMAIN r, r[j] = r[k]
               PROVE  j = k
    BY DEF Distinct
  <2>1. PICK a \in DOMAIN s : r[j] = s[a] /\ a = IF j < i THEN j ELSE j + 1
    BY <1>2, <1>3
  <2>2. PICK b \in DOMAIN s : r[k] = s[b] /\ b = IF k < i THEN k ELSE k + 1
    BY <1>2, <1>3
  <2>3. a = b
    BY <2>1, <2>2 DEF Distinct
  <2> QED
    BY <1>3, <2>1, <2>2, <2>3
<1> QED
  BY <1>1, <1>2, <1>6, <1>7

(* A new task stays distinct from the others. *)
LEMMA AppendDistinct ==
  ASSUME NEW S, NEW s \in Seq(S), NEW x \in S
  PROVE  /\ Append(s, x) \in Seq(S)
         /\ Len(Append(s, x)) = Len(s) + 1
         /\ ToSet(Append(s, x)) = ToSet(s) \cup {x}
         /\ Distinct(s) /\ x \notin ToSet(s) => Distinct(Append(s, x))
<1>1. PICK r : r = Append(s, x)
  OBVIOUS
<1>2. /\ r \in Seq(S)
      /\ Len(r) = Len(s) + 1
      /\ \A j \in 1..Len(s) : r[j] = s[j]
      /\ r[Len(s) + 1] = x
  BY <1>1, AppendProperties
<1>3. Len(s) \in Nat /\ DOMAIN s = 1..Len(s) /\ DOMAIN r = 1..(Len(s) + 1)
  BY <1>2, LenProperties
<1>4. ToSet(r) = ToSet(s) \cup {x}
  <2>1. ASSUME NEW j \in DOMAIN r PROVE r[j] \in ToSet(s) \cup {x}
    BY <1>2, <1>3 DEF ToSet
  <2>2. ASSUME NEW j \in DOMAIN s PROVE s[j] \in ToSet(r)
    BY <1>2, <1>3 DEF ToSet
  <2>3. x \in ToSet(r)
    BY <1>2, <1>3 DEF ToSet
  <2> QED
    BY <2>1, <2>2, <2>3 DEF ToSet
<1>5. ASSUME Distinct(s), x \notin ToSet(s) PROVE Distinct(r)
  BY <1>2, <1>3, <1>5 DEF Distinct, ToSet
<1> QED
  BY <1>1, <1>2, <1>4, <1>5

(* There are as many distinct tasks as the vector is long. *)
LEMMA CountDistinct ==
  ASSUME NEW S, NEW s \in Seq(S), Distinct(s)
  PROVE  IsFiniteSet(ToSet(s)) /\ Cardinality(ToSet(s)) = Len(s)
<1>1. Len(s) \in Nat /\ DOMAIN s = 1..Len(s) /\ s \in [1..Len(s) -> ToSet(s)]
  BY LenProperties DEF ToSet
<1>2. s \in Bijection(1..Len(s), ToSet(s))
  BY <1>1 DEF Distinct, ToSet, Bijection, Injection, Surjection, IsInjective
<1>3. ExistsBijection(1..Len(s), ToSet(s))
  BY <1>2 DEF ExistsBijection
<1> QED
  BY <1>1, <1>3, FS_NatBijection, FS_CountingElements

-----------------------------------------------------------------------------
(* What add_success and add_failure do to the reports. *)
AddReport(tc, f, ok) == IF ok THEN AddSuccess(tc, f) ELSE AddFailure(tc, f)

(* add_success and add_failure append one report, count it, and change     *)
(* nothing else.                                                           *)
LEMMA AddReportFacts ==
  ASSUME NEW F, NEW tc \in Control(F), NEW f \in F, NEW ok \in BOOLEAN
  PROVE  /\ AddReport(tc, f, ok) \in Control(F)
         /\ AddReport(tc, f, ok).results = Append(tc.results, [file |-> f, ok |-> ok])
         /\ AddReport(tc, f, ok).state = tc.state
         /\ AddReport(tc, f, ok).total = tc.total
         /\ AddReport(tc, f, ok).stopped = tc.stopped
         /\ AddReport(tc, f, ok).successes = IF ok THEN tc.successes + 1 ELSE tc.successes
         /\ AddReport(tc, f, ok).failures = IF ok THEN tc.failures ELSE tc.failures + 1
<1>1. Append(tc.results, [file |-> f, ok |-> ok]) \in Seq(Result(F))
  <2>1. [file |-> f, ok |-> ok] \in Result(F) /\ tc.results \in Seq(Result(F))
    BY DEF Result, Control
  <2> QED
    BY <2>1, AppendProperties
<1>2. PICK rs : rs = Append(tc.results, [file |-> f, ok |-> ok])
  OBVIOUS
<1>3. rs \in Seq(Result(F))
  BY <1>1, <1>2
<1>4. PICK new : new = AddReport(tc, f, ok)
  OBVIOUS
<1>5. ok = TRUE => new = [tc EXCEPT !.results = rs, !.successes = @ + 1]
  BY <1>2, <1>4 DEF AddReport, AddSuccess
<1>6. ok = FALSE => new = [tc EXCEPT !.results = rs, !.failures = @ + 1]
  BY <1>2, <1>4 DEF AddReport, AddFailure
<1>7. /\ new.results = rs /\ new.state = tc.state /\ new.total = tc.total
      /\ new.stopped = tc.stopped
      /\ new.successes = IF ok THEN tc.successes + 1 ELSE tc.successes
      /\ new.failures = IF ok THEN tc.failures ELSE tc.failures + 1
  BY <1>5, <1>6 DEF Control
<1>8. new \in Control(F)
  <2> DEFINE n == IF ok THEN tc.successes + 1 ELSE tc.successes
             m == IF ok THEN tc.failures ELSE tc.failures + 1
  <2>1. n \in Nat /\ m \in Nat
    BY DEF Control
  <2> HIDE DEF n, m
  <2>2. new = [tc EXCEPT !.results = rs, !.successes = n, !.failures = m]
    BY <1>5, <1>6 DEF Control, n, m
  <2> QED
    BY <1>3, <2>1, <2>2 DEF Control
<1> QED
  BY <1>2, <1>4, <1>7, <1>8

(* A report keeps what the user's thread has read, its counters are right, *)
(* and the results tell of one more file.                                  *)
LEMMA AddReportKeeps ==
  ASSUME NEW F, NEW tc \in Control(F), NEW f \in F, NEW ok \in BOOLEAN,
         NEW new, new = AddReport(tc, f, ok)
  PROVE  /\ new \in Control(F)
         /\ new.state = tc.state /\ new.total = tc.total /\ new.stopped = tc.stopped
         /\ Len(new.results) = Len(tc.results) + 1
         /\ ToSet(new.results) = ToSet(tc.results) \cup {[file |-> f, ok |-> ok]}
         /\ ReportedIn(new) = ReportedIn(tc) \cup {f}
         /\ ReportedOnce(tc) /\ f \notin ReportedIn(tc) => ReportedOnce(new)
         /\ Extends(new, tc)
         /\ CountersAgree(tc) /\ Len(tc.results) < tc.total => CountersAgree(new)
<1>1. PICK r : r = [file |-> f, ok |-> ok]
  OBVIOUS
<1>2. PICK old : old = tc.results
  OBVIOUS
<1>3. r \in Result(F) /\ old \in Seq(Result(F)) /\ r.file = f /\ r.ok = ok
  BY <1>1, <1>2 DEF Result, Control
<1>4. PICK results : results = new.results
  OBVIOUS
<1>5. results = Append(old, r)
  BY <1>1, <1>2, <1>4, AddReportFacts
<1>6. /\ results \in Seq(Result(F))
      /\ Len(results) = Len(old) + 1
      /\ \A i \in 1..Len(old) : results[i] = old[i]
      /\ results[Len(old) + 1] = r
  BY <1>3, <1>5, AppendProperties
<1>7. Len(old) \in Nat /\ DOMAIN old = 1..Len(old) /\ DOMAIN results = 1..(Len(old) + 1)
  BY <1>3, <1>6, LenProperties
<1>8. ToSet(results) = ToSet(old) \cup {r}
  BY <1>3, <1>5, AppendDistinct
<1>9. ReportedIn(new) = ReportedIn(tc) \cup {f}
  BY <1>2, <1>3, <1>4, <1>8 DEF ReportedIn
<1>10. ASSUME ReportedOnce(tc), f \notin ReportedIn(tc) PROVE ReportedOnce(new)
  <2>1. \A i \in 1..Len(old) : old[i].file # f
    BY <1>2, <1>7, <1>10 DEF ReportedIn, ToSet
  <2>2. \A i, j \in 1..Len(old) : old[i].file = old[j].file => i = j
    BY <1>2, <1>7, <1>10 DEF ReportedOnce
  <2> QED
    BY <1>3, <1>4, <1>6, <1>7, <2>1, <2>2 DEF ReportedOnce
<1>11. /\ new \in Control(F) /\ new.state = tc.state /\ new.total = tc.total
       /\ new.stopped = tc.stopped
  BY AddReportFacts, ZenonT(40)
<1>12. Extends(new, tc)
  <2>1. SubSeq(results, 1, Len(old)) = old
    <3>1. PICK s : s = SubSeq(results, 1, Len(old))
      OBVIOUS
    <3>2. \A i \in 1..Len(old) : results[i] \in Result(F)
      BY <1>6, <1>7, ElementOfSeq
    <3>3. /\ s \in Seq(Result(F))
          /\ Len(s) = IF 1 <= Len(old) THEN Len(old) - 1 + 1 ELSE 0
          /\ \A i \in 1..(Len(old) - 1 + 1) : s[i] = results[1 + i - 1]
      BY <1>7, <3>1, <3>2, SubSeqProperties
    <3>4. Len(s) = Len(old) /\ \A i \in 1..Len(old) : s[i] = old[i]
      BY <1>6, <1>7, <3>3
    <3> QED
      BY <1>3, <3>1, <3>3, <3>4, SeqEqual
  <2>2. Rank(new.state) >= Rank(tc.state)
    BY <1>11 DEF Rank, Control, TaskState
  <2> QED
    BY <1>2, <1>4, <1>6, <1>7, <1>11, <2>1, <2>2 DEF Extends
<1>13. ASSUME CountersAgree(tc), Len(tc.results) < tc.total PROVE CountersAgree(new)
  <2> DEFINE Oks(s) == {i \in DOMAIN s : s[i].ok}
             Fails(s) == {i \in DOMAIN s : ~s[i].ok}
  <2>1. Oks(results) = IF ok THEN Oks(old) \cup {Len(old) + 1} ELSE Oks(old)
    BY <1>3, <1>6, <1>7
  <2>2. Fails(results) = IF ok THEN Fails(old) ELSE Fails(old) \cup {Len(old) + 1}
    BY <1>3, <1>6, <1>7
  <2>3. IsFiniteSet(Oks(old)) /\ IsFiniteSet(Fails(old))
    <3>1. IsFiniteSet(1..Len(old))
      BY <1>7, FS_Interval
    <3>2. Oks(old) \subseteq 1..Len(old) /\ Fails(old) \subseteq 1..Len(old)
      BY <1>7
    <3> QED
      BY <3>1, <3>2, FS_Subset
  <2>4. Len(old) + 1 \notin Oks(old) /\ Len(old) + 1 \notin Fails(old)
    BY <1>7
  <2>5. /\ Cardinality(Oks(old) \cup {Len(old) + 1}) = Cardinality(Oks(old)) + 1
        /\ Cardinality(Fails(old) \cup {Len(old) + 1}) = Cardinality(Fails(old)) + 1
    BY <2>3, <2>4, FS_AddElement
  <2>6. tc.successes = Cardinality(Oks(old)) /\ tc.failures = Cardinality(Fails(old))
    BY <1>2, <1>13 DEF CountersAgree
  <2>7. new.successes = Cardinality(Oks(results)) /\ new.failures = Cardinality(Fails(results))
    <3>1. /\ new.successes = IF ok THEN tc.successes + 1 ELSE tc.successes
          /\ new.failures = IF ok THEN tc.failures ELSE tc.failures + 1
      BY AddReportFacts, ZenonT(40)
    <3> HIDE DEF Oks, Fails
    <3> QED
      BY <2>1, <2>2, <2>5, <2>6, <3>1
  <2>8. Len(results) <= new.total
    BY <1>2, <1>6, <1>7, <1>11, <1>13 DEF Control
  <2> QED
    BY <1>4, <2>7, <2>8 DEF CountersAgree
<1> QED
  BY <1>1, <1>2, <1>4, <1>6, <1>8, <1>9, <1>10, <1>11, <1>12, <1>13

(* Files reported once are as many as there are results. *)
LEMMA CountReported ==
  ASSUME NEW F, NEW tc \in Control(F), ReportedOnce(tc)
  PROVE  /\ IsFiniteSet(ReportedIn(tc))
         /\ Cardinality(ReportedIn(tc)) = Len(tc.results)
         /\ ReportedIn(tc) \subseteq F
<1>1. PICK old : old = tc.results
  OBVIOUS
<1>2. old \in Seq(Result(F))
  BY <1>1 DEF Control
<1>3. Len(old) \in Nat /\ DOMAIN old = 1..Len(old) /\ \A i \in 1..Len(old) : old[i] \in Result(F)
  BY <1>2, LenProperties, ElementOfSeq
<1>4. PICK files : files = [i \in 1..Len(old) |-> old[i].file]
  OBVIOUS
<1>5. files \in Seq(F) /\ Len(files) = Len(old) /\ DOMAIN files = 1..Len(old)
  <2>1. \A i \in 1..Len(old) : old[i].file \in F
    BY <1>3 DEF Result
  <2> QED
    BY <1>3, <1>4, <2>1, IsASeq, LenProperties
<1>6. Distinct(files)
  BY <1>1, <1>3, <1>4, <1>5 DEF Distinct, ReportedOnce
<1>7. ToSet(files) = ReportedIn(tc)
  BY <1>1, <1>3, <1>4, <1>5 DEF ToSet, ReportedIn
<1>8. ToSet(files) \subseteq F
  BY <1>5, ElementOfSeq DEF ToSet
<1> QED
  BY <1>1, <1>5, <1>6, <1>7, <1>8, CountDistinct

(* What does not touch the results extends a TaskControl, if it does not   *)
(* withdraw a stop or turn the state back.                                 *)
LEMMA SameResultsExtend ==
  ASSUME NEW F, NEW tc \in Control(F), NEW new \in Control(F), new.results = tc.results,
         tc.stopped => new.stopped, Rank(new.state) >= Rank(tc.state),
         tc.state # "NOT_STARTED" => new.total = tc.total
  PROVE  Extends(new, tc)
<1>1. tc.results \in Seq(Result(F)) /\ Len(tc.results) \in Nat
  BY LenProperties DEF Control
<1>2. SubSeq(tc.results, 1, Len(tc.results)) = tc.results
  BY <1>1, SubSeqFull
<1> QED
  BY <1>1, <1>2 DEF Extends

(* Each of n files is reported once at most: before the last report there  *)
(* are fewer than n results.                                               *)
LEMMA RoomForReport ==
  ASSUME NEW n \in Nat, NEW tc \in Control(1..n), ReportedOnce(tc),
         NEW f \in 1..n, f \notin ReportedIn(tc)
  PROVE  Len(tc.results) < n
<1>1. /\ IsFiniteSet(ReportedIn(tc))
      /\ Cardinality(ReportedIn(tc)) = Len(tc.results)
      /\ ReportedIn(tc) \subseteq 1..n
  BY CountReported
<1>2. /\ IsFiniteSet(ReportedIn(tc) \cup {f})
      /\ Cardinality(ReportedIn(tc) \cup {f}) = Len(tc.results) + 1
  BY <1>1, FS_AddElement
<1>3. IsFiniteSet(1..n) /\ Cardinality(1..n) = n
  <2>1. 1 \in Int /\ n \in Int
    OBVIOUS
  <2>2. Cardinality(1..n) = IF 1 > n THEN 0 ELSE n - 1 + 1
    BY <2>1, FS_Interval
  <2>3. IsFiniteSet(1..n)
    BY <2>1, FS_Interval
  <2> QED
    BY <2>2, <2>3
<1>4. Cardinality(ReportedIn(tc) \cup {f}) <= Cardinality(1..n)
  BY <1>1, <1>3, FS_Subset
<1>5. Len(tc.results) \in Nat
  BY LenProperties DEF Control
<1> QED
  BY <1>2, <1>3, <1>4, <1>5

(* What is left behind the head of a sequence. *)
LEMMA TailDistinct ==
  ASSUME NEW S, NEW s \in Seq(S), s # << >>, Distinct(s)
  PROVE  /\ 1 \in 1..Len(s) /\ Head(s) = s[1]
         /\ Tail(s) \in Seq(S)
         /\ Len(Tail(s)) = Len(s) - 1
         /\ ToSet(Tail(s)) = ToSet(s) \ {s[1]}
         /\ Distinct(Tail(s))
<1>1. /\ Head(s) = s[1] /\ Tail(s) \in Seq(S) /\ Len(Tail(s)) = Len(s) - 1
      /\ \A i \in 1..Len(Tail(s)) : Tail(s)[i] = s[i + 1]
  BY HeadTailProperties
<1>2. Len(s) \in Nat /\ Len(s) # 0
  BY LenProperties, EmptySeq
<1>3. PICK t, r : t = Tail(s) /\ r = RemoveAt(s, 1)
  OBVIOUS
<1>4. 1 \in 1..Len(s)
  BY <1>2
<1>5. /\ r \in Seq(S) /\ Len(r) = Len(s) - 1
      /\ \A j \in 1..(Len(s) - 1) : r[j] = IF j < 1 THEN s[j] ELSE s[j + 1]
  BY <1>3, <1>4, RemoveAtFacts
<1>6. \A j \in 1..Len(t) : t[j] = r[j]
  BY <1>1, <1>2, <1>3, <1>5
<1>7. t = r
  BY <1>1, <1>3, <1>5, <1>6, SeqEqual
<1>8. ToSet(r) = ToSet(s) \ {s[1]} /\ Distinct(r)
  BY <1>3, <1>4, RemoveDistinct
<1> QED
  BY <1>1, <1>3, <1>4, <1>7, <1>8
=============================================================================
