---------------------------- MODULE NaturalOrder -----------------------------
(***************************************************************************)
(* src/naturalorder.h: the order in which ZipFile::build_tree lists names. *)
(* A name is a sequence of character codes.  The value of a run of digits  *)
(* is a long in the code, here any natural number: runs stay short.        *)
(***************************************************************************)
EXTENDS Integers, Sequences, FiniteSets

ZERO == 48
NINE == 57

IsDigit(c) == c \in ZERO..NINE

(* tryint(): consume the digits from position b of s on, and one character *)
(* more.  A run that ends the name has its last digit as next_char.        *)
TryInt(s, b) ==
  LET ends == {i \in b..Len(s) : i = Len(s) \/ ~IsDigit(s[i])}
      e == CHOOSE i \in ends : \A j \in ends : i <= j
      value[n \in 0..(e + 1 - b)] ==
        IF n = 0 THEN 0
        ELSE LET c == s[b + n - 1]
             IN  IF IsDigit(c) THEN 10 * value[n - 1] + (c - ZERO) ELSE value[n - 1]
  IN  [was_num |-> IsDigit(s[b]), value |-> value[e + 1 - b], next_char |-> s[e], rest |-> e + 1]

Sign(x, y) == IF x < y THEN -1 ELSE IF x > y THEN 1 ELSE 0

(* Slip: the values of two numbers are not compared. *)
CompareStepNoValue(r1, r2) == Sign(r1.next_char, r2.next_char)

(* One turn of natural_compare's loop: what it returns, or 0 to go on. *)
CompareStep(r1, r2) ==
  IF r1.was_num /\ r2.was_num /\ r1.value # r2.value THEN Sign(r1.value, r2.value)
  ELSE IF r1.was_num /\ ~r2.was_num THEN IF r2.next_char < ZERO THEN -1 ELSE 1
  ELSE IF ~r1.was_num /\ r2.was_num THEN IF r1.next_char < ZERO THEN -1 ELSE 1
  ELSE Sign(r1.next_char, r2.next_char)

NaturalCompare(s, t) ==
  LET from[p \in (1..(Len(s) + 1)) \X (1..(Len(t) + 1))] ==
        IF p[1] > Len(s) THEN IF p[2] > Len(t) THEN 0 ELSE -1
        ELSE IF p[2] > Len(t) THEN 1
        ELSE LET r1 == TryInt(s, p[1])
                 r2 == TryInt(t, p[2])
             IN  IF CompareStep(r1, r2) # 0 THEN CompareStep(r1, r2) ELSE from[<<r1.rest, r2.rest>>]
  IN  from[<<1, 1>>]

NaturalLess(s, t) == NaturalCompare(s, t) < 0

(* What std::sort requires of its comparator on a set of names. *)
IsStrictWeak(names) ==
  LET Same(s, t) == ~NaturalLess(s, t) /\ ~NaturalLess(t, s)
  IN  \A s, t \in names :
        /\ NaturalLess(s, t) => ~NaturalLess(t, s)
        /\ \A u \in names :
             /\ NaturalLess(s, t) /\ NaturalLess(t, u) => NaturalLess(s, u)
             /\ Same(s, t) /\ Same(t, u) => Same(s, u)

(* The sequences that std::sort may leave.  It is not stable, and with a   *)
(* comparator that is no strict weak order it promises nothing.            *)
SortOutcomes(names) ==
  LET Orders == {q \in [1..Cardinality(names) -> names] :
                   \A i, j \in DOMAIN q : q[i] = q[j] => i = j}
  IN  IF ~IsStrictWeak(names) THEN Orders
      ELSE {q \in Orders : \A i, j \in DOMAIN q : i < j => ~NaturalLess(q[j], q[i])}
=============================================================================
