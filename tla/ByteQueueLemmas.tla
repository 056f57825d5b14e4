-------------------------- MODULE ByteQueueLemmas ---------------------------
(***************************************************************************)
(* Lemmas about the methods of a ByteQueue, for bytes of any kind.         *)
(***************************************************************************)
EXTENDS ByteQueue, SequenceTheorems, TLAPS

(* Concatenation is associative, in the form the provers instantiate. *)
LEMMA Associative ==
  ASSUME NEW Byte
  PROVE  \A a, b, c \in Seq(Byte) : (a \o b) \o c = a \o (b \o c)
OBVIOUS

(* Cutting data after its first k bytes and moving them to the end of a    *)
(* buffer neither loses nor reorders a byte.                               *)
LEMMA SplitConserves ==
  ASSUME NEW Byte, NEW b \in Seq(Byte), NEW data \in Seq(Byte), NEW k \in 0..Len(data)
  PROVE  /\ b \o SubSeq(data, 1, k) \in Seq(Byte)
         /\ Len(b \o SubSeq(data, 1, k)) = Len(b) + k
         /\ SubSeq(data, k + 1, Len(data)) \in Seq(Byte)
         /\ SubSeq(data, k + 1, Len(data)) = << >> <=> k = Len(data)
         /\ (b \o SubSeq(data, 1, k)) \o SubSeq(data, k + 1, Len(data)) = b \o data
<1>1. Len(b) \in Nat /\ Len(data) \in Nat
  BY LenProperties
<1>2. PICK h : h = SubSeq(data, 1, k)
  OBVIOUS
<1>3. PICK t : t = SubSeq(data, k + 1, Len(data))
  OBVIOUS
<1>4. h \in Seq(Byte) /\ Len(h) = k
  <2>1. \A i \in 1..k : data[i] \in Byte
    BY <1>1, ElementOfSeq
  <2> QED
    BY <1>1, <1>2, <2>1, SubSeqProperties
<1>5. t \in Seq(Byte) /\ Len(t) = Len(data) - k
  <2>1. \A i \in (k + 1)..Len(data) : data[i] \in Byte
    BY <1>1, ElementOfSeq
  <2>2. k + 1 \in Int /\ Len(data) \in Int
    BY <1>1
  <2> QED
    BY <1>1, <1>3, <2>1, <2>2, SubSeqProperties
<1>6. h \o t = data
  <2>1. 1 \in 1..(Len(data) + 1) /\ k \in (1 - 1)..Len(data) /\ Len(data) \in k..Len(data)
    BY <1>1
  <2>2. SubSeq(data, 1, k) \o SubSeq(data, k + 1, Len(data)) = SubSeq(data, 1, Len(data))
    BY <2>1, ConcatAdjacentSubSeq
  <2> QED
    BY <1>2, <1>3, <2>2, SubSeqFull
<1>7. (b \o h) \o t = b \o data
  <2>1. \A x, y, z \in Seq(Byte) : (x \o y) \o z = x \o (y \o z)
    BY Associative
  <2> QED
    BY <1>4, <1>5, <1>6, <2>1, Zenon
<1>8. b \o h \in Seq(Byte) /\ Len(b \o h) = Len(b) + k
  BY <1>4, ConcatProperties
<1>9. t = << >> <=> k = Len(data)
  BY <1>1, <1>5, EmptySeq
<1> QED
  BY <1>2, <1>3, <1>5, <1>7, <1>8, <1>9

(* A round takes what fits, and less than everything only when it fills    *)
(* the queue.                                                              *)
LEMMA RoundSizeBounds ==
  ASSUME NEW q, NEW data, Len(q.buf) \in 0..Capacity, Len(data) \in Nat
  PROVE  /\ RoundSize(q, data) \in 0..Len(data)
         /\ Len(q.buf) + RoundSize(q, data) <= Capacity
         /\ RoundSize(q, data) # Len(data) => Len(q.buf) + RoundSize(q, data) = Capacity
<1>1. Capacity \in Nat
  BY CapacityAssumption
<1>2. CASE Capacity - Len(q.buf) <= Len(data)
  <2>1. RoundSize(q, data) = Capacity - Len(q.buf)
    BY <1>2 DEF RoundSize
  <2> QED
    BY <1>1, <1>2, <2>1
<1>3. CASE ~(Capacity - Len(q.buf) <= Len(data))
  <2>1. RoundSize(q, data) = Len(data)
    BY <1>3 DEF RoundSize
  <2> QED
    BY <1>1, <1>3, <2>1
<1> QED
  BY <1>2, <1>3

(* The bytes one round of push_internal inserts and the bytes it leaves    *)
(* over are, in order, the bytes it was given; it leaves some over only    *)
(* when it filled the queue, and it is FULL exactly when it is full.       *)
LEMMA PushRoundConserves ==
  ASSUME NEW Byte, NEW q \in Queue(Byte), Len(q.buf) <= Capacity, NEW data \in Seq(Byte)
  PROVE  /\ PushRound(q, data) \in Queue(Byte)
         /\ Len(PushRound(q, data).buf) \in Len(q.buf)..Capacity
         /\ PushRound(q, data).st = "FULL" <=> Len(PushRound(q, data).buf) = Capacity
         /\ PushRound(q, data).st \in {"HAS_DATA", "FULL"}
         /\ Unpushed(q, data) \in Seq(Byte)
         /\ Unpushed(q, data) # << >> => PushRound(q, data).st = "FULL"
         /\ PushRound(q, data).buf \o Unpushed(q, data) = q.buf \o data
<1>1. q.buf \in Seq(Byte) /\ Len(q.buf) \in 0..Capacity /\ Len(data) \in Nat /\ Capacity \in Nat
  BY LenProperties, CapacityAssumption DEF Queue
<1>2. PICK k : k = RoundSize(q, data)
  OBVIOUS
<1>3. k \in 0..Len(data) /\ Len(q.buf) + k <= Capacity /\ (k # Len(data) => Len(q.buf) + k = Capacity)
  BY <1>1, <1>2, RoundSizeBounds
<1>4. PICK filled : filled = q.buf \o SubSeq(data, 1, k)
  OBVIOUS
<1>5. PICK left : left = SubSeq(data, k + 1, Len(data))
  OBVIOUS
<1>6. /\ filled \in Seq(Byte)
      /\ Len(filled) = Len(q.buf) + k
      /\ left \in Seq(Byte)
      /\ left = << >> <=> k = Len(data)
      /\ filled \o left = q.buf \o data
  <2>1. \A b, d \in Seq(Byte) : \A n \in 0..Len(d) :
          /\ b \o SubSeq(d, 1, n) \in Seq(Byte)
          /\ Len(b \o SubSeq(d, 1, n)) = Len(b) + n
          /\ SubSeq(d, n + 1, Len(d)) \in Seq(Byte)
          /\ SubSeq(d, n + 1, Len(d)) = << >> <=> n = Len(d)
          /\ (b \o SubSeq(d, 1, n)) \o SubSeq(d, n + 1, Len(d)) = b \o d
    BY SplitConserves, Zenon
  <2> QED
    BY <1>1, <1>3, <1>4, <1>5, <2>1, ZenonT(40)
<1>7. PushRound(q, data) = [st |-> IF Len(filled) = Capacity THEN "FULL" ELSE "HAS_DATA", buf |-> filled]
  BY <1>2, <1>4 DEF PushRound
<1>8. Unpushed(q, data) = left
  BY <1>2, <1>5 DEF Unpushed
<1>9. /\ PushRound(q, data).buf = filled
      /\ PushRound(q, data).st = IF Len(filled) = Capacity THEN "FULL" ELSE "HAS_DATA"
      /\ PushRound(q, data) \in Queue(Byte)
  BY <1>6, <1>7 DEF Queue, QueueState
<1>10. Len(filled) \in Len(q.buf)..Capacity /\ (left # << >> => Len(filled) = Capacity)
  BY <1>1, <1>3, <1>6
<1> QED
  BY <1>6, <1>8, <1>9, <1>10

(* What a push owes its queue: new is q with a beginning of data appended, *)
(* left is the rest of it, and some is left only when new is FULL.         *)
Takes(Byte, q, data, new, left) ==
  /\ new \in Queue(Byte)
  /\ Len(new.buf) \in Len(q.buf)..Capacity
  /\ ~Closed(new)
  /\ new.st = "FULL" <=> Len(new.buf) = Capacity
  /\ new.st = "EMPTY" => new.buf = << >>
  /\ left \in Seq(Byte)
  /\ left # << >> => new.st = "FULL"
  /\ new.buf \o left = q.buf \o data

(* A round of push_internal meets that debt. *)
LEMMA PushRoundTakes ==
  ASSUME NEW Byte, NEW q \in Queue(Byte), Len(q.buf) <= Capacity, NEW data \in Seq(Byte)
  PROVE  Takes(Byte, q, data, PushRound(q, data), Unpushed(q, data))
BY PushRoundConserves DEF Takes, Closed

(* So does push() on an open queue, on either of its two paths. *)
LEMMA PushTakes ==
  ASSUME NEW Byte, NEW q \in Queue(Byte), Len(q.buf) <= Capacity, NEW data \in Seq(Byte),
         ~Closed(q),
         q.st = "FULL" <=> Len(q.buf) = Capacity,
         q.st = "EMPTY" => q.buf = << >>
  PROVE  Takes(Byte, q, data, Push(q, data), Unpushed(q, data))
<1>1. q.buf \in Seq(Byte) /\ Len(q.buf) \in 0..Capacity /\ Len(data) \in Nat /\ Capacity \in Nat
  BY LenProperties, CapacityAssumption DEF Queue
<1>2. CASE FitsWithRoom(q, data)
  <2>1. RoundSize(q, data) = Len(data)
    BY <1>1, <1>2 DEF RoundSize, FitsWithRoom
  <2>2. Unpushed(q, data) = << >>
    <3>1. Len(data) + 1 \in Int /\ Len(data) \in Int /\ Len(data) < Len(data) + 1
      BY <1>1
    <3> QED
      BY <2>1, <3>1, SubSeqEmpty DEF Unpushed
  <2>3. PICK b : b = q.buf \o data
    OBVIOUS
  <2>4. b \in Seq(Byte) /\ Len(b) = Len(q.buf) + Len(data)
    BY <1>1, <2>3, ConcatProperties
  <2>5. Len(b) < Capacity /\ Len(q.buf) # Capacity
    BY <1>1, <1>2, <2>4 DEF FitsWithRoom
  <2>6. Push(q, data) = [st |-> IF q.st = "EMPTY" THEN "HAS_DATA" ELSE q.st, buf |-> b]
    BY <1>2, <2>3 DEF Push, PushShort
  <2>7. /\ Push(q, data) \in Queue(Byte)
        /\ Push(q, data).buf = b
        /\ Push(q, data).st \notin {"EMPTY", "FULL", "SHUTDOWN"}
    BY <2>4, <2>5, <2>6 DEF Queue, QueueState, Closed
  <2>8. b \o << >> = q.buf \o data
    BY <2>3, <2>4, ConcatEmptySeq
  <2>9. Len(b) \in Len(q.buf)..Capacity /\ Len(b) # Capacity
    BY <1>1, <2>4, <2>5
  <2> QED
    BY <2>2, <2>7, <2>8, <2>9, EmptySeq DEF Takes, Closed
<1>3. CASE ~FitsWithRoom(q, data) /\ data # << >>
  <2>1. Push(q, data) = PushRound(q, data)
    BY <1>3 DEF Push, PushLong
  <2> QED
    BY <2>1, PushRoundTakes
<1>4. CASE ~FitsWithRoom(q, data) /\ data = << >>
  <2>1. Push(q, data) = q
    BY <1>4 DEF Push, PushLong
  <2>2. Len(data) = 0
    BY <1>4, EmptySeq
  <2>3. Len(q.buf) = Capacity
    BY <1>1, <1>4, <2>2 DEF FitsWithRoom
  <2>4. RoundSize(q, data) = 0
    BY <1>1, <2>2, <2>3 DEF RoundSize
  <2>5. Unpushed(q, data) = << >>
    BY <2>2, <2>4, SubSeqEmpty DEF Unpushed
  <2>6. q.buf \o << >> = q.buf \o data
    BY <1>4
  <2>7. Len(q.buf) \in Len(q.buf)..Capacity
    BY <1>1
  <2> QED
    BY <1>1, <2>1, <2>5, <2>6, <2>7, EmptySeq DEF Takes
<1> QED
  BY <1>2, <1>3, <1>4
=============================================================================
