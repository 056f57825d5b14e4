-------------------------- MODULE QueuePipeProofs ---------------------------
(***************************************************************************)
(* Theorems of QueuePipe, for every buffer size, every number and size of  *)
(* pushes and both kinds of consumer.                                      *)
(***************************************************************************)
EXTENDS QueuePipe, ByteQueueLemmas

(* Where the two threads can be, given the queue. *)
ControlInv ==
  /\ ppc = "full" <=> rest # << >>
  /\ ppc = "closed" => Closed(queue)
  /\ ppc = "threw" => cpc = "quit"
  /\ cpc = "quit" => Closed(queue)
  /\ Closed(queue) => ppc = "closed" \/ cpc = "quit"
  /\ cpc \in {"lastpop", "done"} => Closed(queue)
  /\ cpc = "done" => queue.buf = << >>

(* A sleeping thread sleeps where it called cv.wait, and for a reason. *)
WaitInv ==
  /\ "producer" \in waiters => ppc = "full"
  /\ "consumer" \in waiters => cpc = "waiting"
  /\ NoLostWakeup

(* The inductive invariant. *)
IInv == TypeOK /\ StateMatchesBuffer /\ ControlInv /\ WaitInv /\ NothingLost

-----------------------------------------------------------------------------
(* Concatenation of streams is associative. *)
LEMMA StreamsAssociative == \A a, b, c \in Seq(Nat) : (a \o b) \o c = a \o (b \o c)
BY Associative

(* The first m bytes of the stream and the n after them are the first      *)
(* m + n.                                                                  *)
LEMMA PrefixExtends ==
  ASSUME NEW m \in Nat, NEW n \in Nat
  PROVE  /\ StreamPrefix(m) \in Seq(Nat)
         /\ Len(StreamPrefix(m)) = m
         /\ [i \in 1..n |-> m + i] \in Seq(Nat)
         /\ StreamPrefix(m) \o [i \in 1..n |-> m + i] = StreamPrefix(m + n)
<1>1. StreamPrefix(m) \in Seq(Nat) /\ Len(StreamPrefix(m)) = m
  BY DEF StreamPrefix
<1>2. StreamPrefix(m + n) \in Seq(Nat) /\ Len(StreamPrefix(m + n)) = m + n
  BY DEF StreamPrefix
<1>3. PICK d : d = [i \in 1..n |-> m + i]
  OBVIOUS
<1>4. d \in Seq(Nat) /\ Len(d) = n
  BY <1>3
<1>5. PICK p : p = StreamPrefix(m)
  OBVIOUS
<1>6. p \in Seq(Nat) /\ Len(p) = m
  BY <1>1, <1>5
<1>7. /\ p \o d \in Seq(Nat)
      /\ Len(p \o d) = m + n
      /\ \A i \in 1..(m + n) : (p \o d)[i] = IF i <= m THEN p[i] ELSE d[i - m]
  BY <1>4, <1>6, ConcatProperties
<1>8. ASSUME NEW i \in 1..(m + n) PROVE (p \o d)[i] = StreamPrefix(m + n)[i]
  <2>1. CASE i <= m
    BY <1>5, <1>7, <2>1 DEF StreamPrefix
  <2>2. CASE ~(i <= m)
    <3>1. i - m \in 1..n /\ m + (i - m) = i
      BY <2>2
    <3> QED
      BY <1>3, <1>7, <2>2, <3>1 DEF StreamPrefix
  <2> QED
    BY <2>1, <2>2
<1>9. p \o d = StreamPrefix(m + n)
  BY <1>2, <1>7, <1>8, SeqEqual
<1> QED
  BY <1>1, <1>3, <1>4, <1>5, <1>9

(* What precedes something in a prefix of the stream is one itself. *)
LEMMA PrefixOfPrefix ==
  ASSUME NEW a \in Seq(Nat), NEW b \in Seq(Nat), NEW n \in Nat, a \o b = StreamPrefix(n)
  PROVE  a = StreamPrefix(Len(a))
<1>1. Len(a) \in Nat /\ Len(b) \in Nat
  BY LenProperties
<1>2. Len(a) + Len(b) = n
  BY ConcatProperties, PrefixExtends, ZenonT(40)
<1>3. ASSUME NEW i \in 1..Len(a) PROVE a[i] = StreamPrefix(Len(a))[i]
  <2>1. i \in 1..(Len(a) + Len(b)) /\ i <= Len(a)
    BY <1>1
  <2>2. (a \o b)[i] = a[i]
    BY <2>1, ConcatProperties
  <2> QED
    BY <1>1, <1>2, <2>1, <2>2 DEF StreamPrefix
<1>4. StreamPrefix(Len(a)) \in Seq(Nat) /\ Len(StreamPrefix(Len(a))) = Len(a)
  BY <1>1, PrefixExtends
<1> QED
  BY <1>3, <1>4, SeqEqual

-----------------------------------------------------------------------------
(* The two ends never sleep at once, so notify_one on a changed state wakes *)
(* whoever sleeps.                                                          *)
LEMMA NotifiedWakes ==
  ASSUME TypeOK, WaitInv, NEW new, NEW ws \in Notified(new)
  PROVE  /\ ws \subseteq waiters
         /\ new.st # queue.st => ws = {}
         /\ new.st = queue.st => ws = waiters
<1>1. waiters \in {{}, {"producer"}, {"consumer"}}
  BY DEF TypeOK, Thread, WaitInv, NoLostWakeup, FullOrShutdown
<1> QED
  BY <1>1 DEF Notified, ShouldNotify

(* The step both paths of push_internal end in keeps the invariant. *)
LEMMA InsertStep ==
  ASSUME IInv, ~Closed(queue), ppc \in {"calling", "full"}, "producer" \notin waiters,
         NEW data \in Seq(Nat), NEW new, NEW left,
         Takes(Nat, queue, data, new, left), Insert(new, left), UNCHANGED consumerVars,
         pushes' \in 0..MaxPushes, sent' \in Nat,
         taken \o (queue.buf \o data) = StreamPrefix(sent')
  PROVE  IInv'
<1> USE DEF IInv
<1>1. queue' = new /\ rest' = left /\ taken' = taken /\ cpc' = cpc
  BY DEF Insert, consumerVars
<1>2. PICK ws \in Notified(new) : waiters' = IF left = << >> THEN ws ELSE ws \cup {"producer"}
  BY DEF Insert
<1>3. /\ ws \subseteq waiters
      /\ new.st # queue.st => ws = {}
      /\ new.st = queue.st => ws = waiters
  BY <1>2, NotifiedWakes
<1>4. ppc' = IF left = << >> THEN "calling" ELSE "full"
  BY DEF Insert
<1>5. TypeOK'
  <2>1. waiters' \subseteq Thread
    BY <1>2, <1>3 DEF TypeOK, Thread
  <2>2. ppc' \in ProducerPc
    BY <1>4 DEF ProducerPc
  <2>3. Len(new.buf) <= Capacity
    BY CapacityAssumption DEF Takes
  <2> QED
    BY <1>1, <2>1, <2>2, <2>3 DEF TypeOK, Takes
<1>6. StateMatchesBuffer'
  BY <1>1 DEF StateMatchesBuffer, Takes, Closed
<1>7. cpc \notin {"quit", "lastpop", "done"} /\ ppc \notin {"closed", "threw"}
  BY DEF ControlInv
<1>8. ControlInv'
  BY <1>1, <1>4, <1>7 DEF ControlInv, Takes, Closed
<1>9. WaitInv'
  <2>1. "producer" \in waiters' => ppc' = "full" /\ queue'.st = "FULL"
    BY <1>1, <1>2, <1>3, <1>4 DEF Takes
  <2>2. "consumer" \in waiters' => cpc' = "waiting" /\ ~FullOrShutdown(queue)'
    <3>1. ASSUME "consumer" \in waiters' PROVE "consumer" \in waiters /\ new.st = queue.st
      BY <1>2, <1>3, <3>1
    <3> QED
      BY <1>1, <3>1 DEF WaitInv, NoLostWakeup, FullOrShutdown
  <2> QED
    BY <2>1, <2>2 DEF WaitInv, NoLostWakeup
<1>10. NothingLost'
  <2>1. PICK b : b = new.buf
    OBVIOUS
  <2>2. b \in Seq(Nat) /\ left \in Seq(Nat) /\ taken \in Seq(Nat)
    BY <2>1 DEF Takes, Queue, TypeOK
  <2>3. (taken \o b) \o left = taken \o (b \o left)
    BY <2>2, StreamsAssociative, Zenon
  <2>4. (taken \o b) \o left = StreamPrefix(sent')
    BY <2>1, <2>3 DEF Takes
  <2>5. taken \o b \in Seq(Nat) /\ Len(taken \o b) = Len(taken) + Len(b)
    BY <2>2, ConcatProperties
  <2>6. taken \o b = StreamPrefix(Len(taken) + Len(b))
    BY <2>2, <2>4, <2>5, PrefixOfPrefix
  <2> QED
    BY <1>1, <2>1, <2>4, <2>6 DEF NothingLost
<1> QED
  BY <1>5, <1>6, <1>8, <1>9, <1>10

(* The consumer's two pops move the buffer to what was taken. *)
LEMMA PopStep ==
  ASSUME IInv, cpc \in {"calling", "lastpop"}, waiters' \in Notified(Pop(queue)),
         taken' = taken \o queue.buf, queue' = Pop(queue), UNCHANGED producerVars,
         cpc' = IF cpc = "calling" THEN "popped" ELSE "done"
  PROVE  IInv'
<1> USE DEF IInv
<1>1. queue.buf \in Seq(Nat) /\ taken \in Seq(Nat) /\ rest \in Seq(Nat) /\ queue.st \in QueueState
  BY DEF TypeOK, Queue
<1>2. /\ queue'.buf = << >>
      /\ queue'.st = IF Closed(queue) THEN "SHUTDOWN" ELSE "EMPTY"
      /\ queue' \in Queue(Nat)
  BY <1>1, EmptySeq DEF Pop, Queue, QueueState, Closed
<1>3. /\ waiters' \subseteq waiters
      /\ queue'.st # queue.st => waiters' = {}
  BY NotifiedWakes
<1>4. taken' \in Seq(Nat) /\ Len(taken') = Len(taken) + Len(queue.buf)
  BY <1>1, ConcatProperties
<1>5. Len(<< >>) = 0 /\ Capacity \in Nat \ {0}
  BY EmptySeq, CapacityAssumption
<1>6. TypeOK'
  BY <1>2, <1>3, <1>4, <1>5 DEF TypeOK, producerVars, ConsumerPc
<1>7. StateMatchesBuffer'
  BY <1>2, <1>5 DEF StateMatchesBuffer, Closed
<1>8. ControlInv'
  BY <1>2 DEF ControlInv, Closed, producerVars
<1>9. WaitInv'
  <2>1. "consumer" \notin waiters'
    BY <1>3 DEF WaitInv
  <2>2. "producer" \in waiters' => ppc' = "full" /\ queue'.st = "FULL"
    BY <1>3 DEF WaitInv, NoLostWakeup, producerVars
  <2> QED
    BY <2>1, <2>2 DEF WaitInv, NoLostWakeup
<1>10. NothingLost'
  <2>1. taken' \o queue'.buf = taken'
    BY <1>2, <1>4, ConcatEmptySeq
  <2>2. Len(taken') + Len(queue'.buf) = Len(taken) + Len(queue.buf)
    BY <1>1, <1>2, <1>4, <1>5, LenProperties
  <2>3. cpc' # "quit" => cpc # "quit"
    OBVIOUS
  <2> QED
    BY <2>1, <2>2, <2>3 DEF NothingLost, producerVars
<1> QED
  BY <1>6, <1>7, <1>8, <1>9, <1>10

(* Shutting an open queue down, from either end, wakes everybody and keeps *)
(* the invariant.                                                          *)
LEMMA ShutdownStep ==
  ASSUME IInv, ~Closed(queue), queue' = Shutdown(queue), waiters' \in Notified(Shutdown(queue)),
         UNCHANGED <<pushes, sent, rest, taken>>,
         \/ ppc = "calling" /\ ppc' = "closed" /\ cpc' = cpc
         \/ cpc = "popped" /\ cpc' = "quit" /\ ppc' = ppc
  PROVE  IInv'
<1> USE DEF IInv
<1>1. queue'.buf = queue.buf /\ queue'.st = "SHUTDOWN" /\ queue' \in Queue(Nat)
  BY DEF TypeOK, Queue, QueueState, Shutdown
<1>2. waiters' = {}
  BY <1>1, NotifiedWakes DEF Closed
<1>3. TypeOK'
  BY <1>1, <1>2 DEF TypeOK, ProducerPc, ConsumerPc
<1>4. StateMatchesBuffer'
  BY <1>1 DEF StateMatchesBuffer, Closed
<1>5. cpc \notin {"lastpop", "done", "quit"} /\ ppc \notin {"closed", "threw"}
  BY DEF ControlInv
<1>6. ControlInv'
  BY <1>1, <1>5 DEF ControlInv, Closed
<1>7. WaitInv'
  BY <1>2 DEF WaitInv, NoLostWakeup
<1>8. NothingLost'
  BY <1>1, <1>5 DEF NothingLost
<1> QED
  BY <1>3, <1>4, <1>6, <1>7, <1>8

(* The invariant holds initially ... *)
LEMMA InitIInv == Init => IInv
<1> SUFFICES ASSUME Init PROVE IInv
  OBVIOUS
<1>1. NewQueue.st = "EMPTY" /\ NewQueue.buf = << >> /\ NewQueue \in Queue(Nat)
  BY EmptySeq DEF NewQueue, Queue, QueueState
<1>2. Len(<< >>) = 0 /\ << >> \in Seq(Nat) /\ Capacity \in Nat \ {0}
  BY EmptySeq, CapacityAssumption
<1>3. TypeOK
  BY <1>1, <1>2, PipeAssumption DEF Init, TypeOK, ProducerPc, ConsumerPc
<1>4. StateMatchesBuffer
  BY <1>1, <1>2 DEF Init, StateMatchesBuffer
<1>5. ControlInv
  BY <1>1 DEF Init, ControlInv, Closed
<1>6. WaitInv
  BY DEF Init, WaitInv, NoLostWakeup
<1>7. NothingLost
  <2>1. StreamPrefix(0) = << >>
    BY <1>2, PrefixExtends, EmptySeq
  <2>2. << >> \o << >> = << >> /\ 0 + 0 = 0
    BY <1>2, ConcatEmptySeq
  <2> QED
    BY <1>1, <1>2, <2>1, <2>2 DEF Init, NothingLost
<1> QED
  BY <1>3, <1>4, <1>5, <1>6, <1>7 DEF IInv

(* ... and is kept by every step. *)
LEMMA StepIInv == IInv /\ [Next]_vars => IInv'
<1> SUFFICES ASSUME IInv, [Next]_vars PROVE IInv'
  OBVIOUS
<1> USE DEF IInv
<1>1. /\ queue \in Queue(Nat) /\ Len(queue.buf) <= Capacity
      /\ queue.buf \in Seq(Nat) /\ taken \in Seq(Nat) /\ rest \in Seq(Nat)
      /\ pushes \in 0..MaxPushes /\ sent \in Nat
  BY DEF TypeOK, Queue
<1>2. ASSUME NEW n \in 0..MaxPush, ProducerPush(n) PROVE IInv'
  <2> DEFINE data == NextBytes(n)
  <2>1. n \in Nat
    BY PipeAssumption
  <2>2. data \in Seq(Nat) /\ StreamPrefix(sent) \o data = StreamPrefix(sent + n)
    BY <1>1, <2>1, PrefixExtends DEF NextBytes
  <2>3. ppc = "calling" /\ ~Closed(queue) /\ pushes < MaxPushes
    BY <1>2 DEF ProducerPush
  <2>4. rest = << >> /\ cpc # "quit" /\ "producer" \notin waiters
    BY <2>3 DEF ControlInv, WaitInv
  <2>5. taken \o queue.buf = StreamPrefix(sent)
    BY <1>1, <2>4, ConcatEmptySeq, ConcatProperties DEF NothingLost
  <2>6. Takes(Nat, queue, data, Push(queue, data), Unpushed(queue, data))
    BY <1>1, <2>2, <2>3, PushTakes DEF StateMatchesBuffer
  <2>7. sent' = sent + n /\ sent' \in Nat
    BY <1>1, <1>2, <2>1 DEF ProducerPush
  <2>8. pushes' \in 0..MaxPushes
    BY <1>1, <1>2, <2>3, PipeAssumption DEF ProducerPush
  <2>9. taken \o (queue.buf \o data) = StreamPrefix(sent')
    <3> HIDE DEF data
    <3>1. (taken \o queue.buf) \o data = taken \o (queue.buf \o data)
      BY <1>1, <2>2, StreamsAssociative, Zenon
    <3> QED
      BY <2>2, <2>5, <2>7, <3>1
  <2>10. Insert(Push(queue, data), Unpushed(queue, data)) /\ UNCHANGED consumerVars
    BY <1>2 DEF ProducerPush
  <2> HIDE DEF data
  <2> QED
    BY <2>2, <2>3, <2>4, <2>6, <2>7, <2>8, <2>9, <2>10, InsertStep
<1>3. CASE ProducerPushThrows
  <2>1. ppc' = "threw" /\ cpc = "quit" /\ ppc = "calling" /\ UNCHANGED <<queue, waiters, sent, rest, taken, cpc>>
    BY <1>3 DEF ProducerPushThrows, consumerVars, ControlInv
  <2>2. TypeOK'
    BY <1>1, <1>3, <2>1, PipeAssumption DEF TypeOK, ProducerPc, ProducerPushThrows
  <2> QED
    BY <2>1, <2>2 DEF StateMatchesBuffer, ControlInv, WaitInv, NoLostWakeup, NothingLost
<1>4. CASE ProducerStillFull
  <2>1. ppc = "full" /\ queue.st = "FULL" /\ waiters' = waiters \cup {"producer"}
        /\ UNCHANGED <<queue, pushes, sent, rest, ppc, taken, cpc>>
    BY <1>4 DEF ProducerStillFull, producerVars, consumerVars
  <2>2. TypeOK'
    BY <2>1 DEF TypeOK, Thread
  <2>3. WaitInv'
    BY <2>1 DEF WaitInv, NoLostWakeup, FullOrShutdown
  <2> QED
    BY <2>1, <2>2, <2>3 DEF StateMatchesBuffer, ControlInv, NothingLost
<1>5. CASE ProducerGivesUp
  <2>1. ppc = "full" /\ ppc' = "calling" /\ rest' = << >> /\ cpc = "quit" /\ "producer" \notin waiters
        /\ UNCHANGED <<queue, waiters, pushes, sent, taken, cpc>>
    BY <1>5 DEF ProducerGivesUp, consumerVars, ControlInv
  <2>2. TypeOK'
    BY <2>1, EmptySeq DEF TypeOK, ProducerPc
  <2> QED
    BY <2>1, <2>2 DEF StateMatchesBuffer, ControlInv, WaitInv, NoLostWakeup, NothingLost
<1>6. CASE ProducerResume
  <2>1. ppc = "full" /\ "producer" \notin waiters /\ ~Closed(queue)
    BY <1>6 DEF ProducerResume, FullOrShutdown, Closed
  <2>2. cpc # "quit"
    BY <2>1 DEF ControlInv
  <2>3. pushes' \in 0..MaxPushes /\ sent' = sent /\ sent' \in Nat
    BY <1>1, <1>6 DEF ProducerResume
  <2>4. taken \o (queue.buf \o rest) = StreamPrefix(sent')
    <3>1. (taken \o queue.buf) \o rest = taken \o (queue.buf \o rest)
      BY <1>1, StreamsAssociative, Zenon
    <3> QED
      BY <2>2, <2>3, <3>1 DEF NothingLost
  <2>5. Takes(Nat, queue, rest, PushRound(queue, rest), Unpushed(queue, rest))
    BY <1>1, PushRoundTakes
  <2>6. Insert(PushRound(queue, rest), Unpushed(queue, rest)) /\ UNCHANGED consumerVars
    BY <1>6 DEF ProducerResume
  <2> QED
    BY <1>1, <2>1, <2>3, <2>4, <2>5, <2>6, InsertStep
<1>7. CASE ProducerShutdown
  <2>1. CASE Closed(queue)
    <3>1. ppc = "calling" /\ ppc' = "threw" /\ cpc = "quit" /\ UNCHANGED <<queue, waiters, pushes, sent, rest, taken, cpc>>
      BY <1>7, <2>1 DEF ProducerShutdown, consumerVars, ControlInv
    <3>2. TypeOK'
      BY <3>1 DEF TypeOK, ProducerPc
    <3> QED
      BY <3>1, <3>2 DEF StateMatchesBuffer, ControlInv, WaitInv, NoLostWakeup, NothingLost
  <2>2. CASE ~Closed(queue)
    BY <1>7, <2>2, ShutdownStep DEF ProducerShutdown, consumerVars
  <2> QED
    BY <2>1, <2>2
<1>8. CASE ConsumerWait
  <2>1. cpc = "calling" /\ cpc' = "waiting" /\ ~FullOrShutdown(queue) /\ waiters' = waiters \cup {"consumer"}
        /\ UNCHANGED <<queue, pushes, sent, rest, ppc, taken>>
    BY <1>8 DEF ConsumerWait, producerVars
  <2>2. TypeOK'
    BY <2>1 DEF TypeOK, Thread, ConsumerPc
  <2>3. WaitInv'
    BY <2>1 DEF WaitInv, NoLostWakeup, FullOrShutdown
  <2> QED
    BY <2>1, <2>2, <2>3 DEF StateMatchesBuffer, ControlInv, NothingLost
<1>9. CASE ConsumerAwake
  <2>1. cpc = "waiting" /\ "consumer" \notin waiters /\ UNCHANGED <<queue, pushes, sent, rest, ppc, taken>>
    BY <1>9 DEF ConsumerAwake, producerVars
  <2>2. \/ cpc' = "calling" /\ waiters' = waiters
        \/ cpc' = cpc /\ waiters' = waiters \cup {"consumer"} /\ ~FullOrShutdown(queue)
    BY <1>9 DEF ConsumerAwake
  <2>3. TypeOK'
    BY <2>1, <2>2 DEF TypeOK, Thread, ConsumerPc
  <2>4. WaitInv'
    BY <2>1, <2>2 DEF WaitInv, NoLostWakeup, FullOrShutdown
  <2> QED
    BY <2>1, <2>2, <2>3, <2>4 DEF StateMatchesBuffer, ControlInv, NothingLost
<1>10. CASE ConsumerPop
  BY <1>10, PopStep DEF ConsumerPop
<1>11. CASE ConsumerCheck
  <2>1. cpc = "popped" /\ cpc' = (IF Closed(queue) THEN "lastpop" ELSE "calling")
        /\ UNCHANGED <<queue, waiters, pushes, sent, rest, ppc, taken>>
    BY <1>11 DEF ConsumerCheck, producerVars
  <2>2. TypeOK'
    BY <2>1 DEF TypeOK, ConsumerPc
  <2> QED
    BY <2>1, <2>2 DEF StateMatchesBuffer, ControlInv, WaitInv, NoLostWakeup, NothingLost
<1>12. CASE ConsumerLastPop
  BY <1>12, PopStep DEF ConsumerLastPop
<1>13. CASE ConsumerQuit
  <2>1. CASE Closed(queue)
    <3>1. cpc = "popped" /\ cpc' = "quit" /\ UNCHANGED <<queue, waiters, pushes, sent, rest, ppc, taken>>
      BY <1>13, <2>1 DEF ConsumerQuit, producerVars
    <3>2. TypeOK'
      BY <3>1 DEF TypeOK, ConsumerPc
    <3> QED
      BY <2>1, <3>1, <3>2 DEF StateMatchesBuffer, ControlInv, WaitInv, NoLostWakeup, NothingLost
  <2>2. CASE ~Closed(queue)
    BY <1>13, <2>2, ShutdownStep DEF ConsumerQuit, producerVars
  <2> QED
    BY <2>1, <2>2
<1>14. CASE SpuriousWakeup
  <2>1. waiters' \subseteq waiters /\ UNCHANGED <<queue, pushes, sent, rest, ppc, taken, cpc>>
    BY <1>14 DEF SpuriousWakeup, producerVars, consumerVars
  <2>2. TypeOK'
    BY <2>1 DEF TypeOK
  <2> QED
    BY <2>1, <2>2 DEF StateMatchesBuffer, ControlInv, WaitInv, NoLostWakeup, NothingLost
<1>15. CASE UNCHANGED vars
  BY <1>15 DEF vars, TypeOK, StateMatchesBuffer, ControlInv, WaitInv, NoLostWakeup, NothingLost
<1> QED
  BY <1>2, <1>3, <1>4, <1>5, <1>6, <1>7, <1>8, <1>9, <1>10, <1>11, <1>12, <1>13, <1>14, <1>15
     DEF Next, Producer, Consumer, Finished

(* The invariant the theorems below are read off. *)
THEOREM Invariant == Spec => []IInv
<1> QED
  BY InitIInv, StepIInv, PTL DEF Spec

(* Type correctness, and the buffer never holds more than buffer_size. *)
THEOREM TypeCorrect == Spec => []TypeOK
BY Invariant, PTL DEF IInv

(* No byte is lost, repeated or reordered, however the pushes are split. *)
THEOREM Lossless == Spec => []NothingLost
BY Invariant, PTL DEF IInv

(* The four states say the truth about the buffer. *)
THEOREM StateIsTruthful == Spec => []StateMatchesBuffer
BY Invariant, PTL DEF IInv

(* Nobody sleeps in cv.wait without a reason to. *)
THEOREM WakeupsAreNotLost == Spec => []NoLostWakeup
<1>1. IInv => NoLostWakeup
  BY DEF IInv, WaitInv
<1> QED
  BY <1>1, Invariant, PTL

(* A reader that is done has everything, and the queue may be destroyed. *)
THEOREM Drained == Spec => []DrainedWhenDone
<1>1. IInv => DrainedWhenDone
  <2> SUFFICES ASSUME IInv, cpc = "done"
               PROVE  taken = StreamPrefix(sent) /\ queue.buf = << >> /\ ppc = "closed" /\ waiters = {}
    BY DEF DrainedWhenDone
  <2>1. Closed(queue) /\ queue.buf = << >> /\ ppc = "closed" /\ rest = << >>
    BY DEF IInv, ControlInv
  <2>2. waiters = {}
    BY <2>1 DEF IInv, WaitInv, TypeOK, Thread
  <2>3. taken \o << >> = taken
    BY ConcatEmptySeq DEF IInv, TypeOK
  <2>4. taken = StreamPrefix(sent)
    BY <2>1, <2>3 DEF IInv, NothingLost
  <2> QED
    BY <2>1, <2>2, <2>4
<1> QED
  BY <1>1, Invariant, PTL

(* shutdown() is final for state and content. *)
THEOREM ShutdownIsFinal == Spec => ClosedForGood
<1>1. ASSUME [Next]_vars, Closed(queue)
      PROVE  Closed(queue') /\ queue'.buf \in {queue.buf, << >>}
  <2>1. CASE UNCHANGED queue
    BY <1>1, <2>1
  <2>2. CASE queue' = Pop(queue)
    BY <1>1, <2>2 DEF Pop, Closed
  <2>3. UNCHANGED queue \/ queue' = Pop(queue)
    BY <1>1 DEF Next, Producer, Consumer, SpuriousWakeup, Finished, ProducerPush,
         ProducerPushThrows, ProducerStillFull, ProducerGivesUp, ProducerResume, FullOrShutdown,
         Closed, ProducerShutdown, ConsumerWait, ConsumerAwake, ConsumerPop, ConsumerCheck,
         ConsumerLastPop, ConsumerQuit, vars
  <2> QED
    BY <2>1, <2>2, <2>3
<1>2. [Next]_vars => [Closed(queue) => Closed(queue') /\ queue'.buf \in {queue.buf, << >>}]_vars
  BY <1>1
<1> QED
  BY <1>2, PTL DEF Spec, ClosedForGood

-----------------------------------------------------------------------------
(* The refinement: both ends of every step are good streams, so a push     *)
(* that put n bytes into the buffer is a Write of n bytes.                 *)

(* A step that only lets the buffer grow is a Write or leaves the stream   *)
(* alone.                                                                  *)
LEMMA GrowthIsWrite ==
  ASSUME IInv, IInv', ~Closed(queue), ~Closed(queue'), cpc \notin {"done", "quit"},
         UNCHANGED <<taken, cpc>>, Len(queue'.buf) >= Len(queue.buf)
  PROVE  [Stream!StreamNext]_(Stream!streamVars)
<1>1. /\ queue.buf \in Seq(Nat) /\ queue'.buf \in Seq(Nat) /\ taken \in Seq(Nat)
      /\ Len(queue'.buf) <= Capacity
  BY DEF IInv, TypeOK, Queue
<1>2. PICK n : n = Len(queue'.buf) - Len(queue.buf)
  OBVIOUS
<1>3. /\ Len(queue.buf) \in Nat /\ Len(queue'.buf) \in Nat /\ Len(taken) \in Nat /\ n \in Nat
      /\ Capacity \in Nat
  BY <1>1, <1>2, LenProperties, CapacityAssumption
<1>4. Len(taken \o queue.buf) = Len(taken) + Len(queue.buf)
  BY <1>1, ConcatProperties
<1>5. taken \o queue.buf = StreamPrefix(Len(taken) + Len(queue.buf))
  BY DEF IInv, NothingLost
<1>6. taken' \o queue'.buf = StreamPrefix(Len(taken) + Len(queue'.buf))
  BY DEF IInv, NothingLost
<1>7. Phase = "open" /\ Phase' = "open"
  BY DEF Phase
<1>8. CASE n = 0
  <2>1. Len(queue'.buf) = Len(queue.buf)
    BY <1>2, <1>3, <1>8
  <2>2. taken' \o queue'.buf = taken \o queue.buf
    BY <1>5, <1>6, <2>1
  <2> QED
    BY <1>7, <2>2 DEF Stream!streamVars
<1>9. CASE n # 0
  <2>1. n \in 1..Capacity
    BY <1>1, <1>2, <1>3, <1>9
  <2>2. Len(taken) + Len(queue'.buf) = Len(taken \o queue.buf) + n
    <3>1. Len(queue'.buf) = Len(queue.buf) + n
      BY <1>2, <1>3
    <3> QED
      BY <1>3, <1>4, <3>1
  <2>3. Len(taken \o queue.buf) + n <= Len(taken) + Capacity
    BY <1>1, <1>3, <2>2
  <2>4. taken' \o queue'.buf = Stream!Prefix(Len(taken \o queue.buf) + n)
    BY <1>6, <2>2 DEF Stream!Prefix, StreamPrefix
  <2> QED
    BY <1>7, <2>1, <2>3, <2>4 DEF Stream!StreamNext, Stream!Write
<1> QED
  BY <1>8, <1>9

(* Every step of the queue is a step of the stream, or none. *)
LEMMA StreamStep == IInv /\ IInv' /\ [Next]_vars => [Stream!StreamNext]_(Stream!streamVars)
<1> SUFFICES ASSUME IInv, IInv', [Next]_vars PROVE [Stream!StreamNext]_(Stream!streamVars)
  OBVIOUS
<1>1. /\ queue \in Queue(Nat) /\ Len(queue.buf) <= Capacity /\ queue.buf \in Seq(Nat)
      /\ taken \in Seq(Nat) /\ rest \in Seq(Nat)
  BY DEF IInv, TypeOK, Queue
<1>2. ASSUME UNCHANGED <<queue, taken, cpc>> PROVE UNCHANGED Stream!streamVars
  BY <1>2 DEF Stream!streamVars, Phase
<1>3. ASSUME NEW data \in Seq(Nat), NEW new, NEW left, ~Closed(queue), ppc \in {"calling", "full"},
             Takes(Nat, queue, data, new, left), Insert(new, left), UNCHANGED consumerVars
      PROVE  [Stream!StreamNext]_(Stream!streamVars)
  <2>1. queue' = new /\ UNCHANGED <<taken, cpc>>
    BY <1>3 DEF Insert, consumerVars
  <2>2. Len(new.buf) >= Len(queue.buf) /\ ~Closed(queue')
    BY <1>1, <1>3, <2>1, LenProperties, CapacityAssumption DEF Takes
  <2>3. cpc \notin {"done", "quit"}
    BY <1>3 DEF IInv, ControlInv
  <2> QED
    BY <1>3, <2>1, <2>2, <2>3, GrowthIsWrite
<1>4. ASSUME NEW n \in 0..MaxPush, ProducerPush(n) PROVE [Stream!StreamNext]_(Stream!streamVars)
  <2>1. n \in Nat
    BY PipeAssumption
  <2>2. NextBytes(n) \in Seq(Nat)
    BY <2>1, PrefixExtends DEF NextBytes, IInv, TypeOK
  <2>3. ~Closed(queue) /\ ppc = "calling"
    BY <1>4 DEF ProducerPush
  <2>4. Takes(Nat, queue, NextBytes(n), Push(queue, NextBytes(n)), Unpushed(queue, NextBytes(n)))
    BY <1>1, <2>2, <2>3, PushTakes DEF IInv, StateMatchesBuffer
  <2>5. Insert(Push(queue, NextBytes(n)), Unpushed(queue, NextBytes(n))) /\ UNCHANGED consumerVars
    BY <1>4 DEF ProducerPush
  <2> QED
    BY <1>3, <2>2, <2>3, <2>4, <2>5
<1>5. CASE ProducerResume
  <2>1. ~Closed(queue) /\ ppc = "full"
    BY <1>5 DEF ProducerResume, FullOrShutdown, Closed
  <2>2. Takes(Nat, queue, rest, PushRound(queue, rest), Unpushed(queue, rest))
    BY <1>1, PushRoundTakes
  <2>3. Insert(PushRound(queue, rest), Unpushed(queue, rest)) /\ UNCHANGED consumerVars
    BY <1>5 DEF ProducerResume
  <2> QED
    BY <1>1, <1>3, <2>1, <2>2, <2>3
<1>6. CASE ProducerShutdown /\ ~Closed(queue)
  <2>1. queue'.buf = queue.buf /\ Closed(queue') /\ UNCHANGED <<taken, cpc>>
    BY <1>1, <1>6 DEF ProducerShutdown, Shutdown, Closed, consumerVars, Queue
  <2>2. cpc \notin {"done", "quit"}
    BY <1>6 DEF IInv, ControlInv
  <2>3. Phase = "open" /\ Phase' = "closed"
    BY <1>6, <2>1, <2>2 DEF Phase
  <2> QED
    BY <2>1, <2>3 DEF Stream!StreamNext, Stream!Close
<1>7. CASE ConsumerPop
  <2>1. queue' = Pop(queue) /\ taken' = taken \o queue.buf /\ cpc = "calling" /\ cpc' = "popped"
    BY <1>7 DEF ConsumerPop
  <2>2. queue'.buf = << >> /\ (Closed(queue') <=> Closed(queue))
    BY <2>1 DEF Pop, Closed
  <2>3. taken' \in Seq(Nat)
    BY DEF IInv, TypeOK
  <2>4. taken' \o queue'.buf = taken \o queue.buf
    BY <2>1, <2>2, <2>3, ConcatEmptySeq
  <2>5. Phase \in {"open", "closed"} /\ Phase' = Phase
    BY <2>1, <2>2 DEF Phase
  <2> QED
    BY <2>1, <2>4, <2>5 DEF Stream!StreamNext, Stream!Deliver
<1>8. CASE ConsumerLastPop
  <2>1. queue' = Pop(queue) /\ taken' = taken \o queue.buf /\ cpc = "lastpop" /\ cpc' = "done"
    BY <1>8 DEF ConsumerLastPop
  <2>2. queue'.buf = << >> /\ Closed(queue)
    BY <2>1 DEF Pop, IInv, ControlInv
  <2>3. taken' \in Seq(Nat)
    BY DEF IInv, TypeOK
  <2>4. taken' \o queue'.buf = taken \o queue.buf
    BY <2>1, <2>2, <2>3, ConcatEmptySeq
  <2>5. Phase = "closed" /\ Phase' = "drained"
    BY <2>1, <2>2 DEF Phase
  <2> QED
    BY <2>1, <2>4, <2>5 DEF Stream!StreamNext, Stream!Drain
<1>9. CASE ConsumerQuit
  <2>1. queue'.buf = queue.buf /\ taken' = taken /\ cpc = "popped" /\ cpc' = "quit"
    BY <1>1, <1>9 DEF ConsumerQuit, Shutdown, Queue
  <2>2. Phase \in {"open", "closed"} /\ Phase' = "abandoned"
    BY <2>1 DEF Phase
  <2> QED
    BY <2>1, <2>2 DEF Stream!StreamNext, Stream!Abandon
<1>10. CASE ConsumerAwake \/ ConsumerWait \/ ConsumerCheck
  <2>1. UNCHANGED <<queue, taken>> /\ cpc \notin {"done", "quit"} /\ cpc' \notin {"done", "quit"}
    BY <1>10 DEF ConsumerAwake, ConsumerWait, ConsumerCheck
  <2>2. Phase' = Phase
    BY <2>1 DEF Phase
  <2> QED
    BY <2>1, <2>2 DEF Stream!streamVars
<1>11. CASE \/ ProducerPushThrows \/ ProducerStillFull \/ ProducerGivesUp
            \/ ProducerShutdown /\ Closed(queue)
            \/ SpuriousWakeup \/ Finished \/ UNCHANGED vars
  <2>1. UNCHANGED <<queue, taken, cpc>>
    BY <1>11 DEF ProducerPushThrows, ProducerStillFull, ProducerGivesUp, ProducerShutdown,
         SpuriousWakeup, Finished, vars, consumerVars
  <2> QED
    BY <1>2, <2>1
<1> QED
  BY <1>4, <1>5, <1>6, <1>7, <1>8, <1>9, <1>10, <1>11 DEF Next, Producer, Consumer

(* ByteQueue with its lock, states and partial pushes implements the       *)
(* bounded, lossless, ordered stream.                                      *)
THEOREM Refinement == Spec => ImplementsStream
<1>1. Init => Stream!StreamInit
  <2> SUFFICES ASSUME Init PROVE Stream!StreamInit
    OBVIOUS
  <2>1. << >> \o << >> = << >>
    BY EmptySeq, ConcatEmptySeq
  <2>2. Phase = "open"
    BY DEF Init, Phase, NewQueue, Closed
  <2> QED
    BY <2>1, <2>2 DEF Init, NewQueue, Stream!StreamInit
<1> QED
  BY <1>1, Invariant, StreamStep, PTL DEF Spec, ImplementsStream, Stream!StreamSpec
=============================================================================
