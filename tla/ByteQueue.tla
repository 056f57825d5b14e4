------------------------------ MODULE ByteQueue ------------------------------
(***************************************************************************)
(* The class ByteQueue of src/bytequeue.hpp as a value.                    *)
(*                                                                         *)
(* A queue is the record of the two fields the mutex protects: the state   *)
(* st and the bytes buf.  Every method of the class holds the mutex from   *)
(* its first to its last line, except while it is blocked in cv.wait, so   *)
(* each operator below is what one such critical section makes of a queue. *)
(* The threads, their waits and the condition variable are in the modules  *)
(* that use a queue (QueuePipe, ZipCreator).                               *)
(***************************************************************************)
EXTENDS Integers, Sequences

CONSTANT
  Capacity     \* buffer_size: 100 MiB in ZipCreator::run, 1 to 1024 in the tests

ASSUME CapacityAssumption == Capacity \in Nat \ {0}

-----------------------------------------------------------------------------

QueueState == {"EMPTY", "HAS_DATA", "FULL", "SHUTDOWN"}

Queue(Byte) == [st : QueueState, buf : Seq(Byte)]

NewQueue == [st |-> "EMPTY", buf |-> << >>]

Closed(q) == q.st = "SHUTDOWN"

(* The condition both waits of the class test for. *)
FullOrShutdown(q) == q.st \in {"FULL", "SHUTDOWN"}

-----------------------------------------------------------------------------
(* push(): the data fits and leaves room to spare, so nothing blocks.      *)

(* Slip: data that fills the queue exactly takes the short path. *)
FitsExactly(q, data) == Len(q.buf) + Len(data) <= Capacity

FitsWithRoom(q, data) == Len(q.buf) + Len(data) < Capacity

PushShort(q, data) ==
  [st  |-> IF q.st = "EMPTY" THEN "HAS_DATA" ELSE q.st,
   buf |-> q.buf \o data]

(* Slip: a round ignores what the buffer holds already. *)
RoundSizeOfEmpty(q, data) == IF Capacity <= Len(data) THEN Capacity ELSE Len(data)

(***************************************************************************)
(* push_internal(): one round of its loop takes as much of data as fits,   *)
(* declares the queue FULL when that was everything that fits, and leaves  *)
(* the rest for the round after the next pop.                              *)
(***************************************************************************)
RoundSize(q, data) ==
  LET room == Capacity - Len(q.buf)
  IN  IF room <= Len(data) THEN room ELSE Len(data)

PushRound(q, data) ==
  LET filled == q.buf \o SubSeq(data, 1, RoundSize(q, data))
  IN  [st |-> IF Len(filled) = Capacity THEN "FULL" ELSE "HAS_DATA", buf |-> filled]

(* The loop body runs only while something is left to push. *)
PushLong(q, data) == IF data = << >> THEN q ELSE PushRound(q, data)

Push(q, data) == IF FitsWithRoom(q, data) THEN PushShort(q, data) ELSE PushLong(q, data)

(* Slip: the byte at the cut is skipped. *)
UnpushedSkipsOne(q, data) == SubSeq(data, RoundSize(q, data) + 2, Len(data))

(* What push has not inserted when it first blocks or returns. *)
Unpushed(q, data) == SubSeq(data, RoundSize(q, data) + 1, Len(data))

-----------------------------------------------------------------------------

(* Slip: pop() declares every queue EMPTY. *)
PopReopens(q) == [st |-> "EMPTY", buf |-> << >>]

(* Slip: pop() returns without swapping once the queue is shut down. *)
PopKeepsClosed(q) == IF Closed(q) THEN q ELSE [st |-> "EMPTY", buf |-> << >>]

(* pop(): hands out the whole buffer; a closed queue stays closed. *)
Pop(q) == [st |-> IF Closed(q) THEN q.st ELSE "EMPTY", buf |-> << >>]

(* shutdown(): throws on a queue that is closed already, see set_state. *)
Shutdown(q) == [q EXCEPT !.st = "SHUTDOWN"]

(* Slip: a pop wakes nobody. *)
NotifyOnPush(q, new) == new.st # q.st /\ new.st # "EMPTY"

(* Slip: only the end of the stream is announced. *)
NotifyOnClose(q, new) == new.st # q.st /\ new.st = "SHUTDOWN"

(* set_state() notifies one waiter exactly when the state changes. *)
ShouldNotify(q, new) == new.st # q.st
=============================================================================
