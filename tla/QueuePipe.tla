------------------------------ MODULE QueuePipe ------------------------------
(***************************************************************************)
(* One ByteQueue between its single producer and its single consumer, with *)
(* the mutex and the condition variable of src/bytequeue.hpp.              *)
(*                                                                         *)
(* The producer pushes a stream whose bytes are numbered 1, 2, 3, ... and  *)
(* then shuts the queue down, early if it fails (launch_task).  The        *)
(* consumer pops until it sees SHUTDOWN and then pops once more            *)
(* (write_file), and may first wait_until_full_or_shutdown.  With          *)
(* ConsumerMayQuit it may shut the queue down itself, as the forwarder of  *)
(* test/bytequeue_test.cpp does when its own output is closed.             *)
(*                                                                         *)
(* An action is one critical section: from taking the mutex to releasing   *)
(* it, be that by return, by throw or inside cv.wait.                      *)
(***************************************************************************)
EXTENDS ByteQueue

CONSTANTS
  MaxPushes,        \* bound: calls of push() by the producer
  MaxPush,          \* bound: bytes in one call, above Capacity to force waits
  ConsumerMayQuit   \* whether the consumer may shut the queue down

ASSUME PipeAssumption ==
  /\ MaxPushes \in Nat
  /\ MaxPush \in Nat
  /\ ConsumerMayQuit \in BOOLEAN

VARIABLES
  queue,      \* the ByteQueue
  waiters,    \* the threads blocked in cv.wait
  pushes,     \* calls of push() so far
  sent,       \* bytes handed to push() so far
  rest,       \* the bytes push_internal still has to insert
  ppc,        \* where the producer is
  taken,      \* the bytes the consumer has popped
  cpc         \* where the consumer is

vars == <<queue, waiters, pushes, sent, rest, ppc, taken, cpc>>
producerVars == <<pushes, sent, rest, ppc>>
consumerVars == <<taken, cpc>>

Thread == {"producer", "consumer"}

(* between calls; in the wait of push_internal; shut down; push or shutdown threw *)
ProducerPc == {"calling", "full", "closed", "threw"}

(* between calls; in wait_until_full_or_shutdown; popped and about to ask   *)
(* for the state; about to pop a last time; finished; gave up              *)
ConsumerPc == {"calling", "waiting", "popped", "lastpop", "done", "quit"}

(* The next n bytes of the stream. *)
NextBytes(n) == [i \in 1..n |-> sent + i]

-----------------------------------------------------------------------------
(* The condition variable.                                                 *)

(* cv.notify_one(), which set_state calls iff the state changes: the wait *)
(* sets it can leave behind.                                              *)
Notified(new) ==
  IF ShouldNotify(queue, new) /\ waiters # {}
  THEN {waiters \ {t} : t \in waiters}
  ELSE {waiters}

(* cv.wait may also return although nobody notified. *)
SpuriousWakeup ==
  /\ \E t \in waiters : waiters' = waiters \ {t}
  /\ UNCHANGED <<queue, producerVars, consumerVars>>

-----------------------------------------------------------------------------
(* The producer.                                                           *)

(* Store the new queue, notify, and block if some bytes are left over. *)
Insert(new, left) ==
  /\ queue' = new
  /\ rest' = left
  /\ IF left = << >>
     THEN /\ ppc' = "calling"
          /\ waiters' \in Notified(new)
     ELSE /\ ppc' = "full"
          /\ \E ws \in Notified(new) : waiters' = ws \cup {"producer"}

(* push() of n bytes, up to its first wait. *)
ProducerPush(n) ==
  /\ ppc = "calling"
  /\ pushes < MaxPushes
  /\ ~Closed(queue)
  /\ pushes' = pushes + 1
  /\ sent' = sent + n
  /\ Insert(Push(queue, NextBytes(n)), Unpushed(queue, NextBytes(n)))
  /\ UNCHANGED consumerVars

(* push() throws logic_error on a queue the consumer has closed. *)
ProducerPushThrows ==
  /\ ppc = "calling"
  /\ pushes < MaxPushes
  /\ Closed(queue)
  /\ pushes' = pushes + 1
  /\ ppc' = "threw"
  /\ UNCHANGED <<queue, waiters, sent, rest, consumerVars>>

(* Back from cv.wait in push_internal, and still no room: wait again. *)
ProducerStillFull ==
  /\ ppc = "full"
  /\ "producer" \notin waiters
  /\ queue.st = "FULL"
  /\ waiters' = waiters \cup {"producer"}
  /\ UNCHANGED <<queue, producerVars, consumerVars>>

(* Back from cv.wait on a queue that was shut down: the rest is dropped. *)
ProducerGivesUp ==
  /\ ppc = "full"
  /\ "producer" \notin waiters
  /\ Closed(queue)
  /\ rest' = << >>
  /\ ppc' = "calling"
  /\ UNCHANGED <<queue, waiters, pushes, sent, consumerVars>>

(* Back from cv.wait on a popped queue: the next round of the loop. *)
ProducerResume ==
  /\ ppc = "full"
  /\ "producer" \notin waiters
  /\ ~FullOrShutdown(queue)
  /\ Insert(PushRound(queue, rest), Unpushed(queue, rest))
  /\ UNCHANGED <<pushes, sent, consumerVars>>

(* shutdown(), after the last push or early, when compressing failed. *)
ProducerShutdown ==
  /\ ppc = "calling"
  /\ IF Closed(queue)
     THEN /\ ppc' = "threw"
          /\ UNCHANGED <<queue, waiters>>
     ELSE /\ ppc' = "closed"
          /\ queue' = Shutdown(queue)
          /\ waiters' \in Notified(Shutdown(queue))
  /\ UNCHANGED <<pushes, sent, rest, consumerVars>>

-----------------------------------------------------------------------------
(* The consumer.                                                           *)

(* Slip: wait_until_full_or_shutdown() waits for FULL only. *)
ConsumerWaitForFull ==
  /\ cpc = "calling"
  /\ queue.st # "FULL"
  /\ cpc' = "waiting"
  /\ waiters' = waiters \cup {"consumer"}
  /\ UNCHANGED <<queue, taken, producerVars>>

(* wait_until_full_or_shutdown() on a queue that is neither. *)
ConsumerWait ==
  /\ cpc = "calling"
  /\ ~FullOrShutdown(queue)
  /\ cpc' = "waiting"
  /\ waiters' = waiters \cup {"consumer"}
  /\ UNCHANGED <<queue, taken, producerVars>>

(* Back from cv.wait in wait_until_full_or_shutdown. *)
ConsumerAwake ==
  /\ cpc = "waiting"
  /\ "consumer" \notin waiters
  /\ IF FullOrShutdown(queue)
     THEN /\ cpc' = "calling"
          /\ UNCHANGED waiters
     ELSE /\ waiters' = waiters \cup {"consumer"}
          /\ UNCHANGED cpc
  /\ UNCHANGED <<queue, taken, producerVars>>

ConsumerPop ==
  /\ cpc = "calling"
  /\ taken' = taken \o queue.buf
  /\ queue' = Pop(queue)
  /\ waiters' \in Notified(Pop(queue))
  /\ cpc' = "popped"
  /\ UNCHANGED producerVars

(* Slip: on SHUTDOWN the reader ends without its last pop. *)
ConsumerCheckIsLast ==
  /\ cpc = "popped"
  /\ cpc' = IF Closed(queue) THEN "done" ELSE "calling"
  /\ UNCHANGED <<queue, waiters, taken, producerVars>>

(* The loop condition q.state() != SHUTDOWN, a critical section of its own. *)
ConsumerCheck ==
  /\ cpc = "popped"
  /\ cpc' = IF Closed(queue) THEN "lastpop" ELSE "calling"
  /\ UNCHANGED <<queue, waiters, taken, producerVars>>

ConsumerLastPop ==
  /\ cpc = "lastpop"
  /\ taken' = taken \o queue.buf
  /\ queue' = Pop(queue)
  /\ waiters' \in Notified(Pop(queue))
  /\ cpc' = "done"
  /\ UNCHANGED producerVars

(* The consumer cannot use what it popped and closes its input. *)
ConsumerQuit ==
  /\ ConsumerMayQuit
  /\ cpc = "popped"
  /\ cpc' = "quit"
  /\ IF Closed(queue)
     THEN UNCHANGED <<queue, waiters>>
     ELSE /\ queue' = Shutdown(queue)
          /\ waiters' \in Notified(Shutdown(queue))
  /\ UNCHANGED <<taken, producerVars>>

-----------------------------------------------------------------------------

Init ==
  /\ queue = NewQueue
  /\ waiters = {}
  /\ pushes = 0
  /\ sent = 0
  /\ rest = << >>
  /\ ppc = "calling"
  /\ taken = << >>
  /\ cpc = "calling"

Producer ==
  \/ \E n \in 0..MaxPush : ProducerPush(n)
  \/ ProducerPushThrows
  \/ ProducerStillFull
  \/ ProducerGivesUp
  \/ ProducerResume
  \/ ProducerShutdown

Consumer ==
  \/ ConsumerWait
  \/ ConsumerAwake
  \/ ConsumerPop
  \/ ConsumerCheck
  \/ ConsumerLastPop
  \/ ConsumerQuit

(* Both threads have left the queue: the only state in which nothing moves. *)
Finished ==
  /\ ppc \in {"closed", "threw"}
  /\ cpc \in {"done", "quit"}
  /\ UNCHANGED vars

Next == Producer \/ Consumer \/ SpuriousWakeup \/ Finished

Spec == Init /\ [][Next]_vars

(* Both are threads of the operating system, which runs each of them. *)
FairSpec == Spec /\ WF_vars(Producer) /\ WF_vars(Consumer)

-----------------------------------------------------------------------------
(* The first n bytes of the stream. *)
StreamPrefix(n) == [i \in 1..n |-> i]

(* The variables hold values of their kinds, and the vector never grows    *)
(* past the buffer_size it reserved.                                       *)
TypeOK ==
  /\ queue \in Queue(Nat)
  /\ Len(queue.buf) <= Capacity
  /\ waiters \subseteq Thread
  /\ pushes \in 0..MaxPushes
  /\ sent \in Nat
  /\ rest \in Seq(Nat)
  /\ ppc \in ProducerPc
  /\ taken \in Seq(Nat)
  /\ cpc \in ConsumerPc

(* Order and conservation: what was popped, what is in the buffer and what *)
(* push_internal still holds are together the bytes handed to push(), in   *)
(* order and without gap or repetition, across every split of a push over  *)
(* several rounds.  Only a consumer that shuts the queue down itself makes *)
(* push_internal drop a rest, and then still no byte in the middle.        *)
NothingLost ==
  /\ taken \o queue.buf = StreamPrefix(Len(taken) + Len(queue.buf))
  /\ cpc # "quit" => (taken \o queue.buf) \o rest = StreamPrefix(sent)

(* The state is a summary of the buffer the other side can rely on: FULL   *)
(* exactly when the buffer is (pop_future picks tasks by it), EMPTY only   *)
(* when it is.  push(0 bytes) is why HAS_DATA may be an empty buffer.      *)
StateMatchesBuffer ==
  /\ ~Closed(queue) => (queue.st = "FULL" <=> Len(queue.buf) = Capacity)
  /\ queue.st = "EMPTY" => queue.buf = << >>

(* No lost wakeup: a thread asleep in cv.wait is one whose condition does  *)
(* not hold, although both ends share one condition variable, set_state    *)
(* wakes only one thread and does so only if the state changed.            *)
NoLostWakeup ==
  /\ "producer" \in waiters => queue.st = "FULL"
  /\ "consumer" \in waiters => ~FullOrShutdown(queue)

(* A reader that ended by the protocol of write_file (pop until SHUTDOWN,  *)
(* then once more) has every byte ever pushed, and the queue can be        *)
(* destroyed: the assertion of ~ByteQueue holds and nobody waits in it.    *)
DrainedWhenDone ==
  cpc = "done" =>
    /\ taken = StreamPrefix(sent)
    /\ queue.buf = << >>
    /\ ppc = "closed"
    /\ waiters = {}

(* shutdown() is final: a closed queue stays closed, accepts no byte more, *)
(* and gives those it holds to pop() all at once or not at all.            *)
ClosedForGood ==
  [][Closed(queue) => Closed(queue') /\ queue'.buf \in {queue.buf, << >>}]_vars

(* A producer blocked in push_internal gets out of it as long as the       *)
(* consumer pops or shuts the queue down.                                  *)
ProducerUnblocked == (ppc = "full") ~> (ppc # "full")

(* Both threads finish with the queue.                                     *)
BothFinish == <>(ppc \in {"closed", "threw"} /\ cpc \in {"done", "quit"})

Phase ==
  CASE cpc = "done" -> "drained"
    [] cpc = "quit" -> "abandoned"
    [] OTHER -> IF Closed(queue) THEN "closed" ELSE "open"

Stream == INSTANCE ByteStream WITH
            written <- taken \o queue.buf, delivered <- taken, phase <- Phase

(* The queue with its lock, its four states and its partial pushes is a    *)
(* bounded, lossless, ordered stream that may only end drained or given up *)
(* by its reader (ByteStream).                                             *)
ImplementsStream == Stream!StreamSpec

(* Under fair scheduling the closed stream is also read to its end.        *)
ImplementsFairStream == Stream!FairStreamSpec
=============================================================================
