----------------------------- MODULE ByteStream ------------------------------
(***************************************************************************)
(* What a ByteQueue promises its two ends: a lossless, ordered byte stream *)
(* of which at most Capacity bytes are in transit.                         *)
(*                                                                         *)
(* A byte is its position in the stream, so Prefix(n) is the only correct  *)
(* content of a stream of which n bytes are known.                         *)
(***************************************************************************)
EXTENDS Integers, Sequences

CONSTANT Capacity

VARIABLES
  written,     \* the bytes the queue has accepted
  delivered,   \* the bytes the reader has taken out
  phase        \* open, closed by the writer, drained or abandoned by the reader

streamVars == <<written, delivered, phase>>

Prefix(n) == [i \in 1..n |-> i]

-----------------------------------------------------------------------------

StreamInit ==
  /\ written = << >>
  /\ delivered = << >>
  /\ phase = "open"

Write ==
  /\ phase = "open"
  /\ \E n \in 1..Capacity :
       /\ Len(written) + n <= Len(delivered) + Capacity
       /\ written' = Prefix(Len(written) + n)
  /\ UNCHANGED <<delivered, phase>>

(* The reader takes everything there is. *)
Deliver ==
  /\ phase \in {"open", "closed"}
  /\ delivered' = written
  /\ UNCHANGED <<written, phase>>

Close ==
  /\ phase = "open"
  /\ phase' = "closed"
  /\ UNCHANGED <<written, delivered>>

(* The reader may end only once it has every byte of a closed stream; the  *)
(* bytes it still misses and the end may reach it together.                *)
Drain ==
  /\ phase = "closed"
  /\ delivered' = written
  /\ phase' = "drained"
  /\ UNCHANGED written

(* The reader gives up, for instance because its own output failed. *)
Abandon ==
  /\ phase \in {"open", "closed"}
  /\ phase' = "abandoned"
  /\ UNCHANGED <<written, delivered>>

StreamNext == Write \/ Deliver \/ Close \/ Drain \/ Abandon

StreamSpec == StreamInit /\ [][StreamNext]_streamVars

(* A closed stream is not left half read. *)
FairStreamSpec == StreamSpec /\ WF_streamVars(Drain)
=============================================================================
