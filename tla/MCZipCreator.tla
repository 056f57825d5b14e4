---------------------------- MODULE MCZipCreator -----------------------------
(***************************************************************************)
(* Outputs for TLC.  With Capacity = 2 they cover an output that is empty, *)
(* that leaves room, that fills the queue exactly (in one push or in two), *)
(* and, in BigPlans, that is larger than the queue.                        *)
(***************************************************************************)
EXTENDS ZipCreator

Store(n) == [codec |-> "store", ends |-> <<n>>]
Lzma(n) == [codec |-> "lzma", ends |-> <<1, 1 + n>>]
Zlib(m, n) == [codec |-> "zlib", ends |-> <<m, m + n>>]
Directory == [codec |-> "none", ends |-> << >>]

FittingPlans == {Store(0), Store(2), Lzma(1), Directory}

FaultPlans == {Store(4), Lzma(1), Zlib(1, 1)}

BigPlans == {Store(2), Store(3)}

LzmaPlans == {Lzma(1)}
=============================================================================
