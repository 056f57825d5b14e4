---------------------------- MODULE ArchiveReader ----------------------------
(***************************************************************************)
(* The constructor of ZipFile (src/zipfile.cpp): how parunzip and the GTK  *)
(* program read an archive.  They do not go by the directory at its end,   *)
(* as other programs do: they scan the local headers from the beginning,   *)
(* skip the data of each, and expect the central headers, as many and in   *)
(* the same order, where the last data ends.                               *)
(*                                                                         *)
(* An archive is a sequence of cells, one per record and one per byte of   *)
(* data: see ZipCreator, whose archives have no data descriptors and are   *)
(* never encrypted.  Reading past the last cell throws.                    *)
(***************************************************************************)
EXTENDS Integers, Sequences

Placeholder == -1   \* the 0xFFFFFFFF a size has until it is known

Anonymous == 65535  \* the 0xFFFF of an end record that leaves the count to ZIP64

Kind(a, p) == IF p \in DOMAIN a THEN a[p].kind ELSE "eof"

(* A placeholder is a size too, of four gigabytes: past the end. *)
Skipped(a, p) ==
  LET size == IF a[p].size = Placeholder THEN Len(a) ELSE a[p].size
  IN  IF "descriptor" \in a[p].flags THEN size + 1 ELSE size

(* readLocalFileHeaders(): the headers at or behind cell p. *)
LocalsFrom(a) ==
  LET at[p \in 1..(Len(a) + 1)] ==
        IF Kind(a, p) # "local" THEN << >>
        ELSE LET q == p + 1 + Skipped(a, p)
             IN  IF q > Len(a) THEN <<p>> ELSE <<p>> \o at[q]
  IN  at

Locals(a) == LocalsFrom(a)[1]

(* Where the scan of the local headers stops. *)
DirectoryAt(a) ==
  IF Locals(a) = << >> THEN 1
  ELSE LET p == Locals(a)[Len(Locals(a))] IN p + 1 + Skipped(a, p)

(* readCentralDirectory(): the cell behind the central headers. *)
DirectoryEnd(a) ==
  CHOOSE e \in DirectoryAt(a)..(DirectoryAt(a) + Len(a)) :
    /\ \A p \in DirectoryAt(a)..(e - 1) : Kind(a, p) = "central"
    /\ Kind(a, e) # "central"

(* The rest of the constructor: the ZIP64 record and its locator may be    *)
(* there, the end record must be.  Nothing is read behind it.              *)
EndAt(a) ==
  LET e == DirectoryEnd(a)
  IN  IF Kind(a, e) # "z64end" THEN e ELSE IF Kind(a, e + 1) = "z64loc" THEN e + 2 ELSE e + 1

(* The constructor returns: nothing in it threw. *)
Opens(a) ==
  LET n == Len(Locals(a))
      e == DirectoryEnd(a)
  IN  /\ \A i \in 1..n : "encrypted" \notin a[Locals(a)[i]].flags
      /\ e - DirectoryAt(a) = n
      /\ Kind(a, e) = "z64end" => a[e].entries = n
      /\ Kind(a, EndAt(a)) = "end"
      /\ a[EndAt(a)].entries \in {n, Anonymous}

(* What the task of entry i is given: both headers, and the data that      *)
(* begins at data_offsets[i] and has the size of the local header.         *)
Read(a) ==
  [i \in 1..Len(Locals(a)) |->
     LET p == Locals(a)[i]
     IN  [local |-> a[p], central |-> a[DirectoryAt(a) + i - 1],
          data |-> SubSeq(a, p + 1, p + a[p].size)]]
=============================================================================
