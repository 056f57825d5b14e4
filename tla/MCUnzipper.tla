----------------------------- MODULE MCUnzipper ------------------------------
(***************************************************************************)
(* Archives for TLC, as parzip makes them: directories first.              *)
(***************************************************************************)
EXTENDS Unzipper

CONSTANTS
  top,                       \* the target directory
  dirName, a1, a2, a3        \* a directory and three other names

Dir(mayWrite) ==
  [kind |-> "dir", name |-> dirName, parent |-> top, chunks |-> 0, flaw |-> "none",
   writable |-> mayWrite]

Regular(n, p, chunks, flaw) ==
  [kind |-> "file", name |-> n, parent |-> p, chunks |-> chunks, flaw |-> flaw, writable |-> TRUE]

Link(n, p, flaw) ==
  [kind |-> "special", name |-> n, parent |-> p, chunks |-> 0, flaw |-> flaw, writable |-> TRUE]

Names == {dirName, a1, a2, a3}

(* A directory and files in it; the directory only as a parent; broken     *)
(* entries; a file where a directory must be.                              *)
DistinctNames ==
  {<<Dir(TRUE), Regular(a1, dirName, 2, "none"), Regular(a2, dirName, 1, "none"), Link(a3, top, "none")>>,
   <<Regular(a1, dirName, 2, "none"), Regular(a2, dirName, 1, "data"), Dir(TRUE)>>,
   <<Regular(dirName, top, 1, "none"), Regular(a1, dirName, 1, "none"), Link(a2, dirName, "data")>>,
   <<Dir(TRUE), Link(a1, dirName, "none"), Regular(a2, top, 2, "type")>>}

(* The same file twice, as parzip packs it when it is named twice. *)
Twins == {<<Regular(a1, top, 1, "none"), Regular(a1, top, 1, "none")>>}

ReadOnlyDir == {<<Dir(FALSE), Regular(a1, dirName, 1, "none")>>}

OneFile == {<<Regular(a1, top, 2, "none")>>}
=============================================================================
