------------------------------ MODULE FileTree -------------------------------
(***************************************************************************)
(* Names and file systems, for src/fileutils.cpp and what it calls.  A     *)
(* name is a sequence of character codes, as the programs pass it around;  *)
(* a path is the sequence of its components, as the kernel resolves it.    *)
(* A file system maps paths to nodes; the directory << >> is always there. *)
(*                                                                         *)
(* Calls are made by a superuser, so no permission stops them (see         *)
(* Unzipper for those that do), on paths that go through no link.          *)
(***************************************************************************)
EXTENDS Integers, Sequences, SequencesExt

SLASH == 47
BACKSLASH == 92
COLON == 58

(* Times and ids of a file that was just made. *)
Now == 99
Self == 0

(* body: the content of a file, the target of a link, the eight bytes of   *)
(* the numbers of a device.                                                *)
Node ==
  [kind : {"file", "dir", "link", "chr", "fifo"}, body : Seq(Nat), mode : 0..4095,
   uid : Nat, gid : Nat, atime : Nat, mtime : Nat]

NewDir == [kind |-> "dir", body |-> << >>, mode |-> 493, uid |-> Self, gid |-> Self,
           atime |-> Now, mtime |-> Now]

(* What an entry of a directory may be called. *)
FileName == {c \in Seq(Nat) : c # << >> /\ \A i \in DOMAIN c : c[i] # SLASH}

(* How the kernel and the loop of build_tree cut a name: at every slash. *)
Cut(name) ==
  LET cut[k \in 0..Len(name)] ==
        IF k = 0 THEN << << >> >>
        ELSE IF name[k] = SLASH THEN Append(cut[k - 1], << >>)
        ELSE Front(cut[k - 1]) \o <<Append(Last(cut[k - 1]), name[k])>>
  IN  cut[Len(name)]

(* To the kernel, slashes that follow each other are one. *)
Path(name) ==
  LET parts == Cut(name)
      path[k \in 0..Len(parts)] ==
        IF k = 0 THEN << >>
        ELSE IF parts[k] = << >> THEN path[k - 1] ELSE Append(path[k - 1], parts[k])
  IN  path[Len(parts)]

(* What is in a directory is below its path; the root has no node.  What   *)
(* is in a directory is not its body.                                      *)
IsFileSystem(fs) ==
  /\ IsFiniteSet(DOMAIN fs)
  /\ \A p \in DOMAIN fs :
       /\ p \in Seq(FileName) /\ p # << >> /\ fs[p] \in Node
       /\ Len(p) > 1 => Front(p) \in DOMAIN fs /\ fs[Front(p)].kind = "dir"
       /\ fs[p].kind = "dir" => fs[p].body = << >>

(* lstat() finds it: only a directory may have a slash behind it. *)
IsThere(fs, name) ==
  /\ Path(name) \in DOMAIN fs
  /\ Last(name) = SLASH => fs[Path(name)].kind = "dir"

is_absolute_path(fname) ==
  \/ fname # << >> /\ fname[1] \in {SLASH, BACKSLASH}
  \/ Len(fname) > 2 /\ fname[2] = COLON /\ fname[3] \in {SLASH, BACKSLASH}

(* std::string's order. *)
ByteLess(s, t) ==
  \/ IsStrictPrefix(s, t)
  \/ \E k \in DOMAIN s \cap DOMAIN t :
       /\ SubSeq(s, 1, k - 1) = SubSeq(t, 1, k - 1)
       /\ s[k] < t[k]

(* The order in which expand_dir, which sorts the entries of a directory,  *)
(* and expand_entry, which puts a directory before them, visit two paths.  *)
VisitedBefore(p, q) ==
  \/ IsStrictPrefix(p, q)
  \/ \E k \in DOMAIN p \cap DOMAIN q :
       /\ SubSeq(p, 1, k - 1) = SubSeq(q, 1, k - 1)
       /\ ByteLess(p[k], q[k])

(* Slip: a directory in a directory is not scanned. *)
ExpandEntryShallow(fs, fname) ==
  <<fname>> \o SetToSeq({fname \o <<SLASH>> \o Last(p) : p \in {p \in DOMAIN fs : Front(p) = Path(fname)}})

(* expand_entry(): the names of what is at and below fname. *)
expand_entry(fs, fname) ==
  LET found == CHOOSE q \in SetToSeqs({p \in DOMAIN fs : IsPrefix(Path(fname), p)}) :
                 \A i, j \in DOMAIN q : i < j => VisitedBefore(q[i], q[j])
      Below(p) == SubSeq(p, Len(Path(fname)) + 1, Len(p))
  IN  [i \in DOMAIN found |-> fname \o FlattenSeq([k \in DOMAIN Below(found[i]) |->
                                                     <<SLASH>> \o Below(found[i])[k]])]

expand_files(fs, originals) ==
  FlattenSeq([i \in DOMAIN originals |-> expand_entry(fs, originals[i])])

(* The directories on the way to p, and p. *)
Above(p) == {SubSeq(p, 1, k) : k \in 1..Len(p)}

(* Making an entry changes its directory. *)
Touched(fs, made) ==
  [p \in DOMAIN fs |-> IF \E q \in made : Front(q) = p THEN [fs[p] EXCEPT !.mtime = Now] ELSE fs[p]]

CanMkdir(fs, p) == \A q \in Above(p) \cap DOMAIN fs : fs[q].kind = "dir"

mkdirp(fs, p) ==
  LET made == Above(p) \ DOMAIN fs
  IN  Touched([q \in DOMAIN fs \cup made |-> IF q \in made THEN NewDir ELSE fs[q]], made)

(* create_dirs_for_file(), by the path of the file. *)
create_dirs_for_file(fs, p) == mkdirp(fs, Front(p))

Put(fs, p, node) ==
  [q \in DOMAIN fs \cup {p} |-> IF q = p THEN node ELSE Touched(fs, {p})[q]]
=============================================================================
