----------------------------- MODULE RoundTrip -------------------------------
(***************************************************************************)
(* A tree of files, packed by parzip and unpacked somewhere else by        *)
(* parunzip or the GTK program, which lists the archive first: main() of   *)
(* src/parzip.cpp, what becomes of each entry on its way through the       *)
(* archive, ZipFile::build_tree and unpack_entry.                          *)
(*                                                                         *)
(* Here a task is one step, and no call fails that need not: ZipCreator    *)
(* and Unzipper have the threads, the queues and the faults, this module   *)
(* has the names and the contents.  What they leave to chance is kept: of  *)
(* the NumThreads tasks that run, any may be the next to finish.  And the  *)
(* user may change one file while parzip is at work.                       *)
(***************************************************************************)
EXTENDS EntryFormat, NaturalOrder

CONSTANTS
  Trees,        \* file systems to pack from
  Arguments,    \* sequences of names given to parzip
  Destinations, \* the directories the GTK program may unpack to
  Editable,     \* the paths of the files and links that may change
  NumThreads    \* hardware_concurrency(), at least 1

ASSUME RoundTripAssumption ==
  /\ \A fs \in Trees : IsFileSystem(fs)
  /\ \A fs \in Trees : \A p \in Editable \cap DOMAIN fs : fs[p].kind \in {"file", "link"}
  /\ \A as \in Arguments : as \in Seq(Seq(Nat))
  /\ Destinations \subseteq Seq(Nat)
  /\ NumThreads \in Nat \ {0}

(* The byte that an edit adds. *)
Edited == 9

VARIABLES
  tree,       \* the file system that parzip scans
  source,     \* the same, as it is now
  args,       \* parzip's arguments
  stage,      \* what is being done
  files,      \* parzip: the files whose tasks have not been written
  archive,    \* the archive, as a sequence of cells
  chs,        \* parzip: the central headers
  entries,    \* what the reader knows of the archive
  listing,    \* GTK: folder |-> its folders and files, in order
  prefix,     \* where to unpack to, as a name
  waiting,    \* the entries whose tasks have not finished
  target,     \* the file system that is unpacked to
  failed      \* the names of the entries that parzip or parunzip reported lost

givens == <<tree, args>>
packVars == <<files, archive, chs>>
readVars == <<entries, listing>>
unpackVars == <<prefix, waiting, target>>
vars == <<givens, source, stage, packVars, readVars, unpackVars, failed>>

Init ==
  /\ tree \in Trees /\ source = tree
  /\ args \in Arguments
  /\ stage = "scan"
  /\ files = << >> /\ archive = << >> /\ chs = << >>
  /\ entries = << >> /\ listing = << >> /\ prefix = << >> /\ waiting = << >> /\ target = << >>
  /\ failed = {}

-----------------------------------------------------------------------------
(* parzip. *)

Acceptable(name) == name # << >> /\ ~is_absolute_path(name)

(* main()'s stable_partition and sort: the orders the tasks may have.      *)
(* Directories come first, as they were; the rest by falling size.         *)
LaunchOrders(fis) ==
  LET IsDir(i) == fis[i].kind = "dir"
      Sorted(o) == \A k, l \in DOMAIN o : k < l =>
                     IF IsDir(o[l]) THEN IsDir(o[k]) /\ o[k] < o[l]
                     ELSE IsDir(o[k]) \/ fis[o[k]].fsize >= fis[o[l]].fsize
  IN  {[k \in DOMAIN o |-> fis[o[k]]] : o \in {o \in SetToSeqs(DOMAIN fis) : Sorted(o)}}

ScanFails ==
  /\ stage = "scan"
  /\ \E i \in DOMAIN args : ~Acceptable(args[i]) \/ ~IsThere(source, args[i])
  /\ stage' = "refused"
  /\ UNCHANGED <<givens, source, packVars, readVars, unpackVars, failed>>

Scan ==
  /\ stage = "scan"
  /\ \A i \in DOMAIN args : Acceptable(args[i]) /\ IsThere(source, args[i])
  /\ LET names == expand_files(source, args)
     IN  files' \in LaunchOrders([i \in DOMAIN names |-> get_unix_stats(source, names[i])])
  /\ stage' = "pack"
  /\ UNCHANGED <<givens, source, archive, chs, readVars, unpackVars, failed>>

(* The user empties, extends or removes a file, or makes a link longer:    *)
(* once, which is the bound on this.                                       *)
Edit(p) ==
  /\ stage = "pack" /\ source = tree /\ p \in DOMAIN source
  /\ \/ source' = Restrict(source, DOMAIN source \ {p})
     \/ source[p].kind = "file" /\ source' = [source EXCEPT ![p].body = << >>]
     \/ source' = [source EXCEPT ![p].body = Append(@, Edited)]
  /\ UNCHANGED <<givens, stage, packVars, readVars, unpackVars, failed>>

(* handle_future() of a task that runs. *)
Pack(i) ==
  /\ stage = "pack" /\ i <= NumThreads
  /\ ~Asserts(source, files[i])
  /\ \/ /\ CanPack(source, files[i])
        /\ \E method \in Methods(files[i]) :
             LET r  == compress_entry(source, files[i], method)
                 lh == LocalHeader(files[i], r, Len(archive))
             IN  /\ archive' = Append(archive, lh) \o r.data
                 /\ chs' = Append(chs, CentralHeader(files[i], lh, Len(archive)))
        /\ UNCHANGED failed
     \/ /\ ~CanPack(source, files[i])
        /\ failed' = failed \cup {files[i].fname}
        /\ UNCHANGED <<archive, chs>>
  /\ files' = RemoveAt(files, i)
  /\ UNCHANGED <<givens, source, stage, readVars, unpackVars>>

(* An assertion fails in a task that runs. *)
Abort(i) ==
  /\ stage = "pack" /\ i <= NumThreads
  /\ Asserts(source, files[i])
  /\ stage' = "aborted"
  /\ UNCHANGED <<givens, source, packVars, readVars, unpackVars, failed>>

(* The rest of ZipCreator::run: without an entry it throws instead. *)
Seal ==
  /\ stage = "pack" /\ files = << >>
  /\ archive' = IF chs = << >> THEN archive
                ELSE archive \o chs \o <<[kind |-> "z64end", entries |-> Len(chs)],
                                         [kind |-> "z64loc"], [kind |-> "end", entries |-> Anonymous]>>
  /\ stage' = "open"
  /\ UNCHANGED <<givens, source, files, chs, readVars, unpackVars, failed>>

-----------------------------------------------------------------------------
(* The readers. *)

CanOpen ==
  /\ Opens(Sized(archive))
  /\ \A p \in DOMAIN archive : archive[p].kind = "local" => CheckFilename(archive[p].fname)

OpenFails ==
  /\ stage = "open" /\ ~CanOpen
  /\ stage' = "broken"
  /\ UNCHANGED <<givens, source, packVars, readVars, unpackVars, failed>>

(* build_tree(): the parts of a name before its slashes are folders, what  *)
(* is behind the last slash is a file unless it is empty.                  *)
Parts(i) == Cut(entries[i].local.fname)

Folders == {<< >>} \cup UNION {Above(Front(Parts(i))) : i \in DOMAIN entries}

FoldersIn(f) == {Last(g) : g \in {g \in Folders : g # << >> /\ Front(g) = f}}

(* Slip: what is behind the last slash is always a file. *)
FilesInEmptyToo(f) == {i \in DOMAIN entries : Front(Parts(i)) = f}

FilesIn(f) == {i \in DOMAIN entries : Front(Parts(i)) = f /\ Last(Parts(i)) # << >>}

FileNamesIn(f) == {Last(Parts(i)) : i \in FilesIn(f)}

(* The row of a file: an archive of parzip does not hold a name twice. *)
Row(f, name) ==
  LET i == CHOOSE i \in FilesIn(f) : Last(Parts(i)) = name
      sizes == unpack_zip64_sizes(entries[i].local)
  IN  [fname |-> name, compressed |-> sizes.compressed, uncompressed |-> sizes.uncompressed]

OpenFile ==
  /\ stage = "open" /\ CanOpen
  /\ stage' = "list"
  /\ entries' = Read(Sized(archive))
  /\ UNCHANGED <<givens, source, packVars, listing, unpackVars, failed>>

(* order_entries() of one folder, after that of the folder it is in. *)
ListFolder(f) ==
  /\ f \in Folders \ DOMAIN listing
  /\ f = << >> \/ Front(f) \in DOMAIN listing
  /\ \E dirs \in SortOutcomes(FoldersIn(f)), names \in SortOutcomes(FileNamesIn(f)) :
       LET rows == [k \in DOMAIN names |-> Row(f, names[k])]
       IN  listing' = [g \in DOMAIN listing \cup {f} |->
                         IF g = f THEN [dirs |-> dirs, files |-> rows] ELSE listing[g]]
  /\ UNCHANGED <<givens, source, stage, packVars, entries, unpackVars, failed>>

Listed == stage = "list" /\ DOMAIN listing = Folders

-----------------------------------------------------------------------------
(* Unpacking, from the programs' own directory. *)

unzip(where) ==
  /\ stage' = "unpack" /\ prefix' = where
  /\ waiting' = [i \in DOMAIN entries' |-> i]
  /\ target' = mkdirp(<< >>, Path(where))
  /\ UNCHANGED <<givens, source, packVars, listing, failed>>

Parunzip ==
  /\ stage = "open" /\ CanOpen
  /\ entries' = Read(Sized(archive))
  /\ unzip(<< >>)

UnpackTo(folder) == Listed /\ UNCHANGED entries /\ unzip(folder)

(* Slip: the slash is left out. *)
OutNameNoSlash(where, fname) == where \o fname

OutName(where, fname) ==
  IF where = << >> \/ Last(where) = SLASH THEN where \o fname ELSE where \o <<SLASH>> \o fname

(* set_unix_permissions(), for the superuser: chmod, utime and chown. *)
set_unix_permissions(node, lh, ch) ==
  LET ue == unpack_unix(lh)
  IN  [node EXCEPT !.mode = ch.mode % 512, !.uid = ue.uid, !.gid = ue.gid,
                   !.atime = IF ue.atime # 0 THEN ue.atime ELSE @,
                   !.mtime = IF ue.atime # 0 THEN ue.mtime ELSE @]

(* create_file(), create_symlink() or create_device() makes the entry.  A  *)
(* device never has its eight bytes, see unpack_unix.                      *)
CanCreate(e, path) ==
  CASE e.central.type = "dir"  -> CanMkdir(target, path)
    [] e.central.type = "chr"  -> Len(unpack_unix(e.local).data) = 8
    [] e.central.type = "file" -> path \notin DOMAIN target /\ CanMkdir(target, Front(path))
                                  /\ Decode(e.central.compression_method, e.data) = e.local.crc32
    [] OTHER                   -> path \notin DOMAIN target /\ CanMkdir(target, Front(path))

Created(e, path) ==
  LET ch == e.central
      body == Decode(ch.compression_method, e.data)
      made == [NewDir EXCEPT !.kind = ch.type, !.body = body]
  IN  CASE ch.type = "dir" ->
             LET fs == mkdirp(target, path)
             IN  [fs EXCEPT ![path] = set_unix_permissions(@, e.local, ch)]
        [] ch.type = "link" -> Put(create_dirs_for_file(target, path), path, made)
        [] OTHER -> Put(create_dirs_for_file(target, path), path,
                        set_unix_permissions(made, e.local, ch))

(* unpack_entry() in a task that runs.  One that fails may leave the       *)
(* directories it needed.                                                  *)
Unpack(i) ==
  /\ stage = "unpack" /\ i <= NumThreads
  /\ LET e == entries[waiting[i]]
         path == Path(OutName(prefix, e.local.fname))
     IN  \/ CanCreate(e, path) /\ target' = Created(e, path) /\ UNCHANGED failed
         \/ /\ ~CanCreate(e, path)
            /\ target' = IF CanMkdir(target, Front(path)) THEN create_dirs_for_file(target, path)
                         ELSE target
            /\ failed' = failed \cup {e.local.fname}
  /\ waiting' = RemoveAt(waiting, i)
  /\ UNCHANGED <<givens, source, stage, packVars, readVars, prefix>>

Finish ==
  /\ stage = "unpack" /\ waiting = << >>
  /\ stage' = "exit"
  /\ UNCHANGED <<givens, source, packVars, readVars, unpackVars, failed>>

Exited == stage \in {"refused", "aborted", "broken", "exit"} /\ UNCHANGED vars

Next ==
  \/ ScanFails \/ Scan \/ (\E p \in Editable : Edit(p))
  \/ (\E i \in DOMAIN files : Pack(i)) \/ (\E i \in DOMAIN files : Abort(i)) \/ Seal
  \/ OpenFails \/ OpenFile \/ (stage = "list" /\ \E f \in Folders : ListFolder(f))
  \/ Parunzip \/ (\E folder \in Destinations : UnpackTo(folder))
  \/ (\E i \in DOMAIN waiting : Unpack(i)) \/ Finish
  \/ Exited

Spec == Init /\ [][Next]_vars

-----------------------------------------------------------------------------
(* Properties. *)

(* Every variable has its type; the stages are those of main() and of the  *)
(* GTK program's callbacks.  An id is no wider than its field.             *)
TypeOK ==
  /\ tree \in Trees /\ args \in Arguments
  /\ \A p \in DOMAIN source : p \in DOMAIN tree /\ source[p] \in Node
  /\ stage \in {"scan", "pack", "open", "list", "unpack", "refused", "aborted", "broken", "exit"}
  /\ \A i \in DOMAIN files : files[i].uid < 65536 /\ files[i].gid < 65536
  /\ \A p \in DOMAIN archive : archive[p].kind \in {"local", "data", "central", "z64end", "z64loc", "end"}
  /\ prefix \in Destinations \cup {<< >>}
  /\ \A i \in DOMAIN waiting : waiting[i] \in DOMAIN entries
  /\ \A p \in DOMAIN target : target[p] \in Node

(* What the user asked for, from the file system and not from the names    *)
(* that the programs build: all that is at or below an argument.           *)
Chosen == {p \in DOMAIN tree : \E i \in DOMAIN args : IsPrefix(Path(args[i]), p)}

ChosenOf(kinds) == {p \in Chosen : tree[p].kind \in kinds}

Lost == {Path(fname) : fname \in failed}

At(p) == Path(prefix) \o p

(* What of a node is promised to come through: the permission bits, the    *)
(* owner if it fits, the times unless the file was last read in 1970.  A   *)
(* link has but its target, a directory no time of its own.                *)
Kept(n, m) ==
  /\ n.kind = m.kind
  /\ n.kind # "link" => /\ m.mode = n.mode % 512
                        /\ n.uid < 65536 => m.uid = n.uid
                        /\ n.gid < 65536 => m.gid = n.gid
  /\ n.kind = "file" /\ n.atime # 0 => m.atime = n.atime /\ m.mtime = n.mtime

(* The contents that a file had while it was packed. *)
Bodies(p) == {tree[p].body} \cup {source[q].body : q \in {p} \cap DOMAIN source}

(* Files, directories and links come out of the archive as they went in,   *)
(* under whatever prefix and in whatever order: the directories of an      *)
(* entry may be made before their own entry gives them their mode.  A file *)
(* that changes meanwhile, so that its headers have a size that its data   *)
(* has not, comes out whole, the old one or the new one; only that one may *)
(* be reported lost instead.                                               *)
TreeSurvives ==
  stage = "exit" =>
    \A p \in ChosenOf({"file", "dir", "link"}) :
      IF p \in Lost THEN p \notin DOMAIN source \/ source[p] # tree[p]
      ELSE /\ At(p) \in DOMAIN target
           /\ Kept(tree[p], target[At(p)])
           /\ target[At(p)].body \in Bodies(p)

(* Nothing else comes out: what is in the target is at, or on the way to,  *)
(* something that was chosen and could be packed.                          *)
NothingElse ==
  stage = "exit" =>
    LET came == ChosenOf({"file", "dir", "link"}) \ Lost
        packed == came \cup ChosenOf({"chr"})
    IN  DOMAIN target = Above(Path(prefix)) \cup {At(p) : p \in came}
                          \cup UNION {Above(Front(At(p))) : p \in packed}

(* parzip or parunzip reports exactly what does not come out: a lost file  *)
(* is never an OK, and nothing that is there was reported as failed.       *)
LossIsReported == stage = "exit" => Lost = {p \in Chosen : At(p) \notin DOMAIN target}

(* The readers open every archive that parzip sealed, of any kinds of      *)
(* files, packed in any order and with one that changed meanwhile, if no   *)
(* argument is the name of a drive (DrivenArguments).                      *)
OpensWhatWasPacked == stage = "broken" => chs = << >>

(* "Absolute file names are forbidden in ZIP files", as main() says: none  *)
(* is in an archive of parzip.                                             *)
NamesAreRelative ==
  \A p \in DOMAIN archive : archive[p].kind = "local" => ~is_absolute_path(archive[p].fname)

(* No slash of an argument is doubled or at an end. *)
NoEmptyParts(name) == \A k \in 1..Len(Cut(name)) : Cut(name)[k] # << >>

Neat == \A i \in DOMAIN args : NoEmptyParts(args[i])

(* The GTK program shows every packed file in its folder, with the size it *)
(* had when it was scanned, and every directory, and no more.  (A doubled  *)
(* slash, or one at the end, gives a folder without a name.)               *)
ListingMatchesTree ==
  Listed /\ Neat =>
    LET packed == ChosenOf({"file", "dir", "link", "chr"}) \ Lost
        dirs == ChosenOf({"dir"}) \cup UNION {Above(Front(p)) : p \in packed}
        shown == UNION {{<<Append(f, row.fname), row.uncompressed>> : row \in ToSet(listing[f].files)}
                          : f \in Folders}
    IN  /\ shown = {<<p, IF tree[p].kind = "chr" THEN 0 ELSE Len(tree[p].body)>> : p \in packed \ dirs}
        /\ Folders = dirs \cup {<< >>}
        /\ \A f \in Folders : ToSet(listing[f].dirs) = {Last(d) : d \in {d \in dirs : Front(d) = f}}

(* Names that are alike up to a number are listed by its value, and up to  *)
(* a character that is no digit by that character.                         *)
ComesAfter(s, t) ==
  \E k \in DOMAIN s \cap DOMAIN t :
    /\ SubSeq(s, 1, k - 1) = SubSeq(t, 1, k - 1)
    /\ \/ /\ k > 1 => ~IsDigit(s[k - 1])
          /\ IsDigit(s[k]) /\ IsDigit(t[k])
          /\ TryInt(s, k).value > TryInt(t, k).value
       \/ ~IsDigit(s[k]) /\ ~IsDigit(t[k]) /\ s[k] > t[k]

(* The listing is in natural order in every folder that has been ordered.  *)
ListingIsNatural ==
  \A f \in DOMAIN listing :
    /\ \A i, j \in DOMAIN listing[f].files :
         i < j => ~ComesAfter(listing[f].files[i].fname, listing[f].files[j].fname)
    /\ \A i, j \in DOMAIN listing[f].dirs :
         i < j => ~ComesAfter(listing[f].dirs[i], listing[f].dirs[j])

(* natural_less is a "Comparator for use in std::sort": on the names that  *)
(* order_entries sorts it is a strict weak order.                          *)
SortIsSound ==
  \A f \in DOMAIN listing : IsStrictWeak(FoldersIn(f)) /\ IsStrictWeak(FileNamesIn(f))
=============================================================================
