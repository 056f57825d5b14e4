------------------------------ MODULE Unzipper -------------------------------
(***************************************************************************)
(* parunzip and the GTK program: ZipFile::run of src/zipfile.cpp, the      *)
(* tasks it launches (unpack_entry and what it calls in                    *)
(* src/decompress.cpp) and the files and directories they create.          *)
(*                                                                         *)
(* The unpacking thread launches one task per entry of the archive, at     *)
(* most NumThreads at a time.  A task is a sequence of system calls on a   *)
(* file system that all tasks share: each call is an action.  A regular    *)
(* file is written under a temporary name, checked, and renamed.           *)
(*                                                                         *)
(* A file (an inode) is identified by the entry whose task created it, and *)
(* its content is a sequence of chunks <<e, k>>: the k-th chunk of entry e.*)
(* Two tasks that open the same temporary name share the file.             *)
(*                                                                         *)
(* What is on the disk outlives the process: parunzip may be killed and    *)
(* started again, and the GTK program may open its archive a second time.  *)
(***************************************************************************)
EXTENDS TaskControl, SequencesExt

CONSTANTS
  Name,         \* paths in the target directory
  NoName,       \* the target directory itself
  Archives,     \* the archives that may be unpacked: sequences of entries
  NumThreads,   \* hardware_concurrency(), at least 1
  Programs,     \* the programs that may run: only parzip-gtk can stop the work
  Faults,       \* what may go wrong: see AllFaults
  MaxRuns       \* how often the archive is unpacked into the same directory

(* Mapping the archive throws; a write to a file fails; the write that     *)
(* fclose makes fails; chmod() fails; the process is killed.               *)
AllFaults == {"map", "write", "flush", "chmod", "kill"}

(* special: a symbolic link or a device, made by one system call.  A file  *)
(* may be of an unknown type or method, or have data that do not           *)
(* decompress to what their checksum says.  An empty file is one empty     *)
(* chunk.  The parent is a shorter path than the name.                     *)
Entry ==
  [kind : {"file", "dir", "special"}, name : Name, parent : Name \cup {NoName},
   chunks : Nat, flaw : {"none", "type", "data"}, writable : BOOLEAN]

ASSUME UnzipAssumption ==
  /\ NoName \notin Name
  /\ Archives \subseteq Seq(Entry)
  /\ \A a \in Archives : \A e \in DOMAIN a : /\ a[e].kind = "file" => a[e].chunks > 0
                                            /\ a[e].parent # a[e].name
  /\ NumThreads \in Nat \ {0}
  /\ Programs \subseteq {"parunzip", "parzip-gtk"}
  /\ Faults \subseteq AllFaults
  /\ MaxRuns \in Nat \ {0}

VARIABLES
  program,    \* the program that runs
  failing,    \* the faults that this execution may meet
  runs,       \* how often the archive was opened
  entries,    \* the entries of the archive
  tc,         \* the TaskControl
  ui,         \* where the user's thread is
  pc,         \* where the unpacking thread is
  next,       \* the next entry of run()'s loop
  futures,    \* the futures of the tasks, as their entries
  at,         \* the future wait_for_slot asks next
  wpc,        \* wpc[e]: where e's task is
  fd,         \* fd[e]: the file e's task has open, 0 for none
  done,       \* done[e]: the chunks it has passed to fwrite
  dirs,       \* the directories that exist ...
  readonly,   \* ... and those without write permission
  final,      \* final[n]: the file of that name, 0 for none
  tmp,        \* tmp[n]: the file called n$ZIPTMP, 0 for none
  content     \* content[e]: what the file created by e holds

mainVars == <<next, futures, at>>
diskVars == <<dirs, readonly, final, tmp, content>>
workVars == <<wpc, fd, done>>
givens == <<program, failing, entries>>
vars == <<givens, runs, tc, ui, pc, mainVars, workVars, diskVars>>

N == Len(entries)

(* about to unzip; with the archive in the window; waiting for the end; in *)
(* ~ZipFile; exited; ended by an exception nobody catches                  *)
UiPc == {"unzip", "window", "poll", "join", "exit", "aborted"}

MainPc == {"idle", "map", "slot", "scan", "launch", "async", "collect", "returned", "threw"}

WorkerPc ==
  {"idle", "dirs", "check", "open", "write", "verify", "unlink", "close", "rename", "make",
   "perms", "ok", "failed"}

Ready(e) == wpc[e] \in {"ok", "failed"}

(* The GTK program begins here with an archive it has opened. *)
Start == IF program = "parzip-gtk" THEN "window" ELSE "unzip"

-----------------------------------------------------------------------------
(* The user: main() of parunzip.cpp, or the callbacks of parzip-gtk.cpp.   *)

(* unzip(), which throws if this ZipFile was unpacked before.  Nothing     *)
(* between a callback of the GTK program and its main catches that.        *)
Unzip ==
  /\ ui \in {"unzip", "window"}
  /\ IF MayReserve(tc)
     THEN /\ tc' = SetState(Reserve(tc, N), "RUNNING")
          /\ ui' = "poll"
          /\ pc' = "map"
     ELSE ui' = "aborted" /\ UNCHANGED <<tc, pc>>
  /\ UNCHANGED <<givens, runs, mainVars, workVars, diskVars>>

(* parunzip waits for all results, the progress dialog for another state. *)
WaitIsOver ==
  /\ ui = "poll"
  /\ IF program = "parzip-gtk" THEN tc.state # "RUNNING" ELSE Finished(tc) >= tc.total
  /\ ui' = IF program = "parzip-gtk" THEN "window" ELSE "join"
  /\ UNCHANGED <<givens, runs, tc, pc, mainVars, workVars, diskVars>>

(* The menu entry Quit; the modal dialog keeps it away from a running work. *)
Quit ==
  /\ ui = "window"
  /\ ui' = "join"
  /\ UNCHANGED <<givens, runs, tc, pc, mainVars, workVars, diskVars>>

(* ~ZipFile joins the unpacking thread. *)
Join ==
  /\ ui = "join"
  /\ pc \in {"idle", "returned", "threw"}
  /\ ui' = "exit"
  /\ UNCHANGED <<givens, runs, tc, pc, mainVars, workVars, diskVars>>

(* stop_unpack(): the user closes the progress dialog. *)
UserStop ==
  /\ program = "parzip-gtk"
  /\ ui = "poll"
  /\ ~tc.stopped
  /\ tc' = Stop(tc)
  /\ UNCHANGED <<givens, runs, ui, pc, mainVars, workVars, diskVars>>

(* A ZipFile nobody has unpacked yet, in a process without other threads;  *)
(* what the last one had not yet written to its files is lost.             *)
FreshZipFile ==
  /\ runs < MaxRuns
  /\ runs' = runs + 1
  /\ tc' = NewControl
  /\ ui' = Start
  /\ pc' = "idle"
  /\ next' = 1
  /\ futures' = << >>
  /\ at' = 1
  /\ wpc' = [e \in 1..N |-> "idle"]
  /\ fd' = [e \in 1..N |-> 0]
  /\ done' = [e \in 1..N |-> 0]
  /\ UNCHANGED <<givens, diskVars>>

(* open_file(): the archive replaces the one in the window, whose thread   *)
(* is joined; a file that is none throws out of the callback.              *)
OpenFile ==
  /\ ui = "window"
  /\ \/ FreshZipFile
     \/ ui' = "aborted" /\ UNCHANGED <<givens, runs, tc, pc, mainVars, workVars, diskVars>>

(* The process is killed at any moment, and started again. *)
Kill ==
  /\ "kill" \in failing
  /\ ui \in {"poll", "join"}
  /\ FreshZipFile

-----------------------------------------------------------------------------
(* The unpacking thread: ZipFile::run().                                   *)

(* MMapper map(zipfile), which may throw. *)
MapArchive ==
  /\ pc = "map"
  /\ pc' \in {"slot"} \cup (IF "map" \in failing THEN {"threw"} ELSE {})
  /\ UNCHANGED <<givens, runs, tc, ui, mainVars, workVars, diskVars>>

(* Slip: a slot is waited for one task too late. *)
WaitForSlotLate ==
  /\ pc = "slot"
  /\ pc' = IF next > N THEN "collect" ELSE IF Len(futures) <= NumThreads THEN "launch" ELSE "scan"
  /\ at' = 1
  /\ UNCHANGED <<givens, runs, tc, ui, next, futures, workVars, diskVars>>

(* The loop over the entries, and wait_for_slot() when there is a slot. *)
WaitForSlot ==
  /\ pc = "slot"
  /\ pc' = IF next > N THEN "collect" ELSE IF Len(futures) < NumThreads THEN "launch" ELSE "scan"
  /\ at' = 1
  /\ UNCHANGED <<givens, runs, tc, ui, next, futures, workVars, diskVars>>

Report(e) == IF wpc[e] = "ok" THEN AddSuccess(tc, e) ELSE AddFailure(tc, e)

(* Slip: the future that was reported is not erased. *)
ScanFuturesKeeps ==
  /\ pc = "scan"
  /\ IF at > Len(futures)
     THEN /\ at' = 1
          /\ pc' = IF tc.stopped THEN "launch" ELSE "scan"
          /\ UNCHANGED tc
     ELSE IF Ready(futures[at])
          THEN tc' = Report(futures[at]) /\ pc' = "launch" /\ UNCHANGED at
          ELSE at' = at + 1 /\ UNCHANGED <<tc, pc>>
  /\ UNCHANGED <<givens, runs, ui, next, futures, workVars, diskVars>>

(* wait_for_slot(): ask the futures one after the other; report and erase  *)
(* the first that is ready; if none is, give up if asked to stop.          *)
ScanFutures ==
  /\ pc = "scan"
  /\ IF at > Len(futures)
     THEN /\ at' = 1
          /\ pc' = IF tc.stopped THEN "launch" ELSE "scan"
          /\ UNCHANGED <<tc, futures>>
     ELSE IF Ready(futures[at])
          THEN /\ tc' = Report(futures[at])
               /\ futures' = RemoveAt(futures, at)
               /\ pc' = "launch"
               /\ UNCHANGED at
          ELSE /\ at' = at + 1
               /\ UNCHANGED <<tc, futures, pc>>
  /\ UNCHANGED <<givens, runs, ui, next, workVars, diskVars>>

(* Break if asked to stop ... *)
CheckStop ==
  /\ pc = "launch"
  /\ pc' = IF tc.stopped THEN "collect" ELSE "async"
  /\ UNCHANGED <<givens, runs, tc, ui, mainVars, workVars, diskVars>>

(* ... else launch the task of the next entry. *)
LaunchTask ==
  /\ pc = "async"
  /\ pc' = "slot"
  /\ next' = next + 1
  /\ futures' = Append(futures, next)
  /\ wpc' = [wpc EXCEPT ![next] = "dirs"]
  /\ UNCHANGED <<givens, runs, tc, ui, at, fd, done, diskVars>>

(* The loop over the futures that are left: wait for each, report it. *)
CollectResult ==
  /\ pc = "collect"
  /\ futures # << >>
  /\ Ready(Head(futures))
  /\ tc' = Report(Head(futures))
  /\ futures' = Tail(futures)
  /\ UNCHANGED <<givens, runs, ui, pc, next, at, workVars, diskVars>>

(* Slip: asked to stop, the tasks that still run are not waited for. *)
SetFinishedEarly ==
  /\ pc = "collect"
  /\ futures = << >> \/ tc.stopped
  /\ tc' = SetState(tc, "FINISHED")
  /\ pc' = "returned"
  /\ UNCHANGED <<givens, runs, ui, mainVars, workVars, diskVars>>

(* Slip: asked to stop, the state is not set. *)
SetFinishedUnlessStopped ==
  /\ pc = "collect"
  /\ futures = << >>
  /\ tc' = IF tc.stopped THEN tc ELSE SetState(tc, "FINISHED")
  /\ pc' = "returned"
  /\ UNCHANGED <<givens, runs, ui, mainVars, workVars, diskVars>>

SetFinished ==
  /\ pc = "collect"
  /\ futures = << >>
  /\ tc' = SetState(tc, "FINISHED")
  /\ pc' = "returned"
  /\ UNCHANGED <<givens, runs, ui, mainVars, workVars, diskVars>>

-----------------------------------------------------------------------------
(* The file system, as the tasks use it.                                   *)

(* fs::exists() follows a symbolic link, which may point to nothing. *)
MayBeFound(n) ==
  CASE n \in dirs -> {TRUE}
    [] n \notin dirs /\ final[n] = 0 -> {FALSE}
    [] OTHER -> IF entries[final[n]].kind = "special" THEN BOOLEAN ELSE {TRUE}

(* A directory's permission lets its names be created, renamed, unlinked. *)
MayWrite(d) == d \notin readonly

(* mkdirp() throws where a file is in the way or it may not write. *)
MayMakeDir(d, parent) == d \in dirs \/ (final[d] = 0 /\ MayWrite(parent))

(* Chunk k of entry e is written to file i, at the task's own position. *)
Overwritten(i, e, k) ==
  LET old == content[i]
      size == IF Len(old) > k THEN Len(old) ELSE k
  IN  [j \in 1..size |-> IF j = k THEN <<e, k>> ELSE IF j <= Len(old) THEN old[j] ELSE <<0, 0>>]

-----------------------------------------------------------------------------
(* A task: unpack_entry() of entry e.                                      *)

Goes(e, place) == wpc' = [wpc EXCEPT ![e] = place]

(* detect_filetype() may throw or not know the type; mkdirp() of the       *)
(* entry, if it is a directory, or create_dirs_for_file(); create_file()   *)
(* may then not know the compression method.                               *)
MakeDirs(e) ==
  LET n == entries[e].name
      p == entries[e].parent
      isDir == entries[e].kind = "dir"
      withParent == IF MayMakeDir(p, NoName) THEN dirs \cup {p} ELSE dirs
      made == MayMakeDir(p, NoName) /\ (isDir => MayMakeDir(n, p))
  IN  /\ wpc[e] = "dirs"
      /\ \/ /\ entries[e].flaw = "type"
            /\ dirs' \in {dirs, withParent}
            /\ Goes(e, "failed")
         \/ /\ entries[e].flaw # "type"
            /\ dirs' = withParent \cup (IF made /\ isDir THEN {n} ELSE {})
            /\ Goes(e, CASE ~made -> "failed"
                         [] made /\ isDir -> "perms"
                         [] made /\ entries[e].kind = "file" -> "check"
                         [] OTHER -> "make")
      /\ UNCHANGED <<givens, runs, tc, ui, pc, mainVars, fd, done, readonly, final, tmp, content>>

(* Slip: makes room for the new file. *)
CheckTargetMakesRoom(e) ==
  /\ wpc[e] = "check"
  /\ Goes(e, "open")
  /\ final' = [final EXCEPT ![entries[e].name] = 0]
  /\ UNCHANGED <<givens, runs, tc, ui, pc, mainVars, fd, done, dirs, readonly, tmp, content>>

(* exists_on_fs(outname): will not overwrite. *)
CheckTarget(e) ==
  /\ wpc[e] = "check"
  /\ \E found \in MayBeFound(entries[e].name) : Goes(e, IF found THEN "failed" ELSE "open")
  /\ UNCHANGED <<givens, runs, tc, ui, pc, mainVars, fd, done, diskVars>>

(* Slip: the temporary file must not exist. *)
OpenTmpExclusive(e) ==
  /\ wpc[e] = "open"
  /\ IF tmp[entries[e].name] # 0 \/ ~MayWrite(entries[e].parent)
     THEN Goes(e, "failed") /\ UNCHANGED <<fd, tmp, content>>
     ELSE /\ Goes(e, "write")
          /\ fd' = [fd EXCEPT ![e] = e]
          /\ tmp' = [tmp EXCEPT ![entries[e].name] = e]
          /\ content' = [content EXCEPT ![e] = << >>]
  /\ UNCHANGED <<givens, runs, tc, ui, pc, mainVars, done, dirs, readonly, final>>

(* File ofile(extraction_name, "w+b") truncates the file if there is one.  *)
OpenTmp(e) ==
  LET n == entries[e].name
      i == IF tmp[n] = 0 THEN e ELSE tmp[n]
  IN  /\ wpc[e] = "open"
      /\ IF tmp[n] = 0 /\ ~MayWrite(entries[e].parent)
         THEN Goes(e, "failed") /\ UNCHANGED <<fd, tmp, content>>
         ELSE /\ Goes(e, "write")
              /\ fd' = [fd EXCEPT ![e] = i]
              /\ tmp' = [tmp EXCEPT ![n] = i]
              /\ content' = [content EXCEPT ![i] = << >>]
      /\ UNCHANGED <<givens, runs, tc, ui, pc, mainVars, done, dirs, readonly, final>>

(* A turn of the decompression loop: fwrite() of the next chunk.  The last *)
(* one stays in the buffer of the stream.                                  *)
WriteChunk(e) ==
  /\ wpc[e] = "write"
  /\ ~tc.stopped
  /\ done' = [done EXCEPT ![e] = @ + 1]
  /\ IF done'[e] = entries[e].chunks
     THEN Goes(e, "verify") /\ UNCHANGED content
     ELSE content' = [content EXCEPT ![fd[e]] = Overwritten(fd[e], e, done'[e])] /\ UNCHANGED wpc
  /\ UNCHANGED <<givens, runs, tc, ui, pc, mainVars, fd, dirs, readonly, final, tmp>>

(* throw_if_stopped(), the decompressor or fwrite() gives up. *)
WriteStops(e) ==
  /\ wpc[e] = "write"
  /\ tc.stopped \/ entries[e].flaw = "data" \/ "write" \in failing
  /\ Goes(e, "unlink")
  /\ UNCHANGED <<givens, runs, tc, ui, pc, mainVars, fd, done, diskVars>>

(* Slip: the checksum is not compared. *)
VerifyNever(e) ==
  /\ wpc[e] = "verify"
  /\ Goes(e, "close")
  /\ UNCHANGED <<givens, runs, tc, ui, pc, mainVars, fd, done, diskVars>>

(* Slip: a file with a bad checksum is left where it is. *)
VerifyNoUnlink(e) ==
  /\ wpc[e] = "verify"
  /\ Goes(e, IF entries[e].flaw = "none" THEN "close" ELSE "failed")
  /\ UNCHANGED <<givens, runs, tc, ui, pc, mainVars, fd, done, diskVars>>

Verify(e) ==
  /\ wpc[e] = "verify"
  /\ Goes(e, IF entries[e].flaw = "none" THEN "close" ELSE "unlink")
  /\ UNCHANGED <<givens, runs, tc, ui, pc, mainVars, fd, done, diskVars>>

(* fclose() writes what the stream's buffer holds. *)
Flushed(e) ==
  IF fd[e] # 0 /\ done[e] = entries[e].chunks
  THEN [content EXCEPT ![fd[e]] = Overwritten(fd[e], e, done[e])]
  ELSE content

(* unlink() of the temporary file, whose result nobody reads; then the     *)
(* exception closes the file, if it is still open.                         *)
Unlink(e) ==
  /\ wpc[e] = "unlink"
  /\ tmp' = [tmp EXCEPT ![entries[e].name] = IF MayWrite(entries[e].parent) THEN 0 ELSE @]
  /\ content' = Flushed(e)
  /\ fd' = [fd EXCEPT ![e] = 0]
  /\ Goes(e, "failed")
  /\ UNCHANGED <<givens, runs, tc, ui, pc, mainVars, done, dirs, readonly, final>>

(* ofile.close(), which ignores what fclose() returns. *)
Close(e) ==
  /\ wpc[e] = "close"
  /\ content' \in {Flushed(e)} \cup (IF "flush" \in failing THEN {content} ELSE {})
  /\ fd' = [fd EXCEPT ![e] = 0]
  /\ Goes(e, "rename")
  /\ UNCHANGED <<givens, runs, tc, ui, pc, mainVars, done, dirs, readonly, final, tmp>>

(* rename() fails on a directory, without permission or without a file. *)
MayRename(e) ==
  LET n == entries[e].name
  IN  tmp[n] # 0 /\ n \notin dirs /\ MayWrite(entries[e].parent)

(* Slip: what rename() returns is not read. *)
RenameUnchecked(e) ==
  /\ wpc[e] = "rename"
  /\ IF MayRename(e)
     THEN /\ final' = [final EXCEPT ![entries[e].name] = tmp[entries[e].name]]
          /\ tmp' = [tmp EXCEPT ![entries[e].name] = 0]
     ELSE UNCHANGED <<final, tmp>>
  /\ Goes(e, "perms")
  /\ UNCHANGED <<givens, runs, tc, ui, pc, mainVars, fd, done, dirs, readonly, content>>

Rename(e) ==
  /\ wpc[e] = "rename"
  /\ IF MayRename(e)
     THEN /\ final' = [final EXCEPT ![entries[e].name] = tmp[entries[e].name]]
          /\ tmp' = [tmp EXCEPT ![entries[e].name] = 0]
          /\ Goes(e, "perms")
     ELSE Goes(e, "unlink") /\ UNCHANGED <<final, tmp>>
  /\ UNCHANGED <<givens, runs, tc, ui, pc, mainVars, fd, done, dirs, readonly, content>>

(* symlink() or mknod(), which fail where the name exists. *)
MakeSpecial(e) ==
  LET n == entries[e].name
  IN  /\ wpc[e] = "make"
      /\ IF entries[e].flaw = "none" /\ n \notin dirs /\ final[n] = 0 /\ MayWrite(entries[e].parent)
         THEN final' = [final EXCEPT ![n] = e] /\ Goes(e, "perms")
         ELSE Goes(e, "failed") /\ UNCHANGED final
      /\ UNCHANGED <<givens, runs, tc, ui, pc, mainVars, fd, done, dirs, readonly, tmp, content>>

(* set_unix_permissions(): only those of a directory have a consequence;   *)
(* not called for a symbolic link.  If chmod() fails it throws, and the    *)
(* entry fails though it is there, and stays.                              *)
SetPermissions(e) ==
  LET d == {entries[e].name}
  IN  /\ wpc[e] = "perms"
      /\ \/ /\ readonly' = CASE entries[e].kind # "dir" -> readonly
                             [] entries[e].kind = "dir" /\ entries[e].writable -> readonly \ d
                             [] OTHER -> readonly \cup d
            /\ Goes(e, "ok")
         \/ /\ "chmod" \in failing
            /\ Goes(e, "failed")
            /\ UNCHANGED readonly
      /\ UNCHANGED <<givens, runs, tc, ui, pc, mainVars, fd, done, dirs, final, tmp, content>>

-----------------------------------------------------------------------------

(* The target directory is empty; an archive is open. *)
Init ==
  /\ program \in Programs
  /\ failing \in SUBSET Faults
  /\ runs = 1
  /\ entries \in Archives
  /\ tc = NewControl
  /\ ui = Start
  /\ pc = "idle"
  /\ next = 1
  /\ futures = << >>
  /\ at = 1
  /\ wpc = [e \in 1..N |-> "idle"]
  /\ fd = [e \in 1..N |-> 0]
  /\ done = [e \in 1..N |-> 0]
  /\ dirs = {NoName}
  /\ readonly = {}
  /\ final = [n \in Name |-> 0]
  /\ tmp = [n \in Name |-> 0]
  /\ content = [e \in 1..N |-> << >>]

User == Unzip \/ WaitIsOver \/ Join

(* What the user may do, or suffer, but need not. *)
Menu == Quit \/ OpenFile

Main ==
  \/ MapArchive \/ WaitForSlot \/ ScanFutures \/ CheckStop \/ LaunchTask
  \/ CollectResult \/ SetFinished

Task(e) ==
  \/ MakeDirs(e) \/ CheckTarget(e) \/ OpenTmp(e) \/ WriteChunk(e) \/ WriteStops(e) \/ Verify(e)
  \/ Unlink(e) \/ Close(e) \/ Rename(e) \/ MakeSpecial(e) \/ SetPermissions(e)

Over == ui \in {"exit", "aborted"} /\ UNCHANGED vars

Next ==
  \/ User \/ Menu
  \/ UserStop \/ Kill
  \/ Main
  \/ \E e \in 1..N : Task(e)
  \/ Over

Spec == Init /\ [][Next]_vars

MaxEntries == CHOOSE m \in {Len(a) : a \in Archives} : \A a \in Archives : Len(a) <= m

(* Every thread is scheduled; the user of the GTK program need do nothing. *)
FairSpec ==
  /\ Spec
  /\ WF_vars(WaitIsOver \/ Join)
  /\ WF_vars(program = "parunzip" /\ Unzip)
  /\ WF_vars(Main)
  /\ \A e \in 1..MaxEntries : WF_vars(e <= N /\ Task(e))

-----------------------------------------------------------------------------
(* Properties.                                                             *)

Reported == {r.file : r \in ToSet(tc.results)}

(* The variables hold values of their kinds. *)
TypeOK ==
  /\ program \in Programs
  /\ failing \subseteq Faults
  /\ runs \in 1..MaxRuns
  /\ entries \in Archives
  /\ tc \in Control(1..N)
  /\ ui \in UiPc
  /\ pc \in MainPc
  /\ next \in 1..(N + 1)
  /\ futures \in Seq(1..N)
  /\ at \in 1..(NumThreads + 1)
  /\ wpc \in [1..N -> WorkerPc]
  /\ fd \in [1..N -> 0..N]
  /\ done \in [1..N -> Nat] /\ \A e \in 1..N : done[e] <= entries[e].chunks
  /\ dirs \subseteq Name \cup {NoName} /\ readonly \subseteq dirs
  /\ final \in [Name -> 0..N] /\ tmp \in [Name -> 0..N]
  /\ content \in [1..N -> Seq((0..N) \X Nat)]

(* wait_for_slot returns without a slot when the user has asked to stop;   *)
(* still no more than NumThreads tasks ever run at the same time.          *)
ThreadLimit ==
  Cardinality({e \in 1..N : wpc[e] \notin {"idle", "ok", "failed"}}) <= NumThreads

(* Each entry is not launched yet, or has one future, or has been reported *)
(* once, with the outcome of its task, whether the report came from        *)
(* wait_for_slot or from run's last loop, and the counters agree.          *)
EachEntryOnce ==
  /\ 1..(next - 1) = ToSet(futures) \cup Reported
  /\ ToSet(futures) \cap Reported = {}
  /\ Cardinality(ToSet(futures)) = Len(futures)
  /\ Cardinality(Reported) = Len(tc.results)
  /\ \A r \in ToSet(tc.results) : wpc[r.file] = IF r.ok THEN "ok" ELSE "failed"
  /\ CountersAgree(tc)

(* FINISHED tells the user that nothing is written any more: no task runs, *)
(* and unless the user stopped the work every entry has been reported.     *)
QuietWhenFinished ==
  tc.state = "FINISHED" =>
    /\ \A e \in 1..N : wpc[e] \in {"idle", "ok", "failed"}
    /\ ~tc.stopped => Finished(tc) = N

Whole(e) == [k \in 1..entries[e].chunks |-> <<e, k>>]

(* In every state, so also if the process is killed there, a file that has *)
(* its final name is a good entry of that name and complete.               *)
NoPartialFiles ==
  \A n \in Name : final[n] # 0 =>
    LET e == final[n]
    IN  /\ entries[e].name = n
        /\ entries[e].flaw = "none"
        /\ entries[e].kind = "file" => content[e] = Whole(e)

(* A task's success is the truth about the file system.                    *)
ResultIsTruth ==
  \A e \in 1..N : wpc[e] = "ok" => IF entries[e].kind = "dir" THEN entries[e].name \in dirs
                                                             ELSE final[entries[e].name] = e

(* No other entry stands where e or its parent directory belongs.          *)
Unobstructed(e) ==
  \A o \in 1..N \ {e} :
    /\ entries[o].name # entries[e].name
    /\ entries[o].kind # "dir" => entries[o].name # entries[e].parent
    /\ entries[e].kind # "dir" => entries[o].parent # entries[e].name

(* However a task ends, its temporary file is gone, also the one that a    *)
(* killed run has left, unless an entry in its place is what fails it.     *)
NoLeftovers ==
  \A e \in 1..N : Ready(e) /\ (runs = 1 \/ Unobstructed(e)) => tmp[entries[e].name] = 0

(* A file that has been extracted is never replaced or removed.            *)
TargetsKept == [][\A n \in Name : final[n] # 0 => final'[n] = final[n]]_vars

(* Whether or not the user stops the work, and also after a kill, the      *)
(* waiting ends: parunzip exits, the dialog of the GTK program goes.       *)
EventuallyExits == (ui = "poll") ~> (ui \in {"window", "exit"})

(* If nothing fails, no entry that is good fails: the archives of the run  *)
(* have no two entries of the same name.                                   *)
GoodEntriesSucceed == \A e \in 1..N : entries[e].flaw = "none" => wpc[e] # "failed"

(* Whatever a killed run has left behind, the next one that is finished,   *)
(* and not stopped, has every good entry in place: a leftover $ZIPTMP is   *)
(* taken over, and what fails because it exists already is complete.       *)
RerunCompletes ==
  tc.state = "FINISHED" /\ ~tc.stopped /\ "write" \notin failing =>
    \A e \in 1..N :
      entries[e].flaw = "none" /\ Unobstructed(e) =>
        IF entries[e].kind = "dir" THEN entries[e].name \in dirs ELSE final[entries[e].name] = e

NonDirs == {e \in 1..N : entries[e].kind # "dir"}

(* The entry whose content is under n, if that is all of it. *)
Found(n) ==
  IF final[n] = 0 THEN 0
  ELSE IF entries[final[n]].kind = "file" /\ content[final[n]] # Whole(final[n]) THEN -1
  ELSE final[n]

Fate(e) ==
  CASE Ready(e) -> wpc[e]
    [] wpc[e] = "perms" -> "extracted"
    [] OTHER -> "waiting"

Unpack == INSTANCE Unpacking WITH
            Nothing <- 0,
            named <- [e \in NonDirs |-> entries[e].name],
            target <- [n \in Name |-> Found(n)],
            fate <- [e \in NonDirs |-> Fate(e)],
            finished <- (tc.state = "FINISHED")

(* If no two entries have the same name, the system calls of all tasks     *)
(* together make files appear whole, once, and never after the end.        *)
ImplementsUnpacking == Unpack!UnpackSpec
=============================================================================
