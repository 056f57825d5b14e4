# A TLA+ verification of parzip

parzip packs and unpacks ZIP archives with one thread per processor.  This
directory holds TLA+ models of its concurrent parts and of the way a file takes
through an archive, TLC configurations that check them on small instances, and
TLAPS proofs about the queue, the packing, the unpacking, the way between them and
the listing.  Paths are relative to the repository; most sources are in `src/`.

## The system

| Component | State | Operations | Interacts by |
|---|---|---|---|
| ByteQueue (`bytequeue.hpp`) | buffer, state EMPTY / HAS_DATA / FULL / SHUTDOWN, mutex, condition variable | push, pop, wait_until_full_or_shutdown, state, shutdown, destructor | two threads share it |
| TaskControl (`taskcontrol.*`) | state, results, counters, stop flag | reserve, set_state, add_success, add_failure, stop, should_stop, throw_if_stopped | written by the packing or unpacking thread, polled by the user's thread and the workers |
| ZipCreator (`zipcreator.*`, main in `parzip.cpp`) | vector of tasks, central headers, the stream of the output file | create, run, launch_task, pop_future, pop_with_state, handle_future, write_entry, write_file | a ByteQueue and a future per task; one TaskControl |
| Compressors (`compress.*`) | the codec's stream | compress_entry and one function per kind of file | pushes into the task's queue, asks TaskControl whether to stop |
| ZipFile, unpacking (`zipfile.*`, main in `parunzip.cpp`) | vector of futures | unzip, run, wait_for_slot | a future per task; one TaskControl |
| Decompressors (`decompress.*`) | an open temporary file | unpack_entry, do_unpack, create_file, create_symlink, create_device, set_unix_permissions | the file system, which all tasks share |
| ZipFile, reading (`zipfile.cpp`) | headers, data offsets | constructor, build_tree | reads what ZipCreator wrote |
| File, MMapper, file utilities | a stream, a mapping | write, seek, close, mkdirp, exists_on_fs, expand_files | used by all |
| Natural order (`naturalorder.h`) | none | natural_compare | sorts the listing of the GTK program |
| GTK program (`gtk/parzip-gtk.cpp`) | the open ZipFile, the dialog | open_file, unpack_current, unpack_timeout_func, stop_unpack | TaskControl |

What makes them correct:

- **ByteQueue**: no byte is lost, repeated or reordered however pushes are split
  over rounds; FULL says exactly that the buffer is full; no thread sleeps
  without a reason although one condition variable serves both ends and only one
  waiter is notified; shutdown is final; a reader that follows the protocol ends
  with every byte.
- **ZipCreator**: whatever fails, each file is reported exactly once, every entry
  the central directory lists is complete at its offset (but for one whose own
  header was rewritten while a flush failed that nobody looks at), a file that
  fails to compress leaves nothing in the archive, and the program ends.
- **ZipFile, unpacking**: whatever fails and whenever the user stops it, a file
  under its final name is complete, no temporary file stays, reports tell the
  truth, FINISHED means that nothing is written any more, the program ends, and
  a run over what a killed one left completes it.
- **Both together**: a tree comes out of the archive as it went in, or what does
  not is reported; the readers open every archive parzip finished and none it did
  not; the GTK program lists what is in it, in natural order.

The hard behaviours are the orders in which workers, the packing thread and the
user's thread meet at the queues, errors between two steps of an entry, stop at
any moment, tasks that meet in the file system, a process that is killed and
started again, and the details on which writer and reader of a record must agree.  `PROJECT.json` lists them
under "hazards", each with its line and the properties aimed at it.

## The modules

| Module | Models |
|---|---|
| `ByteQueue` | the methods of the class as operators on the record of its two fields: what one critical section makes of a queue |
| `QueuePipe` | one queue between its producer and its consumer, with the wait set of the condition variable; an action per critical section |
| `ByteStream` | what a queue promises: a bounded, lossless, ordered stream |
| `ByteQueueLemmas`, `QueuePipeProofs` | what the methods of a queue conserve; the theorems about QueuePipe |
| `TaskControl`, `TaskLemmas` | the methods of the class as operators on the record of its fields; what they keep, and what `erase` does to a vector of distinct tasks |
| `ZipCreator`, `MCZipCreator` | parzip: the user's thread, the packing thread, a worker and a queue per file, the archive; the outputs TLC uses |
| `Packing` | what parzip promises: files are stored or lost, and readable only once all are sealed, all of them whole in which no failure was missed |
| `ZipProofs` | the theorems about ZipCreator: tasks and reports; the archive, its sealing, the refinement, what its readers see |
| `ArchiveReader`, `ReaderLemmas` | the constructor of ZipFile: which archives it opens, and what it finds in them; induction by a set, and what the scan finds in an archive whose entries tile it |
| `Unzipper`, `MCUnzipper` | parunzip and parzip-gtk: the user's thread, the unpacking thread, a task per entry, the file system, kills and second runs; the archives TLC uses |
| `Unpacking` | what an unpacking promises: whole files, never replaced, an OK only for what this run extracted, over any number of runs |
| `UnzipProofs` | the theorems about Unzipper: tasks and reports; the disk, and the refinement |
| `FileTree`, `NameLemmas` | names, paths and file systems, the functions of `fileutils.cpp` on them; how names are cut and joined, what the scan finds, and where the natural order is one |
| `EntryFormat` | what an archive records of one file, and what the readers make of the record |
| `NaturalOrder` | `naturalorder.h` as recursive functions, and what `std::sort` may leave |
| `RoundTrip`, `MCRoundTrip` | a tree through parzip, the archive and either reader; the trees TLC uses |
| `RoundTripProofs` | the theorems about RoundTrip: the records of the archive and who opens it; what comes out and what is reported; what the listing shows and in which order |

ZipCreator and Unzipper both extend TaskControl; ZipCreator also extends
ByteQueue and has a queue per file, and ArchiveReader, which reads what it writes.
RoundTrip extends EntryFormat (on FileTree and ArchiveReader) and NaturalOrder.

Three components are shown to implement an abstract one.  `INSTANCE ByteStream
WITH` maps QueuePipe to the stream: written is what was popped and what the buffer
holds, delivered is what was popped.  ZipCreator maps to Packing: stored are the
files with a central header, lost those reported as failures, and the listing is
what a reader that goes by the directory finds once the sealed archive is on the
disk; `missed`, the files in whose entries a flush failed unnoticed, is the same on
both sides, and only these may be listed with a broken entry.  Unzipper maps to Unpacking: the target of
a name is the entry whose whole content is under it, the fate of an entry is how
far its task and its report are.

**QueuePipe.** Bytes are numbered in the order in which the producer hands them
to `push`, so that order and loss are visible.  `push_internal` is an `Insert` up
to its first wait and a `ProducerResume` for each round after one.  The waiters
are the threads inside `cv.wait`; `notify_one` removes any one of them, and a
spurious wakeup may do so at any time.

**ZipCreator.** The packing thread is a program counter through `run`,
`pop_future`, `pop_with_state` and `write_entry`; a state it reads under a lock
is an action of its own, so that workers move between `find_if`'s reads.  The
archive is a sequence of cells, one per header and one per byte; a position in
it stands for a file offset.  `archive` and `pos` are the output file and the
position as the program has written them, `disk` and `saved` what both were when
the stream was last flushed; what lies between `saved` and `pos` may still be in the
buffer of the stream, whose size is left open.  A flush that fails puts a beginning
of that on the disk, drops the rest and leaves the position there, as the C library
does.  It throws if an `fwrite` made it (fault "write").  It does not if a seek did,
or the `fclose` of `~File` (fault "flush"), since nobody looks at their results:
the two seeks of `write_entry` may lose the data of the entry, put its header
somewhere else or lose it (`FixHeaderUnnoticed`, which notes the file in `missed`),
and the `fclose` may lose the end of the archive (`pc = "short"`).
Rewriting a header and moving the position back is one action, because only the
packing thread sees the file.
A codec is the sequence of places in its output where its pushes end; all pushes
of the LZMA stream header are one, whose sizes no property tells apart.  In this module a queue has
no wait set: only the worker ever waits in it, until the state is not FULL, and
`WakeupsAreNotLost` below is why that condition alone says whether it runs.

**Unzipper.** Each system call of `create_file` is an action on the directories,
the two names of each entry (final and `$ZIPTMP`) and the files behind them.  A
file is named after the entry that created it, so two tasks that open the same
temporary name share it, overwrite each other and may rename each other's file
away.  Entries have one of three kinds; a flawed one has wrong data, a wrong
checksum or an unknown type.  A stream buffers the last chunk until it is
closed.  A chmod may fail (fault "chmod"), which fails an entry that is in place
and stays.  Directories are one level deep.  A task's permissions are those of an
ordinary user.

The user of parunzip waits for all results.  That of parzip-gtk waits for a state
other than RUNNING and may stop the work; then the window is back, with its menu:
quit, open an archive (a new ZipFile on the same directory), or unpack the open
one once more, which throws out of the callback, as does opening something that
is no archive ("aborted").  With the fault "kill" the process dies at any step and
is started again.  Directories, final and temporary names and what was written
stay; threads, futures, results and buffered chunks are gone.  Which faults an
execution may meet is chosen at its beginning (`failing`), so that properties can
speak of executions without some.

**ArchiveReader.** The readers do not look for the end record from the back.  They
scan local headers from the first cell, skip the data of each, and expect as many
central headers behind the last as they have found.  The operators work on the
cells of ZipCreator and of RoundTrip alike; a record that is cut off or missing is
no cell of its kind.

**RoundTrip.** One step per file and phase: main's checks of its arguments and its
scan, the order of the tasks (directories in the order of the scan, then the rest
by falling size, ties in any order), packing and unpacking by a window of
`NumThreads` tasks of which any may finish first, opening, and one step per folder
for `build_tree` and `order_entries`.  Names are sequences of character codes,
because parzip, the reader, the prefix and the kernel each cut and join them; the
file systems map paths to nodes with content, mode, owner and times.  Extra
fields are records: the ids in them are 16 bits wide, the data of a device is cut
at its first NUL and read back with the length that the byte behind the field
gives it, which is 0.  Codecs are inverse pairs; a large file is stored or
compressed as `is_compressible` says, which is left open.  While parzip packs, one
file may be emptied, extended or removed, and one link lengthened.  The programs
are run by the superuser, so that owners come through; Unzipper has the
permissions.

Definitions whose comment begins with "Slip" are not part of any specification.
Each is a likely mistake in the definition that follows it, used to see that the
properties notice it.

## The runs

| Run | Question | Instance |
|---|---|---|
| `QueuePipeQuit` | is the queue safe, also when its reader closes it? | buffer 2, 3 pushes of up to 5 bytes |
| `QueuePipeLive` | do both ends finish, with every byte? | the same, with the reader of `write_file` |
| `ZipPack` | does packing end, leave nothing of a file that failed, and an archive that opens when it is sealed and not before, cut off anywhere? does it implement Packing, with its fairness? | 3 files, 2 threads, queue 2, inputs may fail |
| `ZipPackFaults` | is what the directory lists intact whatever fails, but for an entry with a flush that failed unnoticed? does it still implement Packing? | 2 files, 2 threads, queue 4, failing inputs, codecs, writes, flushes and stop |
| `UnzipTasks` | are files complete and never replaced, reports true, does unpacking end, does a second run complete the first? does it implement Unpacking? | archives of 3 and 4 entries, 2 threads, failing writes and chmods, both programs, stop, kill, 2 runs |
| `RoundTrip` | does the tree come out, and nothing else? is every loss reported, every archive opened, the listing right and in order? | 2 trees of 4 and 6 nodes, 8 lists of arguments, 3 places to unpack to, one edit |
| `ZipBigFile` (violated) | "a task that has filled its buffer is written ... in a streaming fashion" | an output larger than the queue |
| `ZipNoOutput` (violated) | does parzip end if it cannot open the archive? | fault "output" |
| `UnzipTwins` (violated) | "Already exists, will not overwrite." | two entries of one name, two threads |
| `UnzipReadOnly` (violated) | does every good entry unpack? | a directory without write permission and a file in it |
| `UnzipFlush` (violated) | is a file under its final name complete? | the write in `fclose` fails |
| `ListSort` (violated) | is natural_less a "Comparator for use in std::sort"? | a folder with the names 1, 2 and a |

Run one with `tlc -config ZipPack.cfg MCZipCreator`.

The bounds.  A buffer of two bytes with pushes of up to five has a push that
fits, one that fills the buffer exactly, one cut twice, an empty push, and a
second push on a buffer that is partly full.  The queue of `ZipPackFaults` has four
bytes, so that a stored file can be longer than the directory, which may come to
lie on it (see below).  Three files on two threads, in `ZipPack`, is the
least with which a task must be waited for while another runs and another is
still to come.  `ZipPackFaults` has two: a damaged entry before and behind a good
one, a good one behind a gap, a directory over the data of the last entry, and
every pair of faults.  With a third TLC has ten million states after five minutes
and more to come; the theorems about the properties of this run are for any number of files.
Two unpacking threads and up to four entries make `wait_for_slot` wait twice.
Two runs are enough for one over the leftovers of another, which may be any the
first can leave.  The trees of RoundTrip have every kind of file, nesting, numbers
of one and two digits in names that are otherwise alike, files of equal size, ids
wider than 16 bits, bits beyond the permissions, a device number with NULs, an
empty file and one without an access time; the arguments name a directory with and
without a slash, files whose directories are not named, a missing, an absolute and
an empty one; no path is named twice, which is the subject of `UnzipTwins`.
`MaxPushes`, `MaxPush`, `NFiles`, `NumThreads`, `MaxRuns`, the plans, the archives,
the trees, their arguments and `Editable` are the only bounds; nothing else is cut
off.  `CHECK_DEADLOCK FALSE` is set where the
model really stops for ever: `ZipPackFaults` has the hanging executions described
below, and the two violated ZipCreator runs are about them.

Fairness.  The specifications that have liveness properties assume weak fairness
of each thread: producer and consumer, the user's polling loop, the packing or
unpacking thread, and each worker or task.  The operating system schedules each
runnable thread, and every wait in the code is a timed poll, a wait whose
condition stays true until the thread has seen it, or a `future::get`.  Faults and
what the user of the GTK program does with its menu and its dialog are under no
fairness: `EventuallyExits` of Unzipper says that an unpacking that was begun ends.

### What the code does not keep

- **Large outputs.** `write_entry` calls `t.result.get()` before `write_file`
  (`zipcreator.cpp:176`, `200`).  A worker whose output exceeds the queue (100 MiB)
  waits for room while the packing thread waits for its result: parzip hangs
  (`ZipBigFile`).
- **No output file.** `run` throws when it cannot open the archive; the lambda
  in `create` prints that, nobody reports a file, and `main` polls for ever
  (`ZipNoOutput`).  An archive that cannot be mapped has the same effect on
  parunzip, which the fault "map" of Unzipper shows for `EventuallyExits`.
- **Entries of one name.** `expand_files` does not remove duplicates, and the
  test for an existing file comes long before the rename (`UnzipTwins`).
- **Directories without write permission** get their permissions before the
  files in them exist (`UnzipReadOnly`).
- **`fclose`** may fail, unnoticed (`UnzipFlush`).  So may that of the archive, in
  `~File` (`file.cpp:39`): parzip ends as if all was well, and the end of the archive
  is not there.  `CompleteAtExit` and the seal of Packing are about archives whose
  `fclose` did not fail.
- **The seeks** of `write_entry` (`zipcreator.cpp:206`, `208`) are not checked, and
  `fseek` flushes.  If the disk is full, a small entry meets it there first and
  unnoticed: the central header is kept and the file is reported as OK, but its data
  or its header is not in the archive.  `CentralIsSound` and Packing leave out
  the entry this happened to (`missed`), and say that every other one is intact.
- **`chmod`** (`decompress.cpp:355`) throws when it fails, as on a file system
  without modes or for a directory of another owner: the entry is reported as FAIL,
  but has been extracted and stays.  So an OK of Unpacking means that this run
  has extracted the entry, and a FAIL does not mean that nothing is there.
- **The listing's comparator** orders a number against a letter as greater, both
  ways, so in a folder with both kinds of names `std::sort` gets no strict weak
  order (`ListSort`).  Where no number meets a letter it gets one (`AlikeIsSound`), and
  `ListingIsNatural` is about such folders.
- **Archives after a failed write.** The header of the entry keeps its placeholder
  sizes; the directory lists what is intact, but the readers here scan local
  headers and refuse the whole archive.  `ReaderSeesAllOrNothing` is checked
  without the faults "write" and "flush".
- **A failed rewrite of the last header** leaves the position behind that header,
  and the directory is written over the data of the entry.  If that was longer than
  the directory, the end record is not at the end of the file.  `CompleteAtExit` says
  no more than that an end record is what was written last.
- **Devices** never come out: their eight bytes are cut at the first NUL and read
  back as none.  `LossIsReported` shows that each is reported.
- **Owners** above 65535 come out as another user, bits above the permissions are
  dropped, directories have the time of their last file; `Kept` in RoundTrip says
  what is kept.
- **A large file that is emptied** between the scan and its packing fails an
  assertion and kills parzip (the stage "aborted" of RoundTrip).
- **The GTK program** is ended by unpacking the same archive twice, and by opening
  something that is no archive (`ui = "aborted"` in Unzipper).
- **An argument with a slash behind it**, or with two in it, gives names with two
  slashes, and in the GTK program a folder without a name.
- **Names of drives.** `main` tests each argument as it was given, and "d:" is not
  absolute; the entry of a directory gets a slash, and "d:/" is (`is_absolute_path` looks
  for one behind the colon).  The readers refuse the whole archive, although parzip says that
  "Absolute file names are forbidden in ZIP files." (`parzip.cpp:60`).  With
  `DrivenTrees` and `DrivenArguments` for the trees and arguments of RoundTrip,
  `NamesAreRelative` and `OpensWhatWasPacked` fail.
- Three more have no run of their own, and can be seen by adding the property to
  a configuration of ZipCreator: with the fault "codec" or "write", `NeverAborts`
  fails, for a task that failed after pushing is destroyed with bytes in its
  queue (as is, with "stop", one that was stopped); with "stop", `StopIsObeyed` fails under FairSpec, for `pop_future` returns
  without taking a task and its callers' loops spin; with "write",
  `ZeroMeansComplete` fails, for the central directory is written when `main`
  has already seen every result.

So `EventuallyExits`, `NoGaps` and `NeverAborts` of `ZipPack` are claims about
files whose output fits the queue, with faults only before the first push.

## The proofs

`tlapm` checks each proof module by itself, for every value of the constants: any
number of files, entries, threads, pushes and runs, any capacity, every plan and
archive, every tree, names of any length and any arguments.  A theorem has the assumptions of the modules it extends
(`CapacityAssumption`, `PipeAssumption`, `ZipAssumption`, `UnzipAssumption`,
`FormatAssumption`, `RoundTripAssumption`): positive numbers of threads and bytes,
plans whose pushes end in order, entries whose parent is another path than their
own, trees that are file systems (what a path names is in a directory) and in which
only files and links are edited.  TLC evaluates these on every run.
Hypotheses beyond them are part of the theorem and are named below.

| Module | Theorem | States | If |
|---|---|---|---|
| `QueuePipeProofs` | `Invariant` | the inductive invariant `IInv` | |
| | `TypeCorrect` | `TypeOK`, the buffer never outgrows its capacity | |
| | `Lossless` | `NothingLost` | |
| | `StateIsTruthful` | `StateMatchesBuffer` | |
| | `WakeupsAreNotLost` | `NoLostWakeup` | |
| | `Drained` | `DrainedWhenDone` | |
| | `ShutdownIsFinal` | `ClosedForGood` | |
| | `Refinement` | `ImplementsStream` | |
| `ZipProofs` | `TasksAgree` | the inductive invariant `TaskInv` | |
| | `TypesAreCorrect` | `TypeOK` | |
| | `ThreadsAreLimited` | `ThreadLimit` | |
| | `FilesAreReportedOnce` | `EachFileOnce` | |
| | `ReportsStay` | `ReportsAreFinal` | |
| | `EntriesAgree` | `ArchiveInv`, inductive with `TaskInv` | |
| | `EntriesAreSound` | `CentralIsSound` | |
| | `EndIsBehindDirectory` | `EndInv`, inductive with both | |
| | `ArchiveIsCompleteAtExit` | `CompleteAtExit` | |
| | `AllFilesAreTried` | `TriedInv` | |
| | `EntriesTile` | `NoGaps` (which says: no write and no flush fails) | |
| | `NoQueueIsDestroyedFull` | `NeverAborts` | `OnlyInputsFail` |
| | `PackingIsImplemented` | `ImplementsPacking` | |
| | `ReadersSeeAllOrNothing` | `ReaderSeesAllOrNothing` (which says: no write and no flush fails) | |
| `UnzipProofs` | `TasksAgree` | the inductive invariant `TaskInv` | |
| | `TypesAreCorrect` | `TypeOK` | |
| | `ThreadsAreLimited` | `ThreadLimit` | |
| | `EntriesAreReportedOnce` | `EachEntryOnce` | |
| | `FinishedIsQuiet` | `QuietWhenFinished` | |
| | `FilesAreOwned` | `DiskInv`, inductive with `TaskInv` | `FilesAreDistinct` |
| | `SuccessIsTruth` | `ResultIsTruth` | `FilesAreDistinct` |
| | `TargetsAreKept` | `TargetsKept` | `FilesAreDistinct` |
| | `FilesAreWhole` | `NoPartialFiles` | `FilesAreDistinct`, no fault "flush" |
| | `UnpackingIsImplemented` | `ImplementsUnpacking` | `FilesAreDistinct`, no fault "flush" |
| | `TasksLeaveNothing` | `NoLeftovers` | `NamesAreDistinct`, `ParentsAreWritable` |
| | `RerunsComplete` | `RerunCompletes` | `FilesAreDistinct`, `ParentsAreWritable` |
| `RoundTripProofs` | `ArchivesOpen` | `OpensWhatWasPacked` | `NoDriveNames` |
| | `RoundTripTypes` | `TypeOK` | |
| | `RoundTripSurvives` | `TreeSurvives` | `Apart(args)` |
| | `RoundTripAddsNothing` | `NothingElse` | `Apart(args)` |
| | `RoundTripReportsLosses` | `LossIsReported` | `Apart(args)` |
| | `ListingsMatch` | `ListingMatchesTree` (which says: no argument has an empty part) | `Apart(args)` |
| | `ListingsAreNatural` | `ListingIsNatural` | `SortIsSound` |
| | `AlikeListingsAreNatural` | `SortIsSound` and `ListingIsNatural` | `Alike` |
| `NameLemmas` | `AlikeIsSound` | `IsStrictWeak` of a set of names | `WordsAreAlike` |

**The hypotheses.**  Each is there because of something the code does not keep.
`OnlyInputsFail` (no fault "codec", "write" or "stop"): a task that failed after
pushing aborts the program.  `FilesAreDistinct` (no archive has two entries, other
than directories, of one name): `UnzipTwins` is the counterexample.  No "flush":
`UnzipFlush`.  `ParentsAreWritable` (no directory without write permission is the
parent of an entry): `UnzipReadOnly`.  `NamesAreDistinct` also excludes a directory
of the name of a file: `NoLeftovers` speaks of the name of every task that has ended,
and the task of the directory may end while the file is still being extracted.  The
archives of `UnzipTasks` satisfy all three; that of `UnzipTwins` has a file twice, and
that of `UnzipReadOnly` a file in a read-only directory.
`NoDriveNames` (no argument becomes absolute by a slash behind it): `DrivenArguments`.
`Apart(args)` (no argument is at or below another): what is named twice is packed
twice, and the second of its entries is reported as failed because the first is there,
so that what is reported lost is there.  All arguments of the run `RoundTrip` that
main accepts satisfy both.
`ListingMatchesTree` itself is about arguments without an empty part (`Neat`: no slash
doubled or at the end), for any other gives a folder without a name.
`SortIsSound` (the comparator is a strict weak order on the names of each folder) is what
`std::sort` requires, and `ListSort` shows that a folder may have names for which it is
not.  `Alike` is enough for it: where the loop of `natural_compare` comes to the n-th word
of two names of a folder, both are numbers, or neither is.  The folders of the run
`RoundTrip` are such.

**The queue.**  None of the safety properties is inductive alone.
`IInv` adds to them `ControlInv`, which says where the threads can be given the
queue (a producer waits exactly while something is left to push; the queue is
closed only by a producer that is done or a consumer that quit), and `WaitInv`,
which says that a sleeping thread is at its wait.  The step that carries the
argument for wakeups is that producer and consumer are never asleep together, as
one needs FULL and the other excludes it, so that the single notification
always reaches the thread it is for.  `ByteQueueLemmas` is about sequences: cutting
the data after the bytes that fit and moving them to the end of the buffer
(`SplitConserves`), and what one round and a whole push conserve
(`PushRoundConserves`, `PushTakes`); the proofs about ZipCreator cite the same lemmas.

**Tasks and reports.**  Both programs keep a vector of running tasks, erase from it
and report.  `ThreadLimit` and `EachFileOnce` hold because four things fit together,
and `TaskInv` says how: the vector has no task twice and is no longer than the number
of threads; a launched file is in the vector or reported, never both; `at` is an index
of it and `cur` the task there, in the places of the code between `find_if` and
`erase`; and the packing thread is only where the phase of `TaskControl` lets it be.
`WorkerInv` ties a worker to its queue: closed by that worker alone, as its last
step.  `TaskLemmas` says once what `erase`, `push_back`, `add_success` and
`add_failure` do to such a vector and to the reports.

**The archive.**  `CentralIsSound` must survive writes at an earlier position, writes
and flushes that fail in the middle, and entries that are given up.  `ArchiveInv` says
that until a file is reported its bytes are in the archive, then in its queue, then in
the push, in order and without a gap (`OutputInv`); that the entry in progress is
what lies between `start` and the position (`StreamInv`); that nothing but this
entry, or the directory, can be in the buffer of the stream, and that the disk has
whatever lies before it (`BufferInv`); and that every entry that is listed, and in which
no failure was missed, ends before what can be in the buffer (`EntriesInv`), so that
nothing is ever written over it and no flush can lose it.  That is why a header
that could not be rewritten, which leaves the position in the middle of the archive,
or was written to the wrong place, does no harm to the other entries.  `EndInv` adds
that an end record is written behind the
directory it points to, is the last thing written, and is not on the disk before the
`fclose`.  `ListedInv` says that the entries are listed once each, and `TriedInv` that the
directory waits for all files, `TiledInv` where the next entry begins when no write
fails, `CleanInv` that a worker that fails in its input leaves an empty queue.
The refinement of Packing goes step by step: the report of a success is `Store`, that
of a failure `Lose`, either of them with the file in `missed` when a flush failed; the
`fclose` that puts the end record on the disk is `Seal`, everything else a stutter.
`Seal` is proved from `TriedInv`, `ListedInv`, `EndInv` and `ArchiveInv`, and stuttering
afterwards from `EndInv`, by which nothing is written any more.

**The readers.**  `ReaderSeesAllOrNothing` is about every beginning of the archive, and
about a scan that is a recursive function.  The library's induction theorems take a
predicate as their parameter, so `ReaderLemmas` has induction over a set instead
(`Least`, `Induction`), with which the scan satisfies its equation (`ScanEquation`) and
finds, in an archive that its entries tile, exactly their headers and the directory
behind them (`ScanFinds`, `SealedOpens`).  `SealInv` says of the sealed archive that
it is such an archive; an unsealed one has no end record anywhere, and one cut
short ends before it.

**The disk.**  `DiskInv` says that what is under a name, temporary or final, belongs
to an entry of that name (`Named`), and that a task which found its target free is
alone on both names until it has renamed its file (`OwnFile`).  This is where
distinct names are used: a step of one task touches the names of its own entry only.
`ContentInv` counts the chunks written, of which the last is in the stream until the
close.  The test for the target comes first and the rename last: in between `final`
is 0 for that name, which makes `TargetsKept` hold in spite of the distance.
`DirsInv` says where directories come from, `LeftInv` who can have left a temporary
file, `GoodInv` that a good entry with nothing in its way fails only because it is in
place.  A kill at any step keeps all of these, for they speak of a run that has
not begun (`Fresh`) over any disk an earlier one can leave.

**Names.**  RoundTrip is about names that are built from arguments and from what a
directory holds, cut at slashes by the reader, joined with a prefix and resolved by
the kernel.  All that is recursion over sequences; `NameLemmas` shows that each such
function satisfies its equation (`Recursion`), what it does to one more element, and
from that, by `SeqInduction`, what it does to a concatenation: the path of `a/b` is
the path of `a` and then that of `b` (`PathConcat`).  The rest of the module is about the
scan: `VisitedBefore` is a total order (`VisitsAreOrdered`), a finite set has an
enumeration by such an order (`EnumerationExists`, `EnumerationIsFull`), and so
`expand_files` gives each path at or below an argument a name that leads there, once if
the arguments are apart (`ExpandFilesFacts`).

**The archive of a tree.**  `RecordInv` says of the archive, header by header, that it is
made of records of what the scan found, with a body that the file had at some time
while it was packed; the reader skips by the size of the data, not by that of the
scan (`Layout`).  `SealedIsRead` carries this to the reader: the scan of ArchiveReader
finds exactly these entries in any sealed archive, so that the i-th local and the i-th
central header are of one file.  `ArchivesOpen` follows, for relative names stay
relative when `expand_entry` and `write_entry` add to them (`TailIsRelative`).

**What comes out.**  `Account` keeps book of what was chosen: it is a task, an entry, or
lost, one task and one entry each; and what is lost was changed, is a fifo, or is a device
that has been unpacked.  `TargetInv` says that the target holds, at any time, the
directories on the way to the entries whose tasks have ended and these entries,
each as it was.  The step that carries the argument is that no entry stands in another's
way, in whatever order the tasks run (`WayIsClear`): what is above a chosen file in
the target is the place of a directory of the tree, for `IsFileSystem` has no file
above a file, and what is at its own place was made by its own entry only.  Hence only
devices fail (`OnlyDevicesFail`), a directory that was made on the way gets its mode
from its own entry, and no later step takes it away.

**The listing.**  `ListInv` says that a folder is listed as some outcome of `std::sort`
on its names; any outcome has all of them, also that of an unsound comparator, for which
the model leaves the order open (`OutcomeIsFull`).  What is left for `ListingMatchesTree` is that the names of the entries,
cut by `build_tree`, have the parts of the paths that were scanned, that of a directory
an empty one behind them (`EntryParts`), and that the folders are the directories of what
was packed, named or on the way (`FoldersAreDirs`).

**The natural order.**  `natural_compare` is a loop over two names at once, with a loop over
digits in it.  `LoopRecursion` shows that a recursive function of any loop that halts
satisfies its equation, by induction on the turns left.  Two names that
are alike up to some place give the same numbers and characters up to there
(`SameToken`, `SameValue`), so that the loop goes on, and there it decides
(`DecidesFrom`); this is `ListingsAreNatural`.  For `AlikeIsSound` the two names of a
comparison are taken word by word (`FromWordEquation`): if words are alike, exchanging the
names gives the opposite result (`OppositeResults`), and three names are ordered
(`OrderedResults`), by induction from the end, where all have ended.  The
step for a number and a letter does not go through, and that is the
disagreement of `ListSort`.

**Only model-checked.**  Liveness (`ProducerUnblocked`, `BothFinish`,
`EventuallyExits`) and the refinements of the fair specifications
(`ImplementsFairStream`, `ImplementsFairPacking`), as the prover does not do ENABLED.
All invariants and action properties of the runs that pass are proved, and the safety
part of each refinement.

## Plan

1. *(done)* ByteQueue, QueuePipe, ByteStream and the proofs about them.
2. *(done)* TaskControl, ZipCreator; Unzipper.
3. *(done)* ArchiveReader on the archives of ZipCreator; Packing and Unpacking and
   the refinements to them; kills and second runs of Unzipper.
4. *(done)* FileTree, EntryFormat, NaturalOrder, RoundTrip.
5. *(done)* Proofs about ZipCreator and Unzipper: the safety properties of
   `ZipPack`, `ZipPackFaults` and `UnzipTasks`, and the safety part of the refinements.
6. *(done)* `ReaderSeesAllOrNothing`, by induction on the scan.
7. *(done)* Proofs about RoundTrip: that its archives open, what comes out, what is
   reported, and what the listing shows.
8. *(done)* Proofs about NaturalOrder: where the listing is in order, and where the order
   is one that `std::sort` may be given.

## Not modelled

What the codecs compute; byte order, error texts and the layout of records, and
with them the offset of the central headers, which wraps at 4 GiB and which no
reader of this project uses; archives of other programs, beyond what parzip
writes or leaves behind; the exit status (which the system cuts to eight bits, so
256 failures look like success); symbolic links in the middle of a path, names
with "." and ".."; in the natural order, numbers that do not fit a `long`, and bytes above
127, which a signed `char` puts before all others; the data race on the state of TaskControl (`set_state` takes no
lock; the model writes it in one step); failure to start a thread; the widgets of
the GTK program, and a progress dialog that is closed by its window instead of its
button; the Windows program, a stub that calls nothing; the fuzzer, which only calls
the constructor of ZipFile.
