----------------------------- MODULE ZipCreator ------------------------------
(***************************************************************************)
(* parzip: ZipCreator::run of src/zipcreator.cpp, the compression tasks it *)
(* launches (launch_task, and compress_entry of src/compress.cpp), the     *)
(* archive it writes and the loop of src/parzip.cpp that waits for it.     *)
(*                                                                         *)
(* Three kinds of threads run: the packing thread (one, started by create) *)
(* owns the tasks, the archive and the central headers; a worker per task  *)
(* compresses one file into the task's ByteQueue and owns that future; the *)
(* user's thread reads the TaskControl.  An action is what a thread does   *)
(* under one mutex, or between two of them on data only it owns.           *)
(*                                                                         *)
(* A file's output is the sequence of where the pushes of its codec end.   *)
(* The archive is a sequence of cells, one per header and one per byte, so *)
(* that an offset is a number of cells.  Unlike in QueuePipe nobody ever   *)
(* calls wait_until_full_or_shutdown here: only the worker sleeps in a     *)
(* queue, and by QueuePipe's NoLostWakeup it does so only while FULL.      *)
(*                                                                         *)
(* The archive is a stdio stream.  What fwrite is given may stay in its    *)
(* buffer until fseek or fclose, or a later fwrite, writes it; if that     *)
(* fails, a beginning of it is on the disk and the rest is dropped, and    *)
(* fseek leaves the position there.  Only fwrite's failures throw: nobody  *)
(* reads what File::seek returns, and File::~File ignores fclose's result. *)
(* How much the buffer holds is left open.                                 *)
(***************************************************************************)
EXTENDS ByteQueue, TaskControl, ArchiveReader, SequencesExt

CONSTANTS
  NFiles,       \* the files to pack, in the order main sorted them
  NumThreads,   \* hardware_concurrency(), at least 1
  Plans,        \* the outputs a file may have
  Faults        \* what may go wrong, see below

(* "write": an fwrite; "flush": the write that fseek or fclose makes. *)
AllFaults == {"output", "input", "codec", "write", "flush", "stop"}

File == 1..NFiles

(* The way compress_entry takes for a file, and how many bytes its first i *)
(* pushes hand over, ends[i].  For lzma the first of them stands for the   *)
(* four pushes of the stream header.                                       *)
Codec == {"store", "lzma", "zlib", "none"}

Plan == [codec : Codec, ends : Seq(Nat)]

ASSUME ZipAssumption ==
  /\ NFiles \in Nat
  /\ NumThreads \in Nat \ {0}
  /\ Plans \subseteq Plan
  /\ \A p \in Plans : \A i, j \in DOMAIN p.ends : i <= j => p.ends[i] <= p.ends[j]
  /\ Faults \subseteq AllFaults

VARIABLES
  plan,       \* plan[f]: what f compresses to
  tc,         \* the TaskControl
  ui,         \* where the user's thread is
  pc,         \* where the packing thread is
  next,       \* the next file of run()'s for loop
  draining,   \* TRUE in run()'s second loop, over the tasks left
  tasks,      \* the vector of tasks, as their files
  want, at,   \* pop_with_state: the state it looks for and the task it asks
  cur,        \* the file being written, while one is
  offset,     \* write_entry: local_header_offset
  start,      \* write_entry: data_start_loc
  chs,        \* the central headers of the entries written
  archive,    \* the cells written to the output file
  pos,        \* its write position
  disk,       \* the archive when its stream was last flushed
  saved,      \* the write position then
  missed,     \* the files whose entries a flush failed in that nobody noticed
  queue,      \* queue[f]: the ByteQueue of f's task
  wpc,        \* wpc[f]: where f's worker is
  pushed,     \* pushed[f]: how many pushes it has made
  rest        \* rest[f]: what push_internal still has to insert

mainVars == <<next, draining, tasks, want, at, cur, offset, start, chs>>
fileVars == <<archive, pos, disk, saved, missed>>
workVars == <<queue, wpc, pushed, rest>>
vars == <<plan, tc, ui, pc, mainVars, fileVars, workVars>>

(* before create(); polling finished(); in ~ZipCreator; exited *)
UiPc == {"create", "poll", "join", "exit"}

MainPc ==
  {"idle",                               \* create() has not started it
   "open", "next", "room", "drain",      \* run()
   "pop", "scan",                        \* pop_future, pop_with_state
   "entry", "header", "data", "check", "lastpop", "fix",   \* write_entry
   "finish", "central", "end", "finished",
   "returned", "short", "threw",         \* run() is over; short: fclose failed
   "aborted"}                            \* an assertion ended the process

(* not launched; in compress_entry; asleep in push_internal; caught an     *)
(* exception; queue shut down, future not ready; future ready              *)
WorkerPc == {"idle", "run", "full", "catch", "return", "rethrow", "ok", "failed"}

Ready(f) == wpc[f] \in {"ok", "failed"}

Running == pc # "aborted"

-----------------------------------------------------------------------------
(* The cells of the archive.                                               *)

LocalHeader(f, size) == [kind |-> "local", file |-> f, size |-> size, flags |-> {}]
DataByte(f, i) == [kind |-> "data", file |-> f, index |-> i]
CentralHeader(ch) == [kind |-> "central", file |-> ch.file, size |-> ch.size, offset |-> ch.offset]
Zip64End(n, o, size) == [kind |-> "z64end", entries |-> n, offset |-> o, size |-> size]
Zip64Locator(o) == [kind |-> "z64loc", offset |-> o]
EndRecord == [kind |-> "end", entries |-> Anonymous]
Torn == [kind |-> "torn"]

(* The file a after a write at position p, over what is there and past the *)
(* end of it; what is skipped then is a hole.                              *)
Written(a, p, cells) ==
  IF cells = << >> THEN a
  ELSE LET size == IF Len(a) > p + Len(cells) THEN Len(a) ELSE p + Len(cells)
       IN  [i \in 1..size |-> IF i > p /\ i <= p + Len(cells) THEN cells[i - p]
                              ELSE IF i <= Len(a) THEN a[i] ELSE Torn]

(* What a write that stops too early has written of its cells; it may have *)
(* cut the header it stopped in.                                           *)
Beginnings(cells) ==
  LET stops == 0..(Len(cells) - 1)
  IN  {SubSeq(cells, 1, n) : n \in stops} \cup
      {Append(SubSeq(cells, 1, n), Torn) : n \in {m \in stops : cells[m + 1].kind # "data"}}

(* What the stream may still have in its buffer. *)
Unsaved == SubSeq(archive, saved + 1, pos)

Write(cells) ==
  /\ archive' = Written(archive, pos, cells)
  /\ pos' = pos + Len(cells)
  /\ UNCHANGED <<disk, saved, missed>>

(* The stream is flushed: a is the file, and p the position in it. *)
OnDisk(a, p) ==
  /\ archive' = a
  /\ disk' = a
  /\ pos' = p
  /\ saved' = p

(* An fwrite that throws; with it goes what the buffer held. *)
WriteFails(cells) ==
  /\ "write" \in Faults
  /\ cells # << >>
  /\ \E part \in Beginnings(Unsaved \o cells) :
       OnDisk(Written(disk, saved, part), saved + Len(part))
  /\ UNCHANGED missed

-----------------------------------------------------------------------------
(* The user's thread: main() of parzip.cpp.                                *)

(* create(): reserves the results and starts the packing thread. *)
Create ==
  /\ ui = "create"
  /\ MayReserve(tc)
  /\ tc' = SetState(Reserve(tc, NFiles), "RUNNING")
  /\ ui' = "poll"
  /\ pc' = "open"
  /\ UNCHANGED <<plan, mainVars, fileVars, workVars>>

(* Every result has been printed: main returns, and ~ZipCreator joins. *)
AllReported ==
  /\ Running
  /\ ui = "poll"
  /\ Finished(tc) >= tc.total
  /\ ui' = "join"
  /\ UNCHANGED <<plan, tc, pc, mainVars, fileVars, workVars>>

Join ==
  /\ ui = "join"
  /\ pc \in {"returned", "short", "threw"}
  /\ ui' = "exit"
  /\ UNCHANGED <<plan, tc, pc, mainVars, fileVars, workVars>>

(* TaskControl::stop(), which the owner of the TaskControl may call. *)
UserStop ==
  /\ Running
  /\ "stop" \in Faults
  /\ ui = "poll"
  /\ ~tc.stopped
  /\ tc' = Stop(tc)
  /\ UNCHANGED <<plan, ui, pc, mainVars, fileVars, workVars>>

-----------------------------------------------------------------------------
(* A worker: launch_task's lambda around compress_entry.                   *)

(* tc.throw_if_stopped() comes before this push of the codec. *)
ChecksStop(f) ==
  CASE plan[f].codec = "zlib" -> TRUE
    [] plan[f].codec = "lzma" -> pushed[f] > 0
    [] OTHER -> FALSE

MorePushes(f) == pushed[f] < Len(plan[f].ends)

(* How many bytes the first n pushes hand over, all pushes, those made. *)
Ends(f, n) == IF n = 0 THEN 0 ELSE plan[f].ends[n]

Output(f) == Ends(f, Len(plan[f].ends))

Sent(f) == Ends(f, pushed[f])

(* The bytes of the next push, numbered through the file's output. *)
NextBytes(f) ==
  [i \in 1..(Ends(f, pushed[f] + 1) - Sent(f)) |-> DataByte(f, Sent(f) + i)]

(* Opening, mapping or checksumming the input throws, or its type is unknown. *)
WorkerInputFails(f) ==
  /\ Running
  /\ "input" \in Faults
  /\ wpc[f] = "run"
  /\ pushed[f] = 0
  /\ wpc' = [wpc EXCEPT ![f] = "catch"]
  /\ UNCHANGED <<plan, tc, ui, pc, mainVars, fileVars, queue, pushed, rest>>

(* lzma_code returns an error, after the header is pushed. *)
WorkerCodecFails(f) ==
  /\ Running
  /\ "codec" \in Faults
  /\ wpc[f] = "run"
  /\ plan[f].codec = "lzma"
  /\ pushed[f] > 0
  /\ MorePushes(f)
  /\ wpc' = [wpc EXCEPT ![f] = "catch"]
  /\ UNCHANGED <<plan, tc, ui, pc, mainVars, fileVars, queue, pushed, rest>>

(* throw_if_stopped throws. *)
WorkerStopped(f) ==
  /\ Running
  /\ wpc[f] = "run"
  /\ MorePushes(f)
  /\ ChecksStop(f)
  /\ tc.stopped
  /\ wpc' = [wpc EXCEPT ![f] = "catch"]
  /\ UNCHANGED <<plan, tc, ui, pc, mainVars, fileVars, queue, pushed, rest>>

(* push(), until it returns or sleeps; and, woken from that sleep, the     *)
(* next round of push_internal.                                            *)
WorkerPush(f) ==
  /\ Running
  /\ wpc[f] \in {"run", "full"}
  /\ wpc[f] = "run" => MorePushes(f) /\ ~(ChecksStop(f) /\ tc.stopped)
  /\ wpc[f] = "full" => queue[f].st # "FULL"
  /\ LET data == IF wpc[f] = "full" THEN rest[f] ELSE NextBytes(f)
         left == Unpushed(queue[f], data)
     IN  /\ queue' = [queue EXCEPT ![f] = IF wpc[f] = "full" THEN PushRound(@, data) ELSE Push(@, data)]
         /\ rest' = [rest EXCEPT ![f] = left]
         /\ wpc' = [wpc EXCEPT ![f] = IF left = << >> THEN "run" ELSE "full"]
         /\ pushed' = [pushed EXCEPT ![f] = IF wpc[f] = "full" THEN @ ELSE @ + 1]
  /\ UNCHANGED <<plan, tc, ui, pc, mainVars, fileVars>>

(* Slip: the catch block of the lambda forgets to shut the queue down. *)
WorkerShutdownOnlyOk(f) ==
  /\ Running
  /\ wpc[f] \in {"run", "catch"}
  /\ wpc[f] = "run" => ~MorePushes(f)
  /\ queue' = [queue EXCEPT ![f] = IF wpc[f] = "run" THEN Shutdown(@) ELSE @]
  /\ wpc' = [wpc EXCEPT ![f] = IF @ = "run" THEN "return" ELSE "rethrow"]
  /\ UNCHANGED <<plan, tc, ui, pc, mainVars, fileVars, pushed, rest>>

(* bq_ptr->shutdown(), on both ways out of the lambda. *)
WorkerShutdown(f) ==
  /\ Running
  /\ wpc[f] \in {"run", "catch"}
  /\ wpc[f] = "run" => ~MorePushes(f)
  /\ queue' = [queue EXCEPT ![f] = Shutdown(@)]
  /\ wpc' = [wpc EXCEPT ![f] = IF @ = "run" THEN "return" ELSE "rethrow"]
  /\ UNCHANGED <<plan, tc, ui, pc, mainVars, fileVars, pushed, rest>>

(* The future becomes ready, with the result or with the exception. *)
WorkerReturn(f) ==
  /\ Running
  /\ wpc[f] \in {"return", "rethrow"}
  /\ wpc' = [wpc EXCEPT ![f] = IF @ = "return" THEN "ok" ELSE "failed"]
  /\ UNCHANGED <<plan, tc, ui, pc, mainVars, fileVars, queue, pushed, rest>>

-----------------------------------------------------------------------------
(* The packing thread: run().                                              *)

(* File ofile(fname, "wb"), which throws if it cannot be opened. *)
OpenOutput ==
  /\ Running
  /\ pc = "open"
  /\ pc' \in {"next"} \cup (IF "output" \in Faults THEN {"threw"} ELSE {})
  /\ UNCHANGED <<plan, tc, ui, mainVars, fileVars, workVars>>

(* Slip: the loop goes on for one file that is not there. *)
NextFileTooFar ==
  /\ pc = "next"
  /\ IF next > NFiles + 1 \/ tc.stopped
     THEN pc' = "drain" /\ draining' = TRUE
     ELSE pc' = "room" /\ UNCHANGED draining
  /\ UNCHANGED <<plan, tc, ui, next, tasks, want, at, cur, offset, start, chs, fileVars, workVars>>

(* The head of the loop over the files; asked to stop, it ends early. *)
NextFile ==
  /\ pc = "next"
  /\ IF next > NFiles \/ tc.stopped
     THEN pc' = "drain" /\ draining' = TRUE
     ELSE pc' = "room" /\ UNCHANGED draining
  /\ UNCHANGED <<plan, tc, ui, next, tasks, want, at, cur, offset, start, chs, fileVars, workVars>>

(* Slip: room is waited for one task too late. *)
LaunchTaskLate ==
  /\ pc = "room"
  /\ IF Len(tasks) > NumThreads
     THEN /\ pc' = "pop"
          /\ UNCHANGED <<next, tasks, wpc>>
     ELSE /\ pc' = "next"
          /\ next' = next + 1
          /\ tasks' = Append(tasks, next)
          /\ wpc' = [wpc EXCEPT ![next] = "run"]
  /\ UNCHANGED <<plan, tc, ui, draining, want, at, cur, offset, start, chs, fileVars,
                 queue, pushed, rest>>

(* Wait for room among the tasks, or launch_task. *)
LaunchTask ==
  /\ pc = "room"
  /\ IF Len(tasks) >= NumThreads
     THEN /\ pc' = "pop"
          /\ UNCHANGED <<next, tasks, wpc>>
     ELSE /\ pc' = "next"
          /\ next' = next + 1
          /\ tasks' = Append(tasks, next)
          /\ wpc' = [wpc EXCEPT ![next] = "run"]
  /\ UNCHANGED <<plan, tc, ui, draining, want, at, cur, offset, start, chs, fileVars,
                 queue, pushed, rest>>

(* The loop that waits for the tasks that are left. *)
DrainTasks ==
  /\ pc = "drain"
  /\ pc' = IF tasks = << >> THEN "finish" ELSE "pop"
  /\ UNCHANGED <<plan, tc, ui, mainVars, fileVars, workVars>>

AfterPop == IF draining THEN "drain" ELSE "room"

(* pop_future(), one turn of its loop; asked to stop, it returns at once. *)
PopFuture ==
  /\ pc = "pop"
  /\ IF tc.stopped
     THEN pc' = AfterPop /\ UNCHANGED <<want, at>>
     ELSE pc' = "scan" /\ want' = "FULL" /\ at' = 1
  /\ UNCHANGED <<plan, tc, ui, next, draining, tasks, cur, offset, start, chs, fileVars, workVars>>

(* pop_with_state(): the find_if asks one task at a time, under its lock.  *)
(* It is called for FULL, then for SHUTDOWN; then pop_future sleeps.       *)
ScanTask ==
  /\ pc = "scan"
  /\ IF queue[tasks[at]].st = want
     THEN pc' = "entry" /\ cur' = tasks[at] /\ UNCHANGED <<want, at>>
     ELSE /\ UNCHANGED cur
          /\ IF at < Len(tasks)
             THEN at' = at + 1 /\ UNCHANGED <<pc, want>>
             ELSE IF want = "FULL"
                  THEN want' = "SHUTDOWN" /\ at' = 1 /\ UNCHANGED pc
                  ELSE pc' = "pop" /\ UNCHANGED <<want, at>>
  /\ UNCHANGED <<plan, tc, ui, next, draining, tasks, offset, start, chs, fileVars, workVars>>

(* Slip: only a task that was written is erased. *)
EntryDoneKeepsFailed(ok, left) ==
  /\ tc' = IF ok THEN AddSuccess(tc, cur) ELSE AddFailure(tc, cur)
  /\ tasks' = IF ok THEN RemoveAt(tasks, at) ELSE tasks
  /\ pc' = IF left = << >> THEN AfterPop ELSE "aborted"

(* The end of handle_future and of pop_with_state: report the entry and    *)
(* erase its task; the destructor of its queue asserts that nothing is     *)
(* left in it.                                                             *)
EntryDone(ok, left) ==
  /\ tc' = IF ok THEN AddSuccess(tc, cur) ELSE AddFailure(tc, cur)
  /\ tasks' = RemoveAt(tasks, at)
  /\ pc' = IF left = << >> THEN AfterPop ELSE "aborted"

(* Slip: what the worker threw is not rethrown. *)
GetResultAnyway ==
  /\ pc = "entry"
  /\ Ready(cur)
  /\ offset' = pos
  /\ pc' = "header"
  /\ UNCHANGED <<plan, tc, ui, next, draining, tasks, want, at, cur, start, chs, fileVars, workVars>>

(* write_entry() up to t.result.get(), which waits for the worker and      *)
(* rethrows what it threw.                                                 *)
GetResult ==
  /\ pc = "entry"
  /\ Ready(cur)
  /\ offset' = pos
  /\ IF wpc[cur] = "ok"
     THEN pc' = "header" /\ UNCHANGED <<tc, tasks>>
     ELSE EntryDone(FALSE, queue[cur].buf)
  /\ UNCHANGED <<plan, ui, next, draining, want, at, cur, start, chs, fileVars, workVars>>

(* The local header with made up sizes. *)
WriteHeader ==
  /\ pc = "header"
  /\ \/ /\ Write(<<LocalHeader(cur, Placeholder)>>)
        /\ pc' = "data"
        /\ start' = pos'
        /\ UNCHANGED <<tc, tasks>>
     \/ /\ WriteFails(<<LocalHeader(cur, Placeholder)>>)
        /\ EntryDone(FALSE, queue[cur].buf)
        /\ UNCHANGED start
  /\ UNCHANGED <<plan, ui, next, draining, want, at, cur, offset, chs, workVars>>

(* write_file(): pop and write ... *)
WriteData ==
  /\ pc = "data"
  /\ queue' = [queue EXCEPT ![cur] = Pop(@)]
  /\ \/ /\ Write(queue[cur].buf)
        /\ pc' = "check"
        /\ UNCHANGED <<tc, tasks>>
     \/ /\ WriteFails(queue[cur].buf)
        /\ EntryDone(FALSE, << >>)
  /\ UNCHANGED <<plan, ui, next, draining, want, at, cur, offset, start, chs, wpc, pushed, rest>>

(* ... until the queue is shut down ... *)
CheckState ==
  /\ pc = "check"
  /\ pc' = IF Closed(queue[cur]) THEN "lastpop" ELSE "data"
  /\ UNCHANGED <<plan, tc, ui, mainVars, fileVars, workVars>>

(* ... and once more. *)
WriteLast ==
  /\ pc = "lastpop"
  /\ queue' = [queue EXCEPT ![cur] = Pop(@)]
  /\ Write(queue[cur].buf)
  /\ pc' = "fix"
  /\ UNCHANGED <<plan, tc, ui, mainVars, wpc, pushed, rest>>

(* The central header of the entry whose data has just been written. *)
NewCentral == [file |-> cur, offset |-> offset, size |-> pos - start]

NewHeader == <<LocalHeader(cur, NewCentral.size)>>

(* The file and the position the header is rewritten at, if the first seek *)
(* could flush and move, and if it could do neither.                       *)
Moved == [file |-> archive, at |-> offset]
Unmoved ==
  {[file |-> Written(disk, saved, part), at |-> saved + Len(part)] : part \in Beginnings(Unsaved)}

(* Slip: the position is not moved back behind the data. *)
FixHeaderNoSeek ==
  /\ pc = "fix"
  /\ OnDisk(Written(archive, offset, NewHeader), offset + 1)
  /\ chs' = Append(chs, NewCentral)
  /\ EntryDone(TRUE, queue[cur].buf)
  /\ UNCHANGED <<plan, ui, next, draining, want, at, cur, offset, start, missed, workVars>>

(* Slip: the central header is kept before the rewrite that may fail. *)
FixHeaderTooEarly ==
  /\ pc = "fix"
  /\ chs' = Append(chs, NewCentral)
  /\ \/ /\ OnDisk(Written(archive, offset, NewHeader), pos)
        /\ EntryDone(TRUE, queue[cur].buf)
     \/ /\ "write" \in Faults
        /\ OnDisk(archive, offset)
        /\ EntryDone(FALSE, queue[cur].buf)
  /\ UNCHANGED <<plan, ui, next, draining, want, at, cur, offset, start, missed, workVars>>

(* Slip: the header is rewritten with the size it had. *)
FixHeaderKeepsSize ==
  /\ pc = "fix"
  /\ OnDisk(Written(archive, offset, <<LocalHeader(cur, Placeholder)>>), pos)
  /\ chs' = Append(chs, NewCentral)
  /\ EntryDone(TRUE, queue[cur].buf)
  /\ UNCHANGED <<plan, ui, next, draining, want, at, cur, offset, start, missed, workVars>>

(* Seek back, rewrite the local header with the size, seek behind the data *)
(* and keep the central header.                                            *)
FixHeader ==
  /\ pc = "fix"
  /\ \/ /\ OnDisk(Written(archive, offset, NewHeader), pos)
        /\ chs' = Append(chs, NewCentral)
        /\ EntryDone(TRUE, queue[cur].buf)
     \/ /\ "write" \in Faults
        /\ \E part \in Beginnings(NewHeader) :
             OnDisk(Written(archive, offset, part), offset + Len(part))
        /\ EntryDone(FALSE, queue[cur].buf)
        /\ UNCHANGED chs
  /\ UNCHANGED <<plan, ui, next, draining, want, at, cur, offset, start, missed, workVars>>

(* The same when the flush of a seek fails and nobody notices: the first   *)
(* leaves the header to be written behind what is left of the entry, or to *)
(* throw there; the second loses the header and does not move.             *)
FixHeaderUnnoticed ==
  /\ pc = "fix"
  /\ "flush" \in Faults
  /\ missed' = missed \cup {cur}
  /\ \/ /\ \E to \in Unmoved : OnDisk(Written(to.file, to.at, NewHeader), pos)
        /\ chs' = Append(chs, NewCentral)
        /\ EntryDone(TRUE, queue[cur].buf)
     \/ /\ \E to \in Unmoved \cup {Moved}, part \in Beginnings(NewHeader) :
             OnDisk(Written(to.file, to.at, part), to.at + Len(part))
        /\ chs' = Append(chs, NewCentral)
        /\ EntryDone(TRUE, queue[cur].buf)
     \/ /\ "write" \in Faults
        /\ \E to \in Unmoved, part \in Beginnings(NewHeader) :
             OnDisk(Written(to.file, to.at, part), to.at + Len(part))
        /\ EntryDone(FALSE, queue[cur].buf)
        /\ UNCHANGED chs
  /\ UNCHANGED <<plan, ui, next, draining, want, at, cur, offset, start, workVars>>

(* No entry: an exception.  Asked to stop: no central directory. *)
Finish ==
  /\ pc = "finish"
  /\ pc' = IF chs = << >> THEN "threw" ELSE IF tc.stopped THEN "finished" ELSE "central"
  /\ UNCHANGED <<plan, tc, ui, mainVars, fileVars, workVars>>

CentralDirectory == [i \in 1..Len(chs) |-> CentralHeader(chs[i])]

(* Slip: the directory's offset is taken after the directory is written. *)
WriteCentralLateOffset ==
  /\ pc = "central"
  /\ Write(CentralDirectory)
  /\ pc' = "end"
  /\ offset' = pos'
  /\ UNCHANGED <<plan, tc, ui, next, draining, tasks, want, at, cur, start, chs, workVars>>

WriteCentral ==
  /\ pc = "central"
  /\ offset' = pos
  /\ \/ Write(CentralDirectory) /\ pc' = "end"
     \/ WriteFails(CentralDirectory) /\ pc' = "threw"
  /\ UNCHANGED <<plan, tc, ui, next, draining, tasks, want, at, cur, start, chs, workVars>>

(* The ZIP64 end record, its locator and the end record. *)
WriteEnd ==
  /\ pc = "end"
  /\ LET end == <<Zip64End(Len(chs), offset, pos - offset), Zip64Locator(pos), EndRecord>>
     IN  \/ Write(end) /\ pc' = "finished"
         \/ WriteFails(end) /\ pc' = "threw"
  /\ UNCHANGED <<plan, tc, ui, mainVars, workVars>>

(* The end of run(): the state, and the fclose of ~File, whose result      *)
(* nobody reads.  run() throws only with an empty buffer.                  *)
SetFinished ==
  /\ pc = "finished"
  /\ tc' = SetState(tc, "FINISHED")
  /\ \/ OnDisk(archive, pos) /\ pc' = "returned"
     \/ /\ "flush" \in Faults
        /\ \E part \in Beginnings(Unsaved) :
             OnDisk(Written(disk, saved, part), saved + Len(part))
        /\ pc' = "short"
  /\ UNCHANGED <<plan, ui, mainVars, missed, workVars>>

-----------------------------------------------------------------------------

(* run() decides on lzma or zlib once, by the platform. *)
Init ==
  /\ plan \in [File -> Plans]
  /\ ~({"lzma", "zlib"} \subseteq {plan[f].codec : f \in File})
  /\ tc = NewControl
  /\ ui = "create"
  /\ pc = "idle"
  /\ next = 1
  /\ draining = FALSE
  /\ tasks = << >>
  /\ want = "FULL"
  /\ at = 1
  /\ cur = 0
  /\ offset = 0
  /\ start = 0
  /\ chs = << >>
  /\ archive = << >>
  /\ pos = 0
  /\ disk = << >>
  /\ saved = 0
  /\ missed = {}
  /\ queue = [f \in File |-> NewQueue]
  /\ wpc = [f \in File |-> "idle"]
  /\ pushed = [f \in File |-> 0]
  /\ rest = [f \in File |-> << >>]

WriteEntry ==
  \/ GetResult \/ WriteHeader \/ WriteData \/ CheckState \/ WriteLast
  \/ FixHeader \/ FixHeaderUnnoticed

Main ==
  \/ OpenOutput \/ NextFile \/ LaunchTask \/ DrainTasks \/ PopFuture \/ ScanTask
  \/ WriteEntry \/ Finish \/ WriteCentral \/ WriteEnd \/ SetFinished

(* What a worker does unless its input, its codec or its user intervenes. *)
Proceed(f) == WorkerPush(f) \/ WorkerShutdown(f) \/ WorkerReturn(f)

Fail(f) == WorkerInputFails(f) \/ WorkerCodecFails(f) \/ WorkerStopped(f)

User == Create \/ AllReported \/ Join

(* The process has exited, or an assertion has ended it. *)
Over ==
  /\ ui = "exit" \/ ~Running
  /\ UNCHANGED vars

Next ==
  \/ User
  \/ UserStop
  \/ Main
  \/ \E f \in File : Proceed(f) \/ Fail(f)
  \/ Over

Spec == Init /\ [][Next]_vars

(* Every thread is scheduled; faults and the wish to stop need not come. *)
FairSpec ==
  /\ Spec
  /\ WF_vars(User)
  /\ WF_vars(Main)
  /\ \A f \in File : WF_vars(Proceed(f) \/ WorkerStopped(f))

-----------------------------------------------------------------------------
(* Properties.                                                             *)

Reported == {r.file : r \in ToSet(tc.results)}

(* The variables hold values of their kinds. *)
TypeOK ==
  /\ plan \in [File -> Plans]
  /\ tc \in Control(File)
  /\ ui \in UiPc
  /\ pc \in MainPc
  /\ next \in 1..(NFiles + 1)
  /\ draining \in BOOLEAN
  /\ tasks \in Seq(File)
  /\ want \in {"FULL", "SHUTDOWN"}
  /\ at \in 1..NumThreads
  /\ cur \in File \cup {0}
  /\ {offset, start, pos, saved} \subseteq Nat
  /\ missed \subseteq File
  /\ chs \in Seq([file : File, offset : Nat, size : Nat])
  /\ DOMAIN queue = File
  /\ \A f \in File :
       /\ queue[f].st \in QueueState
       /\ Len(queue[f].buf) <= Capacity
       /\ pushed[f] \in 0..Len(plan[f].ends)
  /\ wpc \in [File -> WorkerPc]
  /\ DOMAIN rest = File

(* There is never more than one compression per processor, counting the    *)
(* workers that still run rather than the tasks the vector holds.          *)
ThreadLimit ==
  Cardinality({f \in File : wpc[f] \notin {"idle", "ok", "failed"}}) <= NumThreads

(* Every file is either not launched, or one of the tasks, or reported, is *)
(* reported only once, and the counters the user reads agree with the      *)
(* results, whatever fails on the way.                                     *)
EachFileOnce ==
  /\ next..NFiles \cap (ToSet(tasks) \cup Reported) = {}
  /\ ToSet(tasks) \cap Reported = {}
  /\ 1..(next - 1) = ToSet(tasks) \cup Reported
  /\ Cardinality(ToSet(tasks)) = Len(tasks)
  /\ Cardinality(Reported) = Len(tc.results)
  /\ CountersAgree(tc)

(* What a reader of the archive needs of an entry the central directory    *)
(* lists: at its offset a local header with the right size, and after it   *)
(* all bytes of the file and in their order.                               *)
EntryIntact(ch) ==
  /\ ch.offset + 1 + ch.size <= Len(archive)
  /\ archive[ch.offset + 1] = LocalHeader(ch.file, ch.size)
  /\ ch.size = Output(ch.file) /\ wpc[ch.file] = "ok"
  /\ \A i \in 1..ch.size : archive[ch.offset + 1 + i] = DataByte(ch.file, i)

(* Every entry that is or will be in the central directory is intact, also *)
(* after other entries failed to compress or to be written, unless a flush *)
(* failed unnoticed while its own header was rewritten; and it is listed   *)
(* just when it was reported as a success.                                 *)
CentralIsSound ==
  /\ \A i \in DOMAIN chs : chs[i].file \notin missed => EntryIntact(chs[i])
  /\ {ch.file : ch \in ToSet(chs)} = {r.file : r \in {q \in ToSet(tc.results) : q.ok}}

(* Where the next entry belongs if nothing failed after the last one. *)
EntriesEnd == IF chs = << >> THEN 0 ELSE chs[Len(chs)].offset + 1 + chs[Len(chs)].size

WritesSucceed == Faults \cap {"write", "flush"} = {}

(* Unless a write fails, the archive holds nothing but the entries that    *)
(* succeeded, one after the other: a file that fails leaves no bytes in it,*)
(* and none but the entry in progress is behind them.                      *)
NoGaps ==
  WritesSucceed =>
    /\ chs # << >> => chs[1].offset = 0
    /\ \A i \in 2..Len(chs) : chs[i].offset = chs[i - 1].offset + 1 + chs[i - 1].size
    /\ pc \in {"open", "next", "room", "drain", "pop", "scan", "entry", "finish"} => pos = EntriesEnd
    /\ pos = Len(archive)

(* Where an end record is the last cell, the directory it points to is     *)
(* there, all of it.  When parzip exits without having been asked to stop, *)
(* its packing thread did not throw and the fclose of the archive did not  *)
(* fail, an end record is the last thing it wrote.  It is not the last     *)
(* cell if the last entry could not be given its sizes: the directory is   *)
(* then written over the data of that entry.                               *)
Sealed == Kind(archive, Len(archive)) = "end"

CompleteAtExit ==
  /\ Sealed =>
       LET e == Len(archive) - 2
       IN  /\ archive[e] = Zip64End(Len(chs), e - 1 - Len(chs), Len(chs))
           /\ archive[e + 1] = Zip64Locator(e - 1)
           /\ SubSeq(archive, e - Len(chs), e - 1) = CentralDirectory
  /\ ui = "exit" /\ pc = "returned" /\ ~tc.stopped => Kind(archive, pos) = "end"

(* In every state, so also if parzip is killed there and has written no    *)
(* more than a part of the archive, parunzip refuses it, unless the end    *)
(* record is there; then it reads, for each file that succeeded, the local *)
(* and the central header of that file and all of its bytes.               *)
ReaderSeesAllOrNothing ==
  WritesSucceed =>
    \A n \in 0..Len(archive) :
      LET cut == SubSeq(archive, 1, n)
      IN  IF n = Len(archive) /\ Sealed
          THEN /\ Opens(cut)
               /\ Read(cut) = [i \in DOMAIN chs |->
                    [local |-> LocalHeader(chs[i].file, Output(chs[i].file)),
                     central |-> CentralHeader(chs[i]),
                     data |-> [k \in 1..Output(chs[i].file) |-> DataByte(chs[i].file, k)]]]
          ELSE ~Opens(cut)

(* What a reader that goes by the directory finds once the archive is on   *)
(* the disk: each file it lists, and how many bytes, none of them wrong.   *)
Listing ==
  IF ~(Sealed /\ disk = archive) THEN << >>
  ELSE LET end == archive[Len(archive) - 2]
           whole(ch) == ch.offset + 1 + ch.size <= Len(archive)
             /\ archive[ch.offset + 1] = LocalHeader(ch.file, ch.size)
             /\ \A k \in 1..ch.size : archive[ch.offset + 1 + k] = DataByte(ch.file, k)
       IN  [i \in 1..end.entries |->
              LET ch == archive[end.offset + i]
              IN  <<ch.file, IF whole(ch) THEN ch.size ELSE Placeholder>>]

Pack == INSTANCE Packing WITH
          Broken <- Placeholder,
          output <- [f \in File |-> Output(f)],
          stored <- [i \in DOMAIN chs |-> chs[i].file],
          lost <- {r.file : r \in {q \in ToSet(tc.results) : ~q.ok}},
          missed <- missed,
          listing <- Listing

(* Whatever fails, an archive is sealed once, when every file is stored or *)
(* lost, and lists what was stored, whole but for those files whose flush  *)
(* failed unnoticed (Packing).                                             *)
ImplementsPacking == Pack!PackSpec

(* If outputs fit in their queues and only inputs fail, every file is      *)
(* tried, and what could be stored is sealed.                              *)
ImplementsFairPacking == Pack!FairPackSpec

(* What the user's thread has read from the TaskControl stays true.        *)
ReportsAreFinal == [][Extends(tc', tc)]_vars

(* No assertion fails: the queue of a task is empty when it is destroyed.  *)
NeverAborts == pc # "aborted"

(* parzip ends: every file is reported, and main returns.                  *)
EventuallyExits == <>(ui = "exit")

-----------------------------------------------------------------------------
(* What the code and its comments say and the program does not do: TLC     *)
(* finds a counterexample to each of these three.                          *)

(* A task that has filled its buffer is written in a streaming fashion, so *)
(* its worker does not sleep in push for ever.                             *)
FullTasksAreStreamed == \A f \in File : (wpc[f] = "full") ~> (wpc[f] # "full")

(* An exit status of 0 means that there is an archive: with no failure     *)
(* reported, the packing thread has written all of it.                     *)
ZeroMeansComplete ==
  ui = "exit" /\ tc.failures = 0 /\ ~tc.stopped => Sealed

(* Once asked to stop the packing thread ends.                             *)
StopIsObeyed == tc.stopped ~> (pc \in {"returned", "short", "threw", "aborted"})
=============================================================================
