----------------------------- MODULE ZipProofs -------------------------------
(***************************************************************************)
(* Theorems of ZipCreator, for every number of files and threads, every    *)
(* output and every fault.  First its tasks and its reports.  Then the     *)
(* archive it writes: its entries and its end record; that it is not       *)
(* sealed before every file was tried, that it holds the entries and       *)
(* nothing else unless a write fails, that no queue is destroyed with      *)
(* bytes in it unless a codec, a write or the user interferes, and that    *)
(* the packing implements Packing; last, what a reader makes of it, or of  *)
(* any beginning of it.                                                    *)
(***************************************************************************)
EXTENDS ZipCreator, TaskLemmas, ByteQueueLemmas, ReaderLemmas

(* What a queue holds, and what an archive may. *)
Byte == [kind : {"data"}, file : File, index : Nat]

Header == [kind : {"local"}, file : File, size : Nat \cup {Placeholder}, flags : {{}}]

Trailer ==
  [kind : {"central"}, file : File, size : Nat, offset : Nat]
    \cup [kind : {"z64end"}, entries : Nat, offset : Nat, size : Int]
    \cup [kind : {"z64loc"}, offset : Nat]
    \cup {EndRecord, Torn}

Cell == Byte \cup Header \cup Trailer

(* The packing thread writes the entry of cur. *)
Writing == {"entry", "header", "data", "check", "lastpop", "fix"}

(* It has written the header, and the data begin at start. *)
Streaming == {"data", "check", "lastpop", "fix"}

(* All tasks are done. *)
Closing == {"finish", "central", "end", "finished", "returned", "short"}

TypeInv ==
  /\ TypeOK
  /\ archive \in Seq(Cell) /\ disk \in Seq(Cell)
  /\ saved <= pos /\ (saved # pos => pos <= Len(archive))
  /\ queue \in [File -> Queue(Byte)]
  /\ rest \in [File -> Seq(Byte)]
  /\ pushed \in [File -> Nat]

(* A queue is shut down by its worker, last, and tells how full it is.     *)
WorkerInv ==
  \A f \in File :
    /\ Closed(queue[f]) <=> wpc[f] \in {"return", "rethrow", "ok", "failed"}
    /\ ~Closed(queue[f]) => (queue[f].st = "FULL" <=> Len(queue[f].buf) = Capacity)
    /\ queue[f].st = "EMPTY" => queue[f].buf = << >>
    /\ rest[f] # << >> => wpc[f] = "full"

(* Where the user's thread and the packing thread are, and how far the     *)
(* TaskControl and the loops over files and tasks are then.                *)
PhaseInv ==
  /\ pc = "idle" <=> ui = "create"
  /\ ui = "create" => tc = NewControl /\ next = 1
  /\ ui # "create" => tc.state # "NOT_STARTED" /\ tc.total = NFiles
  /\ pc \in {"idle", "open", "next", "room"} => ~draining
  /\ pc \in {"drain"} \cup Closing => draining
  /\ pc \in {"room", "pop", "scan"} \cup Writing => draining \/ next <= NFiles
  /\ pc \in Streaming => start <= pos

(* The vector of tasks, and the task that pop_with_state is at. *)
VectorInv ==
  /\ Distinct(tasks)
  /\ Len(tasks) <= NumThreads
  /\ pc = "pop" => tasks # << >>
  /\ pc \in {"scan"} \cup Writing => at \in 1..Len(tasks)
  /\ pc \in Writing => cur = tasks[at]
  /\ pc \in Writing \ {"entry"} => wpc[cur] = "ok"
  /\ pc \in Closing => tasks = << >>

(* A file is launched, is a task, and is reported, in this order; a report *)
(* is made of a worker that has ended.                                     *)
ReportInv ==
  /\ ReportedOnce(tc)
  /\ CountersAgree(tc)
  /\ 1..(next - 1) = ToSet(tasks) \cup ReportedIn(tc)
  /\ ToSet(tasks) \cap ReportedIn(tc) = {}
  /\ \A f \in File : wpc[f] = "idle" <=> f >= next
  /\ \A f \in ReportedIn(tc) : Ready(f)

(* The inductive invariant. *)
TaskInv == TypeInv /\ WorkerInv /\ PhaseInv /\ VectorInv /\ ReportInv

-----------------------------------------------------------------------------
(* A write makes a sequence of cells of one, no shorter, that differs from *)
(* it only where it writes, and has holes only before that.                *)
LEMMA WrittenFacts ==
  ASSUME NEW a \in Seq(Cell), NEW cells \in Seq(Cell), NEW p \in Nat
  PROVE  /\ Written(a, p, cells) \in Seq(Cell)
         /\ Len(Written(a, p, cells)) =
              IF cells = << >> \/ Len(a) > p + Len(cells) THEN Len(a) ELSE p + Len(cells)
         /\ \A i \in 1..Len(a) :
              i <= p \/ i > p + Len(cells) => Written(a, p, cells)[i] = a[i]
         /\ \A i \in 1..Len(cells) : Written(a, p, cells)[p + i] = cells[i]
         /\ \A i \in 1..Len(Written(a, p, cells)) :
              i > Len(a) /\ i <= p => Written(a, p, cells)[i] = Torn
<1>1. Len(a) \in Nat /\ Len(cells) \in Nat /\ (cells = << >> => Len(cells) = 0)
  BY LenProperties, EmptySeq
<1>2. PICK w : w = Written(a, p, cells)
  OBVIOUS
<1>3. CASE cells = << >>
  <2>1. w = a
    BY <1>2, <1>3 DEF Written
  <2> QED
    BY <1>1, <1>2, <1>3, <2>1
<1>4. CASE cells # << >>
  <2>1. PICK size : size = IF Len(a) > p + Len(cells) THEN Len(a) ELSE p + Len(cells)
    OBVIOUS
  <2>2. size \in Nat /\ size >= Len(a) /\ size >= p + Len(cells)
    BY <1>1, <2>1
  <2>3. PICK torn : torn = Torn
    OBVIOUS
  <2>4. torn \in Cell
    BY <2>3 DEF Cell, Trailer
  <2>5. w = [i \in 1..size |-> IF i > p /\ i <= p + Len(cells) THEN cells[i - p]
                               ELSE IF i <= Len(a) THEN a[i] ELSE torn]
    BY <1>2, <1>4, <2>1, <2>3 DEF Written
  <2>6. ASSUME NEW i \in 1..size PROVE w[i] \in Cell
    <3>1. CASE i > p /\ i <= p + Len(cells)
      <4>1. i - p \in 1..Len(cells)
        BY <1>1, <2>2, <3>1
      <4> QED
        BY <2>5, <3>1, <4>1, ElementOfSeq
    <3>2. CASE ~(i > p /\ i <= p + Len(cells)) /\ i <= Len(a)
      <4>1. i \in 1..Len(a)
        BY <1>1, <2>2, <3>2
      <4> QED
        BY <2>5, <3>2, <4>1, ElementOfSeq
    <3>3. CASE ~(i > p /\ i <= p + Len(cells)) /\ ~(i <= Len(a))
      BY <2>4, <2>5, <3>3
    <3> QED
      BY <3>1, <3>2, <3>3
  <2>7. w \in Seq(Cell) /\ Len(w) = size
    BY <2>2, <2>5, <2>6, IsASeq, LenProperties
  <2>8. ASSUME NEW i \in 1..Len(a), i <= p \/ i > p + Len(cells) PROVE w[i] = a[i]
    BY <1>1, <2>2, <2>5, <2>8
  <2>9. ASSUME NEW i \in 1..Len(cells) PROVE w[p + i] = cells[i]
    <3>1. p + i \in 1..size /\ p + i > p /\ p + i <= p + Len(cells) /\ (p + i) - p = i
      BY <1>1, <2>2
    <3> QED
      BY <2>5, <3>1
  <2>10. ASSUME NEW i \in 1..size, i > Len(a), i <= p PROVE w[i] = torn
    BY <1>1, <2>2, <2>5, <2>10
  <2> QED
    BY <1>2, <1>4, <2>1, <2>3, <2>7, <2>8, <2>9, <2>10
<1> QED
  BY <1>3, <1>4

(* Write advances the position to the end of what it has written. *)
LEMMA WriteFacts ==
  ASSUME TypeInv, NEW cells \in Seq(Cell), Write(cells)
  PROVE  /\ archive' \in Seq(Cell)
         /\ Len(archive') \in Nat
         /\ Len(archive') >= Len(archive)
         /\ pos' # saved' => pos' <= Len(archive')
         /\ pos = Len(archive) => pos' = Len(archive')
         /\ pos' = pos + Len(cells)
         /\ pos \in Nat /\ pos' \in Nat /\ pos' >= pos
         /\ \A i \in 1..Len(archive) : i <= pos \/ i > pos' => archive'[i] = archive[i]
         /\ \A i \in 1..Len(cells) : archive'[pos + i] = cells[i]
         /\ \A i \in 1..Len(archive') : i > Len(archive) /\ i <= pos => archive'[i] = Torn
         /\ UNCHANGED <<disk, saved, missed>>
<1>1. archive \in Seq(Cell) /\ pos \in Nat /\ saved \in Nat /\ Len(archive) \in Nat /\ Len(cells) \in Nat
  BY LenProperties DEF TypeInv, TypeOK
<1>2. archive' = Written(archive, pos, cells) /\ pos' = pos + Len(cells) /\ UNCHANGED <<disk, saved, missed>>
  BY DEF Write
<1>3. /\ archive' \in Seq(Cell)
      /\ Len(archive') = IF cells = << >> \/ Len(archive) > pos + Len(cells)
                         THEN Len(archive) ELSE pos + Len(cells)
      /\ \A i \in 1..Len(archive) : i <= pos \/ i > pos + Len(cells) => archive'[i] = archive[i]
      /\ \A i \in 1..Len(cells) : archive'[pos + i] = cells[i]
      /\ \A i \in 1..Len(archive') : i > Len(archive) /\ i <= pos => archive'[i] = Torn
  BY <1>1, <1>2, WrittenFacts
<1>4. cells = << >> => Len(cells) = 0
  BY EmptySeq
<1>5. pos' # saved' => pos' <= Len(archive')
  BY <1>1, <1>2, <1>3, <1>4 DEF TypeInv
<1> QED
  BY <1>1, <1>2, <1>3, <1>4, <1>5

(* A write that stops too early has written a beginning, with its last     *)
(* cell torn perhaps, and never the last of its cells.                     *)
LEMMA BeginningFacts ==
  ASSUME NEW cells \in Seq(Cell), NEW part \in Beginnings(cells)
  PROVE  /\ part \in Seq(Cell)
         /\ Len(part) \in 0..Len(cells)
         /\ \A i \in 1..Len(part) : part[i] = Torn \/ (part[i] = cells[i] /\ i < Len(cells))
<1>1. Len(cells) \in Nat
  BY LenProperties
<1>2. PICK torn : torn = Torn
  OBVIOUS
<1>3. torn \in Cell
  BY <1>2 DEF Cell, Trailer
<1>4. PICK n \in 0..(Len(cells) - 1) : part = SubSeq(cells, 1, n) \/ part = Append(SubSeq(cells, 1, n), torn)
  BY <1>2 DEF Beginnings
<1>5. PICK a : a = SubSeq(cells, 1, n)
  OBVIOUS
<1>6. a \in Seq(Cell) /\ Len(a) = n /\ \A i \in 1..n : a[i] = cells[i]
  <2>1. 1 \in Int /\ n \in Int /\ \A i \in 1..n : cells[i] \in Cell
    BY <1>1, ElementOfSeq
  <2>2. /\ a \in Seq(Cell)
        /\ Len(a) = IF 1 <= n THEN n - 1 + 1 ELSE 0
        /\ \A i \in 1..(n - 1 + 1) : a[i] = cells[1 + i - 1]
    BY <1>5, <2>1, SubSeqProperties
  <2> QED
    BY <1>1, <2>2
<1>7. CASE part = a
  BY <1>1, <1>6, <1>7
<1>8. CASE part = Append(a, torn)
  <2>1. /\ part \in Seq(Cell)
        /\ Len(part) = n + 1
        /\ \A i \in 1..n : part[i] = a[i]
        /\ part[n + 1] = torn
    BY <1>3, <1>6, <1>8, AppendProperties
  <2> QED
    BY <1>1, <1>2, <1>6, <2>1
<1> QED
  BY <1>4, <1>5, <1>7, <1>8

(* What the stream holds back is what the archive has behind saved. *)
LEMMA UnsavedFacts ==
  ASSUME TypeInv
  PROVE  /\ Unsaved \in Seq(Cell)
         /\ Len(Unsaved) = pos - saved
         /\ \A i \in 1..Len(Unsaved) : saved + i \in 1..Len(archive) /\ Unsaved[i] = archive[saved + i]
<1>1. /\ archive \in Seq(Cell) /\ pos \in Nat /\ saved \in Nat /\ Len(archive) \in Nat
      /\ saved <= pos /\ (saved # pos => pos <= Len(archive))
  BY LenProperties DEF TypeInv, TypeOK
<1>2. PICK m \in Nat : m = saved + 1
  BY <1>1
<1>3. \A i \in m..pos : archive[i] \in Cell
  <2> SUFFICES ASSUME NEW i \in m..pos PROVE archive[i] \in Cell
    OBVIOUS
  <2>1. i \in 1..Len(archive)
    BY <1>1, <1>2
  <2> QED
    BY <1>1, <2>1, ElementOfSeq
<1>4. /\ SubSeq(archive, m, pos) \in Seq(Cell)
      /\ Len(SubSeq(archive, m, pos)) = IF m <= pos THEN pos - m + 1 ELSE 0
      /\ \A i \in 1..(pos - m + 1) : SubSeq(archive, m, pos)[i] = archive[m + i - 1]
  BY <1>1, <1>2, <1>3, SubSeqProperties
<1>5. Unsaved = SubSeq(archive, m, pos)
  BY <1>2 DEF Unsaved
<1>6. Unsaved \in Seq(Cell) /\ Len(Unsaved) = pos - saved
  BY <1>1, <1>2, <1>4, <1>5
<1>7. ASSUME NEW i \in 1..(pos - saved)
      PROVE  saved + i \in 1..Len(archive) /\ Unsaved[i] = archive[saved + i]
  <2>1. i \in 1..(pos - m + 1) /\ m + i - 1 = saved + i /\ saved + i \in 1..Len(archive)
    BY <1>1, <1>2
  <2> QED
    BY <1>4, <1>5, <2>1
<1> QED
  BY <1>6, <1>7

(* What a flush of an unfinished write leaves of the archive. *)
LEMMA StoppedFacts ==
  ASSUME NEW a \in Seq(Cell), NEW p \in Nat, NEW part \in Seq(Cell)
  PROVE  /\ Written(a, p, part) \in Seq(Cell)
         /\ p + Len(part) \in Nat /\ p + Len(part) >= p
         /\ Len(Written(a, p, part)) \in Nat /\ Len(Written(a, p, part)) >= Len(a)
         /\ \A i \in 1..Len(a) : i <= p => Written(a, p, part)[i] = a[i]
<1>1. Len(a) \in Nat /\ Len(part) \in Nat
  BY LenProperties
<1>2. PICK w : w = Written(a, p, part)
  OBVIOUS
<1>3. /\ w \in Seq(Cell)
      /\ Len(w) = IF part = << >> \/ Len(a) > p + Len(part) THEN Len(a) ELSE p + Len(part)
      /\ \A i \in 1..Len(a) : i <= p \/ i > p + Len(part) => w[i] = a[i]
  BY <1>2, WrittenFacts
<1> QED
  BY <1>1, <1>2, <1>3

(* A write that fails writes a beginning of what the stream holds and of   *)
(* what it was given, and not the last cell of that.                       *)
LEMMA WriteFailsFacts ==
  ASSUME TypeInv, NEW cells \in Seq(Cell), WriteFails(cells)
  PROVE  \E part \in Seq(Cell) :
           /\ OnDisk(Written(disk, saved, part), saved + Len(part))
           /\ \A i \in 1..Len(part) :
                \/ part[i] = Torn
                \/ \E j \in 1..Len(archive) : part[i] = archive[j]
                \/ \E j \in 1..(Len(cells) - 1) : part[i] = cells[j]
<1>1. PICK part \in Beginnings(Unsaved \o cells) : OnDisk(Written(disk, saved, part), saved + Len(part))
  BY DEF WriteFails
<1>2. PICK u : u = Unsaved
  OBVIOUS
<1>3. u \in Seq(Cell) /\ Len(u) \in Nat /\ \A i \in 1..Len(u) : \E j \in 1..Len(archive) : u[i] = archive[j]
  BY <1>2, UnsavedFacts, LenProperties
<1>4. PICK all : all = u \o cells
  OBVIOUS
<1>5. /\ all \in Seq(Cell)
      /\ Len(all) = Len(u) + Len(cells)
      /\ \A i \in 1..(Len(u) + Len(cells)) : all[i] = IF i <= Len(u) THEN u[i] ELSE cells[i - Len(u)]
  BY <1>3, <1>4, ConcatProperties
<1>6. /\ part \in Seq(Cell)
      /\ Len(part) \in 0..Len(all)
      /\ \A i \in 1..Len(part) : part[i] = Torn \/ (part[i] = all[i] /\ i < Len(all))
  BY <1>1, <1>2, <1>4, <1>5, BeginningFacts
<1>7. ASSUME NEW i \in 1..Len(part)
      PROVE  \/ part[i] = Torn
             \/ \E j \in 1..Len(archive) : part[i] = archive[j]
             \/ \E j \in 1..(Len(cells) - 1) : part[i] = cells[j]
  <2>1. Len(cells) \in Nat
    BY LenProperties
  <2>2. CASE part[i] = all[i] /\ i < Len(all) /\ i <= Len(u)
    <3>1. i \in 1..Len(u) /\ part[i] = u[i]
      BY <1>3, <1>5, <1>6, <2>1, <2>2
    <3> QED
      BY <1>3, <3>1
  <2>3. CASE part[i] = all[i] /\ i < Len(all) /\ ~(i <= Len(u))
    <3>1. i - Len(u) \in 1..(Len(cells) - 1) /\ part[i] = cells[i - Len(u)]
      BY <1>3, <1>5, <1>6, <2>1, <2>3
    <3> QED
      BY <3>1
  <2> QED
    BY <1>6, <2>2, <2>3
<1> QED
  BY <1>1, <1>6, <1>7

-----------------------------------------------------------------------------
(* The output of a file, push by push. *)
LEMMA EndsFacts ==
  ASSUME plan \in [File -> Plans], NEW f \in File
  PROVE  /\ Len(plan[f].ends) \in Nat
         /\ \A n \in 0..Len(plan[f].ends) : Ends(f, n) \in Nat
         /\ \A m, n \in 0..Len(plan[f].ends) : m <= n => Ends(f, m) <= Ends(f, n)
<1>1. plan[f] \in Plans /\ plan[f].ends \in Seq(Nat)
  BY ZipAssumption DEF Plan
<1>2. Len(plan[f].ends) \in Nat /\ DOMAIN plan[f].ends = 1..Len(plan[f].ends)
  BY <1>1, LenProperties
<1>3. \A n \in 1..Len(plan[f].ends) : plan[f].ends[n] \in Nat
  BY <1>1, ElementOfSeq
<1>4. \A m, n \in 1..Len(plan[f].ends) : m <= n => plan[f].ends[m] <= plan[f].ends[n]
  BY <1>1, <1>2, ZipAssumption
<1> QED
  BY <1>2, <1>3, <1>4 DEF Ends

(* The bytes of the next push follow those of the last. *)
LEMMA NextBytesFacts ==
  ASSUME plan \in [File -> Plans], NEW f \in File, pushed[f] \in Nat,
         pushed[f] < Len(plan[f].ends)
  PROVE  /\ Sent(f) \in Nat
         /\ Ends(f, pushed[f] + 1) \in Nat
         /\ NextBytes(f) \in Seq(Byte)
         /\ Len(NextBytes(f)) = Ends(f, pushed[f] + 1) - Sent(f)
         /\ \A i \in 1..Len(NextBytes(f)) : NextBytes(f)[i] = DataByte(f, Sent(f) + i)
<1>1. Len(plan[f].ends) \in Nat /\ pushed[f] \in 0..Len(plan[f].ends) /\ pushed[f] + 1 \in 0..Len(plan[f].ends)
  BY EndsFacts
<1>2. Sent(f) \in Nat /\ Ends(f, pushed[f] + 1) \in Nat /\ Sent(f) <= Ends(f, pushed[f] + 1)
  BY <1>1, EndsFacts DEF Sent
<1>3. PICK n : n = Ends(f, pushed[f] + 1) - Sent(f)
  OBVIOUS
<1>4. n \in Nat
  BY <1>2, <1>3
<1>5. PICK m : m = Sent(f)
  OBVIOUS
<1>6. NextBytes(f) = [i \in 1..n |-> DataByte(f, m + i)]
  BY <1>3, <1>5 DEF NextBytes
<1>7. \A i \in 1..n : DataByte(f, m + i) \in Byte
  BY <1>2, <1>4, <1>5 DEF DataByte, Byte
<1>8. NextBytes(f) \in Seq(Byte) /\ Len(NextBytes(f)) = n
  BY <1>4, <1>6, <1>7, IsASeq, LenProperties
<1> QED
  BY <1>2, <1>3, <1>5, <1>6, <1>8

-----------------------------------------------------------------------------
(* What a worker does with its queue and the rest of its push, while it is *)
(* neither idle nor done, disturbs nothing if it leaves both as WorkerInv  *)
(* says.                                                                   *)
LEMMA WorkerMove ==
  ASSUME TaskInv, NEW f \in File, wpc[f] \notin {"idle", "ok", "failed"},
         UNCHANGED <<plan, tc, ui, pc, mainVars, fileVars>>,
         NEW w \in WorkerPc \ {"idle"}, wpc' = [wpc EXCEPT ![f] = w],
         NEW q \in Queue(Byte), Len(q.buf) <= Capacity, queue' = [queue EXCEPT ![f] = q],
         NEW r \in Seq(Byte), rest' = [rest EXCEPT ![f] = r],
         NEW n \in 0..Len(plan[f].ends), pushed' = [pushed EXCEPT ![f] = n],
         Closed(q) <=> w \in {"return", "rethrow", "ok", "failed"},
         ~Closed(q) => (q.st = "FULL" <=> Len(q.buf) = Capacity),
         q.st = "EMPTY" => q.buf = << >>,
         r # << >> => w = "full"
  PROVE  TaskInv'
<1>1. /\ queue' \in [File -> Queue(Byte)]
      /\ rest' \in [File -> Seq(Byte)]
      /\ pushed' \in [File -> Nat]
      /\ wpc' \in [File -> WorkerPc]
  <2>1. n \in Nat
    BY EndsFacts DEF TaskInv, TypeInv, TypeOK
  <2> QED
    BY <2>1 DEF TaskInv, TypeInv, TypeOK
<1>2. \A g \in File : g # f =>
        queue'[g] = queue[g] /\ rest'[g] = rest[g] /\ pushed'[g] = pushed[g] /\ wpc'[g] = wpc[g]
  BY DEF TaskInv, TypeInv, TypeOK
<1>3. queue'[f] = q /\ rest'[f] = r /\ pushed'[f] = n /\ wpc'[f] = w
  BY DEF TaskInv, TypeInv, TypeOK
<1>4. TypeOK'
  <2>1. q.st \in QueueState
    BY DEF Queue
  <2>2. \A g \in File : /\ queue'[g].st \in QueueState
                        /\ Len(queue'[g].buf) <= Capacity
                        /\ pushed'[g] \in 0..Len(plan[g].ends)
    BY <1>2, <1>3, <2>1 DEF TaskInv, TypeInv, TypeOK
  <2>3. DOMAIN queue' = File /\ DOMAIN rest' = File
    BY <1>1
  <2> QED
    BY <1>1, <2>2, <2>3 DEF TaskInv, TypeInv, TypeOK, mainVars, fileVars
<1>5. TypeInv'
  BY <1>1, <1>4 DEF TaskInv, TypeInv, fileVars
<1>6. WorkerInv'
  BY <1>2, <1>3 DEF TaskInv, WorkerInv, Closed
<1>7. PhaseInv'
  BY DEF TaskInv, PhaseInv, mainVars, fileVars
<1>8. VectorInv'
  <2>1. pc \in Writing \ {"entry"} => wpc'[cur] = "ok"
    <3>1. pc \in Writing => cur \in File
      <4>1. tasks \in Seq(File)
        BY DEF TaskInv, TypeInv, TypeOK
      <4> QED
        BY <4>1, ElementOfSeq DEF TaskInv, VectorInv
    <3> QED
      BY <1>2, <3>1 DEF TaskInv, VectorInv
  <2> QED
    BY <2>1 DEF TaskInv, VectorInv, mainVars
<1>9. ReportInv'
  <2>1. \A g \in File : wpc'[g] = "idle" <=> g >= next
    BY <1>2, <1>3 DEF TaskInv, ReportInv
  <2>2. \A g \in ReportedIn(tc) : wpc'[g] \in {"ok", "failed"}
    <3>1. ReportedIn(tc) \subseteq File
      BY CountReported DEF TaskInv, TypeInv, TypeOK, ReportInv
    <3> QED
      BY <1>2, <3>1 DEF TaskInv, ReportInv, Ready
  <2> QED
    BY <2>1, <2>2 DEF TaskInv, ReportInv, Ready, mainVars
<1> QED
  BY <1>5, <1>6, <1>7, <1>8, <1>9 DEF TaskInv

(* A worker that only moves on leaves its queue and its pushes alone. *)
LEMMA WorkerMovesOn ==
  ASSUME TaskInv, NEW f \in File, NEW w \in WorkerPc \ {"idle"},
         \/ wpc[f] = "run" /\ w = "catch"
         \/ wpc[f] \in {"return", "rethrow"} /\ w \in {"ok", "failed"},
         wpc' = [wpc EXCEPT ![f] = w],
         UNCHANGED <<plan, tc, ui, pc, mainVars, fileVars, queue, pushed, rest>>
  PROVE  TaskInv'
<1>1. PICK q, r, n : q = queue[f] /\ r = rest[f] /\ n = pushed[f]
  OBVIOUS
<1>2. /\ q \in Queue(Byte) /\ Len(q.buf) <= Capacity
      /\ r \in Seq(Byte) /\ n \in 0..Len(plan[f].ends)
  BY <1>1 DEF TaskInv, TypeInv, TypeOK
<1>3. /\ queue' = [queue EXCEPT ![f] = q]
      /\ rest' = [rest EXCEPT ![f] = r]
      /\ pushed' = [pushed EXCEPT ![f] = n]
  BY <1>1 DEF TaskInv, TypeInv, TypeOK
<1>4. /\ Closed(q) <=> w \in {"return", "rethrow", "ok", "failed"}
      /\ ~Closed(q) => (q.st = "FULL" <=> Len(q.buf) = Capacity)
      /\ q.st = "EMPTY" => q.buf = << >>
      /\ r # << >> => w = "full"
  BY <1>1 DEF TaskInv, WorkerInv
<1>5. wpc[f] \notin {"idle", "ok", "failed"}
  OBVIOUS
<1> QED
  BY <1>2, <1>3, <1>4, <1>5, WorkerMove

(* Every step of a worker keeps the invariant. *)
LEMMA WorkerStep ==
  ASSUME TaskInv, NEW f \in File, Proceed(f) \/ Fail(f)
  PROVE  TaskInv'
<1>0. /\ queue[f] \in Queue(Byte) /\ Len(queue[f].buf) <= Capacity
      /\ rest[f] \in Seq(Byte) /\ pushed[f] \in 0..Len(plan[f].ends) /\ pushed[f] \in Nat
      /\ Closed(queue[f]) <=> wpc[f] \in {"return", "rethrow", "ok", "failed"}
      /\ ~Closed(queue[f]) => (queue[f].st = "FULL" <=> Len(queue[f].buf) = Capacity)
      /\ queue[f].st = "EMPTY" => queue[f].buf = << >>
      /\ rest[f] # << >> => wpc[f] = "full"
      /\ plan \in [File -> Plans]
      /\ wpc \in [File -> WorkerPc]
  BY DEF TaskInv, TypeInv, TypeOK, WorkerInv
<1>1. CASE Fail(f)
  <2>1. /\ wpc[f] = "run"
        /\ wpc' = [wpc EXCEPT ![f] = "catch"]
        /\ UNCHANGED <<plan, tc, ui, pc, mainVars, fileVars, queue, pushed, rest>>
    BY <1>1 DEF Fail, WorkerInputFails, WorkerCodecFails, WorkerStopped
  <2>2. "catch" \in WorkerPc \ {"idle"}
    BY DEF WorkerPc
  <2> QED
    BY <2>1, <2>2, WorkerMovesOn
<1>2. CASE WorkerReturn(f)
  <2>1. PICK w : w = IF wpc[f] = "return" THEN "ok" ELSE "failed"
    OBVIOUS
  <2>2. /\ wpc[f] \in {"return", "rethrow"}
        /\ wpc' = [wpc EXCEPT ![f] = w]
        /\ w \in WorkerPc \ {"idle"} /\ w \in {"ok", "failed"}
        /\ UNCHANGED <<plan, tc, ui, pc, mainVars, fileVars, queue, pushed, rest>>
    BY <1>0, <1>2, <2>1 DEF WorkerReturn, WorkerPc
  <2> QED
    BY <2>2, WorkerMovesOn
<1>3. CASE WorkerShutdown(f)
  <2>1. PICK w : w = IF wpc[f] = "run" THEN "return" ELSE "rethrow"
    OBVIOUS
  <2>2. PICK q : q = Shutdown(queue[f])
    OBVIOUS
  <2>3. PICK r, n : r = rest[f] /\ n = pushed[f]
    OBVIOUS
  <2>4. /\ wpc[f] \in {"run", "catch"}
        /\ wpc' = [wpc EXCEPT ![f] = w]
        /\ queue' = [queue EXCEPT ![f] = q]
        /\ UNCHANGED <<plan, tc, ui, pc, mainVars, fileVars, pushed, rest>>
    BY <1>0, <1>3, <2>1, <2>2 DEF WorkerShutdown
  <2>5. q \in Queue(Byte) /\ q.buf = queue[f].buf /\ q.st = "SHUTDOWN"
    BY <1>0, <2>2 DEF Shutdown, Queue, QueueState
  <2>6. rest' = [rest EXCEPT ![f] = r] /\ pushed' = [pushed EXCEPT ![f] = n]
    BY <2>3, <2>4 DEF TaskInv, TypeInv, TypeOK
  <2>7. r = << >>
    BY <1>0, <2>3, <2>4
  <2>8. w \in WorkerPc \ {"idle"} /\ w \in {"return", "rethrow"}
    BY <2>1 DEF WorkerPc
  <2>9. /\ Closed(q) <=> w \in {"return", "rethrow", "ok", "failed"}
        /\ ~Closed(q) => (q.st = "FULL" <=> Len(q.buf) = Capacity)
        /\ q.st = "EMPTY" => q.buf = << >>
        /\ r # << >> => w = "full"
        /\ Len(q.buf) <= Capacity /\ r \in Seq(Byte) /\ n \in 0..Len(plan[f].ends)
        /\ wpc[f] \notin {"idle", "ok", "failed"}
    BY <1>0, <2>3, <2>4, <2>5, <2>7, <2>8 DEF Closed
  <2>10. UNCHANGED <<plan, tc, ui, pc, mainVars, fileVars>>
    BY <2>4
  <2> QED
    BY <2>4, <2>5, <2>6, <2>8, <2>9, <2>10, WorkerMove
<1>4. CASE WorkerPush(f)
  <2>1. PICK data : data = IF wpc[f] = "full" THEN rest[f] ELSE NextBytes(f)
    OBVIOUS
  <2>2. PICK left : left = Unpushed(queue[f], data)
    OBVIOUS
  <2>3. PICK q : q = IF wpc[f] = "full" THEN PushRound(queue[f], data) ELSE Push(queue[f], data)
    OBVIOUS
  <2>4. PICK w : w = IF left = << >> THEN "run" ELSE "full"
    OBVIOUS
  <2>5. PICK n : n = IF wpc[f] = "full" THEN pushed[f] ELSE pushed[f] + 1
    OBVIOUS
  <2>6. /\ wpc[f] \in {"run", "full"}
        /\ wpc[f] = "run" => MorePushes(f)
        /\ wpc' = [wpc EXCEPT ![f] = w]
        /\ queue' = [queue EXCEPT ![f] = q]
        /\ rest' = [rest EXCEPT ![f] = left]
        /\ pushed' = [pushed EXCEPT ![f] = n]
        /\ UNCHANGED <<plan, tc, ui, pc, mainVars, fileVars>>
    <3>1. /\ wpc[f] \in {"run", "full"}
          /\ wpc[f] = "run" => MorePushes(f)
          /\ UNCHANGED <<plan, tc, ui, pc, mainVars, fileVars>>
      BY <1>4 DEF WorkerPush
    <3>2. /\ wpc' = [wpc EXCEPT ![f] = w]
          /\ rest' = [rest EXCEPT ![f] = left]
      BY <1>4, <2>1, <2>2, <2>4 DEF WorkerPush
    <3>3. /\ queue' = [queue EXCEPT ![f] = q]
          /\ pushed' = [pushed EXCEPT ![f] = n]
      BY <1>0, <1>4, <2>1, <2>3, <2>5 DEF WorkerPush
    <3> QED
      BY <3>1, <3>2, <3>3
  <2>7. data \in Seq(Byte) /\ n \in 0..Len(plan[f].ends)
    <3>1. Len(plan[f].ends) \in Nat
      BY <1>0, EndsFacts
    <3>2. wpc[f] = "run" => pushed[f] < Len(plan[f].ends) /\ NextBytes(f) \in Seq(Byte)
      BY <1>0, <2>6, NextBytesFacts DEF MorePushes
    <3> QED
      BY <1>0, <2>1, <2>5, <2>6, <3>1, <3>2
  <2>8. Takes(Byte, queue[f], data, q, left)
    <3>1. wpc[f] = "full" => Takes(Byte, queue[f], data, PushRound(queue[f], data), left)
      BY <1>0, <2>2, <2>7, PushRoundTakes
    <3>2. wpc[f] = "run" => Takes(Byte, queue[f], data, Push(queue[f], data), left)
      BY <1>0, <2>2, <2>7, PushTakes
    <3> QED
      BY <2>3, <2>6, <3>1, <3>2
  <2>9. w \in WorkerPc \ {"idle"} /\ w \in {"run", "full"} /\ (left # << >> => w = "full")
    BY <2>4 DEF WorkerPc
  <2>10. /\ q \in Queue(Byte) /\ left \in Seq(Byte) /\ Len(q.buf) <= Capacity /\ ~Closed(q)
         /\ q.st = "FULL" <=> Len(q.buf) = Capacity
         /\ q.st = "EMPTY" => q.buf = << >>
    <3>1. Len(queue[f].buf) \in Nat /\ Capacity \in Nat
      BY <1>0, LenProperties, CapacityAssumption DEF Queue
    <3> QED
      BY <2>8, <3>1 DEF Takes
  <2> QED
    BY <2>6, <2>7, <2>9, <2>10, WorkerMove
<1> QED
  BY <1>1, <1>2, <1>3, <1>4 DEF Proceed

-----------------------------------------------------------------------------
(* The task that is being written, and that it has not been reported. *)
LEMMA CurrentTask ==
  ASSUME TaskInv, pc \in Writing
  PROVE  /\ at \in 1..Len(tasks)
         /\ cur = tasks[at]
         /\ cur \in File
         /\ cur \in ToSet(tasks)
         /\ cur \notin ReportedIn(tc)
<1>1. tasks \in Seq(File) /\ at \in 1..Len(tasks) /\ cur = tasks[at]
  BY DEF TaskInv, TypeInv, TypeOK, VectorInv
<1>2. cur \in File /\ cur \in ToSet(tasks)
  BY <1>1, LenProperties, ElementOfSeq DEF ToSet
<1> QED
  BY <1>1, <1>2 DEF TaskInv, ReportInv

(* pop() of the queue of the task that is written keeps what WorkerInv     *)
(* says of it.                                                             *)
LEMMA PopStep ==
  ASSUME TaskInv, pc \in Writing,
         \/ UNCHANGED queue
         \/ queue' = [queue EXCEPT ![cur] = Pop(@)],
         UNCHANGED <<wpc, rest>>
  PROVE  /\ queue' \in [File -> Queue(Byte)]
         /\ \A f \in File : Len(queue'[f].buf) <= Capacity
         /\ WorkerInv'
<1>1. cur \in File /\ queue \in [File -> Queue(Byte)] /\ Capacity \in Nat \ {0}
  BY CurrentTask, CapacityAssumption DEF TaskInv, TypeInv
<1>2. CASE UNCHANGED queue
  BY <1>1, <1>2 DEF TaskInv, TypeInv, TypeOK, WorkerInv, Closed
<1>3. CASE queue' = [queue EXCEPT ![cur] = Pop(@)]
  <2>1. PICK q : q = Pop(queue[cur])
    OBVIOUS
  <2>2. q = [st |-> IF Closed(queue[cur]) THEN queue[cur].st ELSE "EMPTY", buf |-> << >>]
    BY <2>1 DEF Pop
  <2>3. /\ q \in Queue(Byte) /\ q.buf = << >> /\ Len(q.buf) = 0
        /\ Closed(q) <=> Closed(queue[cur])
        /\ ~Closed(q) => q.st = "EMPTY"
    BY <1>1, <2>2, EmptySeq DEF Queue, QueueState, Closed
  <2>4. queue' = [queue EXCEPT ![cur] = q]
    BY <1>3, <2>1
  <2>5. /\ queue' \in [File -> Queue(Byte)]
        /\ queue'[cur] = q
        /\ \A f \in File : f # cur => queue'[f] = queue[f]
    BY <1>1, <2>3, <2>4
  <2>6. \A f \in File : Len(queue'[f].buf) <= Capacity
    BY <1>1, <2>3, <2>5 DEF TaskInv, TypeInv, TypeOK
  <2>7. WorkerInv'
    BY <1>1, <2>3, <2>5 DEF TaskInv, WorkerInv, Closed
  <2> QED
    BY <2>5, <2>6, <2>7
<1> QED
  BY <1>2, <1>3

(* What a step of the packing thread may do to the archive and its own     *)
(* bookkeeping without harm.                                               *)
ArchiveTyped ==
  /\ archive' \in Seq(Cell) /\ disk' \in Seq(Cell)
  /\ {offset', start', pos', saved'} \subseteq Nat
  /\ saved' <= pos' /\ (saved' # pos' => pos' <= Len(archive'))
  /\ missed' \subseteq File
  /\ chs' \in Seq([file : File, offset : Nat, size : Nat])

(* Steps that do not write keep the types of the archive. *)
LEMMA ArchiveKept ==
  ASSUME TaskInv, UNCHANGED <<archive, pos, disk, saved, missed, offset, start, chs>>
  PROVE  ArchiveTyped
BY DEF TaskInv, TypeInv, TypeOK, ArchiveTyped

(* Reporting the task that is written and erasing it keeps the invariant,  *)
(* whatever was written of it.                                             *)
LEMMA EntryDoneStep ==
  ASSUME TaskInv, pc \in Writing, Ready(cur), ArchiveTyped,
         NEW ok \in BOOLEAN, NEW left, EntryDone(ok, left),
         UNCHANGED <<plan, ui, next, draining, want, at, cur, wpc, pushed, rest>>,
         \/ UNCHANGED queue
         \/ queue' = [queue EXCEPT ![cur] = Pop(@)]
  PROVE  TaskInv'
<1>1. /\ at \in 1..Len(tasks) /\ cur = tasks[at] /\ cur \in File
      /\ cur \in ToSet(tasks) /\ cur \notin ReportedIn(tc)
  BY CurrentTask
<1>2. /\ tasks \in Seq(File) /\ Distinct(tasks) /\ tc \in Control(File) /\ ReportedOnce(tc)
      /\ Len(tasks) \in Nat /\ Len(tasks) <= NumThreads /\ next \in Nat /\ NFiles \in Nat
      /\ NumThreads \in Nat /\ CountersAgree(tc)
  BY LenProperties, ZipAssumption DEF TaskInv, TypeInv, TypeOK, VectorInv, ReportInv
<1>3. /\ tasks' \in Seq(File)
      /\ Len(tasks') = Len(tasks) - 1
      /\ ToSet(tasks') = ToSet(tasks) \ {cur}
      /\ Distinct(tasks')
  BY <1>1, <1>2, RemoveDistinct DEF EntryDone
<1>4. tc' = AddReport(tc, cur, ok)
  BY DEF EntryDone, AddReport
<1>5. /\ tc' \in Control(File)
      /\ tc'.state = tc.state /\ tc'.total = tc.total
  BY <1>1, <1>2, <1>4, AddReportKeeps
<1>6. ui # "create" /\ tc.total = NFiles
  BY DEF TaskInv, PhaseInv, Writing
<1>7. Len(tc.results) < tc.total
  BY <1>1, <1>2, <1>6, RoomForReport DEF File
<1>8. /\ ReportedIn(tc') = ReportedIn(tc) \cup {cur}
      /\ ReportedOnce(tc')
      /\ CountersAgree(tc')
  BY <1>1, <1>2, <1>4, <1>7, AddReportKeeps
<1>9. pc' \in {"drain", "room", "aborted"} /\ (pc' = "drain" => draining) /\ (pc' = "room" => ~draining)
  BY DEF EntryDone, AfterPop
<1>10. TypeInv'
  <2>1. /\ queue' \in [File -> Queue(Byte)]
        /\ \A f \in File : Len(queue'[f].buf) <= Capacity
    BY PopStep
  <2>2. \A f \in File : queue'[f].st \in QueueState
    BY <2>1 DEF Queue
  <2>3. DOMAIN queue' = File
    BY <2>1
  <2>4. pc' \in MainPc
    BY <1>9 DEF MainPc
  <2> QED
    BY <1>3, <1>5, <2>1, <2>2, <2>3, <2>4 DEF TaskInv, TypeInv, TypeOK, ArchiveTyped
<1>11. WorkerInv'
  BY PopStep
<1>12. PhaseInv'
  BY <1>5, <1>6, <1>9 DEF TaskInv, PhaseInv, Writing, Streaming, Closing
<1>13. VectorInv'
  BY <1>2, <1>3, <1>9 DEF VectorInv, Writing, Closing
<1>14. ReportInv'
  <2>1. 1..(next - 1) = ToSet(tasks') \cup ReportedIn(tc')
    BY <1>1, <1>3, <1>8 DEF TaskInv, ReportInv
  <2>2. ToSet(tasks') \cap ReportedIn(tc') = {}
    BY <1>3, <1>8 DEF TaskInv, ReportInv
  <2>3. \A f \in ReportedIn(tc') : wpc[f] \in {"ok", "failed"}
    BY <1>8 DEF TaskInv, ReportInv, Ready
  <2> QED
    BY <1>8, <2>1, <2>2, <2>3 DEF TaskInv, ReportInv, Ready
<1> QED
  BY <1>10, <1>11, <1>12, <1>13, <1>14 DEF TaskInv

-----------------------------------------------------------------------------
(* A step of the packing thread that neither reports nor launches, and     *)
(* goes where PhaseInv and VectorInv allow.                                *)
LEMMA MainMove ==
  ASSUME TaskInv, ArchiveTyped,
         UNCHANGED <<plan, tc, ui, next, tasks, wpc, pushed, rest>>,
         \/ UNCHANGED queue
         \/ pc \in Writing /\ queue' = [queue EXCEPT ![cur] = Pop(@)],
         draining' \in BOOLEAN, want' \in {"FULL", "SHUTDOWN"},
         at' \in 1..NumThreads, cur' \in File \cup {0}, pc' \in MainPc,
         PhaseInv', VectorInv'
  PROVE  TaskInv'
<1>1. /\ queue' \in [File -> Queue(Byte)]
      /\ \A f \in File : Len(queue'[f].buf) <= Capacity
      /\ WorkerInv'
  <2>1. CASE UNCHANGED queue
    BY <2>1 DEF TaskInv, TypeInv, TypeOK, WorkerInv, Closed
  <2>2. CASE pc \in Writing /\ queue' = [queue EXCEPT ![cur] = Pop(@)]
    BY <2>2, PopStep
  <2> QED
    BY <2>1, <2>2
<1>2. TypeInv'
  <2>1. \A f \in File : queue'[f].st \in QueueState
    BY <1>1 DEF Queue
  <2>2. DOMAIN queue' = File
    BY <1>1
  <2> QED
    BY <1>1, <2>1, <2>2 DEF TaskInv, TypeInv, TypeOK, ArchiveTyped
<1>3. ReportInv'
  BY DEF TaskInv, ReportInv, Ready
<1> QED
  BY <1>1, <1>2, <1>3 DEF TaskInv

(* The next step of write_entry, of a worker that has succeeded. *)
LEMMA WritingGoesOn ==
  ASSUME TaskInv, ArchiveTyped, pc \in Writing, pc' \in Writing \ {"entry"}, wpc[cur] = "ok",
         pc' \in Streaming => start' <= pos',
         UNCHANGED <<plan, tc, ui, next, draining, tasks, want, at, cur, wpc, pushed, rest>>,
         \/ UNCHANGED queue
         \/ queue' = [queue EXCEPT ![cur] = Pop(@)]
  PROVE  TaskInv'
<1>1. PhaseInv'
  BY DEF TaskInv, PhaseInv, Writing, Streaming, Closing
<1>2. VectorInv'
  BY DEF TaskInv, VectorInv, Writing, Closing
<1>3. draining' \in BOOLEAN /\ want' \in {"FULL", "SHUTDOWN"} /\ at' \in 1..NumThreads /\ cur' \in File \cup {0}
  BY DEF TaskInv, TypeInv, TypeOK
<1>4. pc' \in MainPc
  BY DEF MainPc, Writing
<1> QED
  BY <1>1, <1>2, <1>3, <1>4, MainMove

(* More data move the position further behind their start. *)
LEMMA WriteAdvances ==
  ASSUME TaskInv, pc \in Streaming, NEW cells \in Seq(Cell), Write(cells), UNCHANGED start
  PROVE  start' <= pos'
<1>1. pos' = pos + Len(cells) /\ Len(cells) \in Nat
  BY LenProperties DEF Write
<1>2. start <= pos /\ start \in Nat /\ pos \in Nat
  BY LenProperties DEF TaskInv, TypeInv, TypeOK, PhaseInv
<1> QED
  BY <1>1, <1>2

(* What was written ends where the position is, and the archive holds it. *)
LEMMA WriteTyped ==
  ASSUME TaskInv, NEW cells \in Seq(Cell), Write(cells),
         offset' \in {offset, pos}, start' \in {start, pos'},
         chs' \in Seq([file : File, offset : Nat, size : Nat])
  PROVE  ArchiveTyped
<1>1. /\ archive' \in Seq(Cell)
      /\ pos' # saved' => pos' <= Len(archive')
      /\ pos \in Nat /\ pos' \in Nat /\ pos' >= pos
      /\ UNCHANGED <<disk, saved, missed>>
  BY WriteFacts DEF TaskInv
<1>2. {offset, start, pos, saved} \subseteq Nat /\ saved <= pos /\ disk \in Seq(Cell) /\ missed \subseteq File
  BY DEF TaskInv, TypeInv, TypeOK
<1> QED
  BY <1>1, <1>2 DEF ArchiveTyped

(* So it is when the stream has been flushed. *)
LEMMA OnDiskTyped ==
  ASSUME TaskInv, NEW a \in Seq(Cell), NEW p \in Nat, OnDisk(a, p),
         missed' \subseteq File, {offset', start'} \subseteq Nat,
         chs' \in Seq([file : File, offset : Nat, size : Nat])
  PROVE  ArchiveTyped
BY DEF OnDisk, ArchiveTyped

(* And after a write that fails. *)
LEMMA WriteFailsTyped ==
  ASSUME TaskInv, NEW cells \in Seq(Cell), WriteFails(cells),
         offset' \in {offset, pos}, UNCHANGED <<start, chs>>
  PROVE  ArchiveTyped
<1>1. /\ disk \in Seq(Cell) /\ saved \in Nat /\ {offset, start, pos} \subseteq Nat
      /\ missed \subseteq File /\ chs \in Seq([file : File, offset : Nat, size : Nat]) /\ TypeInv
  BY DEF TaskInv, TypeInv, TypeOK
<1>2. PICK part \in Seq(Cell) : OnDisk(Written(disk, saved, part), saved + Len(part))
  BY <1>1, WriteFailsFacts
<1>3. PICK a, p : a = Written(disk, saved, part) /\ p = saved + Len(part)
  OBVIOUS
<1>4. a \in Seq(Cell) /\ p \in Nat
  BY <1>1, <1>3, StoppedFacts
<1>5. UNCHANGED missed
  BY DEF WriteFails
<1> QED
  BY <1>1, <1>2, <1>3, <1>4, <1>5, OnDiskTyped

(* What the packing thread writes are cells. *)
LEMMA CellsTyped ==
  ASSUME TaskInv
  PROVE  /\ cur \in File => <<LocalHeader(cur, Placeholder)>> \in Seq(Cell)
         /\ cur \in File => queue[cur].buf \in Seq(Cell)
         /\ CentralDirectory \in Seq(Cell)
         /\ Len(CentralDirectory) = Len(chs)
         /\ <<Zip64End(Len(chs), offset, pos - offset), Zip64Locator(pos), EndRecord>> \in Seq(Cell)
<1>1. cur \in File => <<LocalHeader(cur, Placeholder)>> \in Seq(Cell)
  <2> SUFFICES ASSUME cur \in File PROVE LocalHeader(cur, Placeholder) \in Cell
    OBVIOUS
  <2>1. LocalHeader(cur, Placeholder) \in Header
    BY DEF LocalHeader, Header
  <2> QED
    BY <2>1 DEF Cell
<1>2. cur \in File => queue[cur].buf \in Seq(Cell)
  <2> SUFFICES ASSUME cur \in File PROVE queue[cur].buf \in Seq(Cell)
    OBVIOUS
  <2>1. queue[cur].buf \in Seq(Byte)
    BY DEF TaskInv, TypeInv, Queue
  <2>2. PICK b : b = queue[cur].buf
    OBVIOUS
  <2>3. Byte \subseteq Cell
    BY DEF Cell
  <2> QED
    BY <2>1, <2>2, <2>3, SeqMonotonic
<1>3. CentralDirectory \in Seq(Cell) /\ Len(CentralDirectory) = Len(chs)
  <2>1. chs \in Seq([file : File, offset : Nat, size : Nat]) /\ Len(chs) \in Nat
    BY LenProperties DEF TaskInv, TypeInv, TypeOK
  <2>2. \A i \in 1..Len(chs) : CentralHeader(chs[i]) \in Cell
    <3> TAKE i \in 1..Len(chs)
    <3>1. PICK ch : ch = chs[i]
      OBVIOUS
    <3>2. ch \in [file : File, offset : Nat, size : Nat]
      BY <2>1, <3>1, ElementOfSeq
    <3>3. CentralHeader(ch) \in Trailer
      BY <3>2 DEF CentralHeader, Trailer
    <3> QED
      BY <3>1, <3>3 DEF Cell
  <2> QED
    BY <2>1, <2>2, IsASeq, LenProperties DEF CentralDirectory
<1>4. <<Zip64End(Len(chs), offset, pos - offset), Zip64Locator(pos), EndRecord>> \in Seq(Cell)
  <2>1. offset \in Nat /\ pos \in Nat /\ pos - offset \in Int /\ Len(chs) \in Nat
    BY LenProperties DEF TaskInv, TypeInv, TypeOK
  <2>2. PICK a, b, c : a = Zip64End(Len(chs), offset, pos - offset) /\ b = Zip64Locator(pos) /\ c = EndRecord
    OBVIOUS
  <2>3. a \in Cell
    <3>1. a \in Trailer
      BY <2>1, <2>2 DEF Zip64End, Trailer
    <3> QED
      BY <3>1 DEF Cell
  <2>4. b \in Cell /\ c \in Cell
    <3>1. b \in Trailer /\ c \in Trailer
      BY <2>1, <2>2 DEF Zip64Locator, Trailer
    <3> QED
      BY <3>1 DEF Cell
  <2>5. <<a, b, c>> \in Seq(Cell)
    BY <2>3, <2>4
  <2> QED
    BY <2>2, <2>5
<1> QED
  BY <1>1, <1>2, <1>3, <1>4

-----------------------------------------------------------------------------
(* A part of the archive without an end record. *)
NoEnd(a) == \A i \in 1..Len(a) : a[i].kind # "end"

Endless == {a \in Seq(Cell) : NoEnd(a)}

(* Where the header may go if the first seek fails. *)
LEMMA UnmovedFacts ==
  ASSUME TypeInv, NEW to \in Unmoved
  PROVE  /\ to.file \in Seq(Cell)
         /\ to.at \in Nat /\ to.at >= saved
         /\ Len(to.file) \in Nat /\ Len(to.file) >= Len(disk)
         /\ \A i \in 1..Len(disk) : i <= saved => to.file[i] = disk[i]
<1>1. PICK part \in Beginnings(Unsaved) : to = [file |-> Written(disk, saved, part), at |-> saved + Len(part)]
  BY DEF Unmoved
<1>2. to.file = Written(disk, saved, part) /\ to.at = saved + Len(part)
  BY <1>1
<1>3. part \in Seq(Cell)
  <2>1. PICK u : u = Unsaved
    OBVIOUS
  <2> QED
    BY <1>1, <2>1, UnsavedFacts, BeginningFacts
<1>4. disk \in Seq(Cell) /\ saved \in Nat
  BY DEF TypeInv, TypeOK
<1> QED
  BY <1>2, <1>3, <1>4, StoppedFacts

(* The header of the entry in progress. *)
LEMMA NewHeaderTyped ==
  ASSUME TaskInv, pc = "fix"
  PROVE  /\ NewCentral \in [file : File, offset : Nat, size : Nat]
         /\ NewCentral.file = cur /\ NewCentral.offset = offset /\ NewCentral.size = pos - start
         /\ LocalHeader(cur, NewCentral.size) \in Cell
         /\ NewHeader = <<LocalHeader(cur, NewCentral.size)>>
         /\ NewHeader \in Seq(Cell) /\ Len(NewHeader) = 1
<1>1. cur \in File /\ offset \in Nat /\ start \in Nat /\ pos \in Nat /\ start <= pos
  BY CurrentTask DEF TaskInv, TypeInv, TypeOK, PhaseInv, Streaming, Writing
<1>2. NewCentral = [file |-> cur, offset |-> offset, size |-> pos - start] /\ pos - start \in Nat
  BY <1>1 DEF NewCentral
<1>3. NewCentral.file = cur /\ NewCentral.offset = offset /\ NewCentral.size = pos - start
  BY <1>2
<1>4. NewCentral \in [file : File, offset : Nat, size : Nat]
  BY <1>1, <1>2
<1>5. PICK n \in Nat : n = NewCentral.size
  BY <1>2, <1>3
<1>6. LocalHeader(cur, n) \in Cell
  <2>1. LocalHeader(cur, n) \in Header
    BY <1>1 DEF LocalHeader, Header
  <2> QED
    BY <2>1 DEF Cell
<1>7. PICK h \in Cell : h = LocalHeader(cur, n)
  BY <1>6
<1>8. NewHeader = <<h>> /\ <<h>> \in Seq(Cell) /\ Len(<<h>>) = 1
  BY <1>5, <1>7 DEF NewHeader
<1> QED
  BY <1>3, <1>4, <1>5, <1>6, <1>7, <1>8

(* However the header is rewritten, the stream is flushed then, and the    *)
(* entry is listed just when it is reported as a success.                  *)
LEMMA FixOutcome ==
  ASSUME TaskInv, FixHeader \/ FixHeaderUnnoticed
  PROVE  /\ pc = "fix"
         /\ UNCHANGED <<plan, ui, next, draining, want, at, cur, offset, start>>
         /\ UNCHANGED <<queue, wpc, pushed, rest>>
         /\ missed' \in {missed, missed \cup {cur}}
         /\ \/ EntryDone(TRUE, queue[cur].buf) /\ chs' = Append(chs, NewCentral)
            \/ EntryDone(FALSE, queue[cur].buf) /\ UNCHANGED chs
         /\ \/ OnDisk(Written(archive, offset, NewHeader), pos)
            \/ \E part \in Endless : OnDisk(Written(archive, offset, part), offset + Len(part))
            \/ \E to \in Unmoved : OnDisk(Written(to.file, to.at, NewHeader), pos)
            \/ \E to \in Unmoved, part \in Endless : OnDisk(Written(to.file, to.at, part), to.at + Len(part))
<1>1. pc = "fix"
  BY DEF FixHeader, FixHeaderUnnoticed
<1>2. \A part \in Beginnings(NewHeader) : part \in Endless
  <2>1. PICK h \in Seq(Cell) : h = NewHeader /\ h = <<LocalHeader(cur, NewCentral.size)>> /\ Len(h) = 1
    BY <1>1, NewHeaderTyped
  <2> SUFFICES ASSUME NEW part \in Beginnings(h) PROVE part \in Endless
    BY <2>1
  <2>2. /\ part \in Seq(Cell) /\ Len(part) \in 0..Len(h)
        /\ \A i \in 1..Len(part) : part[i] = Torn \/ (part[i] = h[i] /\ i < Len(h))
    BY BeginningFacts
  <2>3. \A i \in 1..Len(part) : part[i] = Torn
    BY <2>1, <2>2
  <2> QED
    BY <2>2, <2>3 DEF Endless, NoEnd, Torn
<1>3. Moved.file = archive /\ Moved.at = offset
  BY DEF Moved
<1>4. CASE FixHeader
  BY <1>1, <1>2, <1>4 DEF FixHeader, workVars
<1>5. CASE FixHeaderUnnoticed
  <2>1. /\ UNCHANGED <<plan, ui, next, draining, want, at, cur, offset, start>>
        /\ UNCHANGED <<queue, wpc, pushed, rest>>
        /\ missed' = missed \cup {cur}
        /\ \/ EntryDone(TRUE, queue[cur].buf) /\ chs' = Append(chs, NewCentral)
           \/ EntryDone(FALSE, queue[cur].buf) /\ UNCHANGED chs
    BY <1>5 DEF FixHeaderUnnoticed, workVars
  <2>2. \/ \E to \in Unmoved : OnDisk(Written(to.file, to.at, NewHeader), pos)
        \/ \E to \in Unmoved \cup {Moved}, part \in Beginnings(NewHeader) :
             OnDisk(Written(to.file, to.at, part), to.at + Len(part))
    BY <1>5 DEF FixHeaderUnnoticed
  <2>3. CASE \E to \in Unmoved \cup {Moved}, part \in Beginnings(NewHeader) :
               OnDisk(Written(to.file, to.at, part), to.at + Len(part))
    BY <1>1, <1>2, <1>3, <2>1, <2>3
  <2> QED
    BY <1>1, <2>1, <2>2, <2>3
<1> QED
  BY <1>4, <1>5

(* Every step of write_entry keeps the invariant. *)
LEMMA WriteEntryStep ==
  ASSUME TaskInv, WriteEntry
  PROVE  TaskInv'
<1>0. /\ pc \in Writing
      /\ cur \in File
      /\ chs \in Seq([file : File, offset : Nat, size : Nat])
  <2>1. pc \in Writing
    BY DEF WriteEntry, GetResult, WriteHeader, WriteData, CheckState, WriteLast, FixHeader,
           FixHeaderUnnoticed, Writing
  <2> QED
    BY <2>1, CurrentTask DEF TaskInv, TypeInv, TypeOK
<1>1. pc # "entry" => wpc[cur] = "ok" /\ Ready(cur)
  BY <1>0 DEF TaskInv, VectorInv, Ready
<1>2. CASE GetResult
  <2>1. ArchiveTyped
    <3>1. offset' = pos /\ UNCHANGED <<archive, disk, saved, missed, start, pos, chs>>
      BY <1>2 DEF GetResult, fileVars
    <3> QED
      BY <3>1 DEF TaskInv, TypeInv, TypeOK, ArchiveTyped
  <2>2. CASE wpc[cur] = "ok"
    <3>1. /\ pc' = "header"
          /\ UNCHANGED <<plan, tc, ui, next, draining, tasks, want, at, cur, wpc, pushed, rest>>
          /\ UNCHANGED queue
      BY <1>2, <2>2 DEF GetResult, workVars
    <3>2. pc' \in Writing \ {"entry"} /\ pc' \notin Streaming
      BY <3>1 DEF Writing, Streaming
    <3> QED
      BY <1>0, <2>1, <2>2, <3>1, <3>2, WritingGoesOn
  <2>3. CASE wpc[cur] # "ok"
    <3>1. /\ Ready(cur) /\ EntryDone(FALSE, queue[cur].buf)
          /\ UNCHANGED <<plan, ui, next, draining, want, at, cur, wpc, pushed, rest>>
          /\ UNCHANGED queue
      BY <1>2, <2>3 DEF GetResult, workVars
    <3> QED
      BY <1>0, <2>1, <3>1, EntryDoneStep
  <2> QED
    BY <2>2, <2>3
<1>3. CASE WriteHeader
  <2>1. PICK cells : cells = <<LocalHeader(cur, Placeholder)>>
    OBVIOUS
  <2>2. cells \in Seq(Cell)
    BY <1>0, <2>1, CellsTyped
  <2>3. /\ pc = "header" /\ UNCHANGED queue /\ UNCHANGED <<offset, chs>>
        /\ UNCHANGED <<plan, ui, next, draining, want, at, cur, wpc, pushed, rest>>
    BY <1>3 DEF WriteHeader, workVars
  <2>4. CASE Write(cells) /\ pc' = "data" /\ start' = pos' /\ UNCHANGED <<tc, tasks>>
    <3>1. ArchiveTyped
      BY <1>0, <2>2, <2>3, <2>4, WriteTyped
    <3>2. pc' \in Writing \ {"entry"} /\ start' <= pos'
      <4>1. pos' \in Nat
        BY <2>2, <2>4, WriteFacts DEF TaskInv
      <4> QED
        BY <2>4, <4>1 DEF Writing
    <3>3. UNCHANGED <<plan, tc, ui, next, draining, tasks, want, at, cur, wpc, pushed, rest>>
      BY <2>3, <2>4
    <3> QED
      BY <1>0, <1>1, <2>3, <3>1, <3>2, <3>3, WritingGoesOn
  <2>5. CASE WriteFails(cells) /\ EntryDone(FALSE, queue[cur].buf) /\ UNCHANGED start
    <3>1. ArchiveTyped
      BY <2>2, <2>3, <2>5, WriteFailsTyped
    <3> QED
      BY <1>0, <1>1, <2>3, <2>5, <3>1, EntryDoneStep
  <2> QED
    BY <1>3, <2>1, <2>4, <2>5 DEF WriteHeader
<1>4. CASE WriteData
  <2>1. PICK cells : cells = queue[cur].buf
    OBVIOUS
  <2>2. cells \in Seq(Cell)
    BY <1>0, <2>1, CellsTyped
  <2>3. /\ pc = "data" /\ queue' = [queue EXCEPT ![cur] = Pop(@)]
        /\ UNCHANGED <<offset, start, chs>>
        /\ UNCHANGED <<plan, ui, next, draining, want, at, cur, wpc, pushed, rest>>
    BY <1>4 DEF WriteData
  <2>4. CASE Write(cells) /\ pc' = "check" /\ UNCHANGED <<tc, tasks>>
    <3>1. ArchiveTyped
      BY <1>0, <2>2, <2>3, <2>4, WriteTyped
    <3>2. pc' \in Writing \ {"entry"} /\ start' <= pos'
      <4>1. pc' \in Writing \ {"entry"} /\ start' = start /\ pc \in Streaming
        BY <2>3, <2>4 DEF Writing, Streaming
      <4> QED
        BY <2>2, <2>4, <4>1, WriteAdvances
    <3>3. UNCHANGED <<plan, tc, ui, next, draining, tasks, want, at, cur, wpc, pushed, rest>>
      BY <2>3, <2>4
    <3> QED
      BY <1>0, <1>1, <2>3, <3>1, <3>2, <3>3, WritingGoesOn
  <2>5. CASE WriteFails(cells) /\ EntryDone(FALSE, << >>)
    <3>1. ArchiveTyped
      BY <2>2, <2>3, <2>5, WriteFailsTyped
    <3> QED
      BY <1>0, <1>1, <2>3, <2>5, <3>1, EntryDoneStep
  <2> QED
    BY <1>4, <2>1, <2>4, <2>5 DEF WriteData
<1>5. CASE CheckState
  <2>1. /\ pc = "check" /\ pc' \in {"data", "lastpop"}
        /\ UNCHANGED <<archive, pos, disk, saved, missed, offset, start, chs>> /\ UNCHANGED queue
        /\ UNCHANGED <<plan, tc, ui, next, draining, tasks, want, at, cur, wpc, pushed, rest>>
    BY <1>5 DEF CheckState, mainVars, fileVars, workVars
  <2>2. pc' \in Writing \ {"entry"} /\ start' <= pos'
    <3>1. pc \in Streaming
      BY <2>1 DEF Streaming
    <3> QED
      BY <2>1, <3>1 DEF TaskInv, PhaseInv, Writing
  <2>3. ArchiveTyped
    BY <2>1, ArchiveKept
  <2> QED
    BY <1>0, <1>1, <2>1, <2>2, <2>3, WritingGoesOn
<1>6. CASE WriteLast
  <2>1. /\ pc = "lastpop" /\ pc' = "fix" /\ queue' = [queue EXCEPT ![cur] = Pop(@)]
        /\ Write(queue[cur].buf) /\ UNCHANGED <<offset, start, chs>>
        /\ UNCHANGED <<plan, tc, ui, next, draining, tasks, want, at, cur, wpc, pushed, rest>>
    BY <1>6 DEF WriteLast, mainVars
  <2>2. ArchiveTyped
    BY <1>0, <2>1, CellsTyped, WriteTyped
  <2>3. pc' \in Writing \ {"entry"} /\ start' <= pos'
    <3>1. pc \in Streaming /\ start' = start /\ queue[cur].buf \in Seq(Cell)
      BY <1>0, <2>1, CellsTyped DEF Streaming
    <3>2. start' <= pos'
      BY <2>1, <3>1, WriteAdvances
    <3> QED
      BY <2>1, <3>2 DEF Writing
  <2> QED
    BY <1>0, <1>1, <2>1, <2>2, <2>3, WritingGoesOn
<1>7. CASE FixHeader \/ FixHeaderUnnoticed
  <2>1. /\ pc = "fix" /\ UNCHANGED queue /\ UNCHANGED <<offset, start>>
        /\ UNCHANGED <<plan, ui, next, draining, want, at, cur, wpc, pushed, rest>>
        /\ missed' \in {missed, missed \cup {cur}}
        /\ \/ EntryDone(TRUE, queue[cur].buf) /\ chs' = Append(chs, NewCentral)
           \/ EntryDone(FALSE, queue[cur].buf) /\ UNCHANGED chs
    BY <1>7, FixOutcome
  <2>2. /\ archive \in Seq(Cell) /\ {offset, start, pos} \subseteq Nat /\ missed \subseteq File /\ TypeInv
        /\ NewHeader \in Seq(Cell)
    BY <2>1, NewHeaderTyped DEF TaskInv, TypeInv, TypeOK
  <2>3. \E a \in Seq(Cell), p \in Nat : OnDisk(a, p)
    <3>1. CASE OnDisk(Written(archive, offset, NewHeader), pos)
      BY <2>2, <3>1, StoppedFacts
    <3>2. CASE \E part \in Seq(Cell) : OnDisk(Written(archive, offset, part), offset + Len(part))
      BY <2>2, <3>2, StoppedFacts
    <3>3. CASE \E to \in Unmoved : OnDisk(Written(to.file, to.at, NewHeader), pos)
      <4>1. PICK to \in Unmoved : OnDisk(Written(to.file, to.at, NewHeader), pos)
        BY <3>3
      <4>2. PICK a \in Seq(Cell), p \in Nat : a = to.file /\ p = to.at
        BY <2>2, UnmovedFacts
      <4> QED
        BY <2>2, <4>1, <4>2, StoppedFacts
    <3>4. CASE \E to \in Unmoved, part \in Seq(Cell) : OnDisk(Written(to.file, to.at, part), to.at + Len(part))
      <4>1. PICK to \in Unmoved, part \in Seq(Cell) : OnDisk(Written(to.file, to.at, part), to.at + Len(part))
        BY <3>4
      <4>2. PICK a \in Seq(Cell), p \in Nat : a = to.file /\ p = to.at
        BY <2>2, UnmovedFacts
      <4> QED
        BY <2>2, <4>1, <4>2, StoppedFacts
    <3> QED
      BY <1>7, <3>1, <3>2, <3>3, <3>4, FixOutcome DEF Endless
  <2>4. chs' \in Seq([file : File, offset : Nat, size : Nat])
    <3>1. PICK ch \in [file : File, offset : Nat, size : Nat] : ch = NewCentral
      BY <2>1, NewHeaderTyped
    <3>2. Append(chs, ch) \in Seq([file : File, offset : Nat, size : Nat])
      BY <1>0, AppendProperties
    <3> QED
      BY <1>0, <2>1, <3>1, <3>2
  <2>5. missed' \subseteq File
    BY <1>0, <2>1, <2>2
  <2>6. ArchiveTyped
    BY <2>1, <2>2, <2>3, <2>4, <2>5, OnDiskTyped
  <2> QED
    BY <1>0, <1>1, <2>1, <2>6, EntryDoneStep
<1> QED
  BY <1>2, <1>3, <1>4, <1>5, <1>6, <1>7 DEF WriteEntry

-----------------------------------------------------------------------------
(* Launching a task: it is the next file, which is not a task yet. *)
LEMMA LaunchStep ==
  ASSUME TaskInv, LaunchTask, Len(tasks) < NumThreads
  PROVE  TaskInv'
<1>1. /\ pc = "room" /\ pc' = "next" /\ next' = next + 1
      /\ tasks' = Append(tasks, next)
      /\ wpc' = [wpc EXCEPT ![next] = "run"]
      /\ UNCHANGED <<plan, tc, ui, draining, want, at, cur, offset, start, chs, archive, pos, disk, saved, missed>>
      /\ UNCHANGED <<queue, pushed, rest>>
  <2>1. ~(Len(tasks) >= NumThreads)
    BY LenProperties, ZipAssumption DEF TaskInv, TypeInv, TypeOK
  <2> QED
    BY <2>1 DEF LaunchTask, fileVars
<1>2. /\ ~draining /\ next <= NFiles /\ next \in 1..(NFiles + 1) /\ NFiles \in Nat
      /\ next \in File /\ tasks \in Seq(File) /\ Distinct(tasks) /\ Len(tasks) \in Nat
      /\ tc \in Control(File)
  BY <1>1, LenProperties, ZipAssumption DEF TaskInv, TypeInv, TypeOK, PhaseInv, VectorInv, File
<1>3. next \notin ToSet(tasks) \cup ReportedIn(tc)
  BY <1>2 DEF TaskInv, ReportInv
<1>4. /\ tasks' \in Seq(File)
      /\ Len(tasks') = Len(tasks) + 1
      /\ ToSet(tasks') = ToSet(tasks) \cup {next}
      /\ Distinct(tasks')
  BY <1>1, <1>2, <1>3, AppendDistinct
<1>5. /\ wpc' \in [File -> WorkerPc] /\ wpc'[next] = "run"
      /\ \A f \in File : f # next => wpc'[f] = wpc[f]
  BY <1>1, <1>2 DEF TaskInv, TypeInv, TypeOK, WorkerPc
<1>6. wpc[next] = "idle"
  BY <1>2 DEF TaskInv, ReportInv
<1>7. TypeInv'
  BY <1>1, <1>2, <1>4, <1>5, SMTT(40) DEF TaskInv, TypeInv, TypeOK, MainPc
<1>8. WorkerInv'
  BY <1>1, <1>5, <1>6 DEF TaskInv, WorkerInv, Closed
<1>9. PhaseInv'
  BY <1>1, <1>2 DEF TaskInv, PhaseInv, Writing, Streaming, Closing
<1>10. VectorInv'
  <2>1. NumThreads \in Nat
    BY ZipAssumption
  <2> QED
    BY <1>1, <1>2, <1>4, <2>1 DEF VectorInv, Writing, Closing
<1>11. ReportInv'
  <2>1. 1..(next' - 1) = ToSet(tasks') \cup ReportedIn(tc)
    BY <1>1, <1>2, <1>4 DEF TaskInv, ReportInv
  <2>2. ToSet(tasks') \cap ReportedIn(tc) = {}
    BY <1>3, <1>4 DEF TaskInv, ReportInv
  <2>3. \A f \in File : wpc'[f] = "idle" <=> f >= next'
    BY <1>1, <1>2, <1>5 DEF TaskInv, ReportInv, File
  <2>4. \A f \in ReportedIn(tc) : wpc'[f] \in {"ok", "failed"}
    <3>1. ReportedIn(tc) \subseteq File
      BY <1>2, CountReported DEF TaskInv, ReportInv
    <3> QED
      BY <1>3, <1>5, <3>1 DEF TaskInv, ReportInv, Ready
  <2> QED
    BY <1>1, <2>1, <2>2, <2>3, <2>4 DEF TaskInv, ReportInv, Ready
<1> QED
  BY <1>7, <1>8, <1>9, <1>10, <1>11 DEF TaskInv

(* fclose writes what the stream holds, or a beginning of it. *)
LEMMA FinishOutcome ==
  ASSUME TypeInv, SetFinished
  PROVE  \/ pc' = "returned" /\ OnDisk(archive, pos)
         \/ /\ pc' = "short" /\ "flush" \in Faults
            /\ \E part \in Seq(Cell) :
                 /\ OnDisk(Written(disk, saved, part), saved + Len(part))
                 /\ \A i \in 1..Len(part) :
                      part[i] = Torn \/ (saved + i \in 1..Len(archive) /\ saved + i < pos
                                         /\ part[i] = archive[saved + i])
<1>1. CASE pc' = "returned" /\ OnDisk(archive, pos)
  BY <1>1
<1>2. CASE /\ pc' = "short" /\ "flush" \in Faults
           /\ \E part \in Beginnings(Unsaved) : OnDisk(Written(disk, saved, part), saved + Len(part))
  <2>1. PICK part \in Beginnings(Unsaved) : OnDisk(Written(disk, saved, part), saved + Len(part))
    BY <1>2
  <2>2. PICK u : u = Unsaved
    OBVIOUS
  <2>3. /\ u \in Seq(Cell) /\ Len(u) = pos - saved
        /\ \A i \in 1..Len(u) : saved + i \in 1..Len(archive) /\ u[i] = archive[saved + i]
    BY <2>2, UnsavedFacts
  <2>4. /\ part \in Seq(Cell) /\ Len(part) \in 0..Len(u)
        /\ \A i \in 1..Len(part) : part[i] = Torn \/ (part[i] = u[i] /\ i < Len(u))
    BY <2>1, <2>2, <2>3, BeginningFacts
  <2>5. pos \in Nat /\ saved \in Nat /\ saved <= pos
    BY DEF TypeInv, TypeOK
  <2>6. \A i \in 1..Len(part) : part[i] = Torn \/ (saved + i \in 1..Len(archive) /\ saved + i < pos
                                                     /\ part[i] = archive[saved + i])
    BY <2>3, <2>4, <2>5
  <2> QED
    BY <1>2, <2>1, <2>4, <2>6
<1> QED
  BY <1>1, <1>2 DEF SetFinished

(* Either way what it leaves is an archive. *)
LEMMA FinishTyped ==
  ASSUME TaskInv, SetFinished, UNCHANGED <<missed, offset, start, chs>>
  PROVE  ArchiveTyped
<1>1. /\ archive \in Seq(Cell) /\ disk \in Seq(Cell) /\ {offset, start, pos, saved} \subseteq Nat
      /\ missed \subseteq File /\ chs \in Seq([file : File, offset : Nat, size : Nat]) /\ TypeInv
  BY DEF TaskInv, TypeInv, TypeOK
<1>2. \E a \in Seq(Cell), p \in Nat : OnDisk(a, p)
  <2>1. CASE OnDisk(archive, pos)
    BY <1>1, <2>1
  <2>2. CASE \E part \in Seq(Cell) : OnDisk(Written(disk, saved, part), saved + Len(part))
    BY <1>1, <2>2, StoppedFacts
  <2> QED
    BY <1>1, <2>1, <2>2, FinishOutcome
<1> QED
  BY <1>1, <1>2, OnDiskTyped

(* Every other step of run() keeps the invariant. *)
LEMMA MainStep ==
  ASSUME TaskInv, Main
  PROVE  TaskInv'
<1>0. /\ draining \in BOOLEAN /\ want \in {"FULL", "SHUTDOWN"} /\ at \in 1..NumThreads
      /\ cur \in File \cup {0} /\ tasks \in Seq(File) /\ Len(tasks) \in Nat
      /\ Len(tasks) <= NumThreads /\ NumThreads \in Nat \ {0}
      /\ tasks # << >> => Len(tasks) > 0
  BY LenProperties, EmptySeq, ZipAssumption DEF TaskInv, TypeInv, TypeOK, VectorInv
<1>1. CASE OpenOutput
  <2>1. /\ pc = "open" /\ pc' \in {"next", "threw"}
        /\ UNCHANGED <<plan, tc, ui, next, tasks, wpc, pushed, rest, queue, draining, want, at, cur>>
        /\ UNCHANGED <<archive, pos, disk, saved, missed, offset, start, chs>>
    BY <1>1 DEF OpenOutput, mainVars, fileVars, workVars
  <2>2. PhaseInv'
    BY <2>1 DEF TaskInv, PhaseInv, Writing, Streaming, Closing
  <2>3. VectorInv'
    BY <2>1 DEF TaskInv, VectorInv, Writing, Closing
  <2> QED
    BY <1>0, <2>1, <2>2, <2>3, ArchiveKept, MainMove DEF MainPc
<1>2. CASE NextFile
  <2>1. /\ pc = "next"
        /\ UNCHANGED <<plan, tc, ui, next, tasks, wpc, pushed, rest, queue, want, at, cur>>
        /\ UNCHANGED <<archive, pos, disk, saved, missed, offset, start, chs>>
        /\ \/ pc' = "drain" /\ draining' = TRUE
           \/ pc' = "room" /\ draining' = draining /\ ~(next > NFiles)
    BY <1>2 DEF NextFile, fileVars, workVars
  <2>2. PhaseInv'
    <3>1. next \in Int /\ NFiles \in Int
      BY ZipAssumption DEF TaskInv, TypeInv, TypeOK
    <3> QED
      BY <2>1, <3>1 DEF TaskInv, PhaseInv, Writing, Streaming, Closing
  <2>3. VectorInv'
    BY <2>1 DEF TaskInv, VectorInv, Writing, Closing
  <2>4. draining' \in BOOLEAN
    BY <1>0, <2>1
  <2> QED
    BY <1>0, <2>1, <2>2, <2>3, <2>4, ArchiveKept, MainMove DEF MainPc
<1>3. CASE LaunchTask
  <2>1. CASE Len(tasks) < NumThreads
    BY <1>3, <2>1, LaunchStep
  <2>2. CASE Len(tasks) >= NumThreads
    <3>1. /\ pc = "room" /\ pc' = "pop"
          /\ UNCHANGED <<plan, tc, ui, next, tasks, wpc, pushed, rest, queue, draining, want, at, cur>>
          /\ UNCHANGED <<archive, pos, disk, saved, missed, offset, start, chs>>
      BY <1>3, <2>2 DEF LaunchTask, fileVars
    <3>2. PhaseInv'
      BY <3>1 DEF TaskInv, PhaseInv, Writing, Streaming, Closing
    <3>3. tasks # << >>
      BY <1>0, <2>2, EmptySeq
    <3>4. VectorInv'
      BY <3>1, <3>3 DEF TaskInv, VectorInv, Writing, Closing
    <3> QED
      BY <1>0, <3>1, <3>2, <3>4, ArchiveKept, MainMove DEF MainPc
  <2> QED
    BY <1>0, <2>1, <2>2
<1>4. CASE DrainTasks
  <2>1. /\ pc = "drain" /\ pc' = IF tasks = << >> THEN "finish" ELSE "pop"
        /\ UNCHANGED <<plan, tc, ui, next, tasks, wpc, pushed, rest, queue, draining, want, at, cur>>
        /\ UNCHANGED <<archive, pos, disk, saved, missed, offset, start, chs>>
    BY <1>4 DEF DrainTasks, mainVars, fileVars, workVars
  <2>2. PhaseInv'
    BY <2>1 DEF TaskInv, PhaseInv, Writing, Streaming, Closing
  <2>3. VectorInv'
    BY <2>1 DEF TaskInv, VectorInv, Writing, Closing
  <2> QED
    BY <1>0, <2>1, <2>2, <2>3, ArchiveKept, MainMove DEF MainPc
<1>5. CASE PopFuture
  <2>1. /\ pc = "pop"
        /\ \/ /\ pc' = IF draining THEN "drain" ELSE "room"
              /\ UNCHANGED <<want, at>>
           \/ pc' = "scan" /\ want' = "FULL" /\ at' = 1
        /\ UNCHANGED <<plan, tc, ui, next, tasks, wpc, pushed, rest, queue, draining, cur>>
        /\ UNCHANGED <<archive, pos, disk, saved, missed, offset, start, chs>>
    BY <1>5 DEF PopFuture, AfterPop, fileVars, workVars
  <2>2. PhaseInv'
    BY <2>1 DEF TaskInv, PhaseInv, Writing, Streaming, Closing
  <2>3. VectorInv'
    <3>1. tasks # << >>
      BY <2>1 DEF TaskInv, VectorInv
    <3> QED
      BY <1>0, <2>1, <3>1 DEF TaskInv, VectorInv, Writing, Closing
  <2> QED
    BY <1>0, <2>1, <2>2, <2>3, ArchiveKept, MainMove DEF MainPc
<1>6. CASE ScanTask
  <2>1. /\ pc = "scan"
        /\ \/ pc' = "entry" /\ cur' = tasks[at] /\ UNCHANGED <<want, at>>
           \/ at < Len(tasks) /\ pc' = "scan" /\ at' = at + 1 /\ UNCHANGED <<want, cur>>
           \/ pc' = "scan" /\ at' = 1 /\ want' = "SHUTDOWN" /\ UNCHANGED cur
           \/ pc' = "pop" /\ UNCHANGED <<want, at, cur>>
        /\ UNCHANGED <<plan, tc, ui, next, tasks, wpc, pushed, rest, queue, draining>>
        /\ UNCHANGED <<archive, pos, disk, saved, missed, offset, start, chs>>
    BY <1>6 DEF ScanTask, fileVars, workVars
  <2>2. PhaseInv'
    BY <2>1 DEF TaskInv, PhaseInv, Writing, Streaming, Closing
  <2>3. at \in 1..Len(tasks) /\ tasks[at] \in File /\ tasks # << >>
    <3>1. at \in 1..Len(tasks)
      BY <2>1 DEF TaskInv, VectorInv
    <3> QED
      BY <1>0, <3>1, ElementOfSeq, EmptySeq
  <2>4. VectorInv'
    BY <1>0, <2>1, <2>3 DEF TaskInv, VectorInv, Writing, Closing
  <2>5. at' \in 1..NumThreads /\ want' \in {"FULL", "SHUTDOWN"} /\ cur' \in File \cup {0} /\ pc' \in MainPc
    BY <1>0, <2>1, <2>3 DEF MainPc
  <2> QED
    BY <1>0, <2>1, <2>2, <2>4, <2>5, ArchiveKept, MainMove
<1>7. CASE WriteEntry
  BY <1>7, WriteEntryStep
<1>8. CASE Finish
  <2>1. /\ pc = "finish" /\ pc' \in {"threw", "finished", "central"}
        /\ UNCHANGED <<plan, tc, ui, next, tasks, wpc, pushed, rest, queue, draining, want, at, cur>>
        /\ UNCHANGED <<archive, pos, disk, saved, missed, offset, start, chs>>
    BY <1>8 DEF Finish, mainVars, fileVars, workVars
  <2>2. PhaseInv'
    BY <2>1 DEF TaskInv, PhaseInv, Writing, Streaming, Closing
  <2>3. VectorInv'
    BY <2>1 DEF TaskInv, VectorInv, Writing, Closing
  <2> QED
    BY <1>0, <2>1, <2>2, <2>3, ArchiveKept, MainMove DEF MainPc
<1>9. CASE WriteCentral
  <2>1. /\ pc = "central" /\ pc' \in {"end", "threw"}
        /\ UNCHANGED <<plan, tc, ui, next, tasks, wpc, pushed, rest, queue, draining, want, at, cur>>
        /\ Write(CentralDirectory) \/ WriteFails(CentralDirectory)
        /\ offset' = pos /\ UNCHANGED <<start, chs>>
    BY <1>9 DEF WriteCentral, workVars
  <2>2. PhaseInv'
    BY <2>1 DEF TaskInv, PhaseInv, Writing, Streaming, Closing
  <2>3. VectorInv'
    BY <2>1 DEF TaskInv, VectorInv, Writing, Closing
  <2>4. ArchiveTyped
    <3>1. chs' \in Seq([file : File, offset : Nat, size : Nat]) /\ CentralDirectory \in Seq(Cell)
      BY <2>1, CellsTyped DEF TaskInv, TypeInv, TypeOK
    <3> QED
      BY <2>1, <3>1, WriteTyped, WriteFailsTyped
  <2> QED
    BY <1>0, <2>1, <2>2, <2>3, <2>4, MainMove DEF MainPc
<1>10. CASE WriteEnd
  <2>0. PICK end : end = <<Zip64End(Len(chs), offset, pos - offset), Zip64Locator(pos), EndRecord>>
    OBVIOUS
  <2>1. /\ pc = "end" /\ pc' \in {"finished", "threw"}
        /\ UNCHANGED <<plan, tc, ui, next, tasks, wpc, pushed, rest, queue, draining, want, at, cur>>
        /\ Write(end) \/ WriteFails(end)
        /\ UNCHANGED <<offset, start, chs>>
    BY <1>10, <2>0 DEF WriteEnd, mainVars, workVars
  <2>2. PhaseInv'
    BY <2>1 DEF TaskInv, PhaseInv, Writing, Streaming, Closing
  <2>3. VectorInv'
    BY <2>1 DEF TaskInv, VectorInv, Writing, Closing
  <2>4. ArchiveTyped
    <3>1. chs' \in Seq([file : File, offset : Nat, size : Nat]) /\ end \in Seq(Cell)
      BY <2>0, <2>1, CellsTyped DEF TaskInv, TypeInv, TypeOK
    <3> QED
      BY <2>1, <3>1, WriteTyped, WriteFailsTyped
  <2> QED
    BY <1>0, <2>1, <2>2, <2>3, <2>4, MainMove DEF MainPc
<1>11. CASE SetFinished
  <2>1. /\ pc = "finished" /\ pc' \in {"returned", "short"} /\ tc' = [tc EXCEPT !.state = "FINISHED"]
        /\ UNCHANGED <<plan, ui, next, tasks, wpc, pushed, rest, queue, draining, want, at, cur>>
        /\ UNCHANGED <<missed, offset, start, chs>>
    BY <1>11 DEF SetFinished, SetState, mainVars, workVars
  <2>2. /\ tc' \in Control(File) /\ tc'.results = tc.results /\ tc'.total = tc.total
        /\ tc'.successes = tc.successes /\ tc'.failures = tc.failures /\ tc'.state = "FINISHED"
    <3>1. tc \in Control(File)
      BY DEF TaskInv, TypeInv, TypeOK
    <3> QED
      BY <2>1, <3>1 DEF Control, TaskState
  <2>3. PhaseInv'
    BY <2>1, <2>2 DEF TaskInv, PhaseInv, Writing, Streaming, Closing
  <2>4. VectorInv'
    BY <2>1 DEF TaskInv, VectorInv, Writing, Closing
  <2>5. ArchiveTyped
    BY <1>11, <2>1, FinishTyped
  <2>6. TypeInv' /\ WorkerInv'
    BY <2>1, <2>2, <2>5 DEF TaskInv, TypeInv, TypeOK, WorkerInv, Closed, MainPc, ArchiveTyped
  <2>7. ReportInv'
    BY <2>1, <2>2 DEF TaskInv, ReportInv, ReportedIn, ReportedOnce, CountersAgree, Ready
  <2> QED
    BY <2>3, <2>4, <2>6, <2>7 DEF TaskInv
<1> QED
  BY <1>1, <1>2, <1>3, <1>4, <1>5, <1>6, <1>7, <1>8, <1>9, <1>10, <1>11 DEF Main

-----------------------------------------------------------------------------
(* The user's thread keeps the invariant. *)
LEMMA UserStep ==
  ASSUME TaskInv, User \/ UserStop
  PROVE  TaskInv'
<1>0. tc \in Control(File) /\ NFiles \in Nat
  BY ZipAssumption DEF TaskInv, TypeInv, TypeOK
<1>1. CASE Create
  <2>1. /\ ui = "create" /\ pc = "idle" /\ tc = NewControl /\ next = 1
    BY <1>1 DEF Create, TaskInv, PhaseInv
  <2>2. /\ ui' = "poll" /\ pc' = "open"
        /\ tc' = [NewControl EXCEPT !.total = NFiles, !.state = "RUNNING"]
        /\ UNCHANGED <<plan, next, tasks, wpc, pushed, rest, queue, draining, want, at, cur>>
        /\ UNCHANGED <<archive, pos, disk, saved, missed, offset, start, chs>>
    BY <1>1, <2>1 DEF Create, SetState, Reserve, mainVars, fileVars, workVars
  <2>3. /\ tc'.state = "RUNNING" /\ tc'.total = NFiles /\ tc'.results = tc.results
        /\ tc'.results = << >> /\ tc'.successes = tc.successes /\ tc'.failures = tc.failures
        /\ tc' \in Control(File)
    BY <1>0, <2>1, <2>2 DEF NewControl, Control, TaskState
  <2>4. TypeInv' /\ WorkerInv'
    BY <2>2, <2>3 DEF TaskInv, TypeInv, TypeOK, WorkerInv, Closed, MainPc, UiPc
  <2>5. PhaseInv'
    BY <2>1, <2>2, <2>3 DEF TaskInv, PhaseInv, Writing, Streaming, Closing
  <2>6. VectorInv'
    BY <2>1, <2>2 DEF TaskInv, VectorInv, Writing, Closing
  <2>7. CountersAgree(tc')
    <3>1. Len(tc'.results) = 0 /\ Len(tc'.results) <= tc'.total
      BY <1>0, <2>3
    <3>2. CountersAgree(tc)
      BY DEF TaskInv, ReportInv
    <3>3. tc'.successes = Cardinality({i \in DOMAIN tc'.results : tc'.results[i].ok})
      BY <2>3, <3>2 DEF CountersAgree
    <3>4. tc'.failures = Cardinality({i \in DOMAIN tc'.results : ~tc'.results[i].ok})
      BY <2>3, <3>2 DEF CountersAgree
    <3> QED
      BY <3>1, <3>3, <3>4 DEF CountersAgree
  <2>8. ReportInv'
    BY <2>2, <2>3, <2>7 DEF TaskInv, ReportInv, ReportedIn, ReportedOnce, Ready
  <2> QED
    BY <2>4, <2>5, <2>6, <2>8 DEF TaskInv
<1>2. CASE AllReported \/ Join
  <2>1. /\ ui # "create" /\ ui' \in {"join", "exit"}
        /\ UNCHANGED <<plan, tc, pc, next, tasks, wpc, pushed, rest, queue, draining, want, at, cur>>
        /\ UNCHANGED <<archive, pos, disk, saved, missed, offset, start, chs>>
    BY <1>2 DEF AllReported, Join, mainVars, fileVars, workVars
  <2>2. TypeInv' /\ WorkerInv'
    BY <2>1 DEF TaskInv, TypeInv, TypeOK, WorkerInv, Closed, UiPc
  <2>3. PhaseInv'
    BY <2>1 DEF TaskInv, PhaseInv, Writing, Streaming, Closing
  <2>4. VectorInv' /\ ReportInv'
    BY <2>1 DEF TaskInv, VectorInv, ReportInv, Ready
  <2> QED
    BY <2>2, <2>3, <2>4 DEF TaskInv
<1>3. CASE UserStop
  <2>1. /\ ui = "poll" /\ tc' = [tc EXCEPT !.stopped = TRUE]
        /\ UNCHANGED <<plan, ui, pc, next, tasks, wpc, pushed, rest, queue, draining, want, at, cur>>
        /\ UNCHANGED <<archive, pos, disk, saved, missed, offset, start, chs>>
    BY <1>3 DEF UserStop, Stop, mainVars, fileVars, workVars
  <2>2. /\ tc' \in Control(File) /\ tc'.results = tc.results /\ tc'.total = tc.total
        /\ tc'.successes = tc.successes /\ tc'.failures = tc.failures /\ tc'.state = tc.state
    BY <1>0, <2>1 DEF Control
  <2>3. TypeInv' /\ WorkerInv'
    BY <2>1, <2>2 DEF TaskInv, TypeInv, TypeOK, WorkerInv, Closed
  <2>4. PhaseInv'
    BY <2>1, <2>2 DEF TaskInv, PhaseInv, Writing, Streaming, Closing
  <2>5. VectorInv'
    BY <2>1 DEF TaskInv, VectorInv
  <2>6. ReportInv'
    BY <2>1, <2>2 DEF TaskInv, ReportInv, ReportedIn, ReportedOnce, CountersAgree, Ready
  <2> QED
    BY <2>3, <2>4, <2>5, <2>6 DEF TaskInv
<1> QED
  BY <1>1, <1>2, <1>3 DEF User

(* Nothing runs and nothing is reported at first. *)
LEMMA TaskInvInit == Init => TaskInv
<1> SUFFICES ASSUME Init PROVE TaskInv
  OBVIOUS
<1>0. NFiles \in Nat /\ NumThreads \in Nat \ {0} /\ Capacity \in Nat \ {0} /\ Len(<< >>) = 0
  BY ZipAssumption, CapacityAssumption
<1>1. \A f \in File : Len(plan[f].ends) \in Nat
  BY EndsFacts DEF Init
<1>2. NewControl \in Control(File) /\ NewControl.results = << >> /\ NewControl.successes = 0
      /\ NewControl.failures = 0 /\ NewControl.total = 0
  BY DEF NewControl, Control, TaskState
<1>3. << >> \in Seq(Cell) /\ << >> \in Seq(Byte) /\ << >> \in Seq(File)
      /\ << >> \in Seq([file : File, offset : Nat, size : Nat])
  BY EmptySeq
<1>4. NewQueue \in Queue(Byte) /\ NewQueue.buf = << >> /\ NewQueue.st = "EMPTY"
  BY <1>3 DEF NewQueue, Queue, QueueState
<1>5. TypeInv
  <2>1. TypeOK
    <3>1. \A f \in File : /\ queue[f].st \in QueueState
                          /\ Len(queue[f].buf) <= Capacity
                          /\ pushed[f] \in 0..Len(plan[f].ends)
      BY <1>0, <1>1, <1>4 DEF Init, QueueState
    <3>2. /\ next \in 1..(NFiles + 1) /\ at \in 1..NumThreads
          /\ {offset, start, pos, saved} \subseteq Nat /\ missed \subseteq File
      BY <1>0 DEF Init
    <3>3. ui \in UiPc /\ pc \in MainPc /\ wpc \in [File -> WorkerPc]
      BY DEF Init, UiPc, MainPc, WorkerPc
    <3> QED
      BY <1>2, <1>3, <3>1, <3>2, <3>3 DEF Init, TypeOK
  <2> QED
    BY <1>3, <1>4, <2>1 DEF Init, TypeInv
<1>6. WorkerInv
  BY <1>0, <1>4 DEF Init, WorkerInv, Closed
<1>7. PhaseInv
  BY DEF Init, PhaseInv, Writing, Streaming, Closing
<1>8. VectorInv
  BY <1>0, EmptySeq DEF Init, VectorInv, Distinct, Writing, Closing
<1>9. ReportInv
  <2>1. ToSet(<< >>) = {}
    BY DEF ToSet
  <2>2. ReportedIn(tc) = {} /\ ReportedOnce(tc)
    BY <1>2, <2>1 DEF Init, ReportedIn, ReportedOnce
  <2>3. CountersAgree(tc)
    <3>1. {i \in DOMAIN << >> : << >>[i].ok} = {} /\ {i \in DOMAIN << >> : ~(<< >>[i].ok)} = {}
      OBVIOUS
    <3> QED
      BY <1>0, <1>2, <3>1, FS_EmptySet DEF Init, CountersAgree
  <2>4. 1..(next - 1) = {} /\ \A f \in File : f >= next
    BY DEF Init, File
  <2> QED
    BY <2>1, <2>2, <2>3, <2>4 DEF Init, ReportInv
<1> QED
  BY <1>5, <1>6, <1>7, <1>8, <1>9 DEF TaskInv

(* The invariant of tasks and reports is inductive, whatever fails. *)
LEMMA TaskInvNext == TaskInv /\ [Next]_vars => TaskInv'
<1> SUFFICES ASSUME TaskInv, [Next]_vars PROVE TaskInv'
  OBVIOUS
<1>1. CASE User \/ UserStop
  BY <1>1, UserStep
<1>2. CASE Main
  BY <1>2, MainStep
<1>3. CASE \E f \in File : Proceed(f) \/ Fail(f)
  BY <1>3, WorkerStep
<1>4. CASE UNCHANGED vars
  <2>1. TypeInv' /\ WorkerInv'
    BY <1>4 DEF TaskInv, TypeInv, TypeOK, WorkerInv, Closed, vars, mainVars, fileVars, workVars
  <2>2. PhaseInv' /\ VectorInv' /\ ReportInv'
    BY <1>4 DEF TaskInv, PhaseInv, VectorInv, ReportInv, Ready, vars, mainVars, fileVars, workVars
  <2> QED
    BY <2>1, <2>2 DEF TaskInv
<1> QED
  BY <1>1, <1>2, <1>3, <1>4 DEF Next, Over

(* The inductive invariant, on which the theorems about the archive rest   *)
(* too: the workers, the vector of tasks and the TaskControl always agree. *)
THEOREM TasksAgree == Spec => []TaskInv
BY TaskInvInit, TaskInvNext, PTL DEF Spec

(* Type correctness: no variable of the packing ever holds a value of      *)
(* another kind, and no queue exceeds its capacity.                        *)
THEOREM TypesAreCorrect == Spec => []TypeOK
<1>1. TaskInv => TypeOK
  BY DEF TaskInv, TypeInv
<1> QED
  BY <1>1, TasksAgree, PTL

(* There are never more compressions than processors: a worker that runs   *)
(* is that of a task, and run() keeps the vector of tasks that short.      *)
THEOREM ThreadsAreLimited == Spec => []ThreadLimit
<1>1. TaskInv => ThreadLimit
  <2> SUFFICES ASSUME TaskInv
               PROVE  Cardinality({f \in File : wpc[f] \notin {"idle", "ok", "failed"}}) <= NumThreads
    BY DEF ThreadLimit
  <2>1. PICK busy : busy = {f \in File : wpc[f] \notin {"idle", "ok", "failed"}}
    OBVIOUS
  <2>2. busy \subseteq ToSet(tasks)
    <3> SUFFICES ASSUME NEW f \in File, wpc[f] \notin {"idle", "ok", "failed"}
                 PROVE  f \in ToSet(tasks)
      BY <2>1
    <3>1. f \in 1..(next - 1)
      BY DEF TaskInv, ReportInv, TypeInv, TypeOK, File
    <3>2. f \notin ReportedIn(tc)
      BY DEF TaskInv, ReportInv, Ready
    <3> QED
      BY <3>1, <3>2 DEF TaskInv, ReportInv
  <2>3. /\ IsFiniteSet(ToSet(tasks)) /\ Cardinality(ToSet(tasks)) = Len(tasks)
        /\ Len(tasks) <= NumThreads /\ Len(tasks) \in Nat /\ NumThreads \in Nat
    BY CountDistinct, LenProperties, ZipAssumption DEF TaskInv, TypeInv, TypeOK, VectorInv
  <2>4. Cardinality(busy) <= Cardinality(ToSet(tasks)) /\ Cardinality(busy) \in Nat
    BY <2>2, <2>3, FS_Subset, FS_CardinalityType
  <2> QED
    BY <2>1, <2>3, <2>4
<1> QED
  BY <1>1, TasksAgree, PTL

(* No file is lost or reported twice, whatever fails: it waits, or is a    *)
(* task, or has its one report, and the counters count the reports.        *)
THEOREM FilesAreReportedOnce == Spec => []EachFileOnce
<1>1. TaskInv => EachFileOnce
  <2> SUFFICES ASSUME TaskInv PROVE EachFileOnce
    OBVIOUS
  <2>1. Reported = ReportedIn(tc)
    BY DEF Reported, ReportedIn
  <2>2. 1..(next - 1) = ToSet(tasks) \cup ReportedIn(tc) /\ ToSet(tasks) \cap ReportedIn(tc) = {}
    BY DEF TaskInv, ReportInv
  <2>3. next \in Nat /\ NFiles \in Nat
    BY ZipAssumption DEF TaskInv, TypeInv, TypeOK
  <2>4. next..NFiles \cap (ToSet(tasks) \cup ReportedIn(tc)) = {}
    <3>1. next..NFiles \cap 1..(next - 1) = {}
      BY <2>3
    <3> QED
      BY <2>2, <3>1
  <2>5. Cardinality(ToSet(tasks)) = Len(tasks)
    BY CountDistinct DEF TaskInv, TypeInv, TypeOK, VectorInv
  <2>6. Cardinality(ReportedIn(tc)) = Len(tc.results)
    BY CountReported DEF TaskInv, TypeInv, TypeOK, ReportInv
  <2> QED
    BY <2>1, <2>2, <2>4, <2>5, <2>6 DEF EachFileOnce, TaskInv, ReportInv
<1> QED
  BY <1>1, TasksAgree, PTL

(* What the user's thread has read of the TaskControl is never taken back: *)
(* results are only added, a stop stays a stop, the state moves forward.   *)
THEOREM ReportsStay == Spec => ReportsAreFinal
<1>1. TaskInv /\ [Next]_vars => [Extends(tc', tc)]_vars
  <2> SUFFICES ASSUME TaskInv, [Next]_vars PROVE Extends(tc', tc)
    OBVIOUS
  <2>0. tc \in Control(File) /\ tc' \in Control(File)
    <3>1. TaskInv'
      BY TaskInvNext
    <3> QED
      BY <3>1 DEF TaskInv, TypeInv, TypeOK
  <2>1. CASE tc' = tc
    <3>1. Rank(tc.state) \in Nat
      BY <2>0 DEF Rank, Control, TaskState
    <3> QED
      BY <2>0, <2>1, <3>1, SameResultsExtend
  <2>2. CASE pc \in Writing /\ \E ok \in BOOLEAN : tc' = AddReport(tc, cur, ok)
    BY <2>0, <2>2, CurrentTask, AddReportKeeps
  <2>3. CASE \E total \in Nat : /\ tc.state = "NOT_STARTED"
                                /\ tc' = [tc EXCEPT !.total = total, !.state = "RUNNING"]
    <3>1. tc'.results = tc.results /\ tc'.stopped = tc.stopped /\ tc'.state = "RUNNING"
      BY <2>0, <2>3 DEF Control
    <3>2. Rank(tc'.state) >= Rank(tc.state)
      BY <2>3, <3>1 DEF Rank
    <3> QED
      BY <2>0, <2>3, <3>1, <3>2, SameResultsExtend
  <2>4. CASE tc' = [tc EXCEPT !.state = "FINISHED"] \/ tc' = [tc EXCEPT !.stopped = TRUE]
    <3>1. /\ tc'.results = tc.results /\ (tc.stopped => tc'.stopped) /\ tc'.total = tc.total
          /\ tc'.state \in {"FINISHED", tc.state}
      BY <2>0, <2>4 DEF Control
    <3>2. Rank(tc'.state) >= Rank(tc.state)
      BY <2>0, <3>1 DEF Rank, Control, TaskState
    <3> QED
      BY <2>0, <3>1, <3>2, SameResultsExtend
  <2>5. User \/ UserStop => tc' = tc \/ (\E total \in Nat : /\ tc.state = "NOT_STARTED"
                                /\ tc' = [tc EXCEPT !.total = total, !.state = "RUNNING"])
                            \/ tc' = [tc EXCEPT !.stopped = TRUE]
    BY <2>0, ZipAssumption
       DEF User, UserStop, Create, AllReported, Join, MayReserve, Reserve, SetState, Stop
  <2>6. WriteEntry => tc' = tc \/ (pc \in Writing /\ \E ok \in BOOLEAN : tc' = AddReport(tc, cur, ok))
    BY DEF WriteEntry, GetResult, WriteHeader, WriteData, CheckState, WriteLast, FixHeader,
           FixHeaderUnnoticed, EntryDone, AddReport, Writing
  <2>7. Main => WriteEntry \/ tc' = tc \/ tc' = [tc EXCEPT !.state = "FINISHED"]
    BY DEF Main, OpenOutput, NextFile, LaunchTask, DrainTasks, PopFuture, ScanTask, Finish,
           WriteCentral, WriteEnd, SetFinished, SetState
  <2>8. (\E f \in File : Proceed(f) \/ Fail(f)) => tc' = tc
    BY DEF Proceed, Fail, WorkerPush, WorkerShutdown, WorkerReturn, WorkerInputFails,
           WorkerCodecFails, WorkerStopped
  <2>9. Over \/ UNCHANGED vars => tc' = tc
    BY DEF Over, vars
  <2> QED
    BY <2>1, <2>2, <2>3, <2>4, <2>5, <2>6, <2>7, <2>8, <2>9 DEF Next
<1> QED
  BY <1>1, TasksAgree, PTL DEF Spec, ReportsAreFinal

-----------------------------------------------------------------------------
(* The archive. *)

(* How much of f's output is in the archive already. *)
Taken(f) == IF pc \in Streaming /\ f = cur THEN pos - start ELSE 0

(* The rest of what f's worker has handed over: it waits in the queue, and *)
(* in the push that has not returned.                                      *)
Waiting(f) == queue[f].buf \o rest[f]

InOrder(s, f, n) == \A i \in 1..Len(s) : s[i] = DataByte(f, n + i)

(* Until a file is reported its bytes are in the archive, in the queue and *)
(* in the push, in this order, and none is missing.                        *)
OutputInv ==
  \A f \in File \ ReportedIn(tc) :
    /\ Taken(f) + Len(Waiting(f)) = Sent(f)
    /\ InOrder(Waiting(f), f, Taken(f))

(* A worker succeeds only with all of its output. *)
SuccessInv ==
  \A f \in File : wpc[f] \in {"return", "ok"} => pushed[f] = Len(plan[f].ends)

(* Where the entry in progress begins, and what is there of it. *)
StreamInv ==
  /\ pc = "header" => offset = pos
  /\ pc \in Streaming => start = offset + 1
  /\ pc \in Streaming => \A i \in 1..(pos - start) : archive[start + i] = DataByte(cur, i)
  /\ pc = "fix" => queue[cur].buf = << >>

EndOf(ch) == ch.offset + 1 + ch.size

(* The entries that are done lie before what is still to be flushed, so    *)
(* that nothing is written over them.                                      *)
EntriesInv ==
  \A ch \in ToSet(chs) : ch.file \notin missed => EntryIntact(ch) /\ EndOf(ch) <= saved

(* The packing thread has nothing in the buffer of its stream. *)
Flushed ==
  {"idle", "open", "next", "room", "drain", "pop", "scan", "entry", "finish", "central",
   "returned", "short", "threw", "aborted"}

(* Only the entry in progress, or the directory, may be in the buffer; the *)
(* disk holds all that lies before it, but for holes.                      *)
BufferInv ==
  /\ pc \in (Writing \ {"entry"}) \cup {"end"} => saved = offset
  /\ pc \in Flushed => saved = pos /\ disk = archive
  /\ \A i \in 1..Len(archive) :
       i <= saved => archive[i] = Torn \/ (i <= Len(disk) /\ disk[i] = archive[i])

ListedIn(s) == {ch.file : ch \in ToSet(s)}

StoredIn(control) == {r.file : r \in {q \in ToSet(control.results) : q.ok}}

LostIn(control) == {r.file : r \in {q \in ToSet(control.results) : ~q.ok}}

(* The inductive invariant of the entries. *)
ArchiveInv ==
  /\ OutputInv
  /\ SuccessInv
  /\ StreamInv
  /\ BufferInv
  /\ EntriesInv
  /\ ListedIn(chs) = StoredIn(tc)

(* An end record is the last cell written, behind the directory; it is on  *)
(* the disk only after the fclose.                                         *)
EndInv ==
  /\ NoEnd(disk) \/ pc = "returned"
  /\ \A i \in 1..Len(archive) : archive[i].kind = "end" =>
       /\ pc \in {"finished", "returned"}
       /\ i = pos
       /\ pos > Len(chs) + 2
       /\ archive[pos - 2] = Zip64End(Len(chs), pos - 3 - Len(chs), Len(chs))
       /\ archive[pos - 1] = Zip64Locator(pos - 3)
       /\ \A k \in 1..Len(chs) : archive[pos - 3 - Len(chs) + k] = CentralHeader(chs[k])
  /\ pc = "end" =>
       /\ pos = offset + Len(chs)
       /\ \A k \in 1..Len(chs) : archive[offset + k] = CentralHeader(chs[k])
  /\ pc \in {"finished", "returned"} /\ ~tc.stopped =>
       pos \in 1..Len(archive) /\ archive[pos].kind = "end"

-----------------------------------------------------------------------------
(* Bytes in order, followed by those that come next, are in order. *)
LEMMA InOrderConcat ==
  ASSUME NEW a \in Seq(Byte), NEW b \in Seq(Byte), NEW f, NEW n \in Nat,
         InOrder(a, f, n), InOrder(b, f, n + Len(a))
  PROVE  a \o b \in Seq(Byte) /\ Len(a \o b) = Len(a) + Len(b) /\ InOrder(a \o b, f, n)
<1>1. Len(a) \in Nat /\ Len(b) \in Nat
  BY LenProperties
<1>2. /\ a \o b \in Seq(Byte)
      /\ Len(a \o b) = Len(a) + Len(b)
      /\ \A i \in 1..(Len(a) + Len(b)) : (a \o b)[i] = IF i <= Len(a) THEN a[i] ELSE b[i - Len(a)]
  BY ConcatProperties
<1>3. PICK c : c = a \o b
  OBVIOUS
<1>4. /\ c \in Seq(Byte) /\ Len(c) = Len(a) + Len(b)
      /\ \A i \in 1..(Len(a) + Len(b)) : c[i] = IF i <= Len(a) THEN a[i] ELSE b[i - Len(a)]
  BY <1>2, <1>3
<1>5. ASSUME NEW i \in 1..(Len(a) + Len(b)) PROVE c[i] = DataByte(f, n + i)
  <2>1. CASE i <= Len(a)
    BY <1>1, <1>4, <2>1 DEF InOrder
  <2>2. CASE ~(i <= Len(a))
    <3>1. i - Len(a) \in 1..Len(b) /\ n + Len(a) + (i - Len(a)) = n + i
      BY <1>1, <2>2
    <3> QED
      BY <1>4, <2>2, <3>1 DEF InOrder
  <2> QED
    BY <2>1, <2>2
<1> QED
  BY <1>3, <1>4, <1>5 DEF InOrder

(* What waits is a sequence of bytes, and what is taken a number. *)
LEMMA WaitingTyped ==
  ASSUME TaskInv, NEW f \in File
  PROVE  /\ queue[f].buf \in Seq(Byte) /\ rest[f] \in Seq(Byte)
         /\ Waiting(f) \in Seq(Byte)
         /\ Len(Waiting(f)) = Len(queue[f].buf) + Len(rest[f])
         /\ Len(queue[f].buf) \in Nat /\ Len(rest[f]) \in Nat
         /\ rest[f] = << >> => Waiting(f) = queue[f].buf
         /\ Taken(f) \in Nat
<1>1. queue[f].buf \in Seq(Byte) /\ rest[f] \in Seq(Byte)
  BY DEF TaskInv, TypeInv, Queue
<1>2. Waiting(f) \in Seq(Byte) /\ Len(Waiting(f)) = Len(queue[f].buf) + Len(rest[f])
  BY <1>1, ConcatProperties DEF Waiting
<1>3. rest[f] = << >> => Waiting(f) = queue[f].buf
  BY <1>1, ConcatEmptySeq DEF Waiting
<1>4. pc \in Streaming => start <= pos /\ start \in Nat /\ pos \in Nat
  BY LenProperties DEF TaskInv, TypeInv, TypeOK, PhaseInv
<1> QED
  BY <1>1, <1>2, <1>3, <1>4, LenProperties DEF Taken

(* The central headers collected so far, as a sequence. *)
LEMMA ListedTyped ==
  ASSUME TaskInv
  PROVE  /\ chs \in Seq([file : File, offset : Nat, size : Nat])
         /\ Len(chs) \in Nat /\ DOMAIN chs = 1..Len(chs)
         /\ \A ch \in ToSet(chs) : ch \in [file : File, offset : Nat, size : Nat]
         /\ \A i \in 1..Len(chs) : chs[i] \in ToSet(chs)
<1>1. chs \in Seq([file : File, offset : Nat, size : Nat])
  BY DEF TaskInv, TypeInv, TypeOK
<1>2. Len(chs) \in Nat /\ DOMAIN chs = 1..Len(chs)
  BY <1>1, LenProperties
<1>3. \A i \in 1..Len(chs) : chs[i] \in [file : File, offset : Nat, size : Nat]
  BY <1>1, ElementOfSeq
<1> QED
  BY <1>1, <1>2, <1>3 DEF ToSet

(* What lies before saved is kept, and saved grows. *)
Kept ==
  /\ saved' >= saved
  /\ \A i \in 1..Len(archive) :
       i <= saved => archive[i] = Torn \/ (i <= Len(archive') /\ archive'[i] = archive[i])

(* An entry that lies there stays intact. *)
LEMMA EntryKept ==
  ASSUME NEW ch \in [file : File, offset : Nat, size : Nat], EntryIntact(ch),
         saved \in Nat, EndOf(ch) <= saved, Kept,
         UNCHANGED plan, wpc'[ch.file] = "ok",
         Len(archive) \in Nat, Len(archive') \in Nat
  PROVE  EntryIntact(ch)'
<1>1. ch.offset \in Nat /\ ch.size \in Nat /\ ch.offset + 1 + ch.size <= Len(archive)
  BY DEF EntryIntact
<1>2. ch.offset + 1 \in 1..Len(archive) /\ ch.offset + 1 <= saved
  BY <1>1 DEF EndOf
<1>3. \A i \in 1..ch.size : ch.offset + 1 + i \in 1..Len(archive) /\ ch.offset + 1 + i <= saved
  BY <1>1 DEF EndOf
<1>4. ch.offset + 1 <= Len(archive') /\ archive'[ch.offset + 1] = LocalHeader(ch.file, ch.size)
  <2>1. archive[ch.offset + 1] = LocalHeader(ch.file, ch.size) /\ LocalHeader(ch.file, ch.size) # Torn
    BY DEF EntryIntact, LocalHeader, Torn
  <2> QED
    BY <1>2, <2>1 DEF Kept
<1>5. \A i \in 1..ch.size : /\ ch.offset + 1 + i <= Len(archive')
                            /\ archive'[ch.offset + 1 + i] = DataByte(ch.file, i)
  <2> SUFFICES ASSUME NEW i \in 1..ch.size
               PROVE  /\ ch.offset + 1 + i <= Len(archive')
                      /\ archive'[ch.offset + 1 + i] = DataByte(ch.file, i)
    OBVIOUS
  <2>1. archive[ch.offset + 1 + i] = DataByte(ch.file, i) /\ DataByte(ch.file, i) # Torn
    BY DEF EntryIntact, DataByte, Torn
  <2> QED
    BY <1>3, <2>1 DEF Kept
<1>6. ch.offset + 1 + ch.size <= Len(archive')
  <2>1. CASE ch.size = 0
    BY <1>1, <1>4, <2>1
  <2>2. CASE ch.size # 0
    <3>1. ch.size \in 1..ch.size
      BY <1>1, <2>2
    <3> QED
      BY <1>5, <3>1
  <2> QED
    BY <2>1, <2>2
<1>7. ch.size = Output(ch.file)'
  BY DEF EntryIntact, Output, Ends
<1> QED
  BY <1>4, <1>5, <1>6, <1>7 DEF EntryIntact

(* All of them, but those that missed a failure. *)
LEMMA EntriesKept ==
  ASSUME TaskInv, TaskInv', EntriesInv, UNCHANGED plan, Kept, missed \subseteq missed',
         \A f \in File : wpc[f] = "ok" => wpc'[f] = "ok"
  PROVE  /\ \A ch \in ToSet(chs) : ch.file \notin missed' => EntryIntact(ch)' /\ EndOf(ch) <= saved'
         /\ UNCHANGED chs => EntriesInv'
<1>1. Len(archive) \in Nat /\ Len(archive') \in Nat /\ saved \in Nat /\ saved' \in Nat /\ saved' >= saved
  BY LenProperties DEF TaskInv, TypeInv, TypeOK, Kept
<1>2. ASSUME NEW ch \in ToSet(chs), ch.file \notin missed' PROVE EntryIntact(ch)' /\ EndOf(ch) <= saved'
  <2>1. ch \in [file : File, offset : Nat, size : Nat] /\ EndOf(ch) \in Nat
    BY ListedTyped DEF EndOf
  <2>2. EntryIntact(ch) /\ EndOf(ch) <= saved
    BY <1>2 DEF EntriesInv
  <2>3. wpc'[ch.file] = "ok"
    BY <2>1, <2>2 DEF EntryIntact
  <2>4. EntryIntact(ch)'
    BY <1>1, <2>1, <2>2, <2>3, EntryKept
  <2> QED
    BY <1>1, <2>1, <2>2, <2>4
<1> QED
  BY <1>2 DEF EntriesInv, EndOf

(* Where nothing is written all is kept. *)
LEMMA StillKept ==
  ASSUME TaskInv, UNCHANGED <<archive, saved>>
  PROVE  Kept
<1>1. Len(archive) \in Nat /\ saved \in Nat
  BY LenProperties DEF TaskInv, TypeInv, TypeOK
<1> QED
  BY <1>1 DEF Kept

(* Writing goes on behind it. *)
LEMMA WriteKeeps ==
  ASSUME TaskInv, NEW cells \in Seq(Cell), Write(cells)
  PROVE  /\ Kept
         /\ (BufferInv /\ pc' \notin Flushed
              /\ (pc' \in (Writing \ {"entry"}) \cup {"end"} => saved = offset')) => BufferInv'
<1>1. /\ Len(archive') \in Nat /\ Len(archive) \in Nat /\ Len(archive') >= Len(archive)
      /\ pos \in Nat /\ saved \in Nat /\ saved <= pos
      /\ \A i \in 1..Len(archive) : i <= pos => archive'[i] = archive[i]
      /\ \A i \in 1..Len(archive') : i > Len(archive) /\ i <= pos => archive'[i] = Torn
      /\ UNCHANGED <<disk, saved, missed>>
  BY WriteFacts, LenProperties DEF TaskInv, TypeInv, TypeOK
<1>2. Kept
  BY <1>1 DEF Kept
<1>3. ASSUME BufferInv, NEW i \in 1..Len(archive'), i <= saved
      PROVE  archive'[i] = Torn \/ (i <= Len(disk) /\ disk[i] = archive'[i])
  <2>1. CASE i <= Len(archive)
    <3>1. i \in 1..Len(archive) /\ i <= pos
      BY <1>1, <1>3, <2>1
    <3> QED
      BY <1>1, <1>3, <3>1 DEF BufferInv
  <2>2. CASE ~(i <= Len(archive))
    BY <1>1, <1>3, <2>2
  <2> QED
    BY <2>1, <2>2
<1> QED
  BY <1>1, <1>2, <1>3 DEF BufferInv

(* A flush leaves nothing in the buffer. *)
LEMMA FlushEmpties ==
  ASSUME TaskInv, NEW a \in Seq(Cell), NEW p, OnDisk(a, p),
         pc' \notin (Writing \ {"entry"}) \cup {"end"}
  PROVE  BufferInv'
<1>1. archive' = a /\ disk' = a /\ pos' = p /\ saved' = p
  BY DEF OnDisk
<1> QED
  BY <1>1 DEF BufferInv

(* One that stops too early has kept what was on the disk. *)
LEMMA StoppedKeeps ==
  ASSUME TaskInv, BufferInv, NEW part \in Seq(Cell),
         OnDisk(Written(disk, saved, part), saved + Len(part))
  PROVE  Kept
<1>1. disk \in Seq(Cell) /\ saved \in Nat /\ Len(disk) \in Nat
  BY LenProperties DEF TaskInv, TypeInv, TypeOK
<1>2. /\ archive' = Written(disk, saved, part) /\ saved' = saved + Len(part)
  BY DEF OnDisk
<1>3. /\ saved' >= saved /\ Len(archive') \in Nat /\ Len(archive') >= Len(disk)
      /\ \A i \in 1..Len(disk) : i <= saved => archive'[i] = disk[i]
  BY <1>1, <1>2, StoppedFacts
<1> QED
  BY <1>1, <1>3 DEF BufferInv, Kept

(* The last steps of a write that fails, of any kind. *)
LEMMA WriteFailsKeeps ==
  ASSUME TaskInv, BufferInv, NEW cells \in Seq(Cell), WriteFails(cells)
  PROVE  /\ Kept /\ UNCHANGED missed
         /\ pc' \notin (Writing \ {"entry"}) \cup {"end"} => BufferInv'
<1>1. TypeInv /\ disk \in Seq(Cell) /\ saved \in Nat
  BY DEF TaskInv, TypeInv, TypeOK
<1>2. PICK part \in Seq(Cell) : OnDisk(Written(disk, saved, part), saved + Len(part))
  BY <1>1, WriteFailsFacts
<1>3. PICK a, p : a = Written(disk, saved, part) /\ p = saved + Len(part)
  OBVIOUS
<1>4. a \in Seq(Cell)
  BY <1>1, <1>3, StoppedFacts
<1> QED
  BY <1>2, <1>3, <1>4, StoppedKeeps, FlushEmpties DEF WriteFails

(* A worker hands over the bytes that come next and loses none of them.    *)
LEMMA PushKeepsOutput ==
  ASSUME TaskInv, ArchiveInv, NEW f \in File \ ReportedIn(tc), WorkerPush(f)
  PROVE  /\ Taken(f)' + Len(Waiting(f)') = Sent(f)'
         /\ InOrder(Waiting(f)', f, Taken(f)')
<1>1. /\ queue[f] \in Queue(Byte) /\ Len(queue[f].buf) <= Capacity
      /\ queue[f].buf \in Seq(Byte) /\ rest[f] \in Seq(Byte)
      /\ pushed[f] \in 0..Len(plan[f].ends) /\ pushed[f] \in Nat
      /\ plan \in [File -> Plans]
      /\ Closed(queue[f]) <=> wpc[f] \in {"return", "rethrow", "ok", "failed"}
      /\ ~Closed(queue[f]) => (queue[f].st = "FULL" <=> Len(queue[f].buf) = Capacity)
      /\ queue[f].st = "EMPTY" => queue[f].buf = << >>
      /\ rest[f] # << >> => wpc[f] = "full"
  BY WaitingTyped DEF TaskInv, TypeInv, TypeOK, WorkerInv
<1>2. /\ wpc[f] \in {"run", "full"}
      /\ wpc[f] = "run" => MorePushes(f)
      /\ UNCHANGED <<plan, pc, cur, pos, start>>
  BY DEF WorkerPush, mainVars, fileVars
<1>3. Taken(f)' = Taken(f)
  BY <1>2 DEF Taken
<1>4. PICK old : old = Waiting(f)
  OBVIOUS
<1>5. PICK n : n = Taken(f)
  OBVIOUS
<1>6. /\ old \in Seq(Byte) /\ n \in Nat
      /\ n + Len(old) = Sent(f) /\ InOrder(old, f, n)
  BY <1>4, <1>5, WaitingTyped DEF ArchiveInv, OutputInv
<1>7. CASE wpc[f] = "full"
  <2>1. PICK q : q = PushRound(queue[f], rest[f])
    OBVIOUS
  <2>2. PICK left : left = Unpushed(queue[f], rest[f])
    OBVIOUS
  <2>3. queue'[f] = q /\ rest'[f] = left /\ pushed'[f] = pushed[f]
    <3>1. /\ queue' = [queue EXCEPT ![f] = q] /\ rest' = [rest EXCEPT ![f] = left]
          /\ pushed' = [pushed EXCEPT ![f] = pushed[f]]
      BY <1>7, <2>1, <2>2 DEF WorkerPush
    <3> QED
      BY <3>1 DEF TaskInv, TypeInv
  <2>4. Takes(Byte, queue[f], rest[f], q, left)
    BY <1>1, <2>1, <2>2, PushRoundTakes
  <2>5. Waiting(f)' = old
    BY <1>4, <2>3, <2>4 DEF Takes, Waiting
  <2>6. Sent(f)' = Sent(f)
    BY <1>2, <2>3 DEF Sent, Ends
  <2> QED
    BY <1>3, <1>5, <1>6, <2>5, <2>6
<1>8. CASE wpc[f] = "run"
  <2>0. PICK data : data = NextBytes(f)
    OBVIOUS
  <2>1. PICK q : q = Push(queue[f], data)
    OBVIOUS
  <2>2. PICK left : left = Unpushed(queue[f], data)
    OBVIOUS
  <2>3. queue'[f] = q /\ rest'[f] = left /\ pushed'[f] = pushed[f] + 1
    <3>1. /\ queue' = [queue EXCEPT ![f] = q] /\ rest' = [rest EXCEPT ![f] = left]
          /\ pushed' = [pushed EXCEPT ![f] = pushed[f] + 1]
      BY <1>8, <2>0, <2>1, <2>2 DEF WorkerPush
    <3> QED
      BY <3>1 DEF TaskInv, TypeInv
  <2>4. /\ data \in Seq(Byte) /\ Sent(f) \in Nat /\ Ends(f, pushed[f] + 1) \in Nat
        /\ Len(data) = Ends(f, pushed[f] + 1) - Sent(f)
        /\ InOrder(data, f, Sent(f))
    <3>1. pushed[f] < Len(plan[f].ends)
      BY <1>2, <1>8 DEF MorePushes
    <3> QED
      BY <1>1, <2>0, <3>1, NextBytesFacts DEF InOrder
  <2>5. Takes(Byte, queue[f], data, q, left)
    BY <1>1, <1>8, <2>1, <2>2, <2>4, PushTakes
  <2>6. old = queue[f].buf
    BY <1>1, <1>4, <1>8, WaitingTyped
  <2>7. PICK new : new = old \o data
    OBVIOUS
  <2>8. Waiting(f)' = new
    BY <2>3, <2>5, <2>6, <2>7 DEF Takes, Waiting
  <2>9. Len(new) = Len(old) + Len(data) /\ InOrder(new, f, n)
    BY <1>6, <2>4, <2>7, InOrderConcat
  <2>10. Sent(f)' = Ends(f, pushed[f] + 1)
    BY <1>2, <2>3 DEF Sent, Ends
  <2>11. n + Len(new) = Ends(f, pushed[f] + 1)
    <3>1. Len(old) \in Nat /\ Len(data) \in Nat
      BY <1>6, <2>4, LenProperties
    <3> QED
      BY <1>6, <2>4, <2>9, <3>1
  <2> QED
    BY <1>3, <1>5, <2>8, <2>9, <2>10, <2>11
<1> QED
  BY <1>2, <1>7, <1>8

(* What a step that leaves the archive alone, and moves none of a file's   *)
(* bytes, has to keep for the file's output to stay in order.              *)
LEMMA OutputKept ==
  ASSUME NEW f, UNCHANGED plan, Taken(f)' = Taken(f),
         queue'[f].buf = queue[f].buf, rest'[f] = rest[f], pushed'[f] = pushed[f],
         Taken(f) + Len(Waiting(f)) = Sent(f),
         InOrder(Waiting(f), f, Taken(f))
  PROVE  /\ Taken(f)' + Len(Waiting(f)') = Sent(f)'
         /\ InOrder(Waiting(f)', f, Taken(f)')
<1>1. Waiting(f)' = Waiting(f) /\ Sent(f)' = Sent(f)
  BY DEF Waiting, Sent, Ends
<1> QED
  BY <1>1

(* A worker touches what is its own. *)
LEMMA WorkerTouches ==
  ASSUME TaskInv, NEW f \in File, Proceed(f) \/ Fail(f)
  PROVE  /\ UNCHANGED <<plan, tc, ui, pc, mainVars, fileVars>>
         /\ f \notin ReportedIn(tc) /\ wpc[f] \notin {"idle", "ok", "failed"}
         /\ \A g \in File \ {f} : /\ queue'[g] = queue[g] /\ rest'[g] = rest[g]
                                  /\ pushed'[g] = pushed[g] /\ wpc'[g] = wpc[g]
         /\ wpc'[f] \in {"return", "ok"} =>
              pushed'[f] = pushed[f] /\ (wpc[f] = "return" \/ ~MorePushes(f))
         /\ \/ WorkerPush(f) /\ wpc'[f] \in {"run", "full"}
            \/ queue'[f].buf = queue[f].buf /\ rest'[f] = rest[f] /\ pushed'[f] = pushed[f]
<1>1. /\ queue \in [File -> Queue(Byte)] /\ rest \in [File -> Seq(Byte)]
      /\ pushed \in [File -> Nat] /\ wpc \in [File -> WorkerPc]
  BY DEF TaskInv, TypeInv, TypeOK
<1>2. /\ UNCHANGED <<plan, tc, ui, pc, mainVars, fileVars>>
      /\ wpc[f] \notin {"idle", "ok", "failed"}
  BY DEF Proceed, Fail, WorkerPush, WorkerShutdown, WorkerReturn, WorkerInputFails,
         WorkerCodecFails, WorkerStopped
<1>3. f \notin ReportedIn(tc)
  BY <1>2 DEF TaskInv, ReportInv, Ready
<1>4. CASE WorkerPush(f)
  BY <1>1, <1>2, <1>3, <1>4 DEF WorkerPush
<1>5. CASE WorkerShutdown(f)
  BY <1>1, <1>2, <1>3, <1>5 DEF WorkerShutdown, Shutdown, Queue
<1>6. CASE WorkerReturn(f)
  BY <1>1, <1>2, <1>3, <1>6 DEF WorkerReturn
<1>7. CASE Fail(f)
  BY <1>1, <1>2, <1>3, <1>7 DEF Fail, WorkerInputFails, WorkerCodecFails, WorkerStopped
<1> QED
  BY <1>4, <1>5, <1>6, <1>7 DEF Proceed

(* So every step of a worker keeps the invariant of the entries. *)
LEMMA WorkerKeepsArchive ==
  ASSUME TaskInv, ArchiveInv, NEW f \in File, Proceed(f) \/ Fail(f)
  PROVE  ArchiveInv'
<1>0. TaskInv'
  BY WorkerStep
<1>1. /\ UNCHANGED <<plan, tc, ui, pc, cur, offset, start, chs, archive, pos, disk, saved, missed>>
      /\ f \notin ReportedIn(tc) /\ wpc[f] \notin {"idle", "ok", "failed"}
  BY WorkerTouches DEF mainVars, fileVars
<1>2. OutputInv'
  <2> SUFFICES ASSUME NEW g \in File \ ReportedIn(tc)
               PROVE  /\ Taken(g)' + Len(Waiting(g)') = Sent(g)'
                      /\ InOrder(Waiting(g)', g, Taken(g)')
    BY <1>1 DEF OutputInv
  <2>1. Taken(g)' = Taken(g)
    BY <1>1 DEF Taken
  <2>2. CASE g = f /\ WorkerPush(f)
    BY <2>2, PushKeepsOutput
  <2>3. CASE ~(g = f /\ WorkerPush(f))
    <3>1. queue'[g].buf = queue[g].buf /\ rest'[g] = rest[g] /\ pushed'[g] = pushed[g]
      BY <2>3, WorkerTouches
    <3> QED
      BY <1>1, <2>1, <3>1, OutputKept DEF ArchiveInv, OutputInv
  <2> QED
    BY <2>2, <2>3
<1>3. SuccessInv'
  <2> SUFFICES ASSUME NEW g \in File, wpc'[g] \in {"return", "ok"}
               PROVE  pushed'[g] = Len(plan[g].ends)
    BY <1>1 DEF SuccessInv
  <2>1. CASE g # f
    BY <2>1, WorkerTouches DEF ArchiveInv, SuccessInv
  <2>2. CASE g = f
    <3>1. pushed[f] \in 0..Len(plan[f].ends) /\ Len(plan[f].ends) \in Nat
      BY EndsFacts DEF TaskInv, TypeInv, TypeOK
    <3>2. pushed'[f] = pushed[f] /\ (wpc[f] = "return" \/ ~(pushed[f] < Len(plan[f].ends)))
      BY <2>2, WorkerTouches DEF MorePushes
    <3> QED
      BY <2>2, <3>1, <3>2 DEF ArchiveInv, SuccessInv
  <2> QED
    BY <2>1, <2>2
<1>4. StreamInv'
  <2>1. pc = "fix" => cur \in File /\ cur # f
    <3>1. pc = "fix" => cur \in File /\ wpc[cur] = "ok"
      BY CurrentTask DEF TaskInv, VectorInv, Writing
    <3> QED
      BY <1>1, <3>1
  <2>2. pc = "fix" => queue'[cur].buf = << >>
    BY <2>1, WorkerTouches DEF ArchiveInv, StreamInv
  <2> QED
    BY <1>1, <2>2 DEF ArchiveInv, StreamInv
<1>5. EntriesInv'
  <2>1. \A g \in File : wpc[g] = "ok" => wpc'[g] = "ok"
    BY <1>1, WorkerTouches
  <2>2. missed \subseteq missed'
    BY <1>1
  <2> QED
    BY <1>0, <1>1, <2>1, <2>2, StillKept, EntriesKept DEF ArchiveInv
<1>6. BufferInv'
  BY <1>1 DEF ArchiveInv, BufferInv
<1> QED
  BY <1>1, <1>2, <1>3, <1>4, <1>5, <1>6 DEF ArchiveInv

-----------------------------------------------------------------------------
(* The steps that neither write nor report. *)
Bookkeeping ==
  \/ User \/ UserStop
  \/ OpenOutput \/ NextFile \/ LaunchTask \/ DrainTasks \/ PopFuture \/ ScanTask
  \/ CheckState \/ Finish
  \/ UNCHANGED vars

(* What the steps that touch neither the archive nor a queue may change. *)
LEMMA BookkeepingTouches ==
  ASSUME TaskInv, Bookkeeping
  PROVE  /\ UNCHANGED <<plan, offset, start, chs, archive, pos, disk, saved, missed, queue, pushed, rest>>
         /\ tc'.results = tc.results
         /\ tc.stopped => tc'.stopped
         /\ tc'.stopped => tc.stopped \/ "stop" \in Faults
         /\ \A f \in File : wpc'[f] = wpc[f] \/ (wpc[f] = "idle" /\ wpc'[f] = "run")
         /\ pc' \in Streaming <=> pc \in Streaming
         /\ pc \in Streaming => cur' = cur
         /\ pc' \in {"header", "fix"} => pc' = pc
<1>1. tc \in Control(File) /\ wpc \in [File -> WorkerPc]
  BY DEF TaskInv, TypeInv, TypeOK
<1>2. CASE User \/ UserStop
  <2>1. pc' = pc \/ (pc = "idle" /\ pc' = "open")
    BY <1>2 DEF User, UserStop, Create, AllReported, Join, TaskInv, PhaseInv
  <2>2. /\ UNCHANGED <<plan, offset, start, chs, archive, pos, disk, saved, missed, queue, pushed, rest, cur, wpc>>
        /\ tc'.results = tc.results
        /\ tc.stopped => tc'.stopped
        /\ tc'.stopped => tc.stopped \/ "stop" \in Faults
    BY <1>1, <1>2 DEF User, UserStop, Create, AllReported, Join, Reserve, SetState, Stop, Control,
         mainVars, fileVars, workVars
  <2> QED
    BY <2>1, <2>2 DEF Streaming
<1>3. CASE OpenOutput \/ NextFile \/ DrainTasks \/ PopFuture \/ ScanTask \/ Finish
  BY <1>3 DEF OpenOutput, NextFile, DrainTasks, PopFuture, ScanTask, Finish, AfterPop, Streaming,
       mainVars, fileVars, workVars
<1>4. CASE LaunchTask
  <2>1. /\ UNCHANGED <<plan, offset, start, chs, archive, pos, disk, saved, missed, queue, pushed, rest, tc>>
        /\ pc = "room" /\ pc' \in {"pop", "next"}
    BY <1>4 DEF LaunchTask, fileVars
  <2>2. \A f \in File : wpc'[f] = wpc[f] \/ (wpc[f] = "idle" /\ wpc'[f] = "run")
    <3>1. next \in File => wpc[next] = "idle"
      BY DEF TaskInv, ReportInv, TypeInv, TypeOK, File
    <3> QED
      BY <1>1, <1>4, <3>1 DEF LaunchTask
  <2> QED
    BY <2>1, <2>2 DEF Streaming
<1>5. CASE CheckState
  BY <1>5 DEF CheckState, Streaming, mainVars, fileVars, workVars
<1>7. CASE UNCHANGED vars
  BY <1>7 DEF vars, mainVars, fileVars, workVars
<1> QED
  BY <1>2, <1>3, <1>4, <1>5, <1>7 DEF Bookkeeping

(* Where a Bookkeeping step may go, of where the archive is written. *)
LEMMA BookkeepingStaysOut ==
  ASSUME Bookkeeping, TaskInv
  PROVE  /\ pc' \in Writing \ {"entry"} => pc \in Writing \ {"entry"}
         /\ pc' = "end" => pc = "end"
         /\ pc' \in Flushed => pc \in Flushed
BY DEF Bookkeeping, User, UserStop, Create, AllReported, Join, TaskInv, PhaseInv, OpenOutput,
     NextFile, LaunchTask, DrainTasks, PopFuture, ScanTask, CheckState, Finish,
     AfterPop, Writing, Flushed, vars

(* They keep the invariant of the archive. *)
LEMMA BookkeepingKeepsArchive ==
  ASSUME TaskInv, TaskInv', ArchiveInv, Bookkeeping
  PROVE  ArchiveInv'
<1>1. /\ UNCHANGED <<plan, offset, start, chs, archive, pos, disk, saved, missed, queue, pushed, rest>>
      /\ tc'.results = tc.results
      /\ \A f \in File : wpc'[f] = wpc[f] \/ (wpc[f] = "idle" /\ wpc'[f] = "run")
      /\ pc' \in Streaming <=> pc \in Streaming
      /\ pc \in Streaming => cur' = cur
      /\ pc' \in {"header", "fix"} => pc' = pc
  BY BookkeepingTouches
<1>2. OutputInv'
  <2> SUFFICES ASSUME NEW f \in File \ ReportedIn(tc)
               PROVE  /\ Taken(f)' + Len(Waiting(f)') = Sent(f)'
                      /\ InOrder(Waiting(f)', f, Taken(f)')
    BY <1>1 DEF OutputInv, ReportedIn
  <2>1. Taken(f)' = Taken(f)
    BY <1>1 DEF Taken
  <2> QED
    BY <1>1, <2>1, OutputKept DEF ArchiveInv, OutputInv
<1>3. SuccessInv'
  BY <1>1 DEF ArchiveInv, SuccessInv
<1>4. StreamInv'
  <2>1. pc = "fix" => pc \in Streaming
    BY DEF Streaming
  <2> QED
    BY <1>1, <2>1 DEF ArchiveInv, StreamInv
<1>5. EntriesInv'
  <2>1. \A f \in File : wpc[f] = "ok" => wpc'[f] = "ok"
    BY <1>1
  <2>2. missed \subseteq missed'
    BY <1>1
  <2> QED
    BY <1>1, <2>1, <2>2, StillKept, EntriesKept DEF ArchiveInv
<1>6. BufferInv'
  BY <1>1, BookkeepingStaysOut DEF ArchiveInv, BufferInv
<1>7. ListedIn(chs') = StoredIn(tc')
  BY <1>1 DEF ArchiveInv, StoredIn
<1> QED
  BY <1>2, <1>3, <1>4, <1>5, <1>6, <1>7 DEF ArchiveInv

-----------------------------------------------------------------------------
(* What a step of write_entry leaves alone.                                *)
Untouched ==
  /\ UNCHANGED <<plan, cur, wpc, pushed, rest>>
  /\ UNCHANGED queue \/ queue' = [queue EXCEPT ![cur] = Pop(@)]

(* While one task is written, the output of the others stays where it was. *)
LEMMA OthersKeepOutput ==
  ASSUME TaskInv, ArchiveInv, Untouched, NEW f \in File \ ReportedIn(tc), f # cur
  PROVE  /\ Taken(f)' + Len(Waiting(f)') = Sent(f)'
         /\ InOrder(Waiting(f)', f, Taken(f)')
<1>1. Taken(f)' = Taken(f)
  BY DEF Untouched, Taken
<1>2. queue'[f].buf = queue[f].buf
  BY DEF Untouched, TaskInv, TypeInv
<1> QED
  BY <1>1, <1>2, OutputKept DEF Untouched, ArchiveInv, OutputInv

(* What a report adds to the files stored and to those lost. *)
LEMMA ReportAdds ==
  ASSUME TaskInv, pc \in Writing, NEW ok \in BOOLEAN, NEW left, EntryDone(ok, left)
  PROVE  /\ ReportedIn(tc') = ReportedIn(tc) \cup {cur}
         /\ StoredIn(tc') = IF ok THEN StoredIn(tc) \cup {cur} ELSE StoredIn(tc)
         /\ LostIn(tc') = IF ok THEN LostIn(tc) ELSE LostIn(tc) \cup {cur}
         /\ tc'.stopped = tc.stopped
         /\ pc' \in {"drain", "room", "aborted"}
<1>1. tc \in Control(File) /\ cur \in File
  BY CurrentTask DEF TaskInv, TypeInv, TypeOK
<1>2. tc' = AddReport(tc, cur, ok)
  BY DEF EntryDone, AddReport
<1>3. PICK r : r = [file |-> cur, ok |-> ok]
  OBVIOUS
<1>4. /\ ToSet(tc'.results) = ToSet(tc.results) \cup {r}
      /\ ReportedIn(tc') = ReportedIn(tc) \cup {cur}
  BY <1>1, <1>2, <1>3, AddReportKeeps
<1>5. r.file = cur /\ r.ok = ok
  BY <1>3
<1>6. tc'.stopped = tc.stopped
  BY <1>1 DEF EntryDone, AddSuccess, AddFailure, Control
<1>7. StoredIn(tc') = IF ok THEN StoredIn(tc) \cup {cur} ELSE StoredIn(tc)
  BY <1>4, <1>5 DEF StoredIn
<1>8. LostIn(tc') = IF ok THEN LostIn(tc) ELSE LostIn(tc) \cup {cur}
  BY <1>4, <1>5 DEF LostIn
<1> QED
  BY <1>4, <1>6, <1>7, <1>8 DEF EntryDone, AfterPop

(* A file that cannot be stored harms no other, if what was written of it  *)
(* lies behind those that are done.                                        *)
LEMMA EntryLost ==
  ASSUME TaskInv, TaskInv', ArchiveInv, pc \in Writing, Untouched, UNCHANGED chs,
         NEW left, EntryDone(FALSE, left),
         Kept, missed \subseteq missed', BufferInv'
  PROVE  ArchiveInv'
<1>1. /\ ReportedIn(tc') = ReportedIn(tc) \cup {cur}
      /\ StoredIn(tc') = StoredIn(tc)
      /\ pc' \in {"drain", "room", "aborted"}
  BY ReportAdds
<1>2. OutputInv'
  BY <1>1, OthersKeepOutput DEF OutputInv
<1>3. SuccessInv'
  BY DEF ArchiveInv, SuccessInv, Untouched
<1>4. StreamInv'
  BY <1>1 DEF StreamInv, Streaming
<1>5. EntriesInv'
  BY EntriesKept DEF ArchiveInv, Untouched
<1>6. ListedIn(chs') = StoredIn(tc')
  BY <1>1 DEF ArchiveInv
<1> QED
  BY <1>2, <1>3, <1>4, <1>5, <1>6 DEF ArchiveInv

(* Nor does one that is listed though a flush failed unnoticed. *)
LEMMA EntryUnnoticed ==
  ASSUME TaskInv, TaskInv', ArchiveInv, pc \in Writing, Untouched,
         NEW ch \in [file : File, offset : Nat, size : Nat], ch.file = cur,
         chs' = Append(chs, ch), NEW left, EntryDone(TRUE, left),
         Kept, missed' = missed \cup {cur}, BufferInv'
  PROVE  ArchiveInv'
<1>1. /\ ReportedIn(tc') = ReportedIn(tc) \cup {cur}
      /\ StoredIn(tc') = StoredIn(tc) \cup {cur}
      /\ pc' \in {"drain", "room", "aborted"}
  BY ReportAdds
<1>2. OutputInv'
  <2>1. UNCHANGED cur
    BY DEF Untouched
  <2> QED
    BY <1>1, <2>1, OthersKeepOutput DEF OutputInv
<1>3. SuccessInv'
  BY DEF ArchiveInv, SuccessInv, Untouched
<1>4. StreamInv'
  BY <1>1 DEF StreamInv, Streaming
<1>5. ToSet(chs') = ToSet(chs) \cup {ch}
  <2>1. PICK S : S = [file : File, offset : Nat, size : Nat]
    OBVIOUS
  <2>2. chs \in Seq(S) /\ ch \in S
    BY <2>1, ListedTyped
  <2>3. ToSet(Append(chs, ch)) = ToSet(chs) \cup {ch}
    BY <2>2, AppendDistinct
  <2> QED
    BY <2>3
<1>6. EntriesInv'
  <2>1. missed \subseteq missed' /\ cur \in missed'
    OBVIOUS
  <2>2. \A c \in ToSet(chs) : c.file \notin missed' => EntryIntact(c)' /\ EndOf(c) <= saved'
    BY <2>1, EntriesKept DEF ArchiveInv, Untouched
  <2> QED
    BY <1>5, <2>1, <2>2 DEF EntriesInv, EndOf
<1>7. ListedIn(chs') = StoredIn(tc')
  BY <1>1, <1>5 DEF ArchiveInv, ListedIn
<1> QED
  BY <1>2, <1>3, <1>4, <1>6, <1>7 DEF ArchiveInv

(* The queue of the file in progress, whose worker has ended: its bytes    *)
(* follow those in the archive, and are all that is left of the output.    *)
LEMMA LastBytes ==
  ASSUME TaskInv, ArchiveInv, pc \in Writing \ {"entry"}
  PROVE  /\ cur \in File /\ cur \notin ReportedIn(tc) /\ wpc[cur] = "ok"
         /\ rest[cur] = << >> /\ Waiting(cur) = queue[cur].buf
         /\ queue[cur].buf \in Seq(Cell) /\ Len(queue[cur].buf) \in Nat
         /\ Sent(cur) = Output(cur) /\ Taken(cur) \in Nat
         /\ Taken(cur) + Len(queue[cur].buf) = Output(cur)
         /\ InOrder(queue[cur].buf, cur, Taken(cur))
<1>1. cur \in File /\ cur \notin ReportedIn(tc) /\ wpc[cur] = "ok"
  BY CurrentTask DEF TaskInv, VectorInv
<1>2. rest[cur] = << >> /\ Waiting(cur) = queue[cur].buf
  <2>1. rest[cur] = << >>
    BY <1>1 DEF TaskInv, WorkerInv
  <2> QED
    BY <1>1, <2>1, WaitingTyped
<1>3. Sent(cur) = Output(cur)
  BY <1>1 DEF ArchiveInv, SuccessInv, Sent, Output
<1>4. Taken(cur) \in Nat /\ Len(queue[cur].buf) \in Nat /\ queue[cur].buf \in Seq(Cell)
  BY <1>1, WaitingTyped, CellsTyped
<1> QED
  BY <1>1, <1>2, <1>3, <1>4 DEF ArchiveInv, OutputInv

(* The local header goes where the entries before it end. *)
LEMMA HeaderKeepsArchive ==
  ASSUME TaskInv, TaskInv', ArchiveInv, pc = "header", pc' = "data",
         Write(<<LocalHeader(cur, Placeholder)>>), start' = pos',
         UNCHANGED <<plan, tc, cur, offset, chs, queue, wpc, pushed, rest>>
  PROVE  ArchiveInv'
<1>0. pc \in Writing /\ pc \in Writing \ {"entry"} /\ pc \notin Streaming /\ pc' \in Streaming /\ pc' # "fix"
  BY DEF Writing, Streaming
<1>1. cur \in File /\ Untouched
  BY <1>0, CurrentTask DEF Untouched
<1>2. PICK cells : cells = <<LocalHeader(cur, Placeholder)>>
  OBVIOUS
<1>3. cells \in Seq(Cell) /\ Len(cells) = 1
  BY <1>1, <1>2, CellsTyped
<1>4. /\ Len(archive') \in Nat /\ Len(archive') >= Len(archive)
      /\ pos' = pos + 1 /\ pos' \in Nat /\ pos \in Nat
      /\ \A i \in 1..Len(archive) : i <= pos => archive'[i] = archive[i]
  <2>1. pos \in Nat
    BY LenProperties DEF TaskInv, TypeInv, TypeOK
  <2>2. Write(cells)
    BY <1>2
  <2> QED
    BY <1>3, <2>1, <2>2, WriteFacts DEF TaskInv
<1>5. OutputInv'
  <2>1. Taken(cur)' = 0 /\ Taken(cur) = 0
    BY <1>0, <1>4 DEF Taken
  <2>2. /\ Taken(cur)' + Len(Waiting(cur)') = Sent(cur)'
        /\ InOrder(Waiting(cur)', cur, Taken(cur)')
    <3>1. cur \notin ReportedIn(tc)
      BY <1>0, CurrentTask
    <3> QED
      BY <1>1, <2>1, <3>1, OutputKept DEF ArchiveInv, OutputInv
  <2> QED
    BY <1>1, <2>2, OthersKeepOutput DEF OutputInv
<1>6. SuccessInv'
  BY DEF ArchiveInv, SuccessInv
<1>7. StreamInv'
  <2>1. offset = pos
    BY DEF ArchiveInv, StreamInv
  <2>2. 1..(pos' - start') = {}
    BY <1>4
  <2> QED
    BY <1>0, <1>4, <2>1, <2>2 DEF StreamInv
<1>8. EntriesInv' /\ BufferInv'
  <2>1. Write(cells)
    BY <1>2
  <2>2. Kept /\ missed \subseteq missed'
    BY <1>3, <2>1, WriteKeeps DEF Write
  <2>3. saved = offset' /\ pc' \notin Flushed
    BY <1>0 DEF ArchiveInv, BufferInv, Flushed
  <2>4. BufferInv'
    BY <1>3, <2>1, <2>3, WriteKeeps DEF ArchiveInv
  <2> QED
    BY <2>2, <2>4, EntriesKept DEF ArchiveInv
<1> QED
  BY <1>5, <1>6, <1>7, <1>8 DEF ArchiveInv

(* What is popped of the queue continues what the archive has.             *)
LEMMA DataKeepsArchive ==
  ASSUME TaskInv, TaskInv', ArchiveInv, pc \in Streaming, pc' \in Streaming,
         Write(queue[cur].buf), queue' = [queue EXCEPT ![cur] = Pop(@)],
         UNCHANGED <<plan, tc, cur, offset, start, chs, wpc, pushed, rest>>
  PROVE  ArchiveInv'
<1>0. pc \in Writing /\ pc \in Writing \ {"entry"} /\ pc \notin {"header"} /\ pc' # "header"
  BY DEF Writing, Streaming
<1>1. Untouched
  BY DEF Untouched
<1>2. PICK cells : cells = queue[cur].buf
  OBVIOUS
<1>3. /\ cur \in File /\ cur \notin ReportedIn(tc) /\ wpc[cur] = "ok"
      /\ rest[cur] = << >> /\ cells \in Seq(Cell) /\ Len(cells) \in Nat
      /\ Sent(cur) = Output(cur) /\ Taken(cur) + Len(cells) = Output(cur)
      /\ InOrder(cells, cur, Taken(cur))
  BY <1>0, <1>2, LastBytes
<1>4. /\ Len(archive') \in Nat /\ Len(archive') >= Len(archive)
      /\ pos' = pos + Len(cells) /\ pos' \in Nat
      /\ \A i \in 1..Len(archive) : i <= pos => archive'[i] = archive[i]
      /\ \A i \in 1..Len(cells) : archive'[pos + i] = cells[i]
  BY <1>2, <1>3, WriteFacts DEF TaskInv
<1>5. /\ start \in Nat /\ pos \in Nat /\ start <= pos /\ Len(archive) \in Nat /\ pos <= Len(archive)
      /\ Taken(cur) = pos - start /\ Taken(cur)' = pos' - start
  <2>1. start = offset + 1 /\ saved = offset /\ offset \in Nat
    BY <1>0 DEF TaskInv, TypeInv, TypeOK, ArchiveInv, StreamInv, BufferInv
  <2> QED
    BY <1>3, <2>1, LenProperties DEF TaskInv, TypeInv, TypeOK, PhaseInv, Taken
<1>6. queue'[cur].buf = << >> /\ Waiting(cur)' = << >>
  <2>1. queue'[cur].buf = << >>
    BY <1>3 DEF TaskInv, TypeInv, Pop
  <2> QED
    BY <1>3, <2>1, ConcatEmptySeq, EmptySeq DEF Waiting
<1>7. OutputInv'
  <2>1. /\ Taken(cur)' + Len(Waiting(cur)') = Sent(cur)'
        /\ InOrder(Waiting(cur)', cur, Taken(cur)')
    <3>1. Sent(cur)' = Sent(cur)
      BY DEF Sent, Ends
    <3>2. Len(Waiting(cur)') = 0
      BY <1>6, EmptySeq
    <3> QED
      BY <1>3, <1>4, <1>5, <3>1, <3>2 DEF InOrder
  <2> QED
    BY <1>1, <2>1, OthersKeepOutput DEF OutputInv
<1>8. SuccessInv'
  BY DEF ArchiveInv, SuccessInv
<1>9. StreamInv'
  <2>1. ASSUME NEW i \in 1..(pos' - start) PROVE archive'[start + i] = DataByte(cur, i)
    <3>1. CASE i <= pos - start
      <4>1. start + i \in 1..Len(archive) /\ start + i <= pos /\ i \in 1..(pos - start)
        BY <1>5, <3>1
      <4> QED
        BY <1>4, <4>1 DEF ArchiveInv, StreamInv
    <3>2. CASE ~(i <= pos - start)
      <4>1. PICK k \in 1..Len(cells) : start + i = pos + k /\ i = (pos - start) + k
        <5>1. i - (pos - start) \in 1..Len(cells)
          BY <1>3, <1>4, <1>5, <3>2
        <5> QED
          BY <1>5, <5>1
      <4>2. archive'[start + i] = cells[k]
        BY <1>4, <4>1
      <4>3. cells[k] = DataByte(cur, i)
        BY <1>3, <1>5, <4>1 DEF InOrder
      <4> QED
        BY <4>2, <4>3
    <3> QED
      BY <3>1, <3>2
  <2> QED
    BY <1>0, <1>6, <2>1 DEF ArchiveInv, StreamInv
<1>10. EntriesInv' /\ BufferInv'
  <2>1. Write(cells)
    BY <1>2
  <2>2. Kept /\ missed \subseteq missed'
    BY <1>3, <2>1, WriteKeeps DEF Write
  <2>3. saved = offset' /\ pc' \notin Flushed
    BY <1>0 DEF ArchiveInv, BufferInv, Flushed, Streaming
  <2>4. BufferInv'
    BY <1>3, <2>1, <2>3, WriteKeeps DEF ArchiveInv
  <2> QED
    BY <2>2, <2>4, EntriesKept DEF ArchiveInv
<1> QED
  BY <1>7, <1>8, <1>9, <1>10 DEF ArchiveInv

(* One cell written over another. *)
LEMMA OneWritten ==
  ASSUME NEW a \in Seq(Cell), NEW x \in Cell, NEW p \in Nat, p + 1 <= Len(a)
  PROVE  /\ Len(Written(a, p, <<x>>)) = Len(a)
         /\ Written(a, p, <<x>>)[p + 1] = x
         /\ \A i \in 1..Len(a) : i <= p \/ i > p + 1 => Written(a, p, <<x>>)[i] = a[i]
<1>1. PICK cells : cells = <<x>>
  OBVIOUS
<1>2. cells \in Seq(Cell) /\ Len(cells) = 1 /\ cells[1] = x /\ Len(a) \in Nat
  BY <1>1, LenProperties
<1>3. /\ Len(Written(a, p, cells)) =
           IF cells = << >> \/ Len(a) > p + Len(cells) THEN Len(a) ELSE p + Len(cells)
      /\ \A i \in 1..Len(a) :
           i <= p \/ i > p + Len(cells) => Written(a, p, cells)[i] = a[i]
      /\ \A i \in 1..Len(cells) : Written(a, p, cells)[p + i] = cells[i]
  BY <1>2, WrittenFacts, Zenon
<1>4. PICK w : w = Written(a, p, cells)
  OBVIOUS
<1>5. Len(w) = Len(a) /\ w[p + 1] = x /\ \A i \in 1..Len(a) : i <= p \/ i > p + 1 => w[i] = a[i]
  <2>1. 1 \in 1..Len(cells)
    BY <1>2
  <2> QED
    BY <1>2, <1>3, <1>4, <2>1
<1> QED
  BY <1>1, <1>4, <1>5

(* Rewriting a header in place changes that one cell. *)
LEMMA HeaderWritten ==
  ASSUME TaskInv, NEW header \in Cell, offset + 1 <= Len(archive),
         archive' = Written(archive, offset, <<header>>)
  PROVE  /\ Len(archive') = Len(archive)
         /\ archive'[offset + 1] = header
         /\ \A i \in 1..Len(archive) : i <= offset \/ i > offset + 1 => archive'[i] = archive[i]
<1>1. archive \in Seq(Cell) /\ offset \in Nat
  BY LenProperties DEF TaskInv, TypeInv, TypeOK
<1>2. \A a \in Seq(Cell), x \in Cell, p \in Nat : p + 1 <= Len(a) =>
         /\ Len(Written(a, p, <<x>>)) = Len(a)
         /\ Written(a, p, <<x>>)[p + 1] = x
         /\ \A i \in 1..Len(a) : i <= p \/ i > p + 1 => Written(a, p, <<x>>)[i] = a[i]
  BY OneWritten, ZenonT(40)
<1> QED
  BY <1>1, <1>2

(* The rewritten header completes the entry. *)
LEMMA FixKeepsArchive ==
  ASSUME TaskInv, TaskInv', ArchiveInv, pc = "fix", UNCHANGED <<queue, missed>>, Untouched,
         NEW ch, ch = [file |-> cur, offset |-> offset, size |-> pos - start],
         OnDisk(Written(archive, offset, <<LocalHeader(cur, ch.size)>>), pos),
         chs' = Append(chs, ch),
         EntryDone(TRUE, queue[cur].buf)
  PROVE  /\ ArchiveInv'
         /\ Len(archive') = Len(archive) /\ EndOf(ch) = pos
         /\ ch \in [file : File, offset : Nat, size : Nat]
         /\ \A i \in 1..Len(archive) : archive'[i] \in {archive[i], LocalHeader(cur, ch.size)}
<1>0. pc \in Writing /\ pc \in Writing \ {"entry"} /\ pc \in Streaming
  BY DEF Writing, Streaming
<1>1. /\ cur \in File /\ wpc[cur] = "ok" /\ queue[cur].buf = << >> /\ Taken(cur) = Output(cur)
      /\ Output(cur) \in Nat
  <2>1. queue[cur].buf = << >>
    BY DEF ArchiveInv, StreamInv
  <2> QED
    BY <1>0, <2>1, LastBytes, EmptySeq
<1>2. /\ start = offset + 1 /\ offset \in Nat /\ pos \in Nat /\ Len(archive) \in Nat /\ saved = offset
      /\ pos <= Len(archive) /\ start <= pos /\ archive \in Seq(Cell)
      /\ pos - start = Output(cur)
      /\ archive' = Written(archive, offset, <<LocalHeader(cur, ch.size)>>)
      /\ disk' = archive' /\ pos' = pos /\ saved' = pos
  <2>1. saved = offset /\ start = offset + 1 /\ pos - start = Output(cur)
    BY <1>0, <1>1 DEF ArchiveInv, StreamInv, BufferInv, Taken
  <2>2. offset \in Nat /\ pos \in Nat /\ start <= pos /\ archive \in Seq(Cell) /\ Len(archive) \in Nat
        /\ (saved # pos => pos <= Len(archive))
    BY <1>0, LenProperties DEF TaskInv, TypeInv, TypeOK, PhaseInv
  <2>3. pos <= Len(archive)
    BY <2>1, <2>2
  <2> QED
    BY <2>1, <2>2, <2>3 DEF OnDisk
<1>3. /\ ch.file = cur /\ ch.offset = offset /\ ch.size = Output(cur)
      /\ ch \in [file : File, offset : Nat, size : Nat]
  BY <1>1, <1>2
<1>4. PICK header : header = LocalHeader(cur, ch.size)
  OBVIOUS
<1>5. header \in Cell
  <2>1. header \in Header
    BY <1>1, <1>3, <1>4 DEF LocalHeader, Header
  <2> QED
    BY <2>1 DEF Cell
<1>6. /\ Len(archive') = Len(archive)
      /\ archive'[offset + 1] = header
      /\ \A i \in 1..Len(archive) : i <= offset \/ i > offset + 1 => archive'[i] = archive[i]
  <2>1. archive' = Written(archive, offset, <<header>>) /\ offset + 1 <= Len(archive)
    BY <1>2, <1>4
  <2> QED
    BY <1>5, <2>1, HeaderWritten
<1>7. /\ ReportedIn(tc') = ReportedIn(tc) \cup {cur}
      /\ StoredIn(tc') = StoredIn(tc) \cup {cur}
      /\ pc' \in {"drain", "room", "aborted"}
  BY <1>0, ReportAdds
<1>8. ToSet(chs') = ToSet(chs) \cup {ch}
  <2>1. PICK S : S = [file : File, offset : Nat, size : Nat]
    OBVIOUS
  <2>2. chs \in Seq(S) /\ ch \in S
    BY <1>3, <2>1, ListedTyped
  <2>3. ToSet(Append(chs, ch)) = ToSet(chs) \cup {ch}
    BY <2>2, AppendDistinct
  <2> QED
    BY <2>3
<1>9. OutputInv'
  <2>1. UNCHANGED cur
    BY DEF Untouched
  <2> QED
    BY <1>7, <2>1, OthersKeepOutput DEF OutputInv
<1>10. SuccessInv'
  BY DEF ArchiveInv, SuccessInv, Untouched
<1>11. StreamInv'
  BY <1>7 DEF StreamInv, Streaming
<1>12. EntriesInv'
  <2>1. \A c \in ToSet(chs) : c.file \notin missed' => EntryIntact(c)' /\ EndOf(c) <= saved'
    <3>1. Kept
      BY <1>2, <1>6 DEF Kept
    <3> QED
      BY <3>1, EntriesKept DEF ArchiveInv, Untouched
  <2>2. EntryIntact(ch)' /\ EndOf(ch) = pos
    <3>1. EndOf(ch) = pos
      BY <1>1, <1>2, <1>3 DEF EndOf
    <3>2. \A i \in 1..ch.size : archive'[ch.offset + 1 + i] = DataByte(cur, i)
      <4> SUFFICES ASSUME NEW i \in 1..ch.size PROVE archive'[ch.offset + 1 + i] = DataByte(cur, i)
        OBVIOUS
      <4>1. archive[start + i] = DataByte(cur, i)
        BY <1>0, <1>2, <1>3 DEF ArchiveInv, StreamInv
      <4>2. start + i \in 1..Len(archive) /\ start + i > offset + 1 /\ start + i = ch.offset + 1 + i
        BY <1>1, <1>2, <1>3
      <4> QED
        BY <1>6, <4>1, <4>2
    <3>3. ch.size = Output(ch.file)' /\ wpc'[ch.file] = "ok"
      BY <1>1, <1>3 DEF Untouched, Output, Ends
    <3>4. ch.offset + 1 + ch.size <= Len(archive')
      BY <1>1, <1>2, <1>3, <1>6
    <3> QED
      BY <1>3, <1>4, <1>6, <3>1, <3>2, <3>3, <3>4 DEF EntryIntact
  <2> QED
    BY <1>2, <1>8, <2>1, <2>2 DEF EntriesInv, EndOf
<1>13. ListedIn(chs') = StoredIn(tc')
  BY <1>3, <1>7, <1>8 DEF ArchiveInv, ListedIn
<1>14. EndOf(ch) = pos
  BY <1>1, <1>2, <1>3 DEF EndOf
<1>15. \A i \in 1..Len(archive) : archive'[i] \in {archive[i], LocalHeader(cur, ch.size)}
  BY <1>2, <1>4, <1>6, SMTT(40)
<1>16. BufferInv'
  BY <1>2, <1>7 DEF BufferInv, Writing
<1> QED
  BY <1>3, <1>6, <1>9, <1>10, <1>11, <1>12, <1>13, <1>14, <1>15, <1>16 DEF ArchiveInv

(* However the header is rewritten, what lies before the entry is kept. *)
LEMMA FixKeeps ==
  ASSUME TaskInv, ArchiveInv, FixHeader \/ FixHeaderUnnoticed
  PROVE  /\ Kept
         /\ pc' \notin (Writing \ {"entry"}) \cup {"end"} => BufferInv'
<1>1. /\ pc = "fix" /\ pc \in Writing \ {"entry"} /\ saved = offset
      /\ archive \in Seq(Cell) /\ disk \in Seq(Cell) /\ Len(archive) \in Nat /\ Len(disk) \in Nat
      /\ saved \in Nat /\ pos \in Nat /\ saved <= pos /\ NewHeader \in Seq(Cell) /\ TypeInv
  <2>1. pc = "fix" /\ pc \in Writing \ {"entry"}
    BY FixOutcome DEF Writing
  <2> QED
    BY <2>1, NewHeaderTyped, LenProperties DEF TaskInv, TypeInv, TypeOK, ArchiveInv, BufferInv
<1>2. \A i \in 1..Len(archive) : i <= saved => archive[i] = Torn \/ (i <= Len(disk) /\ disk[i] = archive[i])
  BY DEF ArchiveInv, BufferInv
<1>3. ASSUME NEW a \in Seq(Cell), NEW p \in Nat, NEW cells \in Seq(Cell), NEW q \in Nat,
             OnDisk(Written(a, p, cells), q), q >= saved, p >= saved, Len(a) \in Nat,
             \A i \in 1..Len(archive) : i <= saved => archive[i] = Torn \/ (i <= Len(a) /\ a[i] = archive[i])
      PROVE  Kept /\ (pc' \notin (Writing \ {"entry"}) \cup {"end"} => BufferInv')
  <2>1. PICK w : w = Written(a, p, cells)
    OBVIOUS
  <2>2. w \in Seq(Cell) /\ Len(w) \in Nat /\ Len(w) >= Len(a) /\ \A i \in 1..Len(a) : i <= p => w[i] = a[i]
    BY <2>1, StoppedFacts
  <2>3. archive' = w /\ saved' = q /\ OnDisk(w, q)
    BY <1>3, <2>1 DEF OnDisk
  <2>4. Kept
    BY <1>1, <1>3, <2>2, <2>3 DEF Kept
  <2> QED
    BY <2>2, <2>3, <2>4, FlushEmpties
<1>4. CASE OnDisk(Written(archive, offset, NewHeader), pos)
  BY <1>1, <1>3, <1>4
<1>5. CASE \E part \in Seq(Cell) : OnDisk(Written(archive, offset, part), offset + Len(part))
  <2>1. PICK part \in Seq(Cell) : OnDisk(Written(archive, offset, part), offset + Len(part))
    BY <1>5
  <2>2. PICK q \in Nat : q = offset + Len(part) /\ q >= saved
    BY <1>1, LenProperties
  <2> QED
    BY <1>1, <1>3, <2>1, <2>2
<1>6. CASE \E to \in Unmoved : OnDisk(Written(to.file, to.at, NewHeader), pos)
  <2>1. PICK to \in Unmoved : OnDisk(Written(to.file, to.at, NewHeader), pos)
    BY <1>6
  <2>2. PICK a \in Seq(Cell), p \in Nat : /\ a = to.file /\ p = to.at /\ p >= saved
                                        /\ Len(a) \in Nat /\ Len(a) >= Len(disk)
                                        /\ \A i \in 1..Len(disk) : i <= saved => a[i] = disk[i]
    BY <1>1, UnmovedFacts
  <2>3. \A i \in 1..Len(archive) : i <= saved => archive[i] = Torn \/ (i <= Len(a) /\ a[i] = archive[i])
    BY <1>1, <1>2, <2>2
  <2> QED
    BY <1>1, <1>3, <2>1, <2>2, <2>3
<1>7. CASE \E to \in Unmoved, part \in Seq(Cell) : OnDisk(Written(to.file, to.at, part), to.at + Len(part))
  <2>1. PICK to \in Unmoved, part \in Seq(Cell) : OnDisk(Written(to.file, to.at, part), to.at + Len(part))
    BY <1>7
  <2>2. PICK a \in Seq(Cell), p \in Nat : /\ a = to.file /\ p = to.at /\ p >= saved
                                        /\ Len(a) \in Nat /\ Len(a) >= Len(disk)
                                        /\ \A i \in 1..Len(disk) : i <= saved => a[i] = disk[i]
    BY <1>1, UnmovedFacts
  <2>3. \A i \in 1..Len(archive) : i <= saved => archive[i] = Torn \/ (i <= Len(a) /\ a[i] = archive[i])
    BY <1>1, <1>2, <2>2
  <2>4. PICK q \in Nat : q = p + Len(part) /\ q >= saved
    BY <1>1, <2>2, LenProperties
  <2> QED
    BY <1>1, <1>3, <2>1, <2>2, <2>3, <2>4
<1> QED
  BY <1>4, <1>5, <1>6, <1>7, FixOutcome DEF Endless

(* Every step of write_entry keeps the invariant of the entries. *)
LEMMA WriteEntryKeepsArchive ==
  ASSUME TaskInv, TaskInv', ArchiveInv, WriteEntry
  PROVE  ArchiveInv'
<1>0. pc \in Writing /\ cur \in File
  <2>1. pc \in Writing
    BY DEF WriteEntry, GetResult, WriteHeader, WriteData, CheckState, WriteLast, FixHeader,
           FixHeaderUnnoticed, Writing
  <2> QED
    BY <2>1, CurrentTask
<1>1. ASSUME NEW left, EntryDone(FALSE, left)
      PROVE  pc' \notin (Writing \ {"entry"}) \cup {"end"}
  BY <1>0, <1>1, ReportAdds DEF Writing
<1>2. CASE GetResult
  <2>1. /\ pc = "entry" /\ offset' = pos
        /\ UNCHANGED <<plan, cur, start, chs, archive, pos, disk, saved, missed>>
        /\ UNCHANGED <<queue, wpc, pushed, rest>>
    BY <1>2 DEF GetResult, fileVars, workVars
  <2>2. saved = pos /\ disk = archive
    BY <2>1 DEF ArchiveInv, BufferInv, Flushed
  <2>3. Kept
    BY <2>1, StillKept
  <2>4. BufferInv'
    BY <2>1, <2>2 DEF ArchiveInv, BufferInv
  <2>5. CASE pc' = "header" /\ UNCHANGED tc
    <3>1. OutputInv'
      <4> SUFFICES ASSUME NEW f \in File \ ReportedIn(tc)
                   PROVE  /\ Taken(f)' + Len(Waiting(f)') = Sent(f)'
                          /\ InOrder(Waiting(f)', f, Taken(f)')
        BY <2>5 DEF OutputInv
      <4>1. Taken(f)' = Taken(f)
        BY <2>1, <2>5 DEF Taken, Streaming
      <4> QED
        BY <2>1, <4>1, OutputKept DEF ArchiveInv, OutputInv
    <3>2. SuccessInv'
      BY <2>1 DEF ArchiveInv, SuccessInv
    <3>3. StreamInv'
      BY <2>1, <2>5 DEF StreamInv, Streaming
    <3>4. EntriesInv'
      BY <2>1, <2>3, EntriesKept DEF ArchiveInv
    <3> QED
      BY <2>1, <2>4, <2>5, <3>1, <3>2, <3>3, <3>4 DEF ArchiveInv
  <2>6. CASE EntryDone(FALSE, queue[cur].buf)
    <3>1. Untouched /\ UNCHANGED chs /\ missed \subseteq missed'
      BY <2>1 DEF Untouched
    <3> QED
      BY <1>0, <2>3, <2>4, <2>6, <3>1, EntryLost
  <2> QED
    BY <1>2, <2>5, <2>6 DEF GetResult
<1>3. CASE WriteHeader
  <2>1. PICK cells : cells = <<LocalHeader(cur, Placeholder)>>
    OBVIOUS
  <2>2. pc = "header" /\ UNCHANGED <<plan, cur, offset, chs, queue, wpc, pushed, rest>>
    BY <1>3 DEF WriteHeader, workVars
  <2>3. CASE Write(cells) /\ pc' = "data" /\ start' = pos' /\ UNCHANGED <<tc, tasks>>
    BY <2>1, <2>2, <2>3, HeaderKeepsArchive
  <2>4. CASE WriteFails(cells) /\ EntryDone(FALSE, queue[cur].buf)
    <3>1. cells \in Seq(Cell)
      BY <1>0, <2>1, CellsTyped
    <3>2. Kept /\ missed \subseteq missed' /\ BufferInv'
      BY <1>1, <2>4, <3>1, WriteFailsKeeps DEF ArchiveInv
    <3>3. Untouched /\ UNCHANGED chs
      BY <2>2 DEF Untouched
    <3> QED
      BY <1>0, <2>4, <3>2, <3>3, EntryLost
  <2> QED
    BY <1>3, <2>1, <2>3, <2>4 DEF WriteHeader
<1>4. CASE WriteData
  <2>1. /\ pc = "data" /\ UNCHANGED <<plan, cur, offset, start, chs, wpc, pushed, rest>>
        /\ queue' = [queue EXCEPT ![cur] = Pop(@)]
    BY <1>4 DEF WriteData
  <2>2. CASE Write(queue[cur].buf) /\ pc' = "check" /\ UNCHANGED <<tc, tasks>>
    <3>1. pc \in Streaming /\ pc' \in Streaming
      BY <2>1, <2>2 DEF Streaming
    <3> QED
      BY <2>1, <2>2, <3>1, DataKeepsArchive
  <2>3. CASE WriteFails(queue[cur].buf) /\ EntryDone(FALSE, << >>)
    <3>1. PICK cells : cells = queue[cur].buf
      OBVIOUS
    <3>2. cells \in Seq(Cell)
      BY <1>0, <3>1, CellsTyped
    <3>3. Kept /\ missed \subseteq missed' /\ BufferInv'
      BY <1>1, <2>3, <3>1, <3>2, WriteFailsKeeps DEF ArchiveInv
    <3>4. Untouched /\ UNCHANGED chs
      BY <2>1 DEF Untouched
    <3> QED
      BY <1>0, <2>3, <3>3, <3>4, EntryLost
  <2> QED
    BY <1>4, <2>2, <2>3 DEF WriteData
<1>5. CASE CheckState
  BY <1>5, BookkeepingKeepsArchive DEF Bookkeeping
<1>6. CASE WriteLast
  <2>1. /\ pc \in Streaming /\ pc' \in Streaming
        /\ Write(queue[cur].buf) /\ queue' = [queue EXCEPT ![cur] = Pop(@)]
        /\ UNCHANGED <<plan, tc, cur, offset, start, chs, wpc, pushed, rest>>
    BY <1>6 DEF WriteLast, Streaming, mainVars
  <2> QED
    BY <2>1, DataKeepsArchive
<1>7. ASSUME FixHeader \/ FixHeaderUnnoticed, EntryDone(FALSE, queue[cur].buf), UNCHANGED chs
      PROVE  ArchiveInv'
  <2>1. UNCHANGED <<plan, cur, queue, wpc, pushed, rest>> /\ missed \subseteq missed'
    BY <1>7, FixOutcome
  <2>2. Untouched
    BY <2>1 DEF Untouched
  <2>3. Kept /\ BufferInv'
    BY <1>1, <1>7, FixKeeps
  <2> QED
    BY <1>0, <1>7, <2>1, <2>2, <2>3, EntryLost
<1>8. CASE FixHeader
  <2>1. /\ pc = "fix" /\ UNCHANGED <<queue, missed>> /\ Untouched
    BY <1>8 DEF FixHeader, workVars, Untouched
  <2>2. PICK ch : ch = [file |-> cur, offset |-> offset, size |-> pos - start]
    OBVIOUS
  <2>3. ch = NewCentral /\ NewHeader = <<LocalHeader(cur, ch.size)>>
    BY <2>2 DEF NewCentral, NewHeader
  <2>4. CASE /\ OnDisk(Written(archive, offset, NewHeader), pos)
             /\ chs' = Append(chs, NewCentral)
             /\ EntryDone(TRUE, queue[cur].buf)
    BY <2>1, <2>2, <2>3, <2>4, FixKeepsArchive
  <2>5. CASE EntryDone(FALSE, queue[cur].buf) /\ UNCHANGED chs
    BY <1>7, <1>8, <2>5
  <2> QED
    BY <1>8, <2>4, <2>5 DEF FixHeader
<1>9. CASE FixHeaderUnnoticed
  <2>1. pc = "fix" /\ UNCHANGED <<plan, cur, queue, wpc, pushed, rest>> /\ missed' = missed \cup {cur}
    BY <1>9, FixOutcome DEF FixHeaderUnnoticed
  <2>2. CASE EntryDone(FALSE, queue[cur].buf) /\ UNCHANGED chs
    BY <1>7, <1>9, <2>2
  <2>3. CASE EntryDone(TRUE, queue[cur].buf) /\ chs' = Append(chs, NewCentral)
    <3>1. PICK ch \in [file : File, offset : Nat, size : Nat] : ch = NewCentral /\ ch.file = cur
      BY <2>1, NewHeaderTyped
    <3>2. Untouched
      BY <2>1 DEF Untouched
    <3>3. pc' \notin (Writing \ {"entry"}) \cup {"end"}
      BY <1>0, <2>3, ReportAdds DEF Writing
    <3>4. Kept /\ BufferInv'
      BY <1>9, <3>3, FixKeeps
    <3> QED
      BY <1>0, <2>1, <2>3, <3>1, <3>2, <3>4, EntryUnnoticed
  <2> QED
    BY <1>9, <2>2, <2>3, FixOutcome
<1> QED
  BY <1>2, <1>3, <1>4, <1>5, <1>6, <1>8, <1>9 DEF WriteEntry

(* The directory is written behind the entries, and so is what fclose      *)
(* writes.                                                                 *)
LEMMA DirectoryKeepsArchive ==
  ASSUME TaskInv, TaskInv', ArchiveInv, WriteCentral \/ WriteEnd \/ SetFinished
  PROVE  ArchiveInv'
<1>0. tc \in Control(File)
  BY DEF TaskInv, TypeInv, TypeOK
<1>1. /\ UNCHANGED <<plan, cur, start, chs, queue, wpc, pushed, rest, missed>>
      /\ tc'.results = tc.results
      /\ pc \in {"central", "end", "finished"}
      /\ pc' \in {"end", "finished", "threw", "returned", "short"}
  <2>1. CASE WriteCentral
    BY <2>1 DEF WriteCentral, workVars, Write, WriteFails
  <2>2. CASE WriteEnd
    BY <2>2 DEF WriteEnd, mainVars, workVars, Write, WriteFails
  <2>3. CASE SetFinished
    BY <1>0, <2>3 DEF SetFinished, SetState, Control, mainVars, workVars
  <2> QED
    BY <2>1, <2>2, <2>3
<1>2. Kept /\ BufferInv'
  <2>1. CASE WriteCentral
    <3>1. PICK cells \in Seq(Cell) : (Write(cells) /\ pc' = "end") \/ (WriteFails(cells) /\ pc' = "threw")
      BY <2>1, CellsTyped DEF WriteCentral
    <3>2. saved = pos /\ offset' = pos
      BY <2>1 DEF WriteCentral, ArchiveInv, BufferInv, Flushed
    <3> QED
      BY <3>1, <3>2, WriteKeeps, WriteFailsKeeps DEF ArchiveInv, Flushed, Writing
  <2>2. CASE WriteEnd
    <3>1. PICK cells \in Seq(Cell) : (Write(cells) /\ pc' = "finished") \/ (WriteFails(cells) /\ pc' = "threw")
      BY <2>2, CellsTyped DEF WriteEnd
    <3> QED
      BY <3>1, WriteKeeps, WriteFailsKeeps DEF ArchiveInv, Flushed, Writing
  <2>3. CASE SetFinished
    <3>1. pc' \notin (Writing \ {"entry"}) \cup {"end"} /\ TypeInv /\ BufferInv
      BY <2>3 DEF SetFinished, Writing, TaskInv, ArchiveInv
    <3>2. CASE OnDisk(archive, pos)
      <4>1. archive' = archive /\ saved' = pos /\ saved <= pos /\ saved \in Nat /\ pos \in Nat
            /\ archive \in Seq(Cell) /\ Len(archive) \in Nat
        BY <3>1, <3>2, LenProperties DEF OnDisk, TypeInv, TypeOK
      <4>2. Kept
        BY <4>1 DEF Kept
      <4> QED
        BY <3>1, <3>2, <4>1, <4>2, FlushEmpties
    <3>3. CASE \E part \in Seq(Cell) : OnDisk(Written(disk, saved, part), saved + Len(part))
      <4>1. PICK part \in Seq(Cell) : OnDisk(Written(disk, saved, part), saved + Len(part))
        BY <3>3
      <4>2. PICK a, q : a = Written(disk, saved, part) /\ q = saved + Len(part)
        OBVIOUS
      <4>3. a \in Seq(Cell)
        BY <3>1, <4>2, StoppedFacts DEF TypeInv, TypeOK
      <4> QED
        BY <3>1, <4>1, <4>2, <4>3, StoppedKeeps, FlushEmpties
    <3> QED
      BY <2>3, <3>1, <3>2, <3>3, FinishOutcome
  <2> QED
    BY <2>1, <2>2, <2>3
<1>3. OutputInv'
  <2> SUFFICES ASSUME NEW f \in File \ ReportedIn(tc)
               PROVE  /\ Taken(f)' + Len(Waiting(f)') = Sent(f)'
                      /\ InOrder(Waiting(f)', f, Taken(f)')
    BY <1>1 DEF OutputInv, ReportedIn
  <2>1. Taken(f)' = Taken(f)
    BY <1>1 DEF Taken, Streaming
  <2> QED
    BY <1>1, <2>1, OutputKept DEF ArchiveInv, OutputInv
<1>4. SuccessInv'
  BY <1>1 DEF ArchiveInv, SuccessInv
<1>5. StreamInv'
  BY <1>1 DEF StreamInv, Streaming
<1>6. EntriesInv'
  BY <1>1, <1>2, EntriesKept DEF ArchiveInv
<1>7. ListedIn(chs') = StoredIn(tc')
  BY <1>1 DEF ArchiveInv, StoredIn
<1> QED
  BY <1>2, <1>3, <1>4, <1>5, <1>6, <1>7 DEF ArchiveInv

(* The archive is empty and nothing is listed at first. *)
LEMMA ArchiveInvInit == Init => ArchiveInv
<1> SUFFICES ASSUME Init PROVE ArchiveInv
  OBVIOUS
<1>1. TaskInv
  BY TaskInvInit
<1>2. pc = "idle" /\ chs = << >> /\ tc.results = << >>
  BY DEF Init, NewControl
<1>3. ToSet(chs) = {} /\ ToSet(tc.results) = {}
  BY <1>2 DEF ToSet
<1>4. OutputInv
  <2> SUFFICES ASSUME NEW f \in File
               PROVE  Taken(f) + Len(Waiting(f)) = Sent(f) /\ InOrder(Waiting(f), f, Taken(f))
    BY DEF OutputInv
  <2>1. Taken(f) = 0 /\ Sent(f) = 0
    BY <1>2 DEF Taken, Streaming, Sent, Ends, Init
  <2>2. Len(Waiting(f)) = 0
    <3>1. queue[f].buf = << >> /\ rest[f] = << >> /\ Len(<< >>) = 0
      BY DEF Init, NewQueue
    <3> QED
      BY <1>1, <3>1, WaitingTyped
  <2> QED
    BY <2>1, <2>2 DEF InOrder
<1>5. SuccessInv
  BY DEF Init, SuccessInv
<1>6. StreamInv
  BY <1>2 DEF StreamInv, Streaming
<1>7. BufferInv
  <2>1. saved = 0 /\ pos = 0 /\ disk = archive /\ archive = << >> /\ Len(archive) = 0
    BY DEF Init
  <2> QED
    BY <1>2, <2>1 DEF BufferInv, Writing
<1> QED
  BY <1>3, <1>4, <1>5, <1>6, <1>7 DEF ArchiveInv, EntriesInv, ListedIn, StoredIn

(* A step of Next is one of a worker, of Bookkeeping, or one that writes. *)
LEMMA StepKinds ==
  ASSUME [Next]_vars
  PROVE  \/ \E f \in File : Proceed(f) \/ Fail(f)
         \/ Bookkeeping
         \/ WriteEntry
         \/ WriteCentral
         \/ WriteEnd
         \/ SetFinished
BY DEF Next, Main, Over, Bookkeeping

(* The invariant of the archive is inductive, given that of the tasks. *)
LEMMA ArchiveInvNext == TaskInv /\ ArchiveInv /\ [Next]_vars => ArchiveInv'
<1> SUFFICES ASSUME TaskInv, ArchiveInv, [Next]_vars PROVE ArchiveInv'
  OBVIOUS
<1>1. TaskInv'
  BY TaskInvNext
<1>2. CASE \E f \in File : Proceed(f) \/ Fail(f)
  BY <1>2, WorkerKeepsArchive
<1>3. CASE Bookkeeping
  BY <1>1, <1>3, BookkeepingKeepsArchive
<1>4. CASE WriteEntry
  BY <1>1, <1>4, WriteEntryKeepsArchive
<1>5. CASE WriteCentral \/ WriteEnd \/ SetFinished
  BY <1>1, <1>5, DirectoryKeepsArchive
<1> QED
  BY <1>2, <1>3, <1>4, <1>5, StepKinds

(* The inductive invariant of the entries holds. *)
THEOREM EntriesAgree == Spec => [](TaskInv /\ ArchiveInv)
<1>1. Init => TaskInv /\ ArchiveInv
  BY TaskInvInit, ArchiveInvInit
<1>2. TaskInv /\ ArchiveInv /\ [Next]_vars => TaskInv' /\ ArchiveInv'
  BY TaskInvNext, ArchiveInvNext
<1> QED
  BY <1>1, <1>2, PTL DEF Spec

(* Whatever else failed, an entry of the directory is a header with the    *)
(* right size followed by all bytes of its file, unless a flush failed     *)
(* unnoticed while that header was rewritten; and it is listed just when   *)
(* it was reported as a success.                                           *)
THEOREM EntriesAreSound == Spec => []CentralIsSound
<1>1. TaskInv /\ ArchiveInv => CentralIsSound
  <2> SUFFICES ASSUME TaskInv, ArchiveInv PROVE CentralIsSound
    OBVIOUS
  <2>1. \A i \in DOMAIN chs : chs[i].file \notin missed => EntryIntact(chs[i])
    BY ListedTyped DEF ArchiveInv, EntriesInv
  <2> QED
    BY <2>1 DEF CentralIsSound, ArchiveInv, ListedIn, StoredIn
<1> QED
  BY <1>1, EntriesAgree, PTL

-----------------------------------------------------------------------------
(* Every cell of an archive was there, or has just been written, or is a   *)
(* hole.                                                                   *)
LEMMA WrittenOrigin ==
  ASSUME NEW a \in Seq(Cell), NEW cells \in Seq(Cell), NEW p \in Nat
  PROVE  \A i \in 1..Len(Written(a, p, cells)) :
           \/ i \in 1..Len(a) /\ Written(a, p, cells)[i] = a[i]
           \/ Written(a, p, cells)[i] = Torn
           \/ \E k \in 1..Len(cells) : i = p + k /\ Written(a, p, cells)[i] = cells[k]
<1>1. Len(a) \in Nat /\ Len(cells) \in Nat
  BY LenProperties
<1>2. PICK w : w = Written(a, p, cells)
  OBVIOUS
<1>3. /\ Len(w) = IF cells = << >> \/ Len(a) > p + Len(cells) THEN Len(a) ELSE p + Len(cells)
      /\ \A i \in 1..Len(a) : i <= p \/ i > p + Len(cells) => w[i] = a[i]
      /\ \A i \in 1..Len(cells) : w[p + i] = cells[i]
      /\ \A i \in 1..Len(w) : i > Len(a) /\ i <= p => w[i] = Torn
  BY <1>2, WrittenFacts
<1>4. ASSUME NEW i \in 1..Len(w)
      PROVE  \/ i \in 1..Len(a) /\ w[i] = a[i]
             \/ w[i] = Torn
             \/ \E k \in 1..Len(cells) : i = p + k /\ w[i] = cells[k]
  <2>1. CASE i > p /\ i <= p + Len(cells)
    <3>1. i - p \in 1..Len(cells) /\ i = p + (i - p)
      BY <1>1, <2>1
    <3> QED
      BY <1>3, <3>1
  <2>2. CASE ~(i > p /\ i <= p + Len(cells)) /\ i <= Len(a)
    BY <1>1, <1>3, <2>2
  <2>3. CASE ~(i > p /\ i <= p + Len(cells)) /\ ~(i <= Len(a))
    BY <1>1, <1>3, <2>3
  <2> QED
    BY <2>1, <2>2, <2>3
<1> QED
  BY <1>2, <1>4

(* No end record comes from a write of other cells. *)
LEMMA WrittenNoEnd ==
  ASSUME NEW a \in Seq(Cell), NEW cells \in Seq(Cell), NEW p \in Nat, NoEnd(a), NoEnd(cells)
  PROVE  NoEnd(Written(a, p, cells))
<1>1. PICK w : w = Written(a, p, cells)
  OBVIOUS
<1>2. \A i \in 1..Len(w) :
        \/ i \in 1..Len(a) /\ w[i] = a[i]
        \/ w[i] = Torn
        \/ \E k \in 1..Len(cells) : i = p + k /\ w[i] = cells[k]
  BY <1>1, WrittenOrigin
<1>3. Torn.kind # "end"
  BY DEF Torn
<1> QED
  BY <1>1, <1>2, <1>3 DEF NoEnd

(* The kinds of the cells tell an end record from the others. *)
LEMMA Kinds ==
  ASSUME TaskInv
  PROVE  /\ cur \in File => NoEnd(queue[cur].buf)
         /\ \A f, n : LocalHeader(f, n).kind = "local"
         /\ NoEnd(CentralDirectory)
         /\ \A n, o, m : Zip64End(n, o, m).kind = "z64end"
         /\ \A o : Zip64Locator(o).kind = "z64loc"
         /\ EndRecord.kind = "end" /\ Torn.kind = "torn"
<1>1. cur \in File => NoEnd(queue[cur].buf)
  <2> SUFFICES ASSUME cur \in File, NEW i \in 1..Len(queue[cur].buf)
               PROVE  queue[cur].buf[i].kind # "end"
    BY DEF NoEnd
  <2>1. queue[cur].buf[i] \in Byte
    <3>1. queue[cur].buf \in Seq(Byte)
      BY WaitingTyped
    <3> QED
      BY <3>1, ElementOfSeq
  <2> QED
    BY <2>1 DEF Byte
<1>2. NoEnd(CentralDirectory)
  <2> SUFFICES ASSUME NEW i \in 1..Len(CentralDirectory) PROVE CentralDirectory[i].kind # "end"
    BY DEF NoEnd
  <2>1. CentralDirectory[i] = CentralHeader(chs[i])
    BY CellsTyped DEF CentralDirectory
  <2> QED
    BY <2>1 DEF CentralHeader
<1> QED
  BY <1>1, <1>2 DEF LocalHeader, Zip64End, Zip64Locator, EndRecord, Torn

(* Nor from such a write to the stream. *)
LEMMA WriteNoEnd ==
  ASSUME TaskInv, NoEnd(archive), NEW cells \in Seq(Cell), Write(cells), NoEnd(cells)
  PROVE  NoEnd(archive')
<1>1. archive' = Written(archive, pos, cells) /\ pos \in Nat /\ archive \in Seq(Cell)
  BY DEF Write, TaskInv, TypeInv, TypeOK
<1> QED
  BY <1>1, WrittenNoEnd

(* A write that fails leaves no end record, for that is last in what is    *)
(* written.                                                                *)
LEMMA WriteFailsNoEnd ==
  ASSUME TaskInv, NoEnd(archive), NoEnd(disk), NEW cells \in Seq(Cell), WriteFails(cells),
         \A i \in 1..Len(cells) : i < Len(cells) => cells[i].kind # "end"
  PROVE  NoEnd(archive') /\ NoEnd(disk')
<1>0. TypeInv /\ disk \in Seq(Cell) /\ saved \in Nat /\ Len(cells) \in Nat
  BY LenProperties DEF TaskInv, TypeInv, TypeOK
<1>1. PICK part \in Seq(Cell) :
         /\ OnDisk(Written(disk, saved, part), saved + Len(part))
         /\ \A i \in 1..Len(part) :
              \/ part[i] = Torn
              \/ \E j \in 1..Len(archive) : part[i] = archive[j]
              \/ \E j \in 1..(Len(cells) - 1) : part[i] = cells[j]
  BY <1>0, WriteFailsFacts
<1>2. NoEnd(part)
  <2> SUFFICES ASSUME NEW i \in 1..Len(part) PROVE part[i].kind # "end"
    BY DEF NoEnd
  <2>1. CASE part[i] = Torn
    BY <2>1 DEF Torn
  <2>2. CASE \E j \in 1..Len(archive) : part[i] = archive[j]
    BY <2>2 DEF NoEnd
  <2>3. CASE \E j \in 1..(Len(cells) - 1) : part[i] = cells[j]
    <3>1. PICK j \in 1..(Len(cells) - 1) : part[i] = cells[j]
      BY <2>3
    <3>2. j \in 1..Len(cells) /\ j < Len(cells)
      BY <1>0
    <3> QED
      BY <3>1, <3>2
  <2> QED
    BY <1>1, <2>1, <2>2, <2>3
<1>3. NoEnd(Written(disk, saved, part))
  BY <1>0, <1>2, WrittenNoEnd
<1> QED
  BY <1>1, <1>3 DEF OnDisk

(* However the header of an entry is rewritten, no end record comes of it. *)
LEMMA FixNoEnd ==
  ASSUME TaskInv, NoEnd(archive), NoEnd(disk), FixHeader \/ FixHeaderUnnoticed
  PROVE  NoEnd(archive') /\ NoEnd(disk')
<1>1. /\ pc = "fix" /\ TypeInv /\ archive \in Seq(Cell) /\ disk \in Seq(Cell)
      /\ offset \in Nat /\ saved \in Nat
  BY FixOutcome DEF TaskInv, TypeInv, TypeOK
<1>2. NewHeader \in Seq(Cell) /\ NoEnd(NewHeader)
  <2>1. PICK h \in Seq(Cell) : h = NewHeader /\ h = <<LocalHeader(cur, NewCentral.size)>>
    BY <1>1, NewHeaderTyped
  <2>2. NoEnd(h)
    BY <2>1 DEF NoEnd, LocalHeader
  <2> QED
    BY <2>1, <2>2
<1>3. \A part \in Endless : part \in Seq(Cell) /\ NoEnd(part)
  BY DEF Endless
<1>4. ASSUME NEW to \in Unmoved
      PROVE  to.file \in Seq(Cell) /\ NoEnd(to.file) /\ to.at \in Nat
  <2>1. PICK part \in Beginnings(Unsaved) : to = [file |-> Written(disk, saved, part), at |-> saved + Len(part)]
    BY DEF Unmoved
  <2>2. PICK u : u = Unsaved
    OBVIOUS
  <2>3. /\ u \in Seq(Cell) /\ Len(u) \in Nat
        /\ \A i \in 1..Len(u) : saved + i \in 1..Len(archive) /\ u[i] = archive[saved + i]
    BY <1>1, <2>2, UnsavedFacts, LenProperties
  <2>4. /\ part \in Seq(Cell) /\ Len(part) \in 0..Len(u)
        /\ \A i \in 1..Len(part) : part[i] = Torn \/ (part[i] = u[i] /\ i < Len(u))
    BY <2>1, <2>2, <2>3, BeginningFacts
  <2>5. NoEnd(part)
    <3> SUFFICES ASSUME NEW i \in 1..Len(part) PROVE part[i].kind # "end"
      BY DEF NoEnd
    <3>1. CASE part[i] = Torn
      BY <3>1 DEF Torn
    <3>2. CASE part[i] = u[i] /\ i < Len(u)
      <4>1. i \in 1..Len(u)
        BY <2>3, <2>4
      <4> QED
        BY <2>3, <3>2, <4>1 DEF NoEnd
    <3> QED
      BY <2>4, <3>1, <3>2
  <2>6. to.file = Written(disk, saved, part)
    BY <2>1
  <2> QED
    BY <1>1, <2>4, <2>5, <2>6, WrittenNoEnd, UnmovedFacts
<1>5. ASSUME NEW a \in Seq(Cell), NEW q \in Nat, NEW cells \in Seq(Cell), NEW r,
             NoEnd(a), NoEnd(cells), OnDisk(Written(a, q, cells), r)
      PROVE  NoEnd(archive') /\ NoEnd(disk')
  <2>1. NoEnd(Written(a, q, cells))
    BY <1>5, WrittenNoEnd
  <2> QED
    BY <1>5, <2>1 DEF OnDisk
<1>6. CASE OnDisk(Written(archive, offset, NewHeader), pos)
  BY <1>1, <1>2, <1>5, <1>6
<1>7. CASE \E part \in Endless : OnDisk(Written(archive, offset, part), offset + Len(part))
  BY <1>1, <1>3, <1>5, <1>7
<1>8. CASE \E to \in Unmoved : OnDisk(Written(to.file, to.at, NewHeader), pos)
  BY <1>2, <1>4, <1>5, <1>8
<1>9. CASE \E to \in Unmoved, part \in Endless : OnDisk(Written(to.file, to.at, part), to.at + Len(part))
  BY <1>3, <1>4, <1>5, <1>9
<1> QED
  BY <1>6, <1>7, <1>8, <1>9, FixOutcome

(* No entry writes an end record. *)
LEMMA WriteEntryKeepsEnd ==
  ASSUME TaskInv, ArchiveInv, EndInv, WriteEntry
  PROVE  EndInv'
<1>0. /\ pc \in Writing /\ cur \in File /\ NoEnd(archive) /\ NoEnd(disk)
  <2>1. pc \in Writing
    BY DEF WriteEntry, GetResult, WriteHeader, WriteData, CheckState, WriteLast, FixHeader,
           FixHeaderUnnoticed, Writing
  <2> QED
    BY <2>1, CurrentTask DEF EndInv, NoEnd, Writing
<1>1. pc' \in Writing \cup {"drain", "room", "aborted"}
  BY DEF WriteEntry, GetResult, WriteHeader, WriteData, CheckState, WriteLast, FixHeader,
         FixHeaderUnnoticed, Writing, EntryDone, AfterPop
<1>2. PICK header : header = <<LocalHeader(cur, Placeholder)>>
  OBVIOUS
<1>3. header \in Seq(Cell) /\ NoEnd(header)
  BY <1>0, <1>2, CellsTyped, Kinds DEF NoEnd
<1>4. queue[cur].buf \in Seq(Cell) /\ NoEnd(queue[cur].buf)
  BY <1>0, CellsTyped, Kinds
<1>5. ASSUME NoEnd(archive'), NoEnd(disk') PROVE EndInv'
  BY <1>1, <1>5 DEF EndInv, NoEnd, Writing
<1>6. CASE UNCHANGED <<archive, disk>>
  BY <1>0, <1>5, <1>6
<1>7. CASE \E cells \in {header, queue[cur].buf} : Write(cells) \/ WriteFails(cells)
  <2>1. PICK cells \in Seq(Cell) : NoEnd(cells) /\ (Write(cells) \/ WriteFails(cells))
    BY <1>3, <1>4, <1>7
  <2>2. CASE Write(cells)
    BY <1>0, <1>5, <2>1, <2>2, WriteNoEnd DEF Write
  <2>3. CASE WriteFails(cells)
    BY <1>0, <1>5, <2>1, <2>3, WriteFailsNoEnd DEF NoEnd
  <2> QED
    BY <2>1, <2>2, <2>3
<1>8. CASE FixHeader \/ FixHeaderUnnoticed
  BY <1>0, <1>5, <1>8, FixNoEnd
<1>9. WriteEntry =>
        \/ UNCHANGED <<archive, disk>>
        \/ \E cells \in {header, queue[cur].buf} : Write(cells) \/ WriteFails(cells)
        \/ FixHeader \/ FixHeaderUnnoticed
  BY <1>2 DEF WriteEntry, GetResult, WriteHeader, WriteData, CheckState, WriteLast, fileVars
<1> QED
  BY <1>6, <1>7, <1>8, <1>9

(* After the directory is written it is there, from offset to the          *)
(* position.                                                               *)
LEMMA WriteCentralKeepsEnd ==
  ASSUME TaskInv, EndInv, WriteCentral
  PROVE  EndInv'
<1>1. /\ pc = "central" /\ offset' = pos /\ UNCHANGED chs /\ pos \in Nat
      /\ Len(chs) \in Nat /\ NoEnd(archive) /\ NoEnd(disk)
  <2>1. pc = "central" /\ offset' = pos /\ UNCHANGED chs
    BY DEF WriteCentral
  <2>2. pos \in Nat
    BY DEF TaskInv, TypeInv, TypeOK
  <2>3. NoEnd(archive) /\ NoEnd(disk)
    BY <2>1 DEF EndInv, NoEnd
  <2> QED
    BY <2>1, <2>2, <2>3, ListedTyped
<1>2. PICK cells : cells = CentralDirectory
  OBVIOUS
<1>3. cells \in Seq(Cell) /\ Len(cells) = Len(chs) /\ NoEnd(cells)
  BY <1>2, CellsTyped, Kinds
<1>4. CASE Write(cells) /\ pc' = "end"
  <2>1. NoEnd(archive') /\ NoEnd(disk')
    BY <1>1, <1>3, <1>4, WriteNoEnd DEF Write
  <2>2. /\ pos' = pos + Len(cells)
        /\ \A i \in 1..Len(cells) : archive'[pos + i] = cells[i]
    BY <1>3, <1>4, WriteFacts DEF TaskInv
  <2>3. \A k \in 1..Len(chs) : archive'[pos + k] = CentralHeader(chs[k])
    BY <1>2, <1>3, <2>2 DEF CentralDirectory
  <2> QED
    BY <1>1, <1>3, <1>4, <2>1, <2>2, <2>3 DEF EndInv, NoEnd
<1>5. CASE WriteFails(cells) /\ pc' = "threw"
  <2>1. NoEnd(archive') /\ NoEnd(disk')
    BY <1>1, <1>3, <1>5, WriteFailsNoEnd DEF NoEnd
  <2> QED
    BY <1>5, <2>1 DEF EndInv, NoEnd
<1> QED
  BY <1>2, <1>4, <1>5 DEF WriteCentral

(* The end record is the last of the three cells, and behind the directory.*)
LEMMA WriteEndKeepsEnd ==
  ASSUME TaskInv, ArchiveInv, EndInv, WriteEnd
  PROVE  EndInv'
<1>1. /\ pc = "end" /\ UNCHANGED <<offset, chs>> /\ pos \in Nat /\ offset \in Nat
      /\ Len(chs) \in Nat /\ NoEnd(archive) /\ NoEnd(disk)
      /\ archive \in Seq(Cell) /\ Len(archive) \in Nat
      /\ saved = offset /\ (saved # pos => pos <= Len(archive)) /\ pos = offset + Len(chs)
      /\ \A k \in 1..Len(chs) : archive[offset + k] = CentralHeader(chs[k])
  <2>1. pc = "end" /\ UNCHANGED <<offset, chs>>
    BY DEF WriteEnd, mainVars
  <2>2. /\ NoEnd(archive) /\ NoEnd(disk) /\ pos = offset + Len(chs)
        /\ \A k \in 1..Len(chs) : archive[offset + k] = CentralHeader(chs[k])
    BY <2>1 DEF EndInv, NoEnd
  <2>3. saved = offset
    BY <2>1 DEF ArchiveInv, BufferInv
  <2> QED
    BY <2>1, <2>2, <2>3, ListedTyped, LenProperties DEF TaskInv, TypeInv, TypeOK
<1>2. PICK a, b, c : a = Zip64End(Len(chs), offset, pos - offset) /\ b = Zip64Locator(pos) /\ c = EndRecord
  OBVIOUS
<1>3. PICK cells : cells = <<a, b, c>>
  OBVIOUS
<1>4. /\ cells \in Seq(Cell) /\ Len(cells) = 3
      /\ cells[1] = a /\ cells[2] = b /\ cells[3] = c
      /\ a.kind # "end" /\ b.kind # "end" /\ c.kind = "end"
  BY <1>2, <1>3, CellsTyped, Kinds
<1>5. CASE Write(cells) /\ pc' = "finished"
  <2>1. /\ archive' = Written(archive, pos, cells) /\ pos' = pos + 3 /\ UNCHANGED disk
        /\ pos' \in 1..Len(archive')
    <3>1. archive' = Written(archive, pos, cells) /\ pos' = pos + 3 /\ UNCHANGED <<disk, saved>>
      BY <1>4, <1>5 DEF Write
    <3>2. TypeInv /\ saved \in Nat /\ saved <= pos
      BY DEF TaskInv, TypeInv, TypeOK
    <3>3. Len(archive') \in Nat /\ (pos' # saved' => pos' <= Len(archive'))
      BY <1>4, <1>5, <3>2, WriteFacts
    <3> QED
      BY <1>1, <3>1, <3>2, <3>3
  <2>2. /\ \A i \in 1..Len(archive) : i <= pos \/ i > pos' => archive'[i] = archive[i]
        /\ archive'[pos + 1] = a /\ archive'[pos + 2] = b /\ archive'[pos + 3] = c
    <3>1. /\ \A i \in 1..Len(archive) : i <= pos \/ i > pos' => archive'[i] = archive[i]
          /\ \A i \in 1..Len(cells) : archive'[pos + i] = cells[i]
      BY <1>4, <1>5, WriteFacts DEF TaskInv
    <3>2. 1 \in 1..Len(cells) /\ 2 \in 1..Len(cells) /\ 3 \in 1..Len(cells)
      BY <1>4
    <3>3. archive'[pos + 1] = cells[1] /\ archive'[pos + 2] = cells[2] /\ archive'[pos + 3] = cells[3]
      BY <3>1, <3>2
    <3> QED
      BY <1>4, <3>1, <3>3
  <2>3. \A i \in 1..Len(archive') : archive'[i].kind = "end" => i = pos'
    <3> SUFFICES ASSUME NEW i \in 1..Len(archive'), archive'[i].kind = "end" PROVE i = pos'
      OBVIOUS
    <3>1. CASE i \in 1..Len(archive) /\ archive'[i] = archive[i]
      BY <1>1, <3>1 DEF NoEnd
    <3>2. CASE \E k \in 1..Len(cells) : i = pos + k /\ archive'[i] = cells[k]
      <4>1. PICK k \in 1..3 : i = pos + k /\ archive'[i] = cells[k]
        BY <1>4, <3>2
      <4>2. k = 3
        BY <1>4, <4>1
      <4> QED
        BY <2>1, <4>1, <4>2
    <3>3. archive'[i] # Torn
      BY DEF Torn
    <3> QED
      BY <1>1, <1>4, <2>1, <3>1, <3>2, <3>3, WrittenOrigin
  <2>4. offset = pos' - 3 - Len(chs) /\ pos - offset = Len(chs) /\ pos = pos' - 3 /\ pos' > Len(chs) + 2
    BY <1>1, <2>1
  <2>5. archive'[pos' - 2] = Zip64End(Len(chs), pos' - 3 - Len(chs), Len(chs))
    <3>1. pos' - 2 = pos + 1
      BY <1>1, <2>1
    <3> QED
      BY <1>2, <2>2, <2>4, <3>1
  <2>6. archive'[pos' - 1] = Zip64Locator(pos' - 3)
    <3>1. pos' - 1 = pos + 2
      BY <1>1, <2>1
    <3> QED
      BY <1>2, <2>2, <2>4, <3>1
  <2>7. \A k \in 1..Len(chs) : archive'[pos' - 3 - Len(chs) + k] = CentralHeader(chs[k])
    <3> SUFFICES ASSUME NEW k \in 1..Len(chs)
                 PROVE  archive'[pos' - 3 - Len(chs) + k] = CentralHeader(chs[k])
      OBVIOUS
    <3>1. pos' - 3 - Len(chs) + k = offset + k
      BY <2>4
    <3>2. /\ pos \in Nat /\ offset \in Nat /\ Len(chs) \in Nat /\ Len(archive) \in Nat
          /\ pos <= Len(archive) /\ pos = offset + Len(chs)
      <4>1. offset # pos
        BY <1>1
      <4> QED
        BY <1>1, <4>1
    <3>3. offset + k \in 1..Len(archive) /\ offset + k <= pos
      BY <3>2
    <3>4. archive'[offset + k] = CentralHeader(chs[k])
      BY <1>1, <2>2, <3>3
    <3> QED
      BY <3>1, <3>4
  <2>8. pos' > 0 /\ archive'[pos'].kind = "end"
    <3>1. pos' = pos + 3
      BY <2>1
    <3> QED
      BY <1>1, <1>4, <2>2, <3>1
  <2> QED
    BY <1>1, <1>5, <2>1, <2>3, <2>4, <2>5, <2>6, <2>7, <2>8 DEF EndInv
<1>6. CASE WriteFails(cells) /\ pc' = "threw"
  <2>1. \A i \in 1..Len(cells) : i < Len(cells) => cells[i].kind # "end"
    <3> SUFFICES ASSUME NEW i \in 1..3, i < 3 PROVE cells[i].kind # "end"
      BY <1>4
    <3>1. i = 1 \/ i = 2
      OBVIOUS
    <3> QED
      BY <1>4, <3>1
  <2>2. NoEnd(archive') /\ NoEnd(disk')
    BY <1>1, <1>4, <1>6, <2>1, WriteFailsNoEnd
  <2> QED
    BY <1>6, <2>2 DEF EndInv, NoEnd
<1> QED
  BY <1>2, <1>3, <1>5, <1>6 DEF WriteEnd

(* What fclose writes holds the end record only if it is all there. *)
LEMMA SetFinishedKeepsEnd ==
  ASSUME TaskInv, EndInv, SetFinished
  PROVE  EndInv'
<1>1. pc = "finished" /\ UNCHANGED chs /\ tc'.stopped = tc.stopped /\ NoEnd(disk)
  <2>1. pc = "finished" /\ UNCHANGED chs /\ tc' = SetState(tc, "FINISHED")
    BY DEF SetFinished, mainVars
  <2>2. tc'.stopped = tc.stopped
    BY <2>1 DEF TaskInv, TypeInv, TypeOK, SetState, Control
  <2> QED
    BY <2>1, <2>2 DEF EndInv
<1>2. TypeInv /\ disk \in Seq(Cell) /\ saved \in Nat
  BY DEF TaskInv, TypeInv, TypeOK
<1>3. CASE pc' = "returned" /\ OnDisk(archive, pos)
  BY <1>1, <1>3 DEF EndInv, OnDisk
<1>4. CASE pc' = "short" /\ \E part \in Seq(Cell) :
             /\ OnDisk(Written(disk, saved, part), saved + Len(part))
             /\ \A i \in 1..Len(part) :
                  part[i] = Torn \/ (saved + i \in 1..Len(archive) /\ saved + i < pos
                                     /\ part[i] = archive[saved + i])
  <2>1. PICK part \in Seq(Cell) :
             /\ OnDisk(Written(disk, saved, part), saved + Len(part))
             /\ \A i \in 1..Len(part) :
                  part[i] = Torn \/ (saved + i \in 1..Len(archive) /\ saved + i < pos
                                     /\ part[i] = archive[saved + i])
    BY <1>4
  <2>2. \A i \in 1..Len(archive) : archive[i].kind = "end" => i = pos
    BY DEF EndInv
  <2>3. pos \in Nat /\ Torn.kind # "end"
    BY DEF TaskInv, TypeInv, TypeOK, Torn
  <2>4. NoEnd(part)
    BY <2>1, <2>2, <2>3 DEF NoEnd
  <2>5. NoEnd(Written(disk, saved, part))
    BY <1>1, <1>2, <2>4, WrittenNoEnd
  <2>6. NoEnd(archive') /\ NoEnd(disk')
    BY <2>1, <2>5 DEF OnDisk
  <2> QED
    BY <1>4, <2>6 DEF EndInv, NoEnd
<1> QED
  BY <1>2, <1>3, <1>4, FinishOutcome

(* Steps that do not write keep the end where it is. *)
LEMMA BookkeepingKeepsEnd ==
  ASSUME TaskInv, EndInv, Bookkeeping
  PROVE  EndInv'
<1>1. UNCHANGED <<archive, pos, disk, offset, chs>> /\ (tc.stopped => tc'.stopped)
  BY BookkeepingTouches
<1>2. /\ pc \in {"finished", "returned"} => pc' = pc
      /\ pc' = "end" => pc = "end"
      /\ pc' \in {"finished", "returned"} /\ ~tc'.stopped => pc \in {"finished", "returned"}
  BY DEF Bookkeeping, User, UserStop, Create, AllReported, Join, TaskInv, PhaseInv, OpenOutput,
     NextFile, LaunchTask, DrainTasks, PopFuture, ScanTask, CheckState, Finish,
     AfterPop, vars
<1> QED
  BY <1>1, <1>2 DEF EndInv

(* The invariant of the end record is inductive, given the two others. *)
LEMMA EndInvNext == TaskInv /\ ArchiveInv /\ EndInv /\ [Next]_vars => EndInv'
<1> SUFFICES ASSUME TaskInv, ArchiveInv, EndInv, [Next]_vars PROVE EndInv'
  OBVIOUS
<1>1. CASE \E f \in File : Proceed(f) \/ Fail(f)
  <2>1. UNCHANGED <<tc, pc, offset, chs, archive, pos, disk>>
    BY <1>1, WorkerTouches DEF mainVars, fileVars
  <2> QED
    BY <2>1 DEF EndInv
<1>2. CASE Bookkeeping
  BY <1>2, BookkeepingKeepsEnd
<1>3. CASE WriteEntry
  BY <1>3, WriteEntryKeepsEnd
<1>4. CASE WriteCentral
  BY <1>4, WriteCentralKeepsEnd
<1>5. CASE WriteEnd
  BY <1>5, WriteEndKeepsEnd
<1>6. CASE SetFinished
  BY <1>6, SetFinishedKeepsEnd
<1> QED
  BY <1>1, <1>2, <1>3, <1>4, <1>5, <1>6, StepKinds

(* An end record is only ever written behind a whole directory, and is the *)
(* last thing written when run() sets FINISHED without having been         *)
(* stopped.                                                                *)
THEOREM EndIsBehindDirectory == Spec => []EndInv
<1>1. Init => EndInv
  BY DEF Init, EndInv, NoEnd
<1>2. TaskInv /\ ArchiveInv /\ EndInv /\ [Next]_vars => EndInv'
  BY EndInvNext
<1> QED
  BY <1>1, <1>2, EntriesAgree, PTL DEF Spec

(* Where an archive ends with an end record it has a complete directory,   *)
(* and unless it was stopped or threw or its fclose failed, run() has      *)
(* written an end record last when parzip exits.                           *)
THEOREM ArchiveIsCompleteAtExit == Spec => []CompleteAtExit
<1>1. TaskInv /\ EndInv => CompleteAtExit
  <2> SUFFICES ASSUME TaskInv, EndInv PROVE CompleteAtExit
    OBVIOUS
  <2>0. /\ archive \in Seq(Cell) /\ Len(archive) \in Nat /\ DOMAIN archive = 1..Len(archive)
        /\ pos \in Nat /\ Len(chs) \in Nat
    BY ListedTyped, LenProperties DEF TaskInv, TypeInv, TypeOK
  <2>1. ASSUME Sealed
        PROVE  LET e == Len(archive) - 2
               IN  /\ archive[e] = Zip64End(Len(chs), e - 1 - Len(chs), Len(chs))
                   /\ archive[e + 1] = Zip64Locator(e - 1)
                   /\ SubSeq(archive, e - Len(chs), e - 1) = CentralDirectory
    <3>1. PICK l : l = Len(archive)
      OBVIOUS
    <3>2. l \in 1..Len(archive) /\ archive[l].kind = "end"
      BY <2>0, <2>1, <3>1 DEF Sealed, Kind
    <3>3. /\ pos = l /\ l > Len(chs) + 2 /\ l \in Nat
          /\ archive[l - 2] = Zip64End(Len(chs), l - 3 - Len(chs), Len(chs))
          /\ archive[l - 1] = Zip64Locator(l - 3)
          /\ \A k \in 1..Len(chs) : archive[l - 3 - Len(chs) + k] = CentralHeader(chs[k])
      BY <2>0, <3>1, <3>2 DEF EndInv
    <3>4. l - 2 - 1 = l - 3 /\ l - 2 + 1 = l - 1 /\ l - 2 - 1 - Len(chs) = l - 3 - Len(chs)
      BY <2>0, <3>3
    <3>5. SubSeq(archive, l - 2 - Len(chs), l - 3) = CentralDirectory
      <4>1. PICK s : s = SubSeq(archive, l - 2 - Len(chs), l - 3)
        OBVIOUS
      <4>2. PICK m : m = l - 2 - Len(chs)
        OBVIOUS
      <4>3. m \in 1..l /\ l - 3 \in Int /\ l - 3 < Len(archive) /\ (l - 3) - m + 1 = Len(chs)
            /\ \A k \in 1..Len(chs) : m + k - 1 = l - 3 - Len(chs) + k
        BY <2>0, <3>1, <3>3, <4>2
      <4>4. \A i \in m..(l - 3) : archive[i] \in Cell
        BY <2>0, <3>1, <4>3, ElementOfSeq
      <4>5. /\ s \in Seq(Cell)
            /\ Len(s) = IF m <= l - 3 THEN (l - 3) - m + 1 ELSE 0
            /\ \A k \in 1..((l - 3) - m + 1) : s[k] = archive[m + k - 1]
        BY <4>1, <4>2, <4>3, <4>4, SubSeqProperties
      <4>6. Len(s) = Len(chs)
        BY <2>0, <4>3, <4>5
      <4>7. \A k \in 1..Len(chs) : s[k] = CentralHeader(chs[k])
        BY <3>3, <4>3, <4>5
      <4>8. /\ CentralDirectory \in Seq(Cell) /\ Len(CentralDirectory) = Len(chs)
            /\ \A k \in 1..Len(chs) : CentralDirectory[k] = CentralHeader(chs[k])
        BY CellsTyped DEF CentralDirectory
      <4> QED
        BY <4>1, <4>5, <4>6, <4>7, <4>8, SeqEqual
    <3>6. (l - 2) - Len(chs) = l - 2 - Len(chs)
      OBVIOUS
    <3> QED
      BY <3>1, <3>3, <3>4, <3>5, <3>6
  <2>2. ASSUME pc = "returned", ~tc.stopped PROVE Kind(archive, pos) = "end"
    BY <2>0, <2>2 DEF EndInv, Kind
  <2> QED
    BY <2>1, <2>2 DEF CompleteAtExit
<1> QED
  BY <1>1, EntriesAgree, EndIsBehindDirectory, PTL

-----------------------------------------------------------------------------
(* A directory is written when every file was tried, and one succeeded. *)
TriedInv ==
  /\ draining /\ ~tc.stopped => next = NFiles + 1
  /\ pc \in {"central", "end"} => next = NFiles + 1 /\ chs # << >>
  /\ ~NoEnd(archive) => next = NFiles + 1 /\ chs # << >>

(* What is listed has the size of its file's output, and is listed once.   *)
ListedInv ==
  /\ \A i \in 1..Len(chs) : chs[i].size = Output(chs[i].file)
  /\ \A i, j \in 1..Len(chs) : chs[i].file = chs[j].file => i = j

(* If no write fails, the entries lie one behind the other, and nothing    *)
(* else is there.                                                          *)
TiledInv ==
  WritesSucceed =>
    /\ chs # << >> => chs[1].offset = 0
    /\ \A i \in 2..Len(chs) : chs[i].offset = chs[i - 1].offset + 1 + chs[i - 1].size
    /\ pc \in {"idle", "open", "next", "room", "drain", "pop", "scan", "entry", "finish"} => pos = EntriesEnd
    /\ pc \in Writing \ {"entry"} => offset = EntriesEnd
    /\ pos = Len(archive)
    /\ missed = {}

(* If only inputs fail, what fails has handed over nothing. *)
CleanInv ==
  Faults \cap {"codec", "stop", "write"} = {} =>
    /\ ~tc.stopped
    /\ \A f \in File : wpc[f] \in {"catch", "rethrow", "failed"} => queue[f].buf = << >>
    /\ pc # "aborted"

-----------------------------------------------------------------------------
(* A step of write_entry goes on with the entry, or ends it with a report: *)
(* a success only after its header was to be rewritten, and then it is     *)
(* listed.                                                                 *)
LEMMA WriteEntryKinds ==
  ASSUME TaskInv, WriteEntry
  PROVE  /\ UNCHANGED <<plan, next, draining>>
         /\ pc \in Writing
         /\ \/ UNCHANGED <<tc, chs, missed>> /\ pc' \in Writing \ {"entry"}
            \/ /\ pc' \in {"drain", "room", "aborted"}
               /\ tc'.stopped = tc.stopped
               /\ missed' \in {missed, missed \cup {cur}}
               /\ \/ /\ UNCHANGED chs
                     /\ StoredIn(tc') = StoredIn(tc) /\ LostIn(tc') = LostIn(tc) \cup {cur}
                  \/ /\ pc = "fix"
                     /\ chs' = Append(chs, NewCentral)
                     /\ StoredIn(tc') = StoredIn(tc) \cup {cur} /\ LostIn(tc') = LostIn(tc)
<1>1. pc \in Writing /\ UNCHANGED <<plan, next, draining>>
  BY DEF WriteEntry, GetResult, WriteHeader, WriteData, CheckState, WriteLast, FixHeader,
         FixHeaderUnnoticed, Writing, mainVars
<1>2. CASE UNCHANGED <<tc, chs, missed>> /\ pc' \in Writing \ {"entry"}
  BY <1>1, <1>2
<1>3. CASE UNCHANGED <<chs, missed>> /\ \E left : EntryDone(FALSE, left)
  BY <1>1, <1>3, ReportAdds
<1>4. CASE GetResult \/ WriteHeader \/ WriteData \/ CheckState \/ WriteLast
  BY <1>2, <1>3, <1>4 DEF GetResult, WriteHeader, WriteData, CheckState, WriteLast, Writing, mainVars,
     fileVars, Write, WriteFails
<1>5. CASE FixHeader \/ FixHeaderUnnoticed
  <2>1. /\ pc = "fix" /\ missed' \in {missed, missed \cup {cur}}
        /\ \/ EntryDone(TRUE, queue[cur].buf) /\ chs' = Append(chs, NewCentral)
           \/ EntryDone(FALSE, queue[cur].buf) /\ UNCHANGED chs
    BY <1>5, FixOutcome
  <2> QED
    BY <1>1, <2>1, ReportAdds
<1> QED
  BY <1>4, <1>5 DEF WriteEntry

(* How far Bookkeeping moves the packing thread. *)
LEMMA BookkeepingTries ==
  ASSUME TaskInv, Bookkeeping
  PROVE  /\ draining' /\ ~tc'.stopped =>
              \/ draining /\ ~tc.stopped /\ next' = next
              \/ next' = NFiles + 1
         /\ pc' \in {"central", "end"} =>
              \/ pc = pc' /\ next' = next
              \/ draining /\ ~tc.stopped /\ next' = next /\ chs # << >>
<1>1. next \in 1..(NFiles + 1) /\ NFiles \in Nat
  BY ZipAssumption DEF TaskInv, TypeInv, TypeOK
<1>2. CASE User \/ UserStop
  <2>1. tc.stopped => tc'.stopped
    BY <1>2, BookkeepingTouches DEF Bookkeeping
  <2> QED
    BY <1>2, <2>1 DEF User, UserStop, Create, AllReported, Join, TaskInv, PhaseInv, mainVars
<1>3. CASE OpenOutput \/ DrainTasks \/ PopFuture \/ ScanTask \/ CheckState
  BY <1>3 DEF OpenOutput, DrainTasks, PopFuture, ScanTask, CheckState, AfterPop, mainVars
<1>4. CASE NextFile
  BY <1>1, <1>4 DEF NextFile
<1>5. CASE LaunchTask
  BY <1>5 DEF LaunchTask, TaskInv, PhaseInv
<1>6. CASE Finish
  BY <1>6 DEF Finish, TaskInv, PhaseInv, Closing, mainVars
<1>8. CASE UNCHANGED vars
  BY <1>8 DEF vars, mainVars
<1> QED
  BY <1>2, <1>3, <1>4, <1>5, <1>6, <1>8 DEF Bookkeeping

(* The steps keep the invariant about what was tried. *)
LEMMA TriedInvNext == TaskInv /\ ArchiveInv /\ EndInv /\ TriedInv /\ [Next]_vars => TriedInv'
<1> SUFFICES ASSUME TaskInv, ArchiveInv, EndInv, TriedInv, [Next]_vars PROVE TriedInv'
  OBVIOUS
<1>0. EndInv' /\ (pc' \notin {"finished", "returned"} => NoEnd(archive'))
  <2>1. EndInv'
    BY EndInvNext
  <2> QED
    BY <2>1 DEF EndInv, NoEnd
<1>1. CASE \E f \in File : Proceed(f) \/ Fail(f)
  <2>1. UNCHANGED <<tc, pc, next, draining, chs, archive>>
    BY <1>1, WorkerTouches DEF mainVars, fileVars
  <2> QED
    BY <2>1 DEF TriedInv, NoEnd
<1>2. CASE Bookkeeping
  <2>1. UNCHANGED <<chs, archive>>
    BY <1>2, BookkeepingTouches
  <2>2. ~NoEnd(archive) => next' = next
    <3>1. ~NoEnd(archive) => pc \in {"finished", "returned"}
      BY DEF EndInv, NoEnd
    <3>2. pc \in {"finished", "returned"} => next' = next
      BY <1>2 DEF Bookkeeping, User, UserStop, Create, AllReported, Join, TaskInv, PhaseInv, OpenOutput,
         NextFile, LaunchTask, DrainTasks, PopFuture, ScanTask, CheckState, Finish, mainVars, vars
    <3> QED
      BY <3>1, <3>2
  <2> QED
    BY <1>2, <2>1, <2>2, BookkeepingTries DEF TriedInv, NoEnd
<1>3. CASE WriteEntry
  <2>1. /\ UNCHANGED <<next, draining>> /\ pc' \in Writing \cup {"drain", "room", "aborted"}
        /\ UNCHANGED tc \/ tc'.stopped = tc.stopped
    BY <1>3, WriteEntryKinds
  <2> QED
    BY <1>0, <2>1 DEF TriedInv, Writing
<1>4. CASE WriteCentral \/ WriteEnd
  <2>1. UNCHANGED <<next, draining, tc, chs>> /\ pc \in {"central", "end"}
    BY <1>4 DEF WriteCentral, WriteEnd, mainVars
  <2> QED
    BY <2>1 DEF TriedInv
<1>5. CASE SetFinished
  <2>1. /\ pc = "finished" /\ pc' \in {"returned", "short"} /\ UNCHANGED <<next, draining, chs>>
        /\ pc' = "returned" => UNCHANGED archive
    BY <1>5, FinishOutcome DEF SetFinished, mainVars, OnDisk, TaskInv
  <2>2. tc'.stopped = tc.stopped
    BY <1>5 DEF SetFinished, TaskInv, TypeInv, TypeOK, SetState, Control
  <2>3. ~NoEnd(archive') => ~NoEnd(archive)
    BY <1>0, <2>1 DEF NoEnd
  <2> QED
    BY <2>1, <2>2, <2>3 DEF TriedInv
<1> QED
  BY <1>1, <1>2, <1>3, <1>4, <1>5, StepKinds

(* No directory is written before every file was tried. *)
THEOREM AllFilesAreTried == Spec => []TriedInv
<1>1. Init => TriedInv
  BY DEF Init, TriedInv, NoEnd
<1> QED
  BY <1>1, TriedInvNext, EntriesAgree, EndIsBehindDirectory, PTL DEF Spec

(* The directory lists a file with the number of bytes it was given, and   *)
(* only once.                                                              *)
LEMMA ListedInvNext == TaskInv /\ ArchiveInv /\ ListedInv /\ [Next]_vars => ListedInv'
<1> SUFFICES ASSUME TaskInv, ArchiveInv, ListedInv, [Next]_vars PROVE ListedInv'
  OBVIOUS
<1>1. CASE UNCHANGED <<plan, chs>>
  BY <1>1 DEF ListedInv, Output, Ends
<1>2. CASE WriteEntry /\ pc = "fix" /\ chs' = Append(chs, NewCentral)
  <2>1. UNCHANGED plan /\ cur \in File \ ReportedIn(tc)
    BY <1>2, WriteEntryKinds, CurrentTask
  <2>2. PICK S : S = [file : File, offset : Nat, size : Nat]
    OBVIOUS
  <2>3. PICK ch \in S : ch = NewCentral /\ ch.file = cur /\ ch.size = pos - start
    BY <1>2, <2>2, NewHeaderTyped
  <2>4. pos - start = Output(cur)
    <3>1. pc \in Writing /\ pc \in Writing \ {"entry"} /\ pc \in Streaming
      BY <1>2 DEF Writing, Streaming
    <3>2. queue[cur].buf = << >>
      BY <1>2 DEF ArchiveInv, StreamInv
    <3>3. Taken(cur) = Output(cur)
      BY <1>2, <3>1, <3>2, LastBytes, EmptySeq
    <3> QED
      BY <3>1, <3>3 DEF Taken
  <2>5. chs \in Seq(S) /\ Len(chs) \in Nat /\ \A i \in 1..Len(chs) : chs[i] \in ToSet(chs)
    BY <2>2, ListedTyped
  <2>6. PICK new : new = Append(chs, ch)
    OBVIOUS
  <2>7. /\ Len(new) = Len(chs) + 1 /\ new[Len(chs) + 1] = ch
        /\ \A i \in 1..Len(chs) : new[i] = chs[i]
    BY <2>5, <2>6, AppendProperties
  <2>8. \A i \in 1..Len(chs) : chs[i].file # cur
    <3>1. \A c \in ToSet(chs) : c.file \in StoredIn(tc)
      BY DEF ArchiveInv, ListedIn
    <3>2. StoredIn(tc) \subseteq ReportedIn(tc)
      BY DEF StoredIn, ReportedIn
    <3> QED
      BY <2>1, <2>5, <3>1, <3>2
  <2>9. ASSUME NEW i \in 1..Len(new) PROVE i \in 1..Len(chs) \/ i = Len(chs) + 1
    BY <2>5, <2>7
  <2>10. \A i \in 1..Len(new) : new[i].size = Output(new[i].file)
    BY <2>3, <2>4, <2>7, <2>9 DEF ListedInv
  <2>11. \A i, j \in 1..Len(new) : new[i].file = new[j].file => i = j
    BY <2>3, <2>7, <2>8, <2>9 DEF ListedInv
  <2>12. \A g : Output(g)' = Output(g)
    BY <2>1 DEF Output, Ends
  <2>13. chs' = new
    BY <1>2, <2>3, <2>6
  <2> QED
    BY <2>10, <2>11, <2>12, <2>13 DEF ListedInv
<1>3. CASE WriteEntry
  BY <1>1, <1>2, <1>3, WriteEntryKinds
<1>4. CASE \E f \in File : Proceed(f) \/ Fail(f)
  <2>1. UNCHANGED <<plan, chs>>
    BY <1>4, WorkerTouches DEF mainVars
  <2> QED
    BY <1>1, <2>1
<1>5. CASE Bookkeeping
  BY <1>1, <1>5, BookkeepingTouches
<1>6. CASE WriteCentral \/ WriteEnd \/ SetFinished
  <2>1. UNCHANGED <<plan, chs>>
    BY <1>6 DEF WriteCentral, WriteEnd, SetFinished, mainVars
  <2> QED
    BY <1>1, <2>1
<1> QED
  BY <1>3, <1>4, <1>5, <1>6, StepKinds

(* So it does in every state. *)
LEMMA FilesAreListedOnce == Spec => []ListedInv
<1>1. Init => ListedInv
  <2>1. Len(<< >>) = 0
    OBVIOUS
  <2> QED
    BY <2>1 DEF Init, ListedInv
<1> QED
  BY <1>1, ListedInvNext, EntriesAgree, PTL DEF Spec

-----------------------------------------------------------------------------
(* Where the packing thread is when it writes no entry. *)
Between == {"idle", "open", "next", "room", "drain", "pop", "scan", "entry", "finish"}

(* Without failing writes the entry that is appended begins where the last *)
(* one ends.                                                               *)
LEMMA AppendTiles ==
  ASSUME TaskInv, TiledInv, WritesSucceed,
         NEW ch \in [file : File, offset : Nat, size : Nat], ch.offset = EntriesEnd,
         chs' = Append(chs, ch)
  PROVE  /\ chs' # << >> => chs'[1].offset = 0
         /\ \A i \in 2..Len(chs') : chs'[i].offset = chs'[i - 1].offset + 1 + chs'[i - 1].size
         /\ EntriesEnd' = EndOf(ch)
<1>1. PICK S : S = [file : File, offset : Nat, size : Nat]
  OBVIOUS
<1>2. PICK new : new = Append(chs, ch)
  OBVIOUS
<1>3. chs \in Seq(S) /\ ch \in S /\ Len(chs) \in Nat
  BY <1>1, ListedTyped, LenProperties
<1>4. /\ new \in Seq(S) /\ Len(new) = Len(chs) + 1 /\ new[Len(chs) + 1] = ch
      /\ \A i \in 1..Len(chs) : new[i] = chs[i]
  BY <1>2, <1>3, AppendProperties
<1>5. chs = << >> <=> Len(chs) = 0
  BY <1>3, EmptySeq
<1>6. new # << >>
  BY <1>3, <1>4, EmptySeq
<1>7. new[1].offset = 0
  <2>1. CASE chs = << >>
    BY <1>4, <1>5, <2>1 DEF EntriesEnd
  <2>2. CASE chs # << >>
    <3>1. 1 \in 1..Len(chs)
      BY <1>3, <1>5, <2>2
    <3> QED
      BY <1>4, <2>2, <3>1 DEF TiledInv
  <2> QED
    BY <2>1, <2>2
<1>8. ASSUME NEW i \in 2..Len(new) PROVE new[i].offset = new[i - 1].offset + 1 + new[i - 1].size
  <2>1. i - 1 \in 1..Len(chs) /\ (i \in 2..Len(chs) \/ i = Len(chs) + 1)
    BY <1>3, <1>4
  <2>2. CASE i \in 2..Len(chs)
    <3>1. i \in 1..Len(chs)
      BY <1>3, <2>2
    <3>2. new[i] = chs[i] /\ new[i - 1] = chs[i - 1]
      BY <1>4, <2>1, <3>1
    <3> QED
      BY <2>2, <3>2 DEF TiledInv
  <2>3. CASE i = Len(chs) + 1
    <3>1. new[i] = ch /\ new[i - 1] = chs[Len(chs)] /\ chs # << >>
      BY <1>3, <1>4, <1>5, <2>1, <2>3
    <3> QED
      BY <3>1 DEF EntriesEnd
  <2> QED
    BY <2>1, <2>2, <2>3
<1>9. EntriesEnd' = EndOf(ch)
  <2>1. chs' = new
    BY <1>2
  <2>2. chs'[Len(chs')] = ch /\ chs' # << >>
    BY <1>4, <1>6, <2>1
  <2> QED
    BY <2>2 DEF EntriesEnd, EndOf
<1> QED
  BY <1>2, <1>7, <1>8, <1>9

(* The steps of write_entry keep the tiling. *)
LEMMA WriteEntryTiles ==
  ASSUME TaskInv, TaskInv', ArchiveInv, TiledInv, WriteEntry, WritesSucceed
  PROVE  TiledInv'
<1>0. /\ pc \in Writing /\ cur \in File /\ pos = Len(archive) /\ missed = {}
      /\ pc \in Writing \ {"entry"} => offset = EntriesEnd
      /\ pc = "entry" => pos = EntriesEnd
  <2>1. pc \in Writing
    BY WriteEntryKinds
  <2> QED
    BY <2>1, CurrentTask DEF TiledInv
<1>1. (\A cells : ~WriteFails(cells)) /\ ~FixHeaderUnnoticed
  BY DEF WriteFails, FixHeaderUnnoticed, WritesSucceed
<1>2. CASE GetResult
  <2>1. offset' = pos /\ UNCHANGED <<chs, archive, pos, missed>> /\ pc = "entry"
    BY <1>2 DEF GetResult, fileVars
  <2>2. UNCHANGED EntriesEnd
    BY <2>1 DEF EntriesEnd
  <2> QED
    BY <1>0, <2>1, <2>2 DEF TiledInv
<1>3. CASE CheckState
  <2>1. UNCHANGED <<chs, archive, pos, missed, offset>> /\ pc \in Writing \ {"entry"}
        /\ pc' \in {"lastpop", "data"}
    BY <1>3 DEF CheckState, fileVars, mainVars, Writing
  <2>2. UNCHANGED EntriesEnd
    BY <2>1 DEF EntriesEnd
  <2> QED
    BY <1>0, <2>1, <2>2 DEF TiledInv
<1>4. CASE WriteHeader \/ WriteData \/ WriteLast
  <2>1. /\ UNCHANGED <<chs, offset>> /\ pc \in Writing \ {"entry"} /\ pc' \in {"data", "check", "fix"}
        /\ \E cells \in Seq(Cell) : Write(cells)
    BY <1>0, <1>1, <1>4, CellsTyped DEF WriteHeader, WriteData, WriteLast, mainVars, Writing
  <2>2. UNCHANGED EntriesEnd
    BY <2>1 DEF EntriesEnd
  <2>3. pos' = Len(archive') /\ UNCHANGED missed
    BY <1>0, <2>1, WriteFacts DEF TaskInv
  <2> QED
    BY <1>0, <2>1, <2>2, <2>3 DEF TiledInv
<1>5. CASE FixHeader
  <2>1. PICK ch : ch = [file |-> cur, offset |-> offset, size |-> pos - start]
    OBVIOUS
  <2>2. /\ pc = "fix" /\ UNCHANGED <<queue, missed>> /\ Untouched
        /\ OnDisk(Written(archive, offset, <<LocalHeader(cur, ch.size)>>), pos)
        /\ chs' = Append(chs, ch) /\ EntryDone(TRUE, queue[cur].buf)
    <3>1. ch = NewCentral /\ NewHeader = <<LocalHeader(cur, ch.size)>>
      BY <2>1 DEF NewCentral, NewHeader
    <3> QED
      BY <1>5, <3>1 DEF FixHeader, Untouched, workVars, WritesSucceed
  <2>3. /\ Len(archive') = Len(archive) /\ EndOf(ch) = pos /\ UNCHANGED pos
        /\ ch \in [file : File, offset : Nat, size : Nat]
    BY <2>1, <2>2, FixKeepsArchive DEF OnDisk
  <2>4. ch.offset = EntriesEnd
    BY <1>0, <2>1, <2>2 DEF Writing
  <2>5. /\ chs' # << >> => chs'[1].offset = 0
        /\ \A i \in 2..Len(chs') : chs'[i].offset = chs'[i - 1].offset + 1 + chs'[i - 1].size
        /\ EntriesEnd' = EndOf(ch)
    BY <2>2, <2>3, <2>4, AppendTiles
  <2>6. pc' \in {"drain", "room", "aborted"}
    BY <2>2 DEF EntryDone, AfterPop
  <2> QED
    BY <1>0, <2>2, <2>3, <2>5, <2>6 DEF TiledInv, Writing
<1> QED
  BY <1>1, <1>2, <1>3, <1>4, <1>5 DEF WriteEntry

(* So do all steps. *)
LEMMA TiledInvNext == TaskInv /\ ArchiveInv /\ TiledInv /\ [Next]_vars => TiledInv'
<1> SUFFICES ASSUME TaskInv, ArchiveInv, TiledInv, [Next]_vars, WritesSucceed PROVE TiledInv'
  BY DEF TiledInv
<1>1. TaskInv'
  BY TaskInvNext
<1>2. CASE \E f \in File : Proceed(f) \/ Fail(f)
  <2>1. UNCHANGED <<pc, offset, chs, archive, pos, missed>>
    BY <1>2, WorkerTouches DEF mainVars, fileVars
  <2>2. UNCHANGED EntriesEnd
    BY <2>1 DEF EntriesEnd
  <2> QED
    BY <2>1, <2>2 DEF TiledInv
<1>3. CASE Bookkeeping
  <2>1. UNCHANGED <<offset, chs, archive, pos, missed>>
    BY <1>3, BookkeepingTouches
  <2>2. UNCHANGED EntriesEnd
    BY <2>1 DEF EntriesEnd
  <2>3. pc' \in Between => pc \in Between
    BY <1>3 DEF Bookkeeping, User, UserStop, Create, AllReported, Join, TaskInv, PhaseInv, OpenOutput,
       NextFile, LaunchTask, DrainTasks, PopFuture, ScanTask, CheckState, Finish,
       AfterPop, Between, vars
  <2> QED
    BY <1>3, <2>1, <2>2, <2>3, BookkeepingStaysOut DEF TiledInv, Between
<1>4. CASE WriteEntry
  BY <1>1, <1>4, WriteEntryTiles
<1>5. CASE WriteCentral \/ WriteEnd
  <2>1. /\ UNCHANGED chs /\ pc' \in {"end", "finished", "threw"}
        /\ \E cells \in Seq(Cell) : Write(cells)
    BY <1>5, CellsTyped DEF WriteCentral, WriteEnd, WriteFails, WritesSucceed, mainVars
  <2>2. UNCHANGED EntriesEnd
    BY <2>1 DEF EntriesEnd
  <2>3. pos' = Len(archive') /\ UNCHANGED missed
    BY <2>1, WriteFacts DEF TaskInv, TiledInv
  <2> QED
    BY <2>1, <2>2, <2>3 DEF TiledInv, Writing
<1>6. CASE SetFinished
  <2>1. UNCHANGED <<chs, archive, pos, missed>> /\ pc' = "returned"
    <3>1. pc' = "returned" /\ OnDisk(archive, pos)
      BY <1>6 DEF SetFinished, WritesSucceed
    <3> QED
      BY <1>6, <3>1 DEF SetFinished, OnDisk, mainVars
  <2>2. UNCHANGED EntriesEnd
    BY <2>1 DEF EntriesEnd
  <2> QED
    BY <2>1, <2>2 DEF TiledInv, Writing
<1> QED
  BY <1>2, <1>3, <1>4, <1>5, <1>6, StepKinds

(* Unless a write fails, the entries that succeeded lie one behind the     *)
(* other from the start of the archive, and a file that fails leaves no    *)
(* bytes between them.                                                     *)
THEOREM EntriesTile == Spec => []NoGaps
<1>1. Init => TiledInv
  <2>1. Len(<< >>) = 0 /\ 2..0 = {}
    OBVIOUS
  <2> QED
    BY <2>1 DEF Init, TiledInv, EntriesEnd, Writing
<1>2. TiledInv => NoGaps
  BY DEF TiledInv, NoGaps
<1> QED
  BY <1>1, <1>2, TiledInvNext, EntriesAgree, PTL DEF Spec

-----------------------------------------------------------------------------
(* What the packing needs so that nothing is left in a queue: a worker can *)
(* then fail only in its input, before it hands anything over.             *)
OnlyInputsFail == Faults \cap {"codec", "stop", "write"} = {}

(* A worker that fails leaves its queue empty. *)
LEMMA WorkerStaysClean ==
  ASSUME TaskInv, ArchiveInv, CleanInv, OnlyInputsFail, NEW f \in File, Proceed(f) \/ Fail(f)
  PROVE  CleanInv'
<1>1. /\ UNCHANGED <<tc, pc>> /\ f \notin ReportedIn(tc)
      /\ \A g \in File \ {f} : queue'[g] = queue[g] /\ wpc'[g] = wpc[g]
  BY WorkerTouches
<1>2. ~tc.stopped /\ pc # "aborted"
  BY DEF CleanInv, OnlyInputsFail
<1>3. /\ queue \in [File -> Queue(Byte)] /\ wpc \in [File -> WorkerPc]
      /\ wpc[f] \in {"catch", "rethrow", "failed"} => queue[f].buf = << >>
  BY DEF TaskInv, TypeInv, TypeOK, CleanInv, OnlyInputsFail
<1>4. wpc'[f] \in {"catch", "rethrow", "failed"} => queue'[f].buf = << >>
  <2>1. CASE WorkerPush(f)
    BY <2>1, WorkerTouches, <1>3 DEF WorkerPush
  <2>2. CASE WorkerShutdown(f)
    BY <1>3, <2>2 DEF WorkerShutdown, Shutdown, Queue
  <2>3. CASE WorkerReturn(f)
    BY <1>3, <2>3 DEF WorkerReturn
  <2>4. CASE WorkerInputFails(f)
    <3>1. pushed[f] = 0 /\ UNCHANGED queue
      BY <2>4 DEF WorkerInputFails
    <3>2. Taken(f) + Len(Waiting(f)) = 0
      BY <1>1, <3>1 DEF ArchiveInv, OutputInv, Sent, Ends
    <3>3. /\ Len(Waiting(f)) = Len(queue[f].buf) + Len(rest[f])
          /\ Len(queue[f].buf) \in Nat /\ Len(rest[f]) \in Nat /\ Taken(f) \in Nat
          /\ queue[f].buf \in Seq(Byte)
      BY WaitingTyped
    <3>4. PICK a, b, c : a = Taken(f) /\ b = Len(queue[f].buf) /\ c = Len(rest[f])
      OBVIOUS
    <3>5. a \in Nat /\ b \in Nat /\ c \in Nat /\ a + (b + c) = 0
      BY <3>2, <3>3, <3>4
    <3>6. b = 0
      BY <3>5
    <3> QED
      BY <3>1, <3>3, <3>4, <3>6, EmptySeq
  <2>5. CASE WorkerCodecFails(f) \/ WorkerStopped(f)
    BY <1>2, <2>5 DEF WorkerCodecFails, WorkerStopped, OnlyInputsFail
  <2> QED
    BY <2>1, <2>2, <2>3, <2>4, <2>5 DEF Proceed, Fail
<1> QED
  BY <1>1, <1>2, <1>4 DEF CleanInv, OnlyInputsFail

(* Every task that write_entry gives up or completes has an empty queue. *)
LEMMA WriteEntryStaysClean ==
  ASSUME TaskInv, ArchiveInv, CleanInv, OnlyInputsFail, WriteEntry
  PROVE  CleanInv'
<1>1. /\ pc \in Writing /\ cur \in File /\ tc'.stopped = tc.stopped
      /\ ~tc.stopped /\ pc # "aborted"
      /\ \A f \in File : wpc[f] \in {"catch", "rethrow", "failed"} => queue[f].buf = << >>
  <2>1. pc \in Writing /\ tc'.stopped = tc.stopped
    BY WriteEntryKinds
  <2> QED
    BY <2>1, CurrentTask DEF CleanInv, OnlyInputsFail
<1>2. \A cells : ~WriteFails(cells)
  BY DEF WriteFails, OnlyInputsFail
<1>3. queue \in [File -> Queue(Byte)] /\ UNCHANGED wpc
      /\ (UNCHANGED queue \/ queue' = [queue EXCEPT ![cur] = Pop(@)])
  BY DEF WriteEntry, GetResult, WriteHeader, WriteData, CheckState, WriteLast, FixHeader,
     FixHeaderUnnoticed, workVars, TaskInv, TypeInv
<1>4. \A f \in File : wpc'[f] \in {"catch", "rethrow", "failed"} => queue'[f].buf = << >>
  <2>1. CASE UNCHANGED queue
    BY <1>1, <1>3, <2>1
  <2>2. CASE queue' = [queue EXCEPT ![cur] = Pop(@)]
    <3>1. queue'[cur].buf = << >> /\ \A f \in File \ {cur} : queue'[f] = queue[f]
      BY <1>1, <1>3, <2>2 DEF Pop
    <3> QED
      BY <1>1, <1>3, <3>1
  <2> QED
    BY <1>3, <2>1, <2>2
<1>5. pc' # "aborted"
  <2>1. CASE GetResult
    <3>1. wpc[cur] # "ok" => queue[cur].buf = << >>
      BY <1>1, <2>1 DEF GetResult, Ready
    <3> QED
      BY <2>1, <3>1 DEF GetResult, EntryDone, AfterPop
  <2>2. CASE FixHeader \/ FixHeaderUnnoticed
    <3>1. pc = "fix" /\ \E ok \in BOOLEAN : EntryDone(ok, queue[cur].buf)
      BY <2>2, FixOutcome
    <3>2. queue[cur].buf = << >>
      BY <3>1 DEF ArchiveInv, StreamInv
    <3> QED
      BY <3>1, <3>2 DEF EntryDone, AfterPop
  <2>3. CASE WriteHeader \/ WriteData \/ CheckState \/ WriteLast
    BY <1>2, <2>3 DEF WriteHeader, WriteData, CheckState, WriteLast
  <2> QED
    BY <2>1, <2>2, <2>3 DEF WriteEntry
<1> QED
  BY <1>1, <1>4, <1>5 DEF CleanInv

(* So do all steps. *)
LEMMA CleanInvNext == TaskInv /\ ArchiveInv /\ CleanInv /\ [Next]_vars => CleanInv'
<1> SUFFICES ASSUME TaskInv, ArchiveInv, CleanInv, [Next]_vars, OnlyInputsFail PROVE CleanInv'
  BY DEF CleanInv, OnlyInputsFail
<1>0. ~tc.stopped /\ pc # "aborted"
      /\ \A f \in File : wpc[f] \in {"catch", "rethrow", "failed"} => queue[f].buf = << >>
  BY DEF CleanInv, OnlyInputsFail
<1>1. CASE \E f \in File : Proceed(f) \/ Fail(f)
  BY <1>1, WorkerStaysClean
<1>2. CASE Bookkeeping
  <2>1. /\ UNCHANGED queue /\ ~tc'.stopped
        /\ \A f \in File : wpc'[f] = wpc[f] \/ (wpc[f] = "idle" /\ wpc'[f] = "run")
    BY <1>0, <1>2, BookkeepingTouches DEF OnlyInputsFail
  <2>2. pc' # "aborted"
    BY <1>0, <1>2 DEF Bookkeeping, User, UserStop, Create, AllReported, Join, OpenOutput, NextFile,
       LaunchTask, DrainTasks, PopFuture, ScanTask, CheckState, Finish, AfterPop, vars
  <2> QED
    BY <1>0, <2>1, <2>2 DEF CleanInv
<1>3. CASE WriteEntry
  BY <1>3, WriteEntryStaysClean
<1>4. CASE WriteCentral \/ WriteEnd
  <2>1. UNCHANGED <<tc, queue, wpc>> /\ pc' # "aborted"
    BY <1>4 DEF WriteCentral, WriteEnd, workVars
  <2> QED
    BY <1>0, <2>1 DEF CleanInv
<1>5. CASE SetFinished
  <2>1. UNCHANGED <<queue, wpc>> /\ pc' # "aborted"
    BY <1>5 DEF SetFinished, workVars
  <2>2. tc'.stopped = tc.stopped
    BY <1>5 DEF SetFinished, TaskInv, TypeInv, TypeOK, SetState, Control
  <2> QED
    BY <1>0, <2>1, <2>2 DEF CleanInv
<1> QED
  BY <1>1, <1>2, <1>3, <1>4, <1>5, StepKinds

(* If no codec and no write fails and nobody stops it, the packing never   *)
(* destroys a queue that holds bytes, however many inputs fail: the        *)
(* assertion of ~ByteQueue does not end it.                                *)
THEOREM NoQueueIsDestroyedFull ==
  ASSUME OnlyInputsFail PROVE Spec => []NeverAborts
<1>1. Init => CleanInv
  BY DEF Init, CleanInv, NewControl
<1>2. CleanInv => NeverAborts
  BY DEF CleanInv, NeverAborts, OnlyInputsFail
<1> QED
  BY <1>1, <1>2, CleanInvNext, EntriesAgree, PTL DEF Spec

-----------------------------------------------------------------------------
(* Packing, with the refinement mapping of ZipCreator.                     *)

(* Until an end record is there a reader finds nothing. *)
LEMMA NotSealed ==
  ASSUME archive \in Seq(Cell), NoEnd(archive)
  PROVE  ~Sealed /\ Listing = << >>
<1>1. Len(archive) \in Nat /\ DOMAIN archive = 1..Len(archive)
  BY LenProperties
<1>2. Kind(archive, Len(archive)) # "end"
  BY <1>1 DEF NoEnd, Kind
<1> QED
  BY <1>2 DEF Sealed, Listing

(* Nor until the archive is on the disk. *)
LEMMA NothingListed ==
  ASSUME TaskInv, EndInv, pc # "returned"
  PROVE  Listing = << >>
<1>1. NoEnd(disk) /\ archive \in Seq(Cell)
  BY DEF TaskInv, TypeInv, EndInv
<1>2. CASE disk = archive
  BY <1>1, <1>2, NotSealed
<1>3. CASE disk # archive
  BY <1>3 DEF Listing
<1> QED
  BY <1>2, <1>3

LEMMA NothingListedNext ==
  ASSUME TaskInv', EndInv', pc' # "returned"
  PROVE  Listing' = << >>
<1>1. NoEnd(disk') /\ archive' \in Seq(Cell)
  BY DEF TaskInv, TypeInv, EndInv, NoEnd
<1>2. CASE disk' = archive'
  <2>1. Len(archive') \in Nat /\ DOMAIN archive' = 1..Len(archive')
    BY <1>1, LenProperties
  <2>2. Kind(archive', Len(archive')) # "end"
    BY <1>1, <1>2, <2>1 DEF NoEnd, Kind
  <2> QED
    BY <2>2 DEF Sealed, Listing
<1>3. CASE disk' # archive'
  BY <1>3 DEF Listing
<1> QED
  BY <1>2, <1>3

(* What is neither stored nor lost is not reported. *)
LEMMA PendingFiles ==
  ASSUME TaskInv, ArchiveInv
  PROVE  Pack!Pending = File \ ReportedIn(tc)
<1>1. PICK s : s = [i \in DOMAIN chs |-> chs[i].file]
  OBVIOUS
<1>2. {s[i] : i \in DOMAIN s} = ListedIn(chs)
  BY <1>1 DEF ListedIn, ToSet
<1>3. ReportedIn(tc) = StoredIn(tc) \cup LostIn(tc)
  BY DEF ReportedIn, StoredIn, LostIn
<1>4. Pack!Pending = File \ (ListedIn(chs) \cup LostIn(tc))
  BY <1>1, <1>2 DEF Pack!Pending, Pack!Elements, LostIn
<1> QED
  BY <1>3, <1>4 DEF ArchiveInv

(* What Packing sees changes only with the plan, the directory, the        *)
(* reports, the unnoticed failures and the archive.                        *)
LEMMA PackStutters ==
  ASSUME UNCHANGED <<plan, chs, missed>>, LostIn(tc') = LostIn(tc), Listing' = Listing
  PROVE  UNCHANGED Pack!packVars
BY DEF Pack!packVars, LostIn, Output, Ends

(* The file whose header is rewritten is stored. *)
LEMMA FileIsStored ==
  ASSUME TaskInv, ArchiveInv, NEW f \in File \ ReportedIn(tc), f = cur,
         pc = "fix", chs' = Append(chs, NewCentral), missed' \in {missed, missed \cup {cur}},
         UNCHANGED plan, LostIn(tc') = LostIn(tc), Listing' = Listing
  PROVE  Pack!Store(f)
<1>1. PICK ch : ch = NewCentral
  OBVIOUS
<1>2. PICK S : S = [file : File, offset : Nat, size : Nat]
  OBVIOUS
<1>3. chs \in Seq(S) /\ ch \in S /\ ch.file = cur /\ Len(chs) \in Nat
  BY <1>1, <1>2, NewHeaderTyped, ListedTyped, LenProperties
<1>4. PICK new : new = Append(chs, ch)
  OBVIOUS
<1>5. /\ new \in Seq(S) /\ Len(new) = Len(chs) + 1 /\ new[Len(chs) + 1] = ch
      /\ \A i \in 1..Len(chs) : new[i] = chs[i]
  BY <1>3, <1>4, AppendProperties
<1>6. DOMAIN chs = 1..Len(chs) /\ DOMAIN new = 1..(Len(chs) + 1)
  BY <1>3, <1>5, LenProperties
<1>7. PICK s, t : s = [i \in DOMAIN chs |-> chs[i].file] /\ t = [i \in DOMAIN new |-> new[i].file]
  OBVIOUS
<1>8. s \in Seq(File) /\ t \in Seq(File) /\ Len(s) = Len(chs) /\ Len(t) = Len(chs) + 1
  <2>0. \A x \in S : x.file \in File
    BY <1>2
  <2>1. \A i \in 1..Len(chs) : chs[i].file \in File
    <3>1. \A i \in 1..Len(chs) : chs[i] \in S
      BY <1>3, ElementOfSeq
    <3> QED
      BY <2>0, <3>1
  <2>2. \A i \in 1..(Len(chs) + 1) : new[i].file \in File
    <3>1. \A i \in 1..(Len(chs) + 1) : new[i] \in S
      BY <1>5, ElementOfSeq
    <3> QED
      BY <2>0, <3>1
  <2> QED
    BY <1>3, <1>6, <1>7, <2>1, <2>2, IsASeq
<1>9. t = Append(s, cur)
  <2>1. PICK u : u = Append(s, cur)
    OBVIOUS
  <2>2. /\ u \in Seq(File) /\ Len(u) = Len(s) + 1 /\ u[Len(s) + 1] = cur
        /\ \A i \in 1..Len(s) : u[i] = s[i]
    BY <1>8, <2>1, AppendProperties
  <2>3. \A i \in 1..Len(t) : t[i] = u[i]
    <3> SUFFICES ASSUME NEW i \in 1..(Len(chs) + 1) PROVE t[i] = u[i]
      BY <1>8
    <3>1. CASE i \in 1..Len(chs)
      BY <1>5, <1>6, <1>7, <1>8, <2>2, <3>1
    <3>2. CASE i = Len(chs) + 1
      BY <1>3, <1>5, <1>6, <1>7, <1>8, <2>2, <3>2
    <3> QED
      BY <1>3, <3>1, <3>2
  <2> QED
    BY <1>8, <2>1, <2>2, <2>3, SeqEqual
<1>10. f \in Pack!Pending
  BY PendingFiles
<1>11. [i \in DOMAIN chs' |-> chs'[i].file] = Append([i \in DOMAIN chs |-> chs[i].file], cur)
  BY <1>1, <1>4, <1>7, <1>9
<1>12. UNCHANGED [g \in File |-> Output(g)]
  BY DEF Output, Ends
<1> QED
  BY <1>10, <1>11, <1>12 DEF Pack!Store, LostIn

(* A file that is reported as a failure is lost. *)
LEMMA FileIsLost ==
  ASSUME TaskInv, ArchiveInv, NEW f \in File \ ReportedIn(tc), f = cur, UNCHANGED <<plan, chs>>,
         missed' \in {missed, missed \cup {cur}},
         LostIn(tc') = LostIn(tc) \cup {cur}, Listing' = Listing
  PROVE  Pack!Lose(f)
<1>1. f \in Pack!Pending
  BY PendingFiles
<1> QED
  BY <1>1 DEF Pack!Lose, LostIn, Output, Ends

(* Once the archive is on the disk and an end record its last cell, the    *)
(* directory it points to lists every file that was stored, with all of    *)
(* its bytes unless a failure was missed.                                  *)
LEMMA SealedListing ==
  ASSUME TaskInv', ArchiveInv', EndInv', ListedInv, Sealed', disk' = archive',
         UNCHANGED <<plan, chs, missed>>
  PROVE  \E broken \in SUBSET missed :
           Listing' = [i \in DOMAIN chs |->
                         <<chs[i].file, IF chs[i].file \in broken THEN Placeholder ELSE Output(chs[i].file)>>]
<1>1. PICK a : a = archive'
  OBVIOUS
<1>2. PICK l, n : l = Len(a) /\ n = Len(chs)
  OBVIOUS
<1>3. /\ a \in Seq(Cell) /\ l \in Nat /\ DOMAIN a = 1..l
      /\ n \in Nat /\ DOMAIN chs = 1..n
      /\ chs \in Seq([file : File, offset : Nat, size : Nat])
  BY <1>1, <1>2, LenProperties DEF TaskInv, TypeInv, TypeOK
<1>4. l \in 1..l /\ a[l].kind = "end"
  BY <1>1, <1>2, <1>3 DEF Sealed, Kind
<1>5. /\ pos' = l
      /\ a[l - 2] = Zip64End(n, l - 3 - n, n)
      /\ \A k \in 1..n : a[l - 3 - n + k] = CentralHeader(chs[k])
  BY <1>1, <1>2, <1>4 DEF EndInv
<1>6. PICK end : end = a[l - 2]
  OBVIOUS
<1>7. end.entries = n /\ end.offset = l - 3 - n
  BY <1>5, <1>6 DEF Zip64End
<1>8. DEFINE whole(ch) == ch.offset + 1 + ch.size <= l
             /\ a[ch.offset + 1] = LocalHeader(ch.file, ch.size)
             /\ \A k \in 1..ch.size : a[ch.offset + 1 + k] = DataByte(ch.file, k)
             seen(ch) == <<ch.file, IF whole(ch) THEN ch.size ELSE Placeholder>>
             broken == {chs[i].file : i \in {k \in 1..n : ~whole(chs[k])}}
<1>9. Listing' = [i \in 1..n |-> seen(a[l - 3 - n + i])]
  BY <1>1, <1>2, <1>6, <1>7 DEF Listing
<1>10. ASSUME NEW i \in 1..n, chs[i].file \notin missed PROVE whole(chs[i])
  <2>1. PICK ch : ch = chs[i]
    OBVIOUS
  <2>2. ch \in ToSet(chs)
    BY <1>3, <2>1 DEF ToSet
  <2>3. EntryIntact(ch)'
    BY <1>10, <2>1, <2>2 DEF ArchiveInv, EntriesInv
  <2>4. whole(ch)
    BY <1>1, <1>2, <2>3 DEF EntryIntact
  <2> QED
    BY <2>1, <2>4
<1>11. broken \subseteq missed
  BY <1>10
<1>12. ASSUME NEW i \in 1..n PROVE chs[i].file \in broken <=> ~whole(chs[i])
  <2>1. \A k \in 1..n : chs[k].file = chs[i].file => k = i
    BY <1>2 DEF ListedInv
  <2> HIDE DEF whole
  <2> QED
    BY <2>1
<1>13. ASSUME NEW i \in 1..n
       PROVE  seen(a[l - 3 - n + i]) =
                <<chs[i].file, IF chs[i].file \in broken THEN Placeholder ELSE Output(chs[i].file)>>
  <2>1. PICK ch : ch = chs[i]
    OBVIOUS
  <2>2. PICK c : c = a[l - 3 - n + i]
    OBVIOUS
  <2>3. c.file = ch.file /\ c.size = ch.size /\ c.offset = ch.offset
    <3>1. c = CentralHeader(ch)
      BY <1>5, <2>1, <2>2
    <3> QED
      BY <3>1 DEF CentralHeader
  <2>4. whole(c) <=> whole(ch)
    BY <2>3
  <2>5. ch.size = Output(ch.file)
    BY <1>2, <2>1 DEF ListedInv
  <2>6. ch.file \in broken <=> ~whole(ch)
    BY <1>12, <2>1
  <2> HIDE DEF whole, broken
  <2>7. seen(c) = <<ch.file, IF ch.file \in broken THEN Placeholder ELSE Output(ch.file)>>
    BY <2>3, <2>4, <2>5, <2>6
  <2> QED
    BY <2>1, <2>2, <2>7
<1> HIDE DEF seen, broken
<1>14. Listing' = [i \in DOMAIN chs |->
         <<chs[i].file, IF chs[i].file \in broken THEN Placeholder ELSE Output(chs[i].file)>>]
  BY <1>3, <1>9, <1>13
<1> QED
  BY <1>11, <1>14

(* The fclose seals the archive, if it writes an end record to its end.    *)
LEMMA ArchiveIsSealed ==
  ASSUME TaskInv, ArchiveInv, EndInv, TriedInv, ListedInv, TaskInv', ArchiveInv', EndInv',
         SetFinished, pc' = "returned", Sealed'
  PROVE  Pack!Seal
<1>1. /\ pc = "finished" /\ UNCHANGED <<plan, chs, missed, archive>> /\ disk' = archive'
  BY DEF SetFinished, OnDisk, mainVars
<1>2. tc'.results = tc.results
  BY DEF SetFinished, SetState, TaskInv, TypeInv, TypeOK, Control
<1>3. next = NFiles + 1 /\ chs # << >>
  <2>1. archive \in Seq(Cell) /\ Sealed
    BY <1>1 DEF TaskInv, TypeInv, Sealed
  <2>2. ~NoEnd(archive)
    BY <2>1, NotSealed
  <2> QED
    BY <2>2 DEF TriedInv
<1>4. Pack!Pending = {}
  <2>1. tasks = << >> /\ NFiles \in Nat
    BY <1>1, ZipAssumption DEF TaskInv, VectorInv, Closing
  <2>2. ToSet(tasks) = {}
    BY <2>1 DEF ToSet
  <2>3. 1..NFiles = ReportedIn(tc)
    <3>1. 1..(next - 1) = ToSet(tasks) \cup ReportedIn(tc)
      BY DEF TaskInv, ReportInv
    <3>2. next - 1 = NFiles
      BY <1>3, <2>1
    <3> QED
      BY <2>2, <3>1, <3>2
  <2> QED
    BY <2>3, PendingFiles DEF File
<1> DEFINE s == [i \in DOMAIN chs |-> chs[i].file]
<1>5. s = [i \in DOMAIN chs |-> chs[i].file]
  OBVIOUS
<1> HIDE DEF s
<1>6. s # << >>
  <2>1. chs \in Seq([file : File, offset : Nat, size : Nat]) /\ chs # << >>
    BY <1>3 DEF TaskInv, TypeInv, TypeOK
  <2>2. Len(chs) \in Nat /\ Len(chs) # 0 /\ DOMAIN chs = 1..Len(chs)
    BY <2>1, LenProperties, EmptySeq
  <2>3. 1 \in DOMAIN s
    BY <1>5, <2>2
  <2> QED
    BY <2>3
<1>7. Listing = << >>
  BY <1>1, NothingListed
<1>8. PICK broken \in SUBSET missed :
        Listing' = [i \in DOMAIN chs |->
                      <<chs[i].file, IF chs[i].file \in broken THEN Placeholder ELSE Output(chs[i].file)>>]
  BY <1>1, SealedListing
<1>9. Listing' = [i \in DOMAIN s |-> <<s[i], IF s[i] \in broken THEN Placeholder ELSE Output(s[i])>>]
  BY <1>5, <1>8
<1>10. \A i \in DOMAIN s : [f \in File |-> Output(f)][s[i]] = Output(s[i])
  <2>1. \A i \in DOMAIN s : s[i] \in File
    <3>1. \A ch \in [file : File, offset : Nat, size : Nat] : ch.file \in File
      OBVIOUS
    <3>2. \A i \in DOMAIN chs : chs[i] \in [file : File, offset : Nat, size : Nat]
      BY ElementOfSeq, LenProperties DEF TaskInv, TypeInv, TypeOK
    <3> QED
      BY <1>5, <3>1, <3>2
  <2> QED
    BY <2>1
<1>11. Listing' = [i \in DOMAIN s |->
         <<s[i], IF s[i] \in broken THEN Placeholder ELSE [f \in File |-> Output(f)][s[i]]>>]
  BY <1>9, <1>10
<1>12. UNCHANGED [f \in File |-> Output(f)]
  BY <1>1 DEF Output, Ends
<1> QED
  <2>1. /\ LostIn(tc') = LostIn(tc)
        /\ [i \in DOMAIN chs' |-> chs'[i].file] = s
    BY <1>1, <1>2, <1>5 DEF LostIn
  <2>2. \E b \in SUBSET missed :
          Listing' = [i \in DOMAIN s |->
            <<s[i], IF s[i] \in b THEN Placeholder ELSE [f \in File |-> Output(f)][s[i]]>>]
    BY <1>11
  <2> QED
    BY <1>1, <1>4, <1>6, <1>7, <1>12, <2>1, <2>2, Zenon DEF s, Pack!Seal, LostIn

(* Every step is one of Packing, or one that Packing does not see.         *)
LEMMA PackStep ==
  ASSUME TaskInv, ArchiveInv, EndInv, TriedInv, ListedInv, TaskInv', ArchiveInv', EndInv', [Next]_vars
  PROVE  [Pack!PackNext]_(Pack!packVars)
<1>1. UNCHANGED <<archive, disk>> => Listing' = Listing
  BY DEF Listing, Sealed
<1>2. CASE \E f \in File : Proceed(f) \/ Fail(f)
  <2>1. UNCHANGED <<plan, tc, chs, archive, disk, missed>>
    BY <1>2, WorkerTouches DEF mainVars, fileVars
  <2> QED
    BY <1>1, <2>1, PackStutters
<1>3. CASE Bookkeeping
  <2>1. UNCHANGED <<plan, chs, archive, disk, missed>> /\ tc'.results = tc.results
    BY <1>3, BookkeepingTouches
  <2> QED
    BY <1>1, <2>1, PackStutters DEF LostIn
<1>4. CASE WriteEntry
  <2>1. Listing = << >> /\ Listing' = << >>
    <3>1. pc # "returned" /\ pc' # "returned"
      BY <1>4, WriteEntryKinds DEF Writing
    <3> QED
      BY <3>1, NothingListed, NothingListedNext
  <2>2. UNCHANGED plan
    BY <1>4, WriteEntryKinds
  <2>3. PICK f \in File \ ReportedIn(tc) : f = cur
    BY <1>4, WriteEntryKinds, CurrentTask
  <2>4. CASE UNCHANGED <<tc, chs, missed>>
    BY <2>1, <2>2, <2>4, PackStutters
  <2>5. CASE /\ UNCHANGED chs /\ LostIn(tc') = LostIn(tc) \cup {cur}
             /\ missed' \in {missed, missed \cup {cur}}
    <3>1. Listing' = Listing
      BY <2>1
    <3>2. Pack!Lose(f)
      BY <2>2, <2>3, <2>5, <3>1, FileIsLost
    <3> QED
      BY <3>2 DEF Pack!PackNext
  <2>6. CASE /\ pc = "fix" /\ LostIn(tc') = LostIn(tc)
             /\ chs' = Append(chs, NewCentral)
             /\ missed' \in {missed, missed \cup {cur}}
    <3>1. Listing' = Listing
      BY <2>1
    <3>2. Pack!Store(f)
      BY <2>2, <2>3, <2>6, <3>1, FileIsStored
    <3> QED
      BY <3>2 DEF Pack!PackNext
  <2> QED
    BY <1>4, <2>4, <2>5, <2>6, WriteEntryKinds
<1>5. CASE WriteCentral \/ WriteEnd
  <2>1. /\ pc # "returned" /\ pc' # "returned" /\ UNCHANGED <<plan, tc, chs, missed>>
    BY <1>5 DEF WriteCentral, WriteEnd, Write, WriteFails, mainVars
  <2>2. Listing' = Listing
    BY <2>1, NothingListed, NothingListedNext
  <2> QED
    BY <2>1, <2>2, PackStutters
<1>6. CASE SetFinished
  <2>1. /\ pc = "finished" /\ UNCHANGED <<plan, chs, missed>> /\ tc'.results = tc.results
    BY <1>6 DEF SetFinished, SetState, TaskInv, TypeInv, TypeOK, Control, mainVars
  <2>2. CASE pc' = "returned" /\ Sealed'
    BY <1>6, <2>2, ArchiveIsSealed DEF Pack!PackNext
  <2>3. CASE ~(pc' = "returned" /\ Sealed')
    <3>1. Listing' = << >>
      <4>1. CASE pc' # "returned"
        BY <4>1, NothingListedNext
      <4>2. CASE ~Sealed'
        BY <4>2 DEF Listing
      <4> QED
        BY <2>3, <4>1, <4>2
    <3>2. Listing = << >>
      BY <2>1, NothingListed
    <3> QED
      BY <2>1, <3>1, <3>2, PackStutters DEF LostIn
  <2> QED
    BY <2>2, <2>3
<1> QED
  BY <1>2, <1>3, <1>4, <1>5, <1>6, StepKinds

(* Refinement: whatever fails, files are stored or lost one at a time, and *)
(* a reader of the directory finds nothing until all of them are, and then *)
(* each file that was stored, in its order, for good; and it is whole      *)
(* unless a flush failed unnoticed while its header was rewritten.         *)
THEOREM PackingIsImplemented == Spec => ImplementsPacking
<1>1. Init => Pack!PackInit
  <2> SUFFICES ASSUME Init PROVE Pack!PackInit
    OBVIOUS
  <2>1. /\ plan \in [File -> Plans] /\ chs = << >> /\ archive = << >> /\ tc.results = << >>
        /\ missed = {}
    BY DEF Init, NewControl
  <2>2. [f \in File |-> Output(f)] \in [File -> Nat]
    <3> SUFFICES ASSUME NEW f \in File PROVE Output(f) \in Nat
      OBVIOUS
    <3>1. Len(plan[f].ends) \in 0..Len(plan[f].ends)
      BY <2>1, EndsFacts
    <3> QED
      BY <2>1, <3>1, EndsFacts DEF Output
  <2>3. [i \in DOMAIN chs |-> chs[i].file] = << >>
    BY <2>1
  <2>4. {r.file : r \in {q \in ToSet(tc.results) : ~q.ok}} = {}
    BY <2>1 DEF ToSet
  <2>5. Listing = << >>
    <3>1. archive \in Seq(Cell) /\ NoEnd(archive)
      BY <2>1, EmptySeq DEF NoEnd
    <3> QED
      BY <3>1, NotSealed
  <2> QED
    BY <2>1, <2>2, <2>3, <2>4, <2>5 DEF Pack!PackInit
<1>2. /\ TaskInv /\ ArchiveInv /\ EndInv /\ TriedInv /\ ListedInv
      /\ TaskInv' /\ ArchiveInv' /\ EndInv'
      /\ [Next]_vars
      => [Pack!PackNext]_(Pack!packVars)
  BY PackStep
<1> QED
  BY <1>1, <1>2, EntriesAgree, EndIsBehindDirectory, AllFilesAreTried, FilesAreListedOnce, PTL
  DEF Spec, ImplementsPacking, Pack!PackSpec

-----------------------------------------------------------------------------
(* Unless a write fails, the directory lies behind the last entry.         *)
SealInv ==
  WritesSucceed =>
    /\ pc = "central" => pos = EntriesEnd
    /\ pc = "end" => offset = EntriesEnd
    /\ \A i \in 1..Len(archive) : archive[i].kind = "end" => pos = EntriesEnd + Len(chs) + 3

(* Steps that do not write leave it there. *)
LEMMA BookkeepingKeepsSeal ==
  ASSUME TaskInv, TiledInv, SealInv, Bookkeeping, WritesSucceed
  PROVE  SealInv'
<1>1. UNCHANGED <<offset, chs, archive, pos>>
  BY BookkeepingTouches
<1>2. UNCHANGED EntriesEnd
  BY <1>1 DEF EntriesEnd
<1>3. pc' = "central" => pc \in {"central", "finish"}
  BY DEF Bookkeeping, User, UserStop, Create, AllReported, Join, TaskInv, PhaseInv, OpenOutput,
     NextFile, LaunchTask, DrainTasks, PopFuture, ScanTask, CheckState, Finish, AfterPop, vars
<1>4. pc' = "end" => pc = "end"
  BY DEF Bookkeeping, User, UserStop, Create, AllReported, Join, TaskInv, PhaseInv, OpenOutput,
     NextFile, LaunchTask, DrainTasks, PopFuture, ScanTask, CheckState, Finish, AfterPop, vars
<1> QED
  BY <1>1, <1>2, <1>3, <1>4 DEF SealInv, TiledInv

(* So do the steps that write. *)
LEMMA SealInvNext ==
  TaskInv /\ ArchiveInv /\ EndInv /\ TiledInv /\ SealInv /\ [Next]_vars => SealInv'
<1> SUFFICES ASSUME TaskInv, ArchiveInv, EndInv, TiledInv, SealInv, [Next]_vars, WritesSucceed
             PROVE  SealInv'
  BY DEF SealInv
<1>1. EndInv'
  BY EndInvNext
<1>2. CASE \E f \in File : Proceed(f) \/ Fail(f)
  <2>1. UNCHANGED <<pc, offset, chs, archive, pos>>
    BY <1>2, WorkerTouches DEF mainVars, fileVars
  <2>2. UNCHANGED EntriesEnd
    BY <2>1 DEF EntriesEnd
  <2> QED
    BY <2>1, <2>2 DEF SealInv
<1>3. CASE Bookkeeping
  BY <1>3, BookkeepingKeepsSeal
<1>4. CASE WriteEntry
  <2>1. pc' \notin {"central", "end", "finished", "returned"}
    BY <1>4, WriteEntryKinds DEF Writing
  <2> QED
    BY <1>1, <2>1 DEF SealInv, EndInv
<1>5. CASE WriteCentral
  <2>1. pc = "central" /\ pc' \in {"end", "threw"} /\ offset' = pos /\ UNCHANGED chs
    BY <1>5 DEF WriteCentral, Write, WriteFails
  <2>2. UNCHANGED EntriesEnd
    BY <2>1 DEF EntriesEnd
  <2> QED
    BY <1>1, <2>1, <2>2 DEF SealInv, EndInv
<1>6. CASE WriteEnd
  <2>1. /\ pc = "end" /\ pc' = "finished" /\ UNCHANGED <<chs, offset>>
        /\ \E cells : Len(cells) = 3 /\ Write(cells)
    BY <1>6 DEF WriteEnd, WriteFails, WritesSucceed, mainVars
  <2>2. UNCHANGED EntriesEnd
    BY <2>1 DEF EntriesEnd
  <2>3. pos' = pos + 3 /\ pos = offset + Len(chs)
    BY <2>1 DEF Write, EndInv
  <2>4. pos \in Nat /\ offset \in Nat /\ Len(chs) \in Nat
    BY ListedTyped, LenProperties DEF TaskInv, TypeInv, TypeOK
  <2> QED
    BY <2>1, <2>2, <2>3, <2>4 DEF SealInv
<1>7. CASE SetFinished
  <2>1. /\ pc' \notin {"central", "end"} /\ UNCHANGED <<chs, archive, pos>>
    BY <1>7 DEF SetFinished, OnDisk, WritesSucceed, mainVars
  <2>2. UNCHANGED EntriesEnd
    BY <2>1 DEF EntriesEnd
  <2> QED
    BY <2>1, <2>2 DEF SealInv
<1> QED
  BY <1>2, <1>3, <1>4, <1>5, <1>6, <1>7, StepKinds

(* The headers of the entries, by their cells. *)
Heads == [i \in 1..Len(chs) |-> chs[i].offset + 1]

(* A header has a size, and no flags. *)
LEMMA HeadersKnown ==
  ASSUME TaskInv
  PROVE  /\ SizesKnown(archive)
         /\ \A p \in 1..Len(archive) :
              archive[p].kind = "end" => archive[p] = EndRecord
<1>1. archive \in Seq(Cell) /\ Len(archive) \in Nat /\ DOMAIN archive = 1..Len(archive)
  BY LenProperties DEF TaskInv, TypeInv
<1>2. \A p \in 1..Len(archive) : archive[p] \in Cell
  BY <1>1, ElementOfSeq
<1>3. \A p \in 1..Len(archive) :
        archive[p].kind = "end" => archive[p] = EndRecord
  BY <1>2 DEF Cell, Byte, Header, Trailer, EndRecord, Torn
<1>4. ASSUME NEW p \in Nat, Kind(archive, p) = "local" PROVE Skipped(archive, p) \in Nat
  <2>1. p \in 1..Len(archive) /\ archive[p].kind = "local"
    BY <1>1, <1>4 DEF Kind
  <2>2. archive[p].flags = {} /\ archive[p].size \in Nat \cup {Placeholder}
    BY <1>2, <2>1 DEF Cell, Byte, Header, Trailer, EndRecord, Torn
  <2> QED
    BY <1>1, <2>2 DEF Skipped
<1> QED
  BY <1>3, <1>4 DEF SizesKnown

(* Where an end record is the last cell, the entries, the directory and    *)
(* its records are all there is.                                           *)
LEMMA SealedLayout ==
  ASSUME TaskInv, ArchiveInv, EndInv, TiledInv, SealInv, WritesSucceed, Sealed
  PROVE  /\ Heads \in Seq(Nat) /\ Len(Heads) = Len(chs)
         /\ SealedAt(archive, Heads, EntriesEnd + 1)
<1> PICK a : a = archive
  OBVIOUS
<1> PICK l, n : l = Len(a) /\ n = Len(chs)
  OBVIOUS
<1> PICK end : end = EntriesEnd + 1
  OBVIOUS
<1> PICK heads : heads = Heads
  OBVIOUS
<1>1. /\ a \in Seq(Cell) /\ l \in Nat /\ DOMAIN a = 1..l
      /\ n \in Nat /\ DOMAIN chs = 1..n
  BY ListedTyped, LenProperties DEF TaskInv, TypeInv
<1>2. /\ \A i \in 1..n : chs[i] \in ToSet(chs) /\ chs[i].file \in File
                          /\ chs[i].offset \in Nat /\ chs[i].size \in Nat
      /\ chs = << >> <=> n = 0
  <2>1. \A ch \in [file : File, offset : Nat, size : Nat] : ch.file \in File /\ ch.offset \in Nat /\ ch.size \in Nat
    OBVIOUS
  <2>2. chs = << >> <=> n = 0
    BY ListedTyped, EmptySeq
  <2> QED
    BY <2>1, <2>2, ListedTyped
<1>3. heads \in Seq(Nat) /\ Len(heads) = n /\ \A i \in 1..n : heads[i] = chs[i].offset + 1
  BY <1>1, <1>2 DEF Heads
<1>4. EntriesEnd \in Nat
  BY <1>1, <1>2 DEF EntriesEnd
<1>5. l \in 1..l /\ a[l].kind = "end"
  BY <1>1 DEF Sealed, Kind
<1>6. /\ pos = l /\ l > n + 2
      /\ a[l - 2] = Zip64End(n, l - 3 - n, n)
      /\ a[l - 1] = Zip64Locator(l - 3)
      /\ \A k \in 1..n : a[l - 3 - n + k] = CentralHeader(chs[k])
  BY <1>5 DEF EndInv
<1>7. l = EntriesEnd + n + 3
  BY <1>5, <1>6 DEF SealInv
<1>8. l = end + n + 2
  BY <1>1, <1>4, <1>7
<1>9. ASSUME NEW i \in 1..n
      PROVE  /\ heads[i] \in 1..l /\ a[heads[i]].kind = "local"
             /\ a[heads[i]].size = chs[i].size /\ a[heads[i]].flags = {}
  <2>1. \A f, k : LocalHeader(f, k).kind = "local" /\ LocalHeader(f, k).size = k
                 /\ LocalHeader(f, k).flags = {}
    BY DEF LocalHeader
  <2>2. a[heads[i]] = LocalHeader(chs[i].file, chs[i].size) /\ heads[i] \in 1..l
    <3> PICK ch : ch = chs[i]
      OBVIOUS
    <3>1. ch \in ToSet(chs) /\ missed = {}
      BY <1>2 DEF TiledInv
    <3>2. /\ a[ch.offset + 1] = LocalHeader(ch.file, ch.size)
          /\ ch.offset + 1 + ch.size <= l
      BY <3>1 DEF ArchiveInv, EntriesInv, EntryIntact
    <3>3. ch.offset \in Nat /\ ch.size \in Nat /\ heads[i] = ch.offset + 1
      BY <1>2, <1>3
    <3> QED
      BY <1>1, <3>2, <3>3
  <2> QED
    BY <2>1, <2>2
<1>10. ASSUME NEW i \in 1..n PROVE heads[i] + 1 + Skipped(a, heads[i]) = HeadOr(heads, end, i + 1)
  <2>1. Skipped(a, heads[i]) = chs[i].size
    <3>1. chs[i].size # -1 /\ "descriptor" \notin a[heads[i]].flags
      BY <1>2, <1>9
    <3> QED
      BY <1>9, <3>1 DEF Skipped, Placeholder
  <2>0. heads[i] = chs[i].offset + 1 /\ Len(heads) = n
    BY <1>3
  <2>2. CASE i = n
    <3>1. EntriesEnd = chs[i].offset + 1 + chs[i].size
      BY <1>1, <1>2, <2>2 DEF EntriesEnd
    <3>2. HeadOr(heads, end, i + 1) = EntriesEnd + 1
      BY <2>0, <2>2 DEF HeadOr
    <3>3. chs[i].offset \in Nat /\ chs[i].size \in Nat
      BY <1>2
    <3>4. \A o, k \in Nat : (o + 1) + 1 + k = (o + 1 + k) + 1
      OBVIOUS
    <3> QED
      BY <2>0, <2>1, <3>1, <3>2, <3>3, <3>4, Zenon
  <2>3. CASE i # n
    <3>1. i + 1 \in 2..n /\ i + 1 - 1 = i /\ i + 1 # n + 1 /\ i + 1 \in 1..n
      BY <1>1, <2>3
    <3>2. chs[i + 1].offset = chs[i].offset + 1 + chs[i].size
      BY <3>1 DEF TiledInv
    <3>3. HeadOr(heads, end, i + 1) = chs[i + 1].offset + 1
      BY <1>3, <2>0, <3>1 DEF HeadOr
    <3>4. chs[i].offset \in Nat /\ chs[i].size \in Nat
      BY <1>2
    <3>5. \A o, k \in Nat : (o + 1) + 1 + k = (o + 1 + k) + 1
      OBVIOUS
    <3> QED
      BY <2>0, <2>1, <3>2, <3>3, <3>4, <3>5, Zenon
  <2> QED
    BY <2>2, <2>3
<1>11. HeadOr(heads, end, 1) = 1
  <2>1. CASE n = 0
    BY <1>2, <1>3, <2>1 DEF HeadOr, EntriesEnd
  <2>2. CASE n # 0
    <3>1. 1 \in 1..n /\ 1 # n + 1
      BY <1>1, <2>2
    <3> QED
      BY <1>2, <1>3, <3>1 DEF HeadOr, TiledInv
  <2> QED
    BY <2>1, <2>2
<1>12. \A i \in 1..n : a[end + i - 1] = CentralHeader(chs[i])
  <2>1. \A i \in 1..n : end + i - 1 = l - 3 - n + i
    BY <1>1, <1>4, <1>8
  <2> QED
    BY <1>6, <2>1
<1>13. /\ end + n = l - 2 /\ end + n + 1 = l - 1 /\ end \in 1..l
       /\ \A i \in 1..n : end + i - 1 \in 1..l
       /\ l - 2 \in 1..l /\ l - 1 \in 1..l
  BY <1>1, <1>4, <1>8
<1>14. Kind(a, end) # "local"
  <2>1. CASE n = 0
    BY <1>1, <1>4, <1>6, <1>13, <2>1 DEF Kind, Zip64End
  <2>2. CASE n # 0
    <3>1. 1 \in 1..n /\ end + 1 - 1 = end
      BY <1>1, <1>4, <2>2
    <3>2. a[end] = CentralHeader(chs[1])
      BY <1>12, <3>1
    <3> QED
      BY <1>1, <1>13, <3>2 DEF Kind, CentralHeader
  <2> QED
    BY <2>1, <2>2
<1>15. Tiled(a, heads, end)
  <2>1. \A i \in 1..n : Kind(a, heads[i]) = "local"
    BY <1>1, <1>9 DEF Kind
  <2> QED
    BY <1>1, <1>3, <1>9, <1>10, <1>11, <1>13, <1>14, <2>1 DEF Tiled
<1>16. \A i \in 1..n : Kind(a, end + i - 1) = "central" /\ a[heads[i]].flags = {}
  <2>1. \A i \in 1..n : a[end + i - 1].kind = "central" /\ end + i - 1 \in DOMAIN a
    <3>1. \A ch : CentralHeader(ch).kind = "central"
      BY DEF CentralHeader
    <3> QED
      BY <1>1, <1>12, <1>13, <3>1
  <2> QED
    BY <1>9, <2>1 DEF Kind
<1>17. /\ Kind(a, end + n) = "z64end" /\ a[end + n].entries = n
       /\ Kind(a, end + n + 1) = "z64loc"
  BY <1>1, <1>6, <1>13 DEF Kind, Zip64End, Zip64Locator
<1>18. Kind(a, end + n + 2) = "end" /\ a[end + n + 2].entries = Anonymous
  BY <1>1, <1>5, <1>8, HeadersKnown DEF Kind, EndRecord
<1>19. SealedAt(a, heads, end)
  BY <1>3, <1>8, <1>15, <1>16, <1>17, <1>18 DEF SealedAt
<1> QED
  BY <1>3, <1>19

(* What the reader finds in it: of each file its headers and all its data. *)
LEMMA SealedReads ==
  ASSUME TaskInv, ArchiveInv, EndInv, TiledInv, SealInv, WritesSucceed, Sealed
  PROVE  /\ Opens(archive)
         /\ Read(archive) = [i \in DOMAIN chs |->
              [local |-> LocalHeader(chs[i].file, Output(chs[i].file)),
               central |-> CentralHeader(chs[i]),
               data |-> [k \in 1..Output(chs[i].file) |-> DataByte(chs[i].file, k)]]]
<1> PICK a : a = archive
  OBVIOUS
<1> PICK n : n = Len(chs)
  OBVIOUS
<1> PICK end : end = EntriesEnd + 1
  OBVIOUS
<1> PICK heads : heads = Heads
  OBVIOUS
<1>1. /\ a \in Seq(Cell) /\ Len(a) \in Nat /\ DOMAIN a = 1..Len(a)
      /\ n \in Nat /\ DOMAIN chs = 1..n
  BY ListedTyped, LenProperties DEF TaskInv, TypeInv
<1>2. heads \in Seq(Nat) /\ Len(heads) = n /\ SealedAt(a, heads, end) /\ SizesKnown(a)
  BY SealedLayout, HeadersKnown
<1>3. Opens(a) /\ Read(a) = Stored(a, heads, end)
  BY <1>1, <1>2, SealedOpens
<1>4. ASSUME NEW i \in 1..n
      PROVE  /\ a[heads[i]] = LocalHeader(chs[i].file, Output(chs[i].file))
             /\ a[end + i - 1] = CentralHeader(chs[i])
             /\ SubSeq(a, heads[i] + 1, heads[i] + a[heads[i]].size)
                  = [k \in 1..Output(chs[i].file) |-> DataByte(chs[i].file, k)]
  <2> PICK ch : ch = chs[i]
    OBVIOUS
  <2>1. ch \in ToSet(chs) /\ ch \in [file : File, offset : Nat, size : Nat]
    BY <1>1, ListedTyped
  <2>2. /\ a[ch.offset + 1] = LocalHeader(ch.file, ch.size) /\ ch.size = Output(ch.file)
        /\ ch.offset + 1 + ch.size <= Len(a)
        /\ \A k \in 1..ch.size : a[ch.offset + 1 + k] = DataByte(ch.file, k)
        /\ ch.offset \in Nat /\ ch.size \in Nat
    BY <2>1 DEF ArchiveInv, EntriesInv, EntryIntact, TiledInv
  <2>3. heads[i] = ch.offset + 1
    BY DEF Heads
  <2>4. a[heads[i]].size = ch.size
    BY <2>2, <2>3 DEF LocalHeader
  <2>5. PICK h \in Nat : h = heads[i]
    BY <2>2, <2>3
  <2>6. PICK s : s = SubSeq(a, h + 1, h + ch.size)
    OBVIOUS
  <2>7. \A k \in (h + 1)..(h + ch.size) : a[k] \in Cell
    BY <1>1, <2>2, <2>3, <2>5, ElementOfSeq
  <2>8. /\ s \in Seq(Cell)
        /\ Len(s) = IF h + 1 <= h + ch.size THEN (h + ch.size) - (h + 1) + 1 ELSE 0
        /\ \A k \in 1..((h + ch.size) - (h + 1) + 1) : s[k] = a[h + 1 + k - 1]
    BY <2>2, <2>6, <2>7, SubSeqProperties
  <2>9. Len(s) = ch.size /\ (h + ch.size) - (h + 1) + 1 = ch.size
        /\ \A k \in 1..ch.size : h + 1 + k - 1 = ch.offset + 1 + k
    <3>1. h \in Nat /\ h = ch.offset + 1 /\ ch.size \in Nat /\ ch.offset \in Nat
      BY <2>2, <2>3, <2>5
    <3>2. (h + ch.size) - (h + 1) + 1 = ch.size /\ (h + 1 <= h + ch.size <=> ch.size > 0)
      BY <3>1
    <3>3. \A k \in 1..ch.size : h + 1 + k - 1 = ch.offset + 1 + k
      BY <3>1
    <3> QED
      BY <2>8, <3>1, <3>2, <3>3
  <2>10. \A k \in 1..ch.size : s[k] = DataByte(ch.file, k)
    BY <2>2, <2>8, <2>9
  <2>11. s = [k \in 1..ch.size |-> s[k]]
    BY <2>8, <2>9, LenProperties
  <2>12. s = [k \in 1..ch.size |-> DataByte(ch.file, k)]
    BY <2>10, <2>11
  <2>13. a[end + i - 1] = CentralHeader(ch)
    <3>1. Kind(a, Len(a)) = "end" /\ Len(a) \in 1..Len(a) /\ a[Len(a)].kind = "end"
      BY <1>1 DEF Sealed, Kind
    <3>2. pos = Len(a) /\ a[pos - 3 - n + i] = CentralHeader(ch)
      BY <3>1 DEF EndInv
    <3>3. Len(a) = end + n + 2 /\ end \in Nat
      BY <1>1, <1>2 DEF SealedAt, Tiled
    <3>4. pos - 3 - n + i = end + i - 1
      BY <1>1, <3>2, <3>3
    <3> QED
      BY <3>2, <3>4
  <2> QED
    BY <2>2, <2>3, <2>4, <2>5, <2>6, <2>12, <2>13
<1>5. Read(a) = [i \in 1..n |->
        [local |-> LocalHeader(chs[i].file, Output(chs[i].file)),
         central |-> CentralHeader(chs[i]),
         data |-> [k \in 1..Output(chs[i].file) |-> DataByte(chs[i].file, k)]]]
  BY <1>2, <1>3, <1>4 DEF Stored
<1> QED
  BY <1>1, <1>3, <1>5

(* Whenever parzip is killed, and however little of the archive is on the  *)
(* disk, a reader opens it only if all of it is there, and finds in it     *)
(* each file that succeeded with both headers and all bytes.               *)
THEOREM ReadersSeeAllOrNothing == Spec => []ReaderSeesAllOrNothing
<1>1. Init => SealInv
  BY DEF Init, SealInv
<1>2. Init => TiledInv
  <2>1. Len(<< >>) = 0 /\ 2..0 = {}
    OBVIOUS
  <2> QED
    BY <2>1 DEF Init, TiledInv, EntriesEnd, Writing
<1>3. TaskInv /\ ArchiveInv /\ EndInv /\ TiledInv /\ SealInv => ReaderSeesAllOrNothing
  <2> SUFFICES ASSUME TaskInv, ArchiveInv, EndInv, TiledInv, SealInv, WritesSucceed,
                      NEW n \in 0..Len(archive)
               PROVE  LET cut == SubSeq(archive, 1, n)
                      IN  IF n = Len(archive) /\ Sealed
                          THEN /\ Opens(cut)
                               /\ Read(cut) = [i \in DOMAIN chs |->
                                    [local |-> LocalHeader(chs[i].file, Output(chs[i].file)),
                                     central |-> CentralHeader(chs[i]),
                                     data |-> [k \in 1..Output(chs[i].file) |-> DataByte(chs[i].file, k)]]]
                          ELSE ~Opens(cut)
    BY DEF ReaderSeesAllOrNothing
  <2>1. archive \in Seq(Cell) /\ Len(archive) \in Nat /\ DOMAIN archive = 1..Len(archive)
    BY LenProperties DEF TaskInv, TypeInv
  <2>2. CASE n = Len(archive) /\ Sealed
    <3>1. SubSeq(archive, 1, n) = archive
      BY <2>1, <2>2, SubSeqFull
    <3> QED
      BY <2>2, <3>1, SealedReads
  <2>3. CASE ~(n = Len(archive) /\ Sealed)
    <3> PICK cut : cut = SubSeq(archive, 1, n)
      OBVIOUS
    <3>1. n \in Nat /\ \A i \in 1..n : archive[i] \in Cell
      BY <2>1, ElementOfSeq
    <3>2. /\ cut \in Seq(Cell) /\ Len(cut) = (IF 1 <= n THEN n - 1 + 1 ELSE 0)
          /\ \A i \in 1..(n - 1 + 1) : cut[i] = archive[1 + i - 1]
      BY <3>1, SubSeqProperties
    <3>3. DOMAIN cut = 1..n /\ \A i \in 1..n : cut[i] = archive[i]
      BY <3>1, <3>2, LenProperties
    <3>4. \A i \in 1..n : archive[i].kind # "end"
      <4> SUFFICES ASSUME NEW i \in 1..n, archive[i].kind = "end" PROVE FALSE
        OBVIOUS
      <4>1. i \in 1..Len(archive)
        BY <2>1
      <4>2. i = pos /\ pos = Len(archive)
        BY <4>1 DEF EndInv, TiledInv
      <4>3. Sealed
        <5>1. Len(archive) \in DOMAIN archive /\ archive[Len(archive)].kind = "end"
          BY <2>1, <4>1, <4>2
        <5> QED
          BY <5>1 DEF Sealed, Kind
      <4>4. n = Len(archive)
        <5>1. \A l \in Nat : n \in 0..l /\ i = l => n = l
          OBVIOUS
        <5> QED
          BY <2>1, <4>2, <5>1
      <4> QED
        BY <2>3, <4>3, <4>4
    <3>5. \A p : Kind(cut, p) # "end"
      BY <3>3, <3>4 DEF Kind
    <3> QED
      BY <2>3, <3>5 DEF Opens
  <2> QED
    BY <2>2, <2>3
<1> QED
  BY <1>1, <1>2, <1>3, SealInvNext, TiledInvNext, EntriesAgree, EndIsBehindDirectory, PTL DEF Spec
=============================================================================
