----------------------------- MODULE UnzipProofs ------------------------------
(***************************************************************************)
(* Theorems of Unzipper: about its tasks and its reports, for every        *)
(* archive and number of threads, every fault and every number of runs;    *)
(* and about the files it leaves, in every state and thus wherever the     *)
(* process is killed, for every archive that does not have a file twice.   *)
(***************************************************************************)
EXTENDS Unzipper, TaskLemmas

(* Only a task of a regular file comes here, and here it holds the file.   *)
Extracting == {"check", "open", "write", "verify", "unlink", "close", "rename"}

Holding == {"write", "verify", "close"}

(* How far a task is, by where it is. *)
StageInv ==
  \A e \in 1..N :
    /\ wpc[e] \in Extracting => entries[e].kind = "file"
    /\ wpc[e] = "make" => entries[e].kind = "special"
    /\ wpc[e] \in {"idle", "dirs", "check", "open"} => done[e] = 0
    /\ wpc[e] = "write" => done[e] < entries[e].chunks
    /\ wpc[e] \in {"verify", "close", "rename"} => done[e] = entries[e].chunks
    /\ wpc[e] \in Holding => fd[e] # 0
    /\ wpc[e] \notin Holding \cup {"unlink"} => fd[e] = 0
    /\ wpc[e] \in {"perms", "ok"} /\ entries[e].kind = "dir" => entries[e].name \in dirs

(* How far the TaskControl is, by where the unpacking thread is. *)
PhaseInv ==
  /\ pc = "idle" <=> tc.state = "NOT_STARTED"
  /\ pc = "returned" <=> tc.state = "FINISHED"
  /\ pc # "idle" => tc.total = N
  /\ pc \in {"idle", "map"} => next = 1
  /\ pc \in {"scan", "launch", "async"} => next <= N
  /\ pc \in {"collect", "returned"} => tc.stopped \/ next = N + 1

(* The vector of futures: only a stopped run goes on without a free slot.  *)
VectorInv ==
  /\ Distinct(futures)
  /\ Len(futures) <= NumThreads
  /\ pc = "launch" => tc.stopped \/ Len(futures) < NumThreads
  /\ pc = "async" => Len(futures) < NumThreads
  /\ pc = "returned" => futures = << >>

(* An entry is launched, has a future, and is reported, in this order; the *)
(* report tells how its task ended.                                        *)
ReportInv ==
  /\ ReportedOnce(tc)
  /\ CountersAgree(tc)
  /\ 1..(next - 1) = ToSet(futures) \cup ReportedIn(tc)
  /\ ToSet(futures) \cap ReportedIn(tc) = {}
  /\ \A e \in 1..N : wpc[e] = "idle" <=> e >= next
  /\ \A r \in ToSet(tc.results) : wpc[r.file] = IF r.ok THEN "ok" ELSE "failed"

(* The inductive invariant. *)
TaskInv == TypeOK /\ StageInv /\ PhaseInv /\ VectorInv /\ ReportInv

-----------------------------------------------------------------------------
(* What the archive is made of. *)
LEMMA EntryFacts ==
  ASSUME entries \in Archives
  PROVE  /\ N \in Nat /\ DOMAIN entries = 1..N
         /\ \A e \in 1..N : /\ entries[e] \in Entry
                            /\ entries[e].name \in Name
                            /\ entries[e].parent \in Name \cup {NoName}
                            /\ entries[e].kind \in {"file", "dir", "special"}
                            /\ entries[e].flaw \in {"none", "type", "data"}
                            /\ entries[e].chunks \in Nat
                            /\ entries[e].kind = "file" => entries[e].chunks > 0
<1>1. entries \in Seq(Entry)
  BY UnzipAssumption
<1>2. N \in Nat /\ DOMAIN entries = 1..N /\ \A e \in 1..N : entries[e] \in Entry
  BY <1>1, LenProperties, ElementOfSeq DEF N
<1>3. \A x \in Entry : /\ x.name \in Name /\ x.parent \in Name \cup {NoName}
                       /\ x.kind \in {"file", "dir", "special"}
                       /\ x.flaw \in {"none", "type", "data"} /\ x.chunks \in Nat
  BY DEF Entry
<1>4. \A e \in 1..N : entries[e].kind = "file" => entries[e].chunks > 0
  BY <1>2, UnzipAssumption
<1> QED
  BY <1>2, <1>3, <1>4

(* The variables of the disk hold what they may. *)
DiskTyped ==
  /\ dirs \subseteq Name \cup {NoName} /\ readonly \subseteq dirs
  /\ final \in [Name -> 0..N] /\ tmp \in [Name -> 0..N]
  /\ content \in [1..N -> Seq((0..N) \X Nat)]

GivensTyped ==
  program \in Programs /\ failing \subseteq Faults /\ entries \in Archives /\ runs \in 1..MaxRuns

(* A ZipFile that nobody has unpacked. *)
Fresh ==
  /\ tc = NewControl
  /\ ui = Start
  /\ pc = "idle"
  /\ next = 1
  /\ futures = << >>
  /\ at = 1
  /\ wpc = [e \in 1..N |-> "idle"]
  /\ fd = [e \in 1..N |-> 0]
  /\ done = [e \in 1..N |-> 0]

(* A run that has not begun has its invariant, whatever an earlier one     *)
(* left on the disk.                                                       *)
LEMMA FreshTaskInv == GivensTyped /\ Fresh /\ DiskTyped => TaskInv
<1> SUFFICES ASSUME GivensTyped, Fresh, DiskTyped PROVE TaskInv
  OBVIOUS
<1>0. /\ N \in Nat /\ NumThreads \in Nat \ {0} /\ << >> \in Seq(1..N) /\ Len(<< >>) = 0
      /\ \A e \in 1..N : entries[e].chunks \in Nat
  BY UnzipAssumption, EntryFacts, EmptySeq DEF GivensTyped
<1>1. /\ NewControl.results = << >> /\ NewControl.successes = 0 /\ NewControl.failures = 0
      /\ NewControl.total = 0 /\ NewControl.state = "NOT_STARTED"
      /\ NewControl \in Control(1..N)
  BY EmptySeq DEF NewControl, Control, TaskState
<1>2. TypeOK
  BY <1>0, <1>1 DEF GivensTyped, Fresh, DiskTyped, TypeOK, UiPc, MainPc, WorkerPc, Start
<1>3. StageInv
  BY <1>0 DEF Fresh, StageInv, Extracting, Holding
<1>4. PhaseInv
  BY <1>0, <1>1 DEF Fresh, PhaseInv
<1>5. VectorInv
  BY <1>0 DEF Fresh, VectorInv, Distinct
<1>6. ReportInv
  <2>1. ToSet(<< >>) = {}
    BY DEF ToSet
  <2>2. ReportedIn(tc) = {} /\ ReportedOnce(tc)
    BY <1>1, <2>1 DEF Fresh, ReportedIn, ReportedOnce
  <2>3. CountersAgree(tc)
    <3>1. {i \in DOMAIN << >> : << >>[i].ok} = {} /\ {i \in DOMAIN << >> : ~(<< >>[i].ok)} = {}
      OBVIOUS
    <3> QED
      BY <1>0, <1>1, <3>1, FS_EmptySet DEF Fresh, CountersAgree
  <2> QED
    BY <1>0, <1>1, <2>1, <2>2, <2>3 DEF Fresh, ReportInv
<1> QED
  BY <1>2, <1>3, <1>4, <1>5, <1>6 DEF TaskInv

(* The first run. *)
LEMMA TaskInvInit == Init => TaskInv
<1> SUFFICES ASSUME Init PROVE TaskInv
  OBVIOUS
<1>1. Fresh /\ GivensTyped
  BY UnzipAssumption DEF Init, Fresh, GivensTyped
<1>2. DiskTyped
  BY EmptySeq, EntryFacts DEF Init, DiskTyped
<1> QED
  BY <1>1, <1>2, FreshTaskInv

(* Whether it is a new archive in the window or a new process. *)
LEMMA FreshStep == TaskInv /\ FreshZipFile => TaskInv'
<1>1. TaskInv /\ FreshZipFile => GivensTyped' /\ Fresh' /\ DiskTyped'
  <2> SUFFICES ASSUME TaskInv, FreshZipFile PROVE GivensTyped' /\ Fresh' /\ DiskTyped'
    OBVIOUS
  <2>1. N' = N /\ UNCHANGED <<program, failing, entries, diskVars>>
    BY DEF FreshZipFile, givens, N
  <2>2. runs' \in 1..MaxRuns
    BY UnzipAssumption DEF TaskInv, TypeOK, FreshZipFile
  <2>3. Fresh'
    BY <2>1 DEF FreshZipFile, Fresh, Start
  <2>4. DiskTyped'
    BY <2>1 DEF TaskInv, TypeOK, DiskTyped, diskVars
  <2> QED
    BY <2>1, <2>2, <2>3, <2>4 DEF TaskInv, TypeOK, GivensTyped
<1> QED
  BY <1>1, FreshTaskInv, PTL

-----------------------------------------------------------------------------
(* Where a task may be with file i open and k chunks written. *)
StageFits(e, place, i, k) ==
  /\ place \in Extracting => entries[e].kind = "file"
  /\ place = "make" => entries[e].kind = "special"
  /\ place \in {"idle", "dirs", "check", "open"} => k = 0
  /\ place = "write" => k < entries[e].chunks
  /\ place \in {"verify", "close", "rename"} => k = entries[e].chunks
  /\ place \in Holding => i # 0
  /\ place \notin Holding \cup {"unlink"} => i = 0

(* A task that is not at its end moves on, and the disk changes. *)
LEMMA TaskMove ==
  ASSUME TaskInv, NEW e \in 1..N, wpc[e] \notin {"idle", "ok", "failed"},
         NEW place \in WorkerPc \ {"idle"}, NEW i \in 0..N, NEW k \in Nat,
         k <= entries[e].chunks, StageFits(e, place, i, k),
         wpc' = [wpc EXCEPT ![e] = place], fd' = [fd EXCEPT ![e] = i],
         done' = [done EXCEPT ![e] = k],
         UNCHANGED <<givens, runs, tc, ui, pc, mainVars>>,
         DiskTyped', dirs \subseteq dirs',
         place \in {"perms", "ok"} /\ entries[e].kind = "dir" => entries[e].name \in dirs'
  PROVE  TaskInv'
<1>1. /\ N' = N /\ UNCHANGED <<program, failing, entries, runs, tc, ui, pc, next, futures, at>>
      /\ place # "idle" /\ place \in WorkerPc
  BY DEF givens, mainVars, N
<1>2. /\ wpc \in [1..N -> WorkerPc] /\ fd \in [1..N -> 0..N] /\ done \in [1..N -> Nat]
      /\ \A o \in 1..N : done[o] <= entries[o].chunks
  BY DEF TaskInv, TypeOK
<1>3. /\ wpc'[e] = place /\ fd'[e] = i /\ done'[e] = k
      /\ \A o \in 1..N \ {e} : wpc'[o] = wpc[o] /\ fd'[o] = fd[o] /\ done'[o] = done[o]
  BY <1>2
<1>4. TypeOK'
  <2>1. wpc' \in [1..N -> WorkerPc] /\ fd' \in [1..N -> 0..N] /\ done' \in [1..N -> Nat]
    BY <1>1, <1>2
  <2>2. \A o \in 1..N : done'[o] <= entries[o].chunks
    BY <1>2, <1>3
  <2> QED
    BY <1>1, <2>1, <2>2 DEF TaskInv, TypeOK, DiskTyped
<1>5. StageInv'
  <2>1. ASSUME NEW o \in 1..N
        PROVE  /\ wpc'[o] \in Extracting => entries[o].kind = "file"
               /\ wpc'[o] = "make" => entries[o].kind = "special"
               /\ wpc'[o] \in {"idle", "dirs", "check", "open"} => done'[o] = 0
               /\ wpc'[o] = "write" => done'[o] < entries[o].chunks
               /\ wpc'[o] \in {"verify", "close", "rename"} => done'[o] = entries[o].chunks
               /\ wpc'[o] \in Holding => fd'[o] # 0
               /\ wpc'[o] \notin Holding \cup {"unlink"} => fd'[o] = 0
               /\ wpc'[o] \in {"perms", "ok"} /\ entries[o].kind = "dir" => entries[o].name \in dirs'
    <3>1. CASE o = e
      BY <1>3, <3>1 DEF StageFits
    <3>2. CASE o # e
      <4>1. wpc'[o] = wpc[o] /\ fd'[o] = fd[o] /\ done'[o] = done[o]
        BY <1>3, <3>2
      <4> QED
        BY <4>1 DEF TaskInv, StageInv
    <3> QED
      BY <3>1, <3>2
  <2> QED
    BY <1>1, <2>1 DEF StageInv
<1>6. PhaseInv' /\ VectorInv'
  BY <1>1 DEF TaskInv, PhaseInv, VectorInv
<1>7. ReportInv'
  <2>1. \A o \in 1..N : wpc'[o] = "idle" <=> o >= next
    BY <1>1, <1>3 DEF TaskInv, ReportInv
  <2>2. \A r \in ToSet(tc.results) : wpc'[r.file] = IF r.ok THEN "ok" ELSE "failed"
    <3>1. \A r \in ToSet(tc.results) : r.file \in 1..N
      <4>1. tc \in Control(1..N) /\ ReportedOnce(tc)
        BY DEF TaskInv, TypeOK, ReportInv
      <4>2. ReportedIn(tc) \subseteq 1..N
        BY <4>1, CountReported
      <4> QED
        BY <4>2 DEF ReportedIn
    <3> QED
      BY <1>3, <3>1 DEF TaskInv, ReportInv
  <2> QED
    BY <1>1, <2>1, <2>2 DEF TaskInv, ReportInv
<1> QED
  BY <1>4, <1>5, <1>6, <1>7 DEF TaskInv

(* ... and keeps what it has open and how far it has written. *)
LEMMA TaskMoveOn ==
  ASSUME TaskInv, NEW e \in 1..N, wpc[e] \notin {"idle", "ok", "failed"},
         NEW place \in WorkerPc \ {"idle"}, StageFits(e, place, fd[e], done[e]),
         wpc' = [wpc EXCEPT ![e] = place], UNCHANGED <<fd, done>>,
         UNCHANGED <<givens, runs, tc, ui, pc, mainVars>>,
         DiskTyped', dirs \subseteq dirs',
         place \in {"perms", "ok"} /\ entries[e].kind = "dir" => entries[e].name \in dirs'
  PROVE  TaskInv'
<1>1. fd \in [1..N -> 0..N] /\ done \in [1..N -> Nat] /\ done[e] <= entries[e].chunks
  BY DEF TaskInv, TypeOK
<1>2. PICK i \in 0..N, k \in Nat : i = fd[e] /\ k = done[e]
  BY <1>1
<1>3. fd' = [fd EXCEPT ![e] = i] /\ done' = [done EXCEPT ![e] = k]
  BY <1>1, <1>2
<1> QED
  BY <1>1, <1>2, <1>3, TaskMove, ZenonT(40)

(* A file over which a chunk is written. *)
LEMMA OverwrittenTyped ==
  ASSUME NEW i \in 1..N, NEW e \in 1..N, NEW k \in Nat, N \in Nat,
         content \in [1..N -> Seq((0..N) \X Nat)]
  PROVE  /\ Overwritten(i, e, k) \in Seq((0..N) \X Nat)
         /\ [content EXCEPT ![i] = Overwritten(i, e, k)] \in [1..N -> Seq((0..N) \X Nat)]
<1>1. content[i] \in Seq((0..N) \X Nat)
  OBVIOUS
<1>2. PICK old \in Seq((0..N) \X Nat) : old = content[i]
  BY <1>1
<1>3. Len(old) \in Nat /\ \A j \in 1..Len(old) : old[j] \in (0..N) \X Nat
  BY LenProperties, ElementOfSeq
<1>4. PICK size \in Nat : size = IF Len(old) > k THEN Len(old) ELSE k
  BY <1>3
<1>5. PICK new : new = Overwritten(i, e, k)
  OBVIOUS
<1>6. new = [j \in 1..size |-> IF j = k THEN <<e, k>> ELSE IF j <= Len(old) THEN old[j] ELSE <<0, 0>>]
  BY <1>2, <1>4, <1>5 DEF Overwritten
<1>7. \A j \in 1..size : (IF j = k THEN <<e, k>> ELSE IF j <= Len(old) THEN old[j] ELSE <<0, 0>>)
                           \in (0..N) \X Nat
  BY <1>3
<1>8. new \in Seq((0..N) \X Nat)
  BY <1>6, <1>7, IsASeq
<1> QED
  BY <1>5, <1>8

(* What fclose() may leave. *)
LEMMA FlushedTyped ==
  ASSUME TaskInv, NEW e \in 1..N
  PROVE  Flushed(e) \in [1..N -> Seq((0..N) \X Nat)]
<1>1. /\ content \in [1..N -> Seq((0..N) \X Nat)] /\ N \in Nat
      /\ fd[e] \in 0..N /\ done[e] \in Nat
  BY EntryFacts DEF TaskInv, TypeOK
<1>2. CASE fd[e] # 0 /\ done[e] = entries[e].chunks
  <2>1. fd[e] \in 1..N
    BY <1>1, <1>2
  <2>3. PICK i \in 1..N, k \in Nat : i = fd[e] /\ k = done[e]
    BY <1>1, <2>1
  <2>2. [content EXCEPT ![i] = Overwritten(i, e, k)] \in [1..N -> Seq((0..N) \X Nat)]
    BY <1>1, OverwrittenTyped
  <2> QED
    BY <1>2, <2>2, <2>3 DEF Flushed
<1>3. CASE ~(fd[e] # 0 /\ done[e] = entries[e].chunks)
  BY <1>1, <1>3 DEF Flushed
<1> QED
  BY <1>2, <1>3

(* Each system call of a task keeps the invariant. *)
LEMMA TaskStep ==
  ASSUME TaskInv, NEW e \in 1..N, Task(e)
  PROVE  TaskInv'
<1>0. /\ DiskTyped /\ N \in Nat /\ entries[e].name \in Name /\ entries[e].chunks \in Nat
      /\ entries[e].parent \in Name \cup {NoName}
      /\ entries[e].kind \in {"file", "dir", "special"}
      /\ entries[e].kind = "file" => entries[e].chunks > 0
      /\ fd[e] \in 0..N /\ done[e] \in Nat /\ done[e] <= entries[e].chunks
      /\ fd \in [1..N -> 0..N] /\ done \in [1..N -> Nat] /\ wpc \in [1..N -> WorkerPc]
      /\ content \in [1..N -> Seq((0..N) \X Nat)] /\ << >> \in Seq((0..N) \X Nat)
      /\ final \in [Name -> 0..N] /\ tmp \in [Name -> 0..N]
  BY EntryFacts, EmptySeq DEF TaskInv, TypeOK, DiskTyped
<1>s. StageFits(e, wpc[e], fd[e], done[e])
  BY DEF TaskInv, StageInv, StageFits
<1>d. UNCHANGED <<entries, diskVars>> => DiskTyped'
  BY <1>0 DEF DiskTyped, diskVars, N
<1>1. CASE MakeDirs(e)
  <2>1. /\ wpc[e] = "dirs" /\ UNCHANGED <<givens, runs, tc, ui, pc, mainVars, fd, done>>
        /\ UNCHANGED <<entries, readonly, final, tmp, content>>
    BY <1>1 DEF MakeDirs, givens
  <2>2. PICK place \in {"failed", "perms", "check", "make"} :
          /\ wpc' = [wpc EXCEPT ![e] = place]
          /\ place = "check" => entries[e].kind = "file"
          /\ place = "make" => entries[e].kind = "special"
          /\ place = "perms" => entries[e].name \in dirs'
    BY <1>0, <1>1 DEF MakeDirs, Goes
  <2>3. dirs \subseteq dirs' /\ dirs' \subseteq Name \cup {NoName}
    BY <1>0, <1>1 DEF MakeDirs, DiskTyped
  <2>4. DiskTyped'
    BY <1>0, <2>1, <2>3 DEF DiskTyped, N
  <2>5. StageFits(e, place, fd[e], done[e])
    BY <1>s, <2>1, <2>2 DEF StageFits, Extracting, Holding
  <2> QED
    BY <2>1, <2>2, <2>3, <2>4, <2>5, TaskMoveOn DEF WorkerPc
<1>2. CASE CheckTarget(e) \/ WriteStops(e) \/ Verify(e)
  <2>1. /\ wpc[e] \in {"check", "write", "verify"}
        /\ UNCHANGED <<givens, runs, tc, ui, pc, mainVars, fd, done, diskVars, entries, dirs>>
    BY <1>2 DEF CheckTarget, WriteStops, Verify, givens, diskVars
  <2>2. PICK place \in {"failed", "open", "unlink", "close"} :
          /\ wpc' = [wpc EXCEPT ![e] = place]
          /\ \/ wpc[e] = "check" /\ place \in {"failed", "open"}
             \/ wpc[e] \in {"write", "verify"} /\ place = "unlink"
             \/ wpc[e] = "verify" /\ place = "close"
    <3>1. CASE CheckTarget(e)
      <4>1. PICK found : Goes(e, IF found THEN "failed" ELSE "open")
        BY <3>1 DEF CheckTarget
      <4>2. CASE found
        BY <2>1, <3>1, <4>1, <4>2 DEF CheckTarget, Goes
      <4>3. CASE ~found
        BY <2>1, <3>1, <4>1, <4>3 DEF CheckTarget, Goes
      <4> QED
        BY <4>2, <4>3
    <3>2. CASE WriteStops(e)
      BY <3>2 DEF WriteStops, Goes
    <3>3. CASE Verify(e)
      BY <3>3 DEF Verify, Goes
    <3> QED
      BY <1>2, <3>1, <3>2, <3>3
  <2>3. StageFits(e, place, fd[e], done[e])
    BY <1>s, <2>2 DEF StageFits, Extracting, Holding
  <2> QED
    BY <1>d, <2>1, <2>2, <2>3, TaskMoveOn DEF WorkerPc
<1>3. CASE OpenTmp(e)
  <2>1. /\ wpc[e] = "open" /\ UNCHANGED <<givens, runs, tc, ui, pc, mainVars, done>>
        /\ UNCHANGED <<entries, dirs, readonly, final>>
    BY <1>3 DEF OpenTmp, givens
  <2>2. CASE wpc' = [wpc EXCEPT ![e] = "failed"] /\ UNCHANGED <<fd, tmp, content>>
    <3>1. StageFits(e, "failed", fd[e], done[e])
      BY <1>s, <2>1 DEF StageFits, Extracting, Holding
    <3> QED
      BY <1>d, <2>1, <2>2, <3>1, TaskMoveOn DEF WorkerPc, diskVars
  <2>3. CASE \E i \in 1..N : /\ wpc' = [wpc EXCEPT ![e] = "write"]
                             /\ fd' = [fd EXCEPT ![e] = i]
                             /\ tmp' = [tmp EXCEPT ![entries[e].name] = i]
                             /\ content' = [content EXCEPT ![i] = << >>]
    <3>1. PICK i \in 1..N : /\ wpc' = [wpc EXCEPT ![e] = "write"]
                            /\ fd' = [fd EXCEPT ![e] = i]
                            /\ tmp' = [tmp EXCEPT ![entries[e].name] = i]
                            /\ content' = [content EXCEPT ![i] = << >>]
      BY <2>3
    <3>2. DiskTyped'
      BY <1>0, <2>1, <3>1 DEF DiskTyped, N
    <3>3. StageFits(e, "write", i, 0) /\ done[e] = 0
      BY <1>0, <1>s, <2>1 DEF StageFits, Extracting, Holding
    <3>4. done' = [done EXCEPT ![e] = 0]
      BY <1>0, <2>1, <3>3
    <3>5. /\ i \in 0..N /\ 0 \in Nat /\ 0 <= entries[e].chunks /\ dirs \subseteq dirs'
          /\ "write" \in WorkerPc \ {"idle"} /\ wpc[e] \notin {"idle", "ok", "failed"}
      BY <1>0, <2>1 DEF WorkerPc
    <3> QED
      BY <2>1, <3>1, <3>2, <3>3, <3>4, <3>5, TaskMove
  <2>4. e \in 1..N /\ tmp[entries[e].name] \in 0..N
    BY <1>0
  <2> QED
    BY <1>3, <2>2, <2>3, <2>4 DEF OpenTmp, Goes
<1>4. CASE WriteChunk(e)
  <2>1. /\ wpc[e] = "write" /\ UNCHANGED <<givens, runs, tc, ui, pc, mainVars, fd>>
        /\ UNCHANGED <<entries, dirs, readonly, final, tmp>>
        /\ done' = [done EXCEPT ![e] = @ + 1]
    BY <1>4 DEF WriteChunk, givens
  <2>2. PICK k \in Nat, i \in 1..N : k = done[e] + 1 /\ i = fd[e]
    BY <1>0, <1>s, <2>1 DEF StageFits, Holding
  <2>3. /\ k <= entries[e].chunks /\ done' = [done EXCEPT ![e] = k] /\ done'[e] = k
        /\ fd' = [fd EXCEPT ![e] = i] /\ i \in 0..N
        /\ wpc[e] \notin {"idle", "ok", "failed"} /\ dirs \subseteq dirs'
    BY <1>0, <1>s, <2>1, <2>2 DEF StageFits
  <2>4. CASE k = entries[e].chunks
    <3>1. wpc' = [wpc EXCEPT ![e] = "verify"] /\ content' = content
      BY <1>4, <2>3, <2>4 DEF WriteChunk, Goes
    <3>2. StageFits(e, "verify", i, k)
      BY <1>s, <2>1, <2>2, <2>4 DEF StageFits, Extracting, Holding
    <3>3. DiskTyped'
      BY <1>d, <2>1, <3>1 DEF diskVars
    <3> QED
      BY <2>1, <2>3, <3>1, <3>2, <3>3, TaskMove DEF WorkerPc
  <2>5. CASE k # entries[e].chunks
    <3>1. wpc' = wpc /\ content' = [content EXCEPT ![i] = Overwritten(i, e, k)]
      BY <1>4, <2>2, <2>3, <2>5 DEF WriteChunk
    <3>2. StageFits(e, "write", i, k) /\ wpc' = [wpc EXCEPT ![e] = "write"]
      BY <1>0, <1>s, <2>1, <2>2, <2>3, <2>5, <3>1 DEF StageFits, Extracting, Holding
    <3>3. DiskTyped'
      BY <1>0, <2>1, <3>1, OverwrittenTyped DEF DiskTyped, N
    <3> QED
      BY <2>1, <2>3, <3>2, <3>3, TaskMove DEF WorkerPc
  <2> QED
    BY <2>4, <2>5
<1>5. CASE Unlink(e) \/ Close(e)
  <2>1. PICK place \in {"failed", "rename"} :
          /\ wpc' = [wpc EXCEPT ![e] = place] /\ wpc[e] = IF place = "failed" THEN "unlink" ELSE "close"
          /\ fd' = [fd EXCEPT ![e] = 0]
          /\ UNCHANGED <<givens, runs, tc, ui, pc, mainVars, done>>
          /\ UNCHANGED <<entries, dirs, readonly, final>>
    BY <1>5 DEF Unlink, Close, Goes, givens
  <2>2. content' = Flushed(e) \/ content' = content
    BY <1>5 DEF Unlink, Close
  <2>3. tmp' \in [Name -> 0..N]
    <3>1. CASE tmp' = tmp
      BY <1>0, <3>1
    <3>2. CASE tmp' = [tmp EXCEPT ![entries[e].name] = 0]
      <4>1. 0 \in 0..N
        BY <1>0
      <4> QED
        BY <1>0, <3>2, <4>1
    <3>3. tmp' = tmp \/ tmp' = [tmp EXCEPT ![entries[e].name] = 0]
      <4>1. Close(e) => tmp' = tmp
        BY DEF Close
      <4>2. Unlink(e) => tmp' = tmp \/ tmp' = [tmp EXCEPT ![entries[e].name] = 0]
        BY <1>0 DEF Unlink
      <4> QED
        BY <1>5, <4>1, <4>2
    <3> QED
      BY <3>1, <3>2, <3>3
  <2>4. DiskTyped'
    BY <1>0, <2>1, <2>2, <2>3, FlushedTyped DEF DiskTyped, N
  <2>5. PICK k \in Nat : k = done[e]
    BY <1>0
  <2>6. StageFits(e, place, 0, k) /\ done' = [done EXCEPT ![e] = k] /\ k <= entries[e].chunks
    BY <1>0, <1>s, <2>1, <2>5 DEF StageFits, Extracting, Holding
  <2>7. /\ 0 \in 0..N /\ dirs \subseteq dirs' /\ place \in WorkerPc \ {"idle"}
        /\ wpc[e] \notin {"idle", "ok", "failed"} /\ place \notin {"perms", "ok"}
    BY <1>0, <2>1 DEF WorkerPc
  <2> QED
    BY <2>1, <2>4, <2>6, <2>7, TaskMove
<1>6. CASE Rename(e) \/ MakeSpecial(e)
  <2>1. PICK place \in {"perms", "unlink", "failed"} :
          /\ wpc' = [wpc EXCEPT ![e] = place] /\ wpc[e] \in {"rename", "make"}
          /\ UNCHANGED <<givens, runs, tc, ui, pc, mainVars, fd, done>>
          /\ UNCHANGED <<entries, dirs, readonly, content>>
          /\ place = "unlink" => wpc[e] = "rename"
          /\ place = "perms" /\ wpc[e] = "make" => final' = [final EXCEPT ![entries[e].name] = e]
    BY <1>6 DEF Rename, MakeSpecial, Goes, givens
  <2>2. final' \in [Name -> 0..N] /\ tmp' \in [Name -> 0..N]
    <3>1. 0 \in 0..N /\ e \in 0..N /\ tmp[entries[e].name] \in 0..N
      BY <1>0
    <3>2. \/ UNCHANGED <<final, tmp>>
          \/ /\ final' = [final EXCEPT ![entries[e].name] = tmp[entries[e].name]]
             /\ tmp' = [tmp EXCEPT ![entries[e].name] = 0]
          \/ final' = [final EXCEPT ![entries[e].name] = e] /\ tmp' = tmp
      BY <1>6 DEF Rename, MakeSpecial
    <3> QED
      BY <1>0, <3>1, <3>2
  <2>3. DiskTyped'
    BY <1>0, <2>1, <2>2 DEF DiskTyped, N
  <2>4. StageFits(e, place, fd[e], done[e])
    BY <1>s, <2>1 DEF StageFits, Extracting, Holding
  <2>5. dirs \subseteq dirs' /\ place \in WorkerPc \ {"idle"}
        /\ wpc[e] \notin {"idle", "ok", "failed"}
    BY <2>1 DEF WorkerPc
  <2>6. ~(place = "perms" /\ entries[e].kind = "dir")
    BY <1>s, <2>1 DEF StageFits, Extracting
  <2> QED
    BY <2>1, <2>3, <2>4, <2>5, <2>6, TaskMoveOn
<1>7. CASE SetPermissions(e)
  <2>1. PICK end \in {"ok", "failed"} :
          /\ wpc[e] = "perms" /\ wpc' = [wpc EXCEPT ![e] = end]
          /\ UNCHANGED <<givens, runs, tc, ui, pc, mainVars, fd, done>>
          /\ UNCHANGED <<entries, dirs, final, tmp, content>>
    BY <1>7 DEF SetPermissions, Goes, givens
  <2>2. entries[e].kind = "dir" => entries[e].name \in dirs
    BY <2>1 DEF TaskInv, StageInv
  <2>3. DiskTyped'
    <3>1. readonly' \subseteq dirs
      BY <1>0, <1>7, <2>2 DEF SetPermissions, DiskTyped
    <3> QED
      BY <1>0, <2>1, <3>1 DEF DiskTyped, N
  <2>4. StageFits(e, end, fd[e], done[e])
    BY <1>s, <2>1 DEF StageFits, Extracting, Holding
  <2>5. end \in WorkerPc \ {"idle"} /\ wpc[e] \notin {"idle", "ok", "failed"} /\ dirs \subseteq dirs'
    BY <2>1 DEF WorkerPc
  <2> QED
    BY <2>1, <2>2, <2>3, <2>4, <2>5, TaskMoveOn
<1> QED
  BY <1>1, <1>2, <1>3, <1>4, <1>5, <1>6, <1>7 DEF Task

-----------------------------------------------------------------------------
(* A step of run() or of the user that neither launches nor reports. *)
LEMMA ControlMove ==
  ASSUME TaskInv, UNCHANGED <<givens, runs, workVars, diskVars, next, futures>>,
         ui' \in UiPc, pc' \in MainPc, at' \in 1..(NumThreads + 1),
         tc' \in Control(1..N), tc'.results = tc.results, tc'.total \in {tc.total, N},
         tc'.successes = tc.successes, tc'.failures = tc.failures,
         PhaseInv', VectorInv'
  PROVE  TaskInv'
<1>1. /\ N' = N /\ UNCHANGED <<program, failing, entries, runs, wpc, fd, done, next, futures>>
      /\ UNCHANGED <<dirs, readonly, final, tmp, content>>
  BY DEF givens, workVars, diskVars, N
<1>2. TypeOK' /\ StageInv'
  BY <1>1 DEF TaskInv, TypeOK, StageInv
<1>3. CountersAgree(tc')
  <2>1. N \in Nat /\ tc \in Control(1..N) /\ ReportedOnce(tc) /\ CountersAgree(tc)
    BY EntryFacts DEF TaskInv, TypeOK, ReportInv
  <2>2. /\ IsFiniteSet(ReportedIn(tc)) /\ Cardinality(ReportedIn(tc)) = Len(tc.results)
        /\ ReportedIn(tc) \subseteq 1..N
    BY <2>1, CountReported
  <2>3. Len(tc.results) <= N
    <3>1. IsFiniteSet(1..N) /\ Cardinality(1..N) = N
      <4>1. Cardinality(1..N) = IF 1 > N THEN 0 ELSE N - 1 + 1
        BY <2>1, FS_Interval
      <4>2. IsFiniteSet(1..N)
        BY <2>1, FS_Interval
      <4> QED
        BY <2>1, <4>1, <4>2
    <3> QED
      BY <2>2, <3>1, FS_Subset
  <2>4. Len(tc'.results) <= tc'.total
    BY <2>1, <2>3 DEF CountersAgree
  <2> QED
    BY <2>1, <2>4 DEF CountersAgree
<1>4. ReportInv'
  <2>1. ReportedOnce(tc') /\ ReportedIn(tc') = ReportedIn(tc)
    BY DEF TaskInv, ReportInv, ReportedOnce, ReportedIn
  <2> QED
    BY <1>1, <1>3, <2>1 DEF TaskInv, ReportInv
<1> QED
  BY <1>2, <1>4 DEF TaskInv

(* The result of the i-th task is reported and its future erased. *)
LEMMA ReportStep ==
  ASSUME TaskInv, NEW i \in 1..Len(futures), Ready(futures[i]),
         tc' = Report(futures[i]), futures' \in Seq(1..N), Len(futures') = Len(futures) - 1,
         ToSet(futures') = ToSet(futures) \ {futures[i]}, Distinct(futures'),
         UNCHANGED <<givens, runs, ui, next, at, workVars, diskVars>>,
         \/ pc = "scan" /\ pc' = "launch"
         \/ pc = "collect" /\ pc' = pc
  PROVE  TaskInv'
<1>1. /\ N' = N /\ UNCHANGED <<program, failing, entries, runs, ui, wpc, fd, done, next, at>>
      /\ UNCHANGED <<dirs, readonly, final, tmp, content>>
  BY DEF givens, workVars, diskVars, N
<1>2. /\ N \in Nat /\ NumThreads \in Nat \ {0} /\ futures \in Seq(1..N) /\ Len(futures) \in Nat
      /\ tc \in Control(1..N) /\ ReportedOnce(tc) /\ CountersAgree(tc)
      /\ Len(futures) <= NumThreads /\ next \in 1..(N + 1)
  BY EntryFacts, UnzipAssumption, LenProperties
     DEF TaskInv, TypeOK, ReportInv, VectorInv
<1>3. PICK f \in 1..N : f = futures[i]
  BY <1>2, ElementOfSeq
<1>4. f \in ToSet(futures) /\ f \notin ReportedIn(tc)
  <2>1. i \in DOMAIN futures
    BY <1>2, LenProperties
  <2>2. f \in ToSet(futures)
    BY <1>3, <2>1 DEF ToSet
  <2> QED
    BY <2>2 DEF TaskInv, ReportInv
<1>5. PICK ok \in BOOLEAN : ok = (wpc[f] = "ok")
  OBVIOUS
<1>6. PICK new : new = tc'
  OBVIOUS
<1>7. new = AddReport(tc, f, ok)
  BY <1>3, <1>5, <1>6 DEF Report, AddReport
<1>F. PICK F : F = 1..N
  OBVIOUS
<1>8. /\ new \in Control(F)
      /\ new.state = tc.state /\ new.total = tc.total /\ new.stopped = tc.stopped
      /\ ToSet(new.results) = ToSet(tc.results) \cup {[file |-> f, ok |-> ok]}
      /\ ReportedIn(new) = ReportedIn(tc) \cup {f}
      /\ ReportedOnce(new)
      /\ CountersAgree(tc) /\ Len(tc.results) < tc.total => CountersAgree(new)
  <2>1. tc \in Control(F) /\ f \in F
    BY <1>2, <1>F
  <2>2. /\ new \in Control(F)
        /\ new.state = tc.state /\ new.total = tc.total /\ new.stopped = tc.stopped
        /\ ToSet(new.results) = ToSet(tc.results) \cup {[file |-> f, ok |-> ok]}
        /\ ReportedIn(new) = ReportedIn(tc) \cup {f}
        /\ ReportedOnce(tc) /\ f \notin ReportedIn(tc) => ReportedOnce(new)
        /\ CountersAgree(tc) /\ Len(tc.results) < tc.total => CountersAgree(new)
    BY <1>7, <2>1, AddReportKeeps
  <2> QED
    BY <1>2, <1>4, <2>2
<1>9. CountersAgree(new)
  <2>1. Len(tc.results) < N
    BY <1>2, <1>4, RoomForReport
  <2>2. tc.total = N
    BY DEF TaskInv, PhaseInv
  <2> QED
    BY <1>2, <1>8, <2>1, <2>2
<1>11. TypeOK' /\ StageInv'
  BY <1>1, <1>6, <1>8, <1>F DEF TaskInv, TypeOK, StageInv, MainPc
<1>12. PhaseInv'
  BY <1>1, <1>6, <1>8 DEF TaskInv, PhaseInv
<1>13. VectorInv'
  <2>1. Len(futures') < NumThreads /\ Len(futures') <= NumThreads
    BY <1>2
  <2> QED
    BY <2>1 DEF VectorInv
<1>14. ReportInv'
  <2>1. 1..(next - 1) = ToSet(futures') \cup ReportedIn(new)
    BY <1>3, <1>4, <1>8 DEF TaskInv, ReportInv
  <2>2. ToSet(futures') \cap ReportedIn(new) = {}
    BY <1>3, <1>8 DEF TaskInv, ReportInv
  <2>3. \A r \in ToSet(new.results) : wpc[r.file] = IF r.ok THEN "ok" ELSE "failed"
    <3>1. wpc[f] = IF ok THEN "ok" ELSE "failed"
      BY <1>3, <1>5 DEF Ready
    <3> QED
      BY <1>8, <3>1 DEF TaskInv, ReportInv
  <2>4. \A e \in 1..N : wpc[e] = "idle" <=> e >= next
    BY DEF TaskInv, ReportInv
  <2> QED
    BY <1>1, <1>6, <1>8, <1>9, <2>1, <2>2, <2>3, <2>4 DEF ReportInv
<1> QED
  BY <1>11, <1>12, <1>13, <1>14 DEF TaskInv

(* The next entry gets a task and a future. *)
LEMMA LaunchStep ==
  ASSUME TaskInv, LaunchTask
  PROVE  TaskInv'
<1>1. /\ pc = "async" /\ pc' = "slot" /\ next' = next + 1
      /\ futures' = Append(futures, next) /\ wpc' = [wpc EXCEPT ![next] = "dirs"]
      /\ N' = N /\ UNCHANGED <<program, failing, entries, runs, tc, ui, at, fd, done>>
      /\ UNCHANGED <<dirs, readonly, final, tmp, content>>
  BY DEF LaunchTask, givens, diskVars, N
<1>2. /\ N \in Nat /\ next \in 1..N /\ futures \in Seq(1..N) /\ Distinct(futures)
      /\ Len(futures) \in Nat /\ Len(futures) < NumThreads /\ NumThreads \in Nat \ {0}
      /\ tc \in Control(1..N) /\ ReportedOnce(tc) /\ wpc \in [1..N -> WorkerPc]
  BY <1>1, EntryFacts, UnzipAssumption, LenProperties
     DEF TaskInv, TypeOK, PhaseInv, VectorInv, ReportInv
<1>3. next \notin ToSet(futures) \cup ReportedIn(tc) /\ wpc[next] = "idle"
  BY <1>2 DEF TaskInv, ReportInv
<1>4. /\ futures' \in Seq(1..N)
      /\ Len(futures') = Len(futures) + 1
      /\ ToSet(futures') = ToSet(futures) \cup {next}
      /\ Distinct(futures')
  BY <1>1, <1>2, <1>3, AppendDistinct
<1>5. /\ wpc' \in [1..N -> WorkerPc] /\ wpc'[next] = "dirs"
      /\ \A e \in 1..N : e # next => wpc'[e] = wpc[e]
  BY <1>1, <1>2 DEF WorkerPc
<1>6. TypeOK'
  <2>1. TypeOK
    BY DEF TaskInv
  <2>2. next' \in 1..(N + 1) /\ pc' \in MainPc
    BY <1>1, <1>2 DEF MainPc
  <2> QED
    BY <1>1, <1>4, <1>5, <2>1, <2>2 DEF TypeOK
<1>7. StageInv'
  <2>1. done[next] = 0 /\ fd[next] = 0
    BY <1>2, <1>3 DEF TaskInv, StageInv, Holding
  <2> QED
    BY <1>1, <1>5, <2>1 DEF TaskInv, StageInv, Extracting, Holding
<1>8. PhaseInv'
  BY <1>1, <1>2 DEF TaskInv, PhaseInv
<1>9. VectorInv'
  BY <1>1, <1>2, <1>4 DEF VectorInv
<1>10. ReportInv'
  <2>1. 1..(next' - 1) = ToSet(futures') \cup ReportedIn(tc)
    BY <1>1, <1>2, <1>4 DEF TaskInv, ReportInv
  <2>2. ToSet(futures') \cap ReportedIn(tc) = {}
    BY <1>3, <1>4 DEF TaskInv, ReportInv
  <2>3. \A e \in 1..N : wpc'[e] = "idle" <=> e >= next'
    BY <1>1, <1>2, <1>5 DEF TaskInv, ReportInv
  <2>4. \A r \in ToSet(tc.results) : wpc'[r.file] = IF r.ok THEN "ok" ELSE "failed"
    <3>1. ReportedIn(tc) \subseteq 1..N
      BY <1>2, CountReported
    <3>2. \A r \in ToSet(tc.results) : r.file \in 1..N /\ r.file # next
      BY <1>3, <3>1 DEF ReportedIn
    <3> QED
      BY <1>5, <3>2 DEF TaskInv, ReportInv
  <2> QED
    BY <1>1, <2>1, <2>2, <2>3, <2>4 DEF TaskInv, ReportInv
<1> QED
  BY <1>6, <1>7, <1>8, <1>9, <1>10 DEF TaskInv

(* Each step of run() keeps the invariant. *)
LEMMA MainStep ==
  ASSUME TaskInv, Main
  PROVE  TaskInv'
<1>0. /\ N \in Nat /\ NumThreads \in Nat \ {0} /\ futures \in Seq(1..N) /\ Len(futures) \in Nat
      /\ Len(futures) <= NumThreads /\ Distinct(futures) /\ DOMAIN futures = 1..Len(futures)
      /\ next \in 1..(N + 1) /\ at \in 1..(NumThreads + 1) /\ ui \in UiPc /\ pc \in MainPc
      /\ tc \in Control(1..N)
  BY EntryFacts, UnzipAssumption, LenProperties DEF TaskInv, TypeOK, VectorInv
<1>1. CASE MapArchive
  <2>1. /\ pc = "map" /\ pc' \in {"slot", "threw"}
        /\ UNCHANGED <<givens, runs, tc, ui, next, futures, at, workVars, diskVars>>
        /\ N' = N
    BY <1>1 DEF MapArchive, mainVars, givens, N
  <2>2. PhaseInv' /\ VectorInv'
    BY <2>1 DEF TaskInv, PhaseInv, VectorInv
  <2> QED
    BY <1>0, <2>1, <2>2, ControlMove DEF MainPc
<1>2. CASE WaitForSlot
  <2>1. /\ pc = "slot" /\ at' = 1
        /\ pc' = IF next > N THEN "collect" ELSE IF Len(futures) < NumThreads THEN "launch" ELSE "scan"
        /\ UNCHANGED <<givens, runs, tc, ui, next, futures, workVars, diskVars>>
        /\ N' = N
    BY <1>2 DEF WaitForSlot, givens, N
  <2>2. PhaseInv' /\ VectorInv'
    BY <1>0, <2>1 DEF TaskInv, PhaseInv, VectorInv
  <2> QED
    BY <1>0, <2>1, <2>2, ControlMove DEF MainPc
<1>3. CASE ScanFutures
  <2>1. CASE at \in 1..Len(futures) /\ Ready(futures[at])
    <3>1. /\ pc = "scan" /\ pc' = "launch" /\ tc' = Report(futures[at])
          /\ futures' = RemoveAt(futures, at)
          /\ UNCHANGED <<givens, runs, ui, next, at, workVars, diskVars>>
      BY <1>0, <1>3, <2>1 DEF ScanFutures
    <3>2. /\ futures' \in Seq(1..N) /\ Len(futures') = Len(futures) - 1
          /\ ToSet(futures') = ToSet(futures) \ {futures[at]} /\ Distinct(futures')
      BY <1>0, <2>1, <3>1, RemoveDistinct
    <3> QED
      BY <2>1, <3>1, <3>2, ReportStep
  <2>2. CASE ~(at \in 1..Len(futures) /\ Ready(futures[at]))
    <3>1. /\ pc = "scan" /\ at' \in 1..(NumThreads + 1)
          /\ pc' = "scan" \/ (pc' = "launch" /\ tc.stopped)
          /\ UNCHANGED <<givens, runs, tc, ui, next, futures, workVars, diskVars>>
          /\ N' = N
      BY <1>0, <1>3, <2>2 DEF ScanFutures, givens, N
    <3>2. PhaseInv' /\ VectorInv'
      BY <3>1 DEF TaskInv, PhaseInv, VectorInv
    <3> QED
      BY <1>0, <3>1, <3>2, ControlMove DEF MainPc
  <2> QED
    BY <2>1, <2>2
<1>4. CASE CheckStop
  <2>1. /\ pc = "launch" /\ pc' = IF tc.stopped THEN "collect" ELSE "async"
        /\ UNCHANGED <<givens, runs, tc, ui, next, futures, at, workVars, diskVars>>
        /\ N' = N
    BY <1>4 DEF CheckStop, mainVars, givens, N
  <2>2. PhaseInv' /\ VectorInv'
    BY <2>1 DEF TaskInv, PhaseInv, VectorInv
  <2> QED
    BY <1>0, <2>1, <2>2, ControlMove DEF MainPc
<1>5. CASE LaunchTask
  BY <1>5, LaunchStep
<1>6. CASE CollectResult
  <2>1. /\ pc = "collect" /\ pc' = pc /\ futures # << >> /\ Ready(Head(futures))
        /\ tc' = Report(Head(futures)) /\ futures' = Tail(futures)
        /\ UNCHANGED <<givens, runs, ui, next, at, workVars, diskVars>>
    BY <1>6 DEF CollectResult
  <2>2. /\ 1 \in 1..Len(futures) /\ Head(futures) = futures[1]
        /\ futures' \in Seq(1..N) /\ Len(futures') = Len(futures) - 1
        /\ ToSet(futures') = ToSet(futures) \ {futures[1]} /\ Distinct(futures')
    BY <1>0, <2>1, TailDistinct
  <2> QED
    BY <2>1, <2>2, ReportStep
<1>7. CASE SetFinished
  <2>1. /\ pc = "collect" /\ pc' = "returned" /\ futures = << >>
        /\ tc' = [tc EXCEPT !.state = "FINISHED"]
        /\ UNCHANGED <<givens, runs, ui, next, futures, at, workVars, diskVars>>
        /\ N' = N
    BY <1>7 DEF SetFinished, SetState, mainVars, givens, N
  <2>2. /\ tc' \in Control(1..N) /\ tc'.results = tc.results /\ tc'.total = tc.total
        /\ tc'.successes = tc.successes /\ tc'.failures = tc.failures
        /\ tc'.stopped = tc.stopped /\ tc'.state = "FINISHED"
    BY <1>0, <2>1 DEF Control, TaskState
  <2>3. PhaseInv' /\ VectorInv'
    BY <2>1, <2>2 DEF TaskInv, PhaseInv, VectorInv
  <2> QED
    BY <1>0, <2>1, <2>2, <2>3, ControlMove DEF MainPc
<1> QED
  BY <1>1, <1>2, <1>3, <1>4, <1>5, <1>6, <1>7 DEF Main

(* Whatever the user does or suffers keeps the invariant. *)
LEMMA UserStep ==
  ASSUME TaskInv, User \/ Menu \/ UserStop \/ Kill
  PROVE  TaskInv'
<1>0. /\ ui \in UiPc /\ pc \in MainPc /\ at \in 1..(NumThreads + 1)
      /\ tc \in Control(1..N) /\ N \in Nat
  BY EntryFacts DEF TaskInv, TypeOK
<1>1. CASE Unzip /\ MayReserve(tc)
  <2>1. /\ tc.state = "NOT_STARTED" /\ ui' = "poll" /\ pc' = "map"
        /\ tc' = [tc EXCEPT !.total = N, !.state = "RUNNING"]
        /\ UNCHANGED <<givens, runs, next, futures, at, workVars, diskVars>>
        /\ N' = N
    BY <1>1 DEF Unzip, MayReserve, Reserve, SetState, mainVars, givens, N
  <2>2. /\ tc' \in Control(1..N) /\ tc'.results = tc.results /\ tc'.total = N
        /\ tc'.successes = tc.successes /\ tc'.failures = tc.failures /\ tc'.state = "RUNNING"
    BY <1>0, <2>1 DEF Control, TaskState
  <2>3. PhaseInv' /\ VectorInv'
    BY <2>1, <2>2 DEF TaskInv, PhaseInv, VectorInv
  <2> QED
    BY <1>0, <2>1, <2>2, <2>3, ControlMove DEF MainPc, UiPc
<1>2. CASE UserStop
  <2>1. /\ tc' = [tc EXCEPT !.stopped = TRUE]
        /\ UNCHANGED <<givens, runs, ui, pc, next, futures, at, workVars, diskVars>>
        /\ N' = N
    BY <1>2 DEF UserStop, Stop, mainVars, givens, N
  <2>2. /\ tc' \in Control(1..N) /\ tc'.results = tc.results /\ tc'.total = tc.total
        /\ tc'.successes = tc.successes /\ tc'.failures = tc.failures
        /\ tc'.state = tc.state /\ tc'.stopped = TRUE
    BY <1>0, <2>1 DEF Control
  <2>3. PhaseInv' /\ VectorInv'
    BY <2>1, <2>2 DEF TaskInv, PhaseInv, VectorInv
  <2> QED
    BY <1>0, <2>1, <2>2, <2>3, ControlMove
<1>3. CASE FreshZipFile
  BY <1>3, FreshStep
<1>4. CASE \/ Unzip /\ ~MayReserve(tc)
           \/ WaitIsOver \/ Join \/ Quit
           \/ OpenFile /\ ~FreshZipFile
  <2>1. /\ ui' \in {"aborted", "window", "join", "exit"}
        /\ UNCHANGED <<givens, runs, tc, pc, next, futures, at, workVars, diskVars>>
        /\ N' = N
    BY <1>4 DEF Unzip, WaitIsOver, Join, Quit, OpenFile, mainVars, givens, N
  <2>2. PhaseInv' /\ VectorInv'
    BY <2>1 DEF TaskInv, PhaseInv, VectorInv
  <2> QED
    BY <1>0, <2>1, <2>2, ControlMove DEF UiPc
<1> QED
  BY <1>1, <1>2, <1>3, <1>4 DEF User, Menu, Kill, OpenFile

(* The invariant of tasks and reports is inductive, also over kills and    *)
(* new runs.                                                               *)
LEMMA TaskInvNext == TaskInv /\ [Next]_vars => TaskInv'
<1> SUFFICES ASSUME TaskInv, [Next]_vars PROVE TaskInv'
  OBVIOUS
<1>1. CASE User \/ Menu \/ UserStop \/ Kill
  BY <1>1, UserStep
<1>2. CASE Main
  BY <1>2, MainStep
<1>3. CASE \E e \in 1..N : Task(e)
  BY <1>3, TaskStep
<1>4. CASE UNCHANGED vars
  <2>1. /\ N' = N /\ UNCHANGED <<program, failing, entries, runs, tc, ui, pc, next, futures, at>>
        /\ UNCHANGED <<wpc, fd, done, dirs, readonly, final, tmp, content>>
    BY <1>4 DEF vars, givens, mainVars, workVars, diskVars, N
  <2>2. TypeOK' /\ StageInv'
    BY <2>1 DEF TaskInv, TypeOK, StageInv
  <2>3. PhaseInv' /\ VectorInv' /\ ReportInv'
    BY <2>1 DEF TaskInv, PhaseInv, VectorInv, ReportInv
  <2> QED
    BY <2>2, <2>3 DEF TaskInv
<1> QED
  BY <1>1, <1>2, <1>3, <1>4 DEF Next, Over

(* FINISHED is set behind the last report, when no future is left.         *)
LEMMA FinishedQuietly == TaskInv => QuietWhenFinished
<1> SUFFICES ASSUME TaskInv, tc.state = "FINISHED"
             PROVE  /\ \A e \in 1..N : wpc[e] \in {"idle", "ok", "failed"}
                    /\ ~tc.stopped => Finished(tc) = N
  BY DEF QuietWhenFinished
<1>1. /\ pc = "returned" /\ futures = << >> /\ (tc.stopped \/ next = N + 1)
      /\ N \in Nat /\ tc \in Control(1..N) /\ ReportedOnce(tc) /\ next \in 1..(N + 1)
  BY EntryFacts DEF TaskInv, TypeOK, PhaseInv, VectorInv, ReportInv
<1>2. ReportedIn(tc) = 1..(next - 1)
  <2>1. ToSet(futures) = {}
    BY <1>1 DEF ToSet
  <2> QED
    BY <2>1 DEF TaskInv, ReportInv
<1>3. \A e \in 1..N : wpc[e] \in {"idle", "ok", "failed"}
  <2> SUFFICES ASSUME NEW e \in 1..N PROVE wpc[e] \in {"idle", "ok", "failed"}
    OBVIOUS
  <2>1. e >= next => wpc[e] = "idle"
    BY DEF TaskInv, ReportInv
  <2>2. e < next => e \in ReportedIn(tc)
    BY <1>1, <1>2
  <2>3. e \in ReportedIn(tc) => wpc[e] \in {"ok", "failed"}
    BY DEF TaskInv, ReportInv, ReportedIn
  <2> QED
    BY <1>1, <2>1, <2>2, <2>3
<1>4. ASSUME ~tc.stopped PROVE Finished(tc) = N
  <2>1. ReportedIn(tc) = 1..N
    BY <1>1, <1>2, <1>4
  <2>2. Cardinality(ReportedIn(tc)) = Len(tc.results)
    BY <1>1, CountReported
  <2>3. Cardinality(1..N) = IF 1 > N THEN 0 ELSE N - 1 + 1
    BY <1>1, FS_Interval
  <2> QED
    BY <1>1, <2>1, <2>2, <2>3 DEF Finished
<1> QED
  BY <1>3, <1>4

-----------------------------------------------------------------------------
(* The inductive invariant, on which the theorems about the disk rest too: *)
(* the tasks, the vector of futures and the TaskControl always agree.      *)
THEOREM TasksAgree == Spec => []TaskInv
BY TaskInvInit, TaskInvNext, PTL DEF Spec

(* Type correctness: no variable of the unpacking ever holds a value of    *)
(* another kind, and no task writes more chunks than its entry has.        *)
THEOREM TypesAreCorrect == Spec => []TypeOK
<1>1. TaskInv => TypeOK
  BY DEF TaskInv
<1> QED
  BY <1>1, TasksAgree, PTL

(* There are never more unpackings than processors, although wait_for_slot *)
(* may return without a slot: run() then launches nothing.                 *)
THEOREM ThreadsAreLimited == Spec => []ThreadLimit
<1>1. TaskInv => ThreadLimit
  <2> SUFFICES ASSUME TaskInv
               PROVE  Cardinality({e \in 1..N : wpc[e] \notin {"idle", "ok", "failed"}}) <= NumThreads
    BY DEF ThreadLimit
  <2>0. /\ N \in Nat /\ next \in 1..(N + 1) /\ futures \in Seq(1..N) /\ Distinct(futures)
        /\ Len(futures) <= NumThreads /\ Len(futures) \in Nat /\ NumThreads \in Nat
    BY EntryFacts, UnzipAssumption, LenProperties DEF TaskInv, TypeOK, VectorInv
  <2>1. PICK busy : busy = {e \in 1..N : wpc[e] \notin {"idle", "ok", "failed"}}
    OBVIOUS
  <2>2. busy \subseteq ToSet(futures)
    <3> SUFFICES ASSUME NEW e \in 1..N, wpc[e] \notin {"idle", "ok", "failed"}
                 PROVE  e \in ToSet(futures)
      BY <2>1
    <3>1. e \in 1..(next - 1)
      BY <2>0 DEF TaskInv, ReportInv
    <3>2. e \notin ReportedIn(tc)
      BY DEF TaskInv, ReportInv, ReportedIn
    <3> QED
      BY <3>1, <3>2 DEF TaskInv, ReportInv
  <2>3. IsFiniteSet(ToSet(futures)) /\ Cardinality(ToSet(futures)) = Len(futures)
    BY <2>0, CountDistinct
  <2>4. Cardinality(busy) <= Cardinality(ToSet(futures)) /\ Cardinality(busy) \in Nat
    BY <2>2, <2>3, FS_Subset, FS_CardinalityType
  <2> QED
    BY <2>0, <2>1, <2>3, <2>4
<1> QED
  BY <1>1, TasksAgree, PTL

(* No entry is lost or reported twice, whatever fails or is stopped: it    *)
(* waits, or has a future, or its one report that tells how its task ended.*)
THEOREM EntriesAreReportedOnce == Spec => []EachEntryOnce
<1>1. TaskInv => EachEntryOnce
  <2> SUFFICES ASSUME TaskInv PROVE EachEntryOnce
    OBVIOUS
  <2>0. futures \in Seq(1..N) /\ Distinct(futures) /\ tc \in Control(1..N) /\ ReportedOnce(tc)
    BY DEF TaskInv, TypeOK, VectorInv, ReportInv
  <2>1. Reported = ReportedIn(tc)
    BY DEF Reported, ReportedIn
  <2>2. Cardinality(ToSet(futures)) = Len(futures)
    BY <2>0, CountDistinct
  <2>3. Cardinality(ReportedIn(tc)) = Len(tc.results)
    BY <2>0, CountReported
  <2> QED
    BY <2>1, <2>2, <2>3 DEF EachEntryOnce, TaskInv, ReportInv
<1> QED
  BY <1>1, TasksAgree, PTL

(* FINISHED is set when no task is left that could still write, and after  *)
(* every report, unless the user has stopped the work.                     *)
THEOREM FinishedIsQuiet == Spec => []QuietWhenFinished
BY FinishedQuietly, TasksAgree, PTL

-----------------------------------------------------------------------------
(* No two entries are the same file, which create_file does not expect.    *)
FilesAreDistinct ==
  \A a \in Archives : \A e, o \in DOMAIN a :
    a[e].kind # "dir" /\ a[o].kind # "dir" /\ a[e].name = a[o].name => e = o

(* Nor is a directory of the name of another entry, ...                    *)
NamesAreDistinct ==
  \A a \in Archives : \A e, o \in DOMAIN a : a[e].name = a[o].name => e = o

(* ... or without write permission while something is put into it.         *)
ParentsAreWritable ==
  \A a \in Archives : \A e, o \in DOMAIN a :
    a[e].kind = "dir" /\ ~a[e].writable => a[o].parent # a[e].name

-----------------------------------------------------------------------------
(* What is on the disk belongs to an entry of that name. *)
Named(n) ==
  /\ tmp[n] # 0 => LET e == tmp[n]
                   IN  entries[e].kind = "file" /\ entries[e].name = n /\ entries[e].flaw # "type"
  /\ final[n] # 0 => LET e == final[n]
                     IN  entries[e].kind # "dir" /\ entries[e].name = n /\ entries[e].flaw = "none"
  /\ final[n] # 0 => tmp[n] = 0

(* A task that has found its name free works on a file of its own, until   *)
(* the rename, after which nobody takes that name from it.                 *)
OwnFile(e) ==
  LET n == entries[e].name
  IN  /\ wpc[e] \in Extracting => entries[e].flaw # "type"
      /\ wpc[e] \in Extracting \ {"check"} => final[n] = 0
      /\ wpc[e] \in Holding => fd[e] = e
      /\ wpc[e] \in Holding \cup {"rename"} => tmp[n] = e
      /\ wpc[e] \in {"close", "rename"} => entries[e].flaw = "none"
      /\ wpc[e] = "unlink" => fd[e] \in {0, e}
      /\ wpc[e] \in {"perms", "ok"} /\ entries[e].kind # "dir" => final[n] = e

DiskInv == (\A n \in Name : Named(n)) /\ (\A e \in 1..N : OwnFile(e))

(* The first k chunks of entry e. *)
Chunks(e, k) == [j \in 1..k |-> <<e, j>>]

(* How much of its file a task has written: the last chunk is in the       *)
(* stream's buffer until the close.                                        *)
Written(e) ==
  /\ wpc[e] = "write" => content[e] = Chunks(e, done[e])
  /\ wpc[e] \in {"verify", "close"} => content[e] = Chunks(e, done[e] - 1)
  /\ wpc[e] = "rename" => content[e] = Whole(e)
  /\ entries[e].kind = "file" /\ final[entries[e].name] = e => content[e] = Whole(e)

ContentInv == \A e \in 1..N : Written(e)

(* Where directories come from, and which of them are read-only. *)
DirsInv ==
  /\ NoName \in dirs
  /\ \A d \in dirs : d = NoName \/ \E e \in 1..N :
                       entries[e].parent = d \/ (entries[e].kind = "dir" /\ entries[e].name = d)
  /\ \A d \in readonly : \E e \in 1..N :
       entries[e].kind = "dir" /\ ~entries[e].writable /\ entries[e].name = d

(* The temporary file of a task that has not begun or that has failed.     *)
Left(e) ==
  LET n == entries[e].name
  IN  /\ entries[e].kind # "file" => tmp[n] = 0
      /\ runs = 1 /\ wpc[e] \in {"idle", "dirs", "check", "open"} => tmp[n] = 0
      /\ wpc[e] = "failed" /\ (runs = 1 \/ Unobstructed(e)) => tmp[n] = 0

LeftInv == \A e \in 1..N : Left(e)

InPlace(e) ==
  IF entries[e].kind = "dir" THEN entries[e].name \in dirs ELSE final[entries[e].name] = e

(* What a good entry can fail of, if no write fails and nobody stops it.   *)
Good(e) ==
  entries[e].flaw = "none" /\ Unobstructed(e) =>
    wpc[e] # "unlink" /\ (wpc[e] = "failed" => InPlace(e))

GoodInv == "write" \notin failing /\ ~tc.stopped => \A e \in 1..N : Good(e)

-----------------------------------------------------------------------------
(* What the values of the variables are. *)
LEMMA DiskFacts ==
  ASSUME TaskInv
  PROVE  /\ N \in Nat /\ DOMAIN entries = 1..N /\ entries \in Archives
         /\ \A e \in 1..N : /\ entries[e].name \in Name
                            /\ entries[e].parent \in Name \cup {NoName}
                            /\ entries[e].kind \in {"file", "dir", "special"}
                            /\ entries[e].flaw \in {"none", "type", "data"}
                            /\ entries[e].chunks \in Nat
                            /\ entries[e].kind = "file" => entries[e].chunks > 0
         /\ wpc \in [1..N -> WorkerPc] /\ fd \in [1..N -> 0..N] /\ done \in [1..N -> Nat]
         /\ final \in [Name -> 0..N] /\ tmp \in [Name -> 0..N]
         /\ content \in [1..N -> Seq((0..N) \X Nat)]
BY EntryFacts DEF TaskInv, TypeOK

(* A file is the only entry of its name. *)
LEMMA SameFile ==
  ASSUME FilesAreDistinct, TaskInv, NEW e \in 1..N, NEW o \in 1..N,
         entries[e].kind # "dir", entries[o].kind # "dir", entries[e].name = entries[o].name
  PROVE  e = o
BY DiskFacts DEF FilesAreDistinct

(* Of the tasks, all other steps only begin or forget some. *)
LEMMA OtherSteps ==
  ASSUME TaskInv, [Next]_vars, ~\E e \in 1..N : Task(e)
  PROVE  /\ N' = N /\ UNCHANGED <<program, failing, entries>>
         /\ UNCHANGED <<dirs, readonly, final, tmp, content>>
         /\ \A e \in 1..N : \/ wpc'[e] = wpc[e] /\ fd'[e] = fd[e] /\ done'[e] = done[e]
                            \/ wpc[e] = "idle" /\ wpc'[e] = "dirs"
                            \/ FreshZipFile /\ wpc'[e] = "idle"
         /\ runs' = runs \/ FreshZipFile
<1>0. wpc \in [1..N -> WorkerPc]
  BY DiskFacts
<1>1. N' = N /\ UNCHANGED <<program, failing, entries, diskVars>>
  BY DEF Next, User, Menu, Main, Kill, UserStop, Over, Unzip, WaitIsOver, Join, Quit, OpenFile,
         FreshZipFile, MapArchive, WaitForSlot, ScanFutures, CheckStop, LaunchTask, CollectResult,
         SetFinished, givens, vars, N
<1>2. CASE FreshZipFile
  BY <1>1, <1>2 DEF FreshZipFile, diskVars
<1>3. CASE LaunchTask
  <2>1. pc = "async" /\ runs' = runs /\ UNCHANGED <<fd, done>> /\ wpc' = [wpc EXCEPT ![next] = "dirs"]
    BY <1>3 DEF LaunchTask
  <2>2. next \in 1..N /\ wpc[next] = "idle"
    BY <2>1, DiskFacts DEF TaskInv, TypeOK, PhaseInv, ReportInv
  <2> QED
    BY <1>0, <1>1, <2>1, <2>2 DEF diskVars
<1>4. CASE ~FreshZipFile /\ ~LaunchTask
  <2>1. runs' = runs /\ UNCHANGED workVars
    BY <1>4 DEF Next, User, Menu, Main, Kill, UserStop, Over, Unzip, WaitIsOver, Join, Quit,
                OpenFile, MapArchive, WaitForSlot, ScanFutures, CheckStop, CollectResult,
                SetFinished, vars
  <2> QED
    BY <1>1, <2>1 DEF workVars, diskVars
<1> QED
  BY <1>2, <1>3, <1>4

(* What a task touches: itself, its name and a file of its own. *)
LEMMA TaskTouches ==
  ASSUME FilesAreDistinct, TaskInv, DiskInv, NEW e \in 1..N, Task(e)
  PROVE  /\ N' = N /\ UNCHANGED <<program, failing, entries, runs, tc>>
         /\ \A o \in 1..N \ {e} : /\ wpc'[o] = wpc[o] /\ fd'[o] = fd[o] /\ done'[o] = done[o]
                                  /\ content'[o] = content[o]
         /\ \A n \in Name \ {entries[e].name} : tmp'[n] = tmp[n] /\ final'[n] = final[n]
         /\ entries[e].kind = "dir" => UNCHANGED <<tmp, final, content>>
         /\ dirs \subseteq dirs'
<1>0. /\ wpc \in [1..N -> WorkerPc] /\ fd \in [1..N -> 0..N] /\ done \in [1..N -> Nat]
      /\ final \in [Name -> 0..N] /\ tmp \in [Name -> 0..N] /\ entries[e].name \in Name
      /\ content \in [1..N -> Seq((0..N) \X Nat)]
  BY DiskFacts
<1>1. /\ N' = N /\ UNCHANGED <<program, failing, entries, runs, tc>> /\ dirs \subseteq dirs'
  BY DEF Task, MakeDirs, CheckTarget, OpenTmp, WriteChunk, WriteStops, Verify, Unlink, Close,
         Rename, MakeSpecial, SetPermissions, givens, diskVars, N
<1>2. \A o \in 1..N \ {e} : wpc'[o] = wpc[o] /\ fd'[o] = fd[o] /\ done'[o] = done[o]
  BY <1>0 DEF Task, MakeDirs, CheckTarget, OpenTmp, WriteChunk, WriteStops, Verify, Unlink, Close,
         Rename, MakeSpecial, SetPermissions, Goes
<1>3. \A n \in Name \ {entries[e].name} : tmp'[n] = tmp[n] /\ final'[n] = final[n]
  BY <1>0 DEF Task, MakeDirs, CheckTarget, OpenTmp, WriteChunk, WriteStops, Verify, Unlink, Close,
         Rename, MakeSpecial, SetPermissions, diskVars
<1>4. entries[e].kind = "dir" => UNCHANGED <<tmp, final, content>>
  <2>1. wpc[e] \in Extracting \cup {"make"} => entries[e].kind # "dir"
    BY DEF TaskInv, StageInv
  <2>2. wpc[e] \notin Extracting \cup {"make"} => UNCHANGED <<tmp, final, content>>
    BY DEF Task, MakeDirs, CheckTarget, OpenTmp, WriteChunk, WriteStops, Verify, Unlink, Close,
         Rename, MakeSpecial, SetPermissions, Extracting
  <2> QED
    BY <2>1, <2>2
<1>5. \A o \in 1..N \ {e} : content'[o] = content[o]
  <2>1. CASE OpenTmp(e)
    <3>1. wpc[e] = "open" /\ entries[e].kind = "file"
      BY <2>1 DEF OpenTmp, TaskInv, StageInv, Extracting
    <3>2. tmp[entries[e].name] \in {0, e}
      <4>1. PICK i \in 0..N : i = tmp[entries[e].name]
        BY <1>0
      <4>2. CASE i # 0
        <5>1. entries[i].kind = "file" /\ entries[i].name = entries[e].name /\ i \in 1..N
          BY <1>0, <4>1, <4>2 DEF DiskInv, Named
        <5> QED
          BY <3>1, <4>1, <5>1, SameFile
      <4> QED
        BY <4>1, <4>2
    <3> QED
      BY <1>0, <2>1, <3>2 DEF OpenTmp
  <2>2. CASE WriteChunk(e)
    BY <1>0, <2>2 DEF WriteChunk, DiskInv, OwnFile, Holding
  <2>3. CASE Unlink(e) \/ Close(e)
    <3>1. fd[e] \in {0, e}
      BY <2>3 DEF Unlink, Close, DiskInv, OwnFile, Holding
    <3> QED
      BY <1>0, <2>3, <3>1 DEF Unlink, Close, Flushed
  <2>4. CASE ~(OpenTmp(e) \/ WriteChunk(e) \/ Unlink(e) \/ Close(e))
    BY <2>4 DEF Task, MakeDirs, CheckTarget, WriteStops, Verify, Rename, MakeSpecial,
                SetPermissions, diskVars
  <2> QED
    BY <2>1, <2>2, <2>3, <2>4
<1> QED
  BY <1>1, <1>2, <1>3, <1>4, <1>5

-----------------------------------------------------------------------------
(* What is not touched stays as it is. *)
LEMMA NamedKept ==
  ASSUME NEW n \in Name, Named(n), UNCHANGED entries, tmp'[n] = tmp[n], final'[n] = final[n]
  PROVE  Named(n)'
BY DEF Named

(* What a task owns it keeps if its place changes only by a restart and    *)
(* nobody touches the two names of its entry.                              *)
LEMMA OwnFileKept ==
  ASSUME NEW e \in 1..N, OwnFile(e), UNCHANGED entries,
         wpc'[e] \in {wpc[e], "idle", "dirs"}, wpc'[e] = wpc[e] => fd'[e] = fd[e],
         \/ entries[e].kind = "dir" /\ wpc[e] \notin Extracting
         \/ tmp'[entries[e].name] = tmp[entries[e].name] /\ final'[entries[e].name] = final[entries[e].name]
  PROVE  OwnFile(e)'
BY DEF OwnFile, Extracting, Holding

(* The same of what a task has written. *)
LEMMA WrittenKept ==
  ASSUME NEW e \in 1..N, Written(e), UNCHANGED entries, content'[e] = content[e],
         wpc'[e] \in {wpc[e], "idle", "dirs"}, wpc'[e] = wpc[e] => done'[e] = done[e],
         entries[e].kind # "file" \/ final'[entries[e].name] = final[entries[e].name],
         wpc[e] \in Extracting => entries[e].kind = "file"
  PROVE  Written(e)'
BY DEF Written, Chunks, Whole, Extracting

(* Steps of other threads, of the user and of the operating system.        *)
LEMMA OthersKeepDisk ==
  ASSUME TaskInv, DiskInv, [Next]_vars, ~\E e \in 1..N : Task(e)
  PROVE  DiskInv' /\ (ContentInv => ContentInv')
<1>1. /\ N' = N /\ UNCHANGED entries /\ UNCHANGED <<final, tmp, content>>
      /\ \A e \in 1..N : /\ wpc'[e] \in {wpc[e], "idle", "dirs"}
                         /\ wpc'[e] = wpc[e] => fd'[e] = fd[e] /\ done'[e] = done[e]
  <2>1. \A e \in 1..N : wpc[e] \in {"idle", "dirs"} => fd[e] = 0 /\ done[e] = 0
    BY DEF TaskInv, StageInv, Holding
  <2>2. TaskInv'
    BY TaskInvNext
  <2>3. N' = N
    BY OtherSteps
  <2>4. \A e \in 1..N : wpc'[e] \in {"idle", "dirs"} => fd'[e] = 0 /\ done'[e] = 0
    BY <2>2, <2>3 DEF TaskInv, StageInv, Holding
  <2> QED
    BY <2>1, <2>4, OtherSteps
<1>2. DiskInv'
  <2>1. \A n \in Name : Named(n)'
    BY <1>1, NamedKept DEF DiskInv
  <2>2. \A e \in 1..N : OwnFile(e)'
    BY <1>1, OwnFileKept DEF DiskInv
  <2> QED
    BY <1>1, <2>1, <2>2 DEF DiskInv
<1>3. ASSUME ContentInv PROVE ContentInv'
  <2>1. \A e \in 1..N : Written(e)'
    <3> SUFFICES ASSUME NEW e \in 1..N PROVE Written(e)'
      OBVIOUS
    <3>1. Written(e) /\ (wpc[e] \in Extracting => entries[e].kind = "file")
      BY <1>3 DEF ContentInv, TaskInv, StageInv
    <3> QED
      BY <1>1, <3>1, WrittenKept
  <2> QED
    BY <1>1, <2>1 DEF ContentInv
<1> QED
  BY <1>2, <1>3

(* The step of a task, at its own name and for its own file. *)
LEMMA TaskKeepsOwn ==
  ASSUME FilesAreDistinct, TaskInv, DiskInv, NEW e \in 1..N, Task(e)
  PROVE  Named(entries[e].name)' /\ OwnFile(e)'
<1> DEFINE n == entries[e].name
<1>0. /\ wpc \in [1..N -> WorkerPc] /\ fd \in [1..N -> 0..N] /\ n \in Name
      /\ final \in [Name -> 0..N] /\ tmp \in [Name -> 0..N] /\ UNCHANGED entries
      /\ entries[e].kind \in {"file", "dir", "special"}
      /\ entries[e].flaw \in {"none", "type", "data"} /\ e # 0 /\ e \in 0..N
  BY DiskFacts, TaskTouches
<1>1. Named(n) /\ OwnFile(e) /\ (wpc[e] \in Extracting => entries[e].kind = "file")
  BY <1>0 DEF DiskInv, TaskInv, StageInv
<1>2. wpc[e] = "make" => entries[e].kind = "special"
  BY DEF TaskInv, StageInv
<1>t. ASSUME tmp[n] # 0, entries[e].kind # "dir" PROVE tmp[n] = e
  <2>1. PICK i \in 0..N : i = tmp[n]
    BY <1>0
  <2>2. i \in 1..N /\ entries[i].kind = "file" /\ entries[i].name = n
    BY <1>1, <1>t, <2>1 DEF Named
  <2> QED
    BY <1>t, <2>1, <2>2, SameFile
<1>f. ASSUME final[n] # 0, entries[e].kind # "dir" PROVE final[n] = e
  <2>1. PICK i \in 0..N : i = final[n]
    BY <1>0
  <2>2. i \in 1..N /\ entries[i].kind # "dir" /\ entries[i].name = n
    BY <1>1, <1>f, <2>1 DEF Named
  <2> QED
    BY <1>f, <2>1, <2>2, SameFile
<1> HIDE DEF n
<1>3. CASE MakeDirs(e)
  <2>1. UNCHANGED <<final, tmp, fd>> /\ wpc[e] = "dirs"
    BY <1>3 DEF MakeDirs
  <2>2. PICK place \in {"failed", "perms", "check", "make"} :
          /\ wpc' = [wpc EXCEPT ![e] = place]
          /\ place = "check" => entries[e].flaw # "type"
          /\ place = "perms" => entries[e].kind = "dir"
    BY <1>0, <1>3 DEF MakeDirs, Goes
  <2> QED
    BY <1>0, <1>1, <2>1, <2>2 DEF Named, OwnFile, Extracting, Holding, n
<1>4. CASE CheckTarget(e)
  <2>1. UNCHANGED <<final, tmp, fd>> /\ wpc[e] = "check"
    BY <1>4 DEF CheckTarget, diskVars
  <2>2. \/ wpc' = [wpc EXCEPT ![e] = "failed"]
        \/ wpc' = [wpc EXCEPT ![e] = "open"] /\ FALSE \in MayBeFound(n)
    <3>1. PICK found \in MayBeFound(n) : Goes(e, IF found THEN "failed" ELSE "open")
      BY <1>4 DEF CheckTarget, n
    <3>2. found \in BOOLEAN
      BY <3>1 DEF MayBeFound
    <3> QED
      BY <3>1, <3>2 DEF Goes
  <2>3. FALSE \in MayBeFound(n) => final[n] = 0
    <3>1. final[n] # 0 => entries[final[n]].kind = "file"
      BY <1>1, <1>f, <2>1 DEF Extracting
    <3> QED
      BY <3>1 DEF MayBeFound
  <2> QED
    BY <1>0, <1>1, <2>1, <2>2, <2>3 DEF Named, OwnFile, Extracting, Holding, n
<1>5. CASE OpenTmp(e)
  <2>1. UNCHANGED final /\ wpc[e] = "open" /\ final[n] = 0 /\ entries[e].kind = "file"
        /\ entries[e].flaw # "type"
    BY <1>1, <1>5 DEF OpenTmp, OwnFile, Extracting, n
  <2>2. \/ wpc' = [wpc EXCEPT ![e] = "failed"] /\ UNCHANGED <<fd, tmp>>
        \/ /\ wpc' = [wpc EXCEPT ![e] = "write"] /\ fd' = [fd EXCEPT ![e] = e]
           /\ tmp' = [tmp EXCEPT ![n] = e]
    BY <1>5, <1>t, <2>1 DEF OpenTmp, Goes, n
  <2> QED
    BY <1>0, <1>1, <2>1, <2>2 DEF Named, OwnFile, Extracting, Holding, n
<1>6. CASE WriteChunk(e) \/ WriteStops(e) \/ Verify(e)
  <2>1. UNCHANGED <<final, tmp, fd>> /\ wpc[e] \in {"write", "verify"}
    BY <1>6 DEF WriteChunk, WriteStops, Verify, diskVars
  <2>2. \/ wpc' = wpc
        \/ wpc' = [wpc EXCEPT ![e] = "unlink"]
        \/ wpc' = [wpc EXCEPT ![e] = "verify"]
        \/ wpc' = [wpc EXCEPT ![e] = "close"] /\ entries[e].flaw = "none"
    BY <1>6 DEF WriteChunk, WriteStops, Verify, Goes
  <2> QED
    BY <1>0, <1>1, <2>1, <2>2 DEF Named, OwnFile, Extracting, Holding, n
<1>7. CASE Unlink(e)
  <2>1. /\ UNCHANGED final /\ wpc[e] = "unlink" /\ wpc' = [wpc EXCEPT ![e] = "failed"]
        /\ tmp' = tmp \/ tmp' = [tmp EXCEPT ![n] = 0]
    BY <1>0, <1>7 DEF Unlink, Goes, n
  <2> QED
    BY <1>0, <1>1, <2>1 DEF Named, OwnFile, Extracting, Holding, n
<1>8. CASE Close(e)
  <2>1. /\ UNCHANGED <<final, tmp>> /\ wpc[e] = "close" /\ wpc' = [wpc EXCEPT ![e] = "rename"]
    BY <1>8 DEF Close, Goes
  <2> QED
    BY <1>0, <1>1, <2>1 DEF Named, OwnFile, Extracting, Holding, n
<1>9. CASE Rename(e)
  <2>1. wpc[e] = "rename" /\ tmp[n] = e /\ entries[e].flaw = "none" /\ UNCHANGED fd
        /\ entries[e].kind = "file" /\ fd[e] = 0
    BY <1>1, <1>9 DEF Rename, OwnFile, Extracting, Holding, n, TaskInv, StageInv
  <2>2. \/ /\ wpc' = [wpc EXCEPT ![e] = "perms"]
           /\ final' = [final EXCEPT ![n] = e] /\ tmp' = [tmp EXCEPT ![n] = 0]
        \/ wpc' = [wpc EXCEPT ![e] = "unlink"] /\ UNCHANGED <<final, tmp>>
    BY <1>9, <2>1 DEF Rename, Goes, n
  <2> QED
    BY <1>0, <1>1, <2>1, <2>2 DEF Named, OwnFile, Extracting, Holding, n
<1>10. CASE MakeSpecial(e)
  <2>1. wpc[e] = "make" /\ entries[e].kind = "special" /\ UNCHANGED <<tmp, fd>>
    BY <1>2, <1>10 DEF MakeSpecial
  <2>2. tmp[n] = 0
    <3>1. tmp[n] # 0 => entries[e].kind = "file"
      BY <1>1, <1>t, <2>1 DEF Named
    <3> QED
      BY <2>1, <3>1
  <2>3. \/ /\ wpc' = [wpc EXCEPT ![e] = "perms"] /\ entries[e].flaw = "none"
           /\ final' = [final EXCEPT ![n] = e]
        \/ wpc' = [wpc EXCEPT ![e] = "failed"] /\ UNCHANGED final
    BY <1>10 DEF MakeSpecial, Goes, n
  <2> QED
    BY <1>0, <1>1, <2>1, <2>2, <2>3 DEF Named, OwnFile, Extracting, Holding, n
<1>11. CASE SetPermissions(e)
  <2>1. /\ UNCHANGED <<final, tmp, fd>> /\ wpc[e] = "perms"
        /\ \E end \in {"ok", "failed"} : wpc' = [wpc EXCEPT ![e] = end]
    BY <1>11, Zenon DEF SetPermissions, Goes
  <2> QED
    BY <1>0, <1>1, <2>1 DEF Named, OwnFile, Extracting, Holding, n
<1> QED
  BY <1>3, <1>4, <1>5, <1>6, <1>7, <1>8, <1>9, <1>10, <1>11 DEF Task, n

(* A step of a task touches the names of its own entry only, and no other  *)
(* file has that name.                                                     *)
LEMMA TaskKeepsDisk ==
  ASSUME FilesAreDistinct, TaskInv, DiskInv, NEW e \in 1..N, Task(e)
  PROVE  DiskInv'
<1>1. /\ N' = N /\ UNCHANGED entries /\ entries[e].name \in Name
      /\ \A o \in 1..N \ {e} : wpc'[o] = wpc[o] /\ fd'[o] = fd[o]
      /\ \A n \in Name \ {entries[e].name} : tmp'[n] = tmp[n] /\ final'[n] = final[n]
      /\ entries[e].kind = "dir" => UNCHANGED <<tmp, final>>
  BY DiskFacts, TaskTouches
<1>2. Named(entries[e].name)' /\ OwnFile(e)'
  BY TaskKeepsOwn
<1>3. \A n \in Name : Named(n)'
  <2> SUFFICES ASSUME NEW n \in Name, n # entries[e].name PROVE Named(n)'
    BY <1>1, <1>2
  <2>1. Named(n) /\ tmp'[n] = tmp[n] /\ final'[n] = final[n]
    BY <1>1 DEF DiskInv
  <2> QED
    BY <1>1, <2>1, NamedKept
<1>4. \A o \in 1..N : OwnFile(o)'
  <2> SUFFICES ASSUME NEW o \in 1..N, o # e PROVE OwnFile(o)'
    BY <1>2
  <2>1. OwnFile(o) /\ (wpc[o] \in Extracting => entries[o].kind = "file")
    BY DEF DiskInv, TaskInv, StageInv
  <2>2. entries[o].kind # "dir" =>
          /\ tmp'[entries[o].name] = tmp[entries[o].name]
          /\ final'[entries[o].name] = final[entries[o].name]
    <3>1. CASE entries[e].kind = "dir"
      BY <1>1, <3>1
    <3>2. CASE entries[e].kind # "dir"
      <4>1. entries[o].kind # "dir" => entries[o].name # entries[e].name
        BY <3>2, SameFile
      <4>2. entries[o].name \in Name
        BY DiskFacts
      <4> QED
        BY <1>1, <4>1, <4>2
    <3> QED
      BY <3>1, <3>2
  <2> QED
    BY <1>1, <2>1, <2>2, OwnFileKept
<1> QED
  BY <1>1, <1>3, <1>4 DEF DiskInv

(* The directory that is unpacked to is empty before the first run. *)
LEMMA DiskInvInit == Init => DiskInv
<1> SUFFICES ASSUME Init PROVE DiskInv
  OBVIOUS
<1>1. \A n \in Name : tmp[n] = 0 /\ final[n] = 0
  BY DEF Init
<1>2. \A e \in 1..N : wpc[e] = "idle" /\ fd[e] = 0
  BY DEF Init
<1> QED
  BY <1>1, <1>2 DEF DiskInv, Named, OwnFile, Extracting, Holding

(* Ownership of names is inductive, given the invariant about the tasks. *)
LEMMA DiskInvNext ==
  ASSUME FilesAreDistinct
  PROVE  TaskInv /\ DiskInv /\ [Next]_vars => DiskInv'
<1> SUFFICES ASSUME TaskInv, DiskInv, [Next]_vars PROVE DiskInv'
  OBVIOUS
<1> QED
  BY OthersKeepDisk, TaskKeepsDisk

(* Chunk k after the first k - 1 chunks. *)
LEMMA NextChunk ==
  ASSUME NEW e \in 1..N, NEW k \in Nat, k > 0, content[e] = Chunks(e, k - 1)
  PROVE  Overwritten(e, e, k) = Chunks(e, k)
<1>1. PICK old : old = content[e]
  OBVIOUS
<1>2. old = [j \in 1..(k - 1) |-> <<e, j>>] /\ k - 1 \in Nat
  BY <1>1 DEF Chunks
<1>3. old \in Seq(UNION {{<<e, j>>} : j \in Nat})
  <2>1. \A j \in 1..(k - 1) : <<e, j>> \in UNION {{<<e, i>>} : i \in Nat}
    BY <1>2
  <2> QED
    BY <1>2, <2>1, IsASeq
<1>4. Len(old) = k - 1
  BY <1>2, <1>3, LenProperties
<1>5. Overwritten(e, e, k) =
        [j \in 1..k |-> IF j = k THEN <<e, k>> ELSE IF j <= k - 1 THEN old[j] ELSE <<0, 0>>]
  <2>1. ~(Len(old) > k)
    BY <1>4
  <2> QED
    BY <1>1, <1>4, <2>1 DEF Overwritten
<1>6. \A j \in 1..k :
        (IF j = k THEN <<e, k>> ELSE IF j <= k - 1 THEN old[j] ELSE <<0, 0>>) = <<e, j>>
  BY <1>2
<1> QED
  BY <1>5, <1>6 DEF Chunks

(* A task writes its own file chunk by chunk, and closes it when all are.  *)
LEMMA TaskKeepsWritten ==
  ASSUME FilesAreDistinct, "flush" \notin Faults, TaskInv, DiskInv, ContentInv,
         NEW e \in 1..N, Task(e)
  PROVE  Written(e)'
<1>0. /\ wpc \in [1..N -> WorkerPc] /\ done \in [1..N -> Nat] /\ done[e] <= entries[e].chunks
      /\ final \in [Name -> 0..N] /\ tmp \in [Name -> 0..N] /\ UNCHANGED entries
      /\ content \in [1..N -> Seq((0..N) \X Nat)] /\ entries[e].name \in Name
      /\ entries[e].chunks \in Nat /\ (entries[e].kind = "file" => entries[e].chunks > 0)
      /\ "flush" \notin failing /\ e # 0
  BY DiskFacts, TaskTouches, SMTT(40) DEF TaskInv, TypeOK
<1>1. /\ Written(e) /\ OwnFile(e) /\ (wpc[e] \in Extracting => entries[e].kind = "file")
      /\ wpc[e] = "make" => entries[e].kind = "special"
      /\ wpc[e] \in {"idle", "dirs", "check", "open"} => done[e] = 0
      /\ wpc[e] = "write" => done[e] < entries[e].chunks
      /\ wpc[e] \in {"verify", "close", "rename"} => done[e] = entries[e].chunks
  BY DEF ContentInv, DiskInv, TaskInv, StageInv
<1>2. CASE MakeDirs(e) \/ CheckTarget(e) \/ SetPermissions(e)
  <2>1. /\ UNCHANGED <<final, content>> /\ wpc[e] \notin Holding
        /\ wpc'[e] \notin {"write", "verify", "close", "rename"}
    <3>1. CASE CheckTarget(e)
      <4>1. PICK found \in MayBeFound(entries[e].name) : Goes(e, IF found THEN "failed" ELSE "open")
        BY <3>1 DEF CheckTarget
      <4> QED
        BY <1>0, <3>1, <4>1 DEF CheckTarget, Goes, Holding, diskVars
    <3>2. CASE MakeDirs(e) \/ SetPermissions(e)
      BY <1>0, <3>2 DEF MakeDirs, SetPermissions, Goes, Holding
    <3> QED
      BY <1>2, <3>1, <3>2
  <2> QED
    BY <1>0, <1>1, <2>1 DEF Written, Whole
<1>3. CASE OpenTmp(e)
  <2>1. UNCHANGED final /\ wpc[e] = "open" /\ final[entries[e].name] = 0
        /\ done[e] = 0 /\ UNCHANGED done
    BY <1>1, <1>3 DEF OpenTmp, OwnFile, Extracting
  <2>2. \/ wpc' = [wpc EXCEPT ![e] = "failed"]
        \/ wpc' = [wpc EXCEPT ![e] = "write"] /\ content'[e] = << >>
    <3>1. tmp[entries[e].name] \in {0, e}
      <4>1. TaskInv' /\ DiskInv' /\ N' = N
        BY TaskStep, TaskKeepsDisk, TaskTouches
      <4>2. OwnFile(e)'
        BY TaskKeepsOwn
      <4>3. CASE wpc'[e] = "write"
        <5>1. tmp'[entries[e].name] = e
          BY <1>0, <4>2, <4>3 DEF OwnFile, Holding
        <5>2. wpc'[e] # "failed" /\ tmp' = [tmp EXCEPT ![entries[e].name] =
                                        IF tmp[entries[e].name] = 0 THEN e ELSE tmp[entries[e].name]]
          BY <1>0, <1>3, <4>3 DEF OpenTmp, Goes
        <5> QED
          BY <1>0, <5>1, <5>2
      <4>4. CASE wpc'[e] # "write"
        BY <1>0, <1>3, <4>4 DEF OpenTmp, Goes
      <4> QED
        BY <4>3, <4>4
    <3> QED
      BY <1>0, <1>3, <3>1 DEF OpenTmp, Goes
  <2>3. Chunks(e, 0) = << >>
    BY EmptySeq DEF Chunks
  <2> QED
    BY <1>0, <2>1, <2>2, <2>3 DEF Written, Chunks
<1>4. CASE WriteChunk(e)
  <2>1. /\ wpc[e] = "write" /\ fd[e] = e /\ content[e] = Chunks(e, done[e])
        /\ final[entries[e].name] = 0 /\ UNCHANGED final
    BY <1>1, <1>4 DEF WriteChunk, Written, OwnFile, Extracting, Holding
  <2>2. PICK k \in Nat : k = done[e] + 1 /\ k > 0 /\ k - 1 = done[e]
    BY <1>0
  <2>3. done'[e] = k
    BY <1>0, <1>4, <2>2 DEF WriteChunk
  <2>4. CASE k = entries[e].chunks
    <3>1. wpc'[e] = "verify" /\ content' = content
      BY <1>0, <1>4, <2>3, <2>4 DEF WriteChunk, Goes
    <3> QED
      BY <1>0, <2>1, <2>2, <2>3, <3>1 DEF Written, Chunks
  <2>5. CASE k # entries[e].chunks
    <3>1. wpc'[e] = "write" /\ content' = [content EXCEPT ![e] = Overwritten(e, e, k)]
      BY <1>0, <1>4, <2>1, <2>3, <2>5 DEF WriteChunk
    <3>2. content'[e] = Chunks(e, k)
      BY <1>0, <2>1, <2>2, <3>1, NextChunk
    <3> QED
      BY <1>0, <2>1, <2>3, <3>1, <3>2 DEF Written, Chunks
  <2> QED
    BY <2>4, <2>5
<1>5. CASE WriteStops(e) \/ Verify(e)
  <2>1. /\ UNCHANGED <<final, content, done>> /\ wpc[e] \in {"write", "verify"}
        /\ wpc'[e] = "unlink" \/ (wpc'[e] = "close" /\ wpc[e] = "verify")
        /\ final[entries[e].name] = 0
    BY <1>0, <1>1, <1>5 DEF WriteStops, Verify, Goes, diskVars, OwnFile, Extracting
  <2> QED
    BY <1>0, <1>1, <2>1 DEF Written, Chunks
<1>6. CASE Unlink(e)
  <2>1. UNCHANGED final /\ wpc'[e] = "failed" /\ final[entries[e].name] = 0
    BY <1>0, <1>1, <1>6 DEF Unlink, Goes, OwnFile, Extracting
  <2> QED
    BY <1>0, <2>1 DEF Written
<1>7. CASE Close(e)
  <2>1. /\ UNCHANGED <<final, done>> /\ wpc'[e] = "rename" /\ final[entries[e].name] = 0
        /\ content' = Flushed(e) /\ fd[e] = e /\ done[e] = entries[e].chunks /\ wpc[e] = "close"
        /\ entries[e].kind = "file"
    BY <1>0, <1>1, <1>7 DEF Close, Goes, OwnFile, Extracting, Holding
  <2>2. PICK k \in Nat : k = done[e] /\ k > 0
    BY <1>0, <2>1
  <2>3. content'[e] = Overwritten(e, e, k)
    BY <1>0, <2>1, <2>2 DEF Flushed
  <2>4. content[e] = Chunks(e, k - 1)
    BY <1>1, <2>1, <2>2 DEF Written
  <2>5. content'[e] = Chunks(e, k)
    BY <2>2, <2>3, <2>4, NextChunk
  <2> QED
    BY <1>0, <2>1, <2>2, <2>5 DEF Written, Chunks, Whole
<1>8. CASE Rename(e)
  <2>1. content[e] = Whole(e) /\ UNCHANGED content /\ wpc'[e] \in {"perms", "unlink"}
    BY <1>0, <1>1, <1>8 DEF Rename, Goes, Written
  <2> QED
    BY <1>0, <2>1 DEF Written, Whole
<1>9. CASE MakeSpecial(e)
  <2>1. entries[e].kind = "special" /\ wpc'[e] \in {"perms", "failed"}
    BY <1>0, <1>1, <1>9 DEF MakeSpecial, Goes
  <2> QED
    BY <1>0, <2>1 DEF Written
<1> QED
  BY <1>2, <1>3, <1>4, <1>5, <1>6, <1>7, <1>8, <1>9 DEF Task

(* What tasks have written is inductive, unless the write in fclose can    *)
(* fail.                                                                   *)
LEMMA ContentInvNext ==
  ASSUME FilesAreDistinct, "flush" \notin Faults
  PROVE  TaskInv /\ DiskInv /\ ContentInv /\ [Next]_vars => ContentInv'
<1> SUFFICES ASSUME TaskInv, DiskInv, ContentInv, [Next]_vars PROVE ContentInv'
  OBVIOUS
<1>1. ASSUME NEW e \in 1..N, Task(e) PROVE ContentInv'
  <2>1. /\ N' = N /\ UNCHANGED entries
        /\ \A o \in 1..N \ {e} : /\ wpc'[o] = wpc[o] /\ done'[o] = done[o]
                                 /\ content'[o] = content[o]
        /\ \A n \in Name \ {entries[e].name} : final'[n] = final[n]
        /\ entries[e].kind = "dir" => UNCHANGED final
    BY <1>1, TaskTouches
  <2>2. \A o \in 1..N : Written(o)'
    <3> SUFFICES ASSUME NEW o \in 1..N, o # e PROVE Written(o)'
      BY <1>1, TaskKeepsWritten
    <3>1. Written(o) /\ (wpc[o] \in Extracting => entries[o].kind = "file")
      BY DEF ContentInv, TaskInv, StageInv
    <3>2. entries[o].kind # "file" \/ final'[entries[o].name] = final[entries[o].name]
      <4>1. CASE entries[e].kind = "dir"
        BY <2>1, <4>1
      <4>2. CASE entries[e].kind # "dir"
        <5>1. entries[o].kind = "file" => entries[o].name # entries[e].name
          BY <4>2, SameFile
        <5>2. entries[o].name \in Name
          BY DiskFacts
        <5> QED
          BY <2>1, <5>1, <5>2
      <4> QED
        BY <4>1, <4>2
    <3> QED
      BY <2>1, <3>1, <3>2, WrittenKept
  <2> QED
    BY <2>1, <2>2 DEF ContentInv
<1> QED
  BY <1>1, OthersKeepDisk

(* Nothing is written before the first task runs. *)
LEMMA ContentInvInit == Init => ContentInv
<1> SUFFICES ASSUME Init PROVE ContentInv
  OBVIOUS
<1>1. \A e \in 1..N : wpc[e] = "idle" /\ entries[e].name \in Name /\ e # 0
  BY TaskInvInit, DiskFacts DEF Init
<1> QED
  BY <1>1 DEF Init, ContentInv, Written

-----------------------------------------------------------------------------
(* Files that are not in the archive twice do not meet each other: each    *)
(* task works on a temporary file of its own and renames only that.        *)
THEOREM FilesAreOwned ==
  ASSUME FilesAreDistinct
  PROVE  Spec => [](TaskInv /\ DiskInv)
<1>1. Init => TaskInv /\ DiskInv
  BY TaskInvInit, DiskInvInit
<1>2. (TaskInv /\ DiskInv) /\ [Next]_vars => (TaskInv /\ DiskInv)'
  BY TaskInvNext, DiskInvNext
<1> QED
  BY <1>1, <1>2, PTL DEF Spec

(* The report of a task that succeeded is the truth, in this run and when  *)
(* another has been there before: its file is under its name.              *)
THEOREM SuccessIsTruth ==
  ASSUME FilesAreDistinct
  PROVE  Spec => []ResultIsTruth
<1>1. TaskInv /\ DiskInv => ResultIsTruth
  BY DEF TaskInv, StageInv, DiskInv, OwnFile, ResultIsTruth
<1> QED
  BY <1>1, FilesAreOwned, PTL

(* Wherever the process is killed, and if the writes fail that fwrite      *)
(* reports, what has its final name is complete.  Only what the close does *)
(* not write is lost unnoticed, which is why "flush" is excluded.          *)
THEOREM FilesAreWhole ==
  ASSUME FilesAreDistinct, "flush" \notin Faults
  PROVE  Spec => []NoPartialFiles
<1>1. Init => TaskInv /\ DiskInv /\ ContentInv
  BY TaskInvInit, DiskInvInit, ContentInvInit
<1>2. (TaskInv /\ DiskInv /\ ContentInv) /\ [Next]_vars => (TaskInv /\ DiskInv /\ ContentInv)'
  BY TaskInvNext, DiskInvNext, ContentInvNext
<1>3. TaskInv /\ DiskInv /\ ContentInv => NoPartialFiles
  <2> SUFFICES ASSUME TaskInv, DiskInv, ContentInv, NEW n \in Name, final[n] # 0
               PROVE  /\ entries[final[n]].name = n
                      /\ entries[final[n]].flaw = "none"
                      /\ entries[final[n]].kind = "file" => content[final[n]] = Whole(final[n])
    BY DEF NoPartialFiles
  <2>1. PICK e \in 1..N : e = final[n]
    BY DiskFacts
  <2>2. entries[e].name = n /\ entries[e].flaw = "none"
    BY <2>1 DEF DiskInv, Named
  <2>3. entries[e].kind = "file" => content[e] = Whole(e)
    BY <2>1, <2>2 DEF ContentInv, Written
  <2> QED
    BY <2>1, <2>2, <2>3
<1> QED
  BY <1>1, <1>2, <1>3, PTL DEF Spec

(* Nobody replaces or removes a file that has its final name: who renames  *)
(* has seen that there is none, and nobody else has made one since.        *)
THEOREM TargetsAreKept ==
  ASSUME FilesAreDistinct
  PROVE  Spec => TargetsKept
<1>1. TaskInv /\ DiskInv /\ [Next]_vars => [\A n \in Name : final[n] # 0 => final'[n] = final[n]]_vars
  <2> SUFFICES ASSUME TaskInv, DiskInv, [Next]_vars, NEW n \in Name, final[n] # 0
               PROVE  final'[n] = final[n]
    OBVIOUS
  <2>1. ASSUME NEW e \in 1..N, Task(e) PROVE final'[n] = final[n]
    <3>1. CASE entries[e].name # n
      BY <2>1, <3>1, TaskTouches
    <3>2. CASE entries[e].name = n
      <4>1. ~Rename(e)
        BY <3>2 DEF Rename, DiskInv, OwnFile, Extracting
      <4>2. MakeSpecial(e) => UNCHANGED final
        BY <3>2 DEF MakeSpecial
      <4>3. Task(e) /\ ~Rename(e) /\ ~MakeSpecial(e) => UNCHANGED final
        BY DEF Task, MakeDirs, CheckTarget, OpenTmp, WriteChunk, WriteStops, Verify, Unlink, Close,
               SetPermissions, diskVars
      <4> QED
        BY <2>1, <4>1, <4>2, <4>3
    <3> QED
      BY <3>1, <3>2
  <2>2. (~\E e \in 1..N : Task(e)) => UNCHANGED final
    BY OtherSteps
  <2> QED
    BY <2>1, <2>2
<1> QED
  BY <1>1, FilesAreOwned, PTL DEF Spec, TargetsKept

-----------------------------------------------------------------------------
(* The directories of the disk. *)
LEMMA DirsInvNext == TaskInv /\ DirsInv /\ [Next]_vars => DirsInv'
<1> SUFFICES ASSUME TaskInv, DirsInv, [Next]_vars PROVE DirsInv'
  OBVIOUS
<1>1. ASSUME NEW e \in 1..N, Task(e) PROVE DirsInv'
  <2>1. N' = N /\ UNCHANGED entries /\ dirs \subseteq dirs'
    BY <1>1 DEF Task, MakeDirs, CheckTarget, OpenTmp, WriteChunk, WriteStops, Verify, Unlink, Close,
                Rename, MakeSpecial, SetPermissions, givens, diskVars, N
  <2>2. CASE MakeDirs(e)
    <3>1. /\ UNCHANGED readonly
          /\ \A d \in dirs' \ dirs :
               d = entries[e].parent \/ (entries[e].kind = "dir" /\ d = entries[e].name)
      BY <2>2 DEF MakeDirs
    <3> QED
      BY <2>1, <3>1 DEF DirsInv
  <2>3. CASE SetPermissions(e)
    <3>1. /\ UNCHANGED dirs
          /\ \A d \in readonly' \ readonly :
               entries[e].kind = "dir" /\ ~entries[e].writable /\ d = entries[e].name
      BY <2>3 DEF SetPermissions
    <3> QED
      BY <2>1, <3>1 DEF DirsInv
  <2>4. CASE ~MakeDirs(e) /\ ~SetPermissions(e)
    <3>1. UNCHANGED <<dirs, readonly>>
      BY <1>1, <2>4 DEF Task, CheckTarget, OpenTmp, WriteChunk, WriteStops, Verify, Unlink, Close,
                        Rename, MakeSpecial, diskVars
    <3> QED
      BY <2>1, <3>1 DEF DirsInv
  <2> QED
    BY <2>2, <2>3, <2>4
<1>2. ASSUME ~\E e \in 1..N : Task(e) PROVE DirsInv'
  <2>1. N' = N /\ UNCHANGED <<entries, dirs, readonly>>
    BY <1>2, OtherSteps
  <2> QED
    BY <2>1 DEF DirsInv
<1> QED
  BY <1>1, <1>2

(* What keeps a task from making its directory and its name. *)
LEMMA ParentWritable ==
  ASSUME ParentsAreWritable, TaskInv, DirsInv, NEW e \in 1..N
  PROVE  MayWrite(entries[e].parent) /\ MayWrite(NoName)
<1>1. ASSUME NEW o \in 1..N, entries[o].kind = "dir", ~entries[o].writable
      PROVE  entries[o].name # entries[e].parent /\ entries[o].name # NoName
  <2>1. PICK a \in Archives : a = entries
    BY DiskFacts
  <2>2. e \in DOMAIN a /\ o \in DOMAIN a /\ a[o].name \in Name
    BY <2>1, DiskFacts
  <2>3. a[e].parent # a[o].name
    BY <1>1, <2>1, <2>2 DEF ParentsAreWritable
  <2>4. NoName \notin Name
    BY UnzipAssumption
  <2> QED
    BY <2>1, <2>2, <2>3, <2>4
<1> QED
  BY <1>1 DEF DirsInv, MayWrite

(* Where no other entry is in the way, every directory on the way to an    *)
(* entry is there or can be made, and no directory is in its place.        *)
LEMMA NotObstructed ==
  ASSUME ParentsAreWritable, TaskInv, DiskInv, DirsInv, NEW e \in 1..N, Unobstructed(e)
  PROVE  /\ MayMakeDir(entries[e].parent, NoName)
         /\ entries[e].kind = "dir" => MayMakeDir(entries[e].name, entries[e].parent)
         /\ entries[e].kind # "dir" => entries[e].name \notin dirs
<1> DEFINE n == entries[e].name
           p == entries[e].parent
<1>0. n \in Name /\ p \in Name \cup {NoName} /\ p # n /\ NoName \notin Name /\ NoName \in dirs
  <2>1. entries[e].parent # entries[e].name
    BY DiskFacts, UnzipAssumption
  <2> QED
    BY <2>1, DiskFacts, UnzipAssumption DEF DirsInv
<1>1. p \in Name => final[p] = 0
  <2> SUFFICES ASSUME p \in Name, final[p] # 0 PROVE FALSE
    OBVIOUS
  <2>1. PICK o \in 1..N : o = final[p]
    BY DiskFacts
  <2>2. entries[o].name = p /\ entries[o].kind # "dir"
    BY <2>1 DEF DiskInv, Named
  <2> QED
    BY <1>0, <2>2 DEF Unobstructed
<1>2. entries[e].kind = "dir" => final[n] = 0
  <2> SUFFICES ASSUME entries[e].kind = "dir", final[n] # 0 PROVE FALSE
    OBVIOUS
  <2>1. PICK o \in 1..N : o = final[n]
    BY <1>0, DiskFacts
  <2>2. entries[o].name = n /\ entries[o].kind # "dir"
    BY <1>0, <2>1 DEF DiskInv, Named
  <2> QED
    BY <2>2 DEF Unobstructed
<1>3. entries[e].kind # "dir" => n \notin dirs
  BY <1>0 DEF DirsInv, Unobstructed
<1> QED
  BY <1>0, <1>1, <1>2, <1>3, ParentWritable DEF MayMakeDir

-----------------------------------------------------------------------------
(* Distinct names in the archives are distinct names of the entries of an  *)
(* execution.                                                              *)
LEMMA NamesDistinct ==
  ASSUME NamesAreDistinct
  PROVE  /\ FilesAreDistinct
         /\ TaskInv => \A e, o \in 1..N : entries[e].name = entries[o].name => e = o
<1>1. FilesAreDistinct
  BY DEF NamesAreDistinct, FilesAreDistinct
<1>2. ASSUME TaskInv PROVE \A e, o \in 1..N : entries[e].name = entries[o].name => e = o
  BY <1>2, DiskFacts DEF NamesAreDistinct
<1> QED
  BY <1>1, <1>2

(* An entry with nothing in its way does not fail for its directory. *)
LEMMA MakeDirsSucceeds ==
  ASSUME ParentsAreWritable, TaskInv, DiskInv, DirsInv, NEW e \in 1..N, Unobstructed(e),
         MakeDirs(e), entries[e].flaw # "type"
  PROVE  wpc'[e] # "failed"
<1>1. wpc \in [1..N -> WorkerPc] /\ entries[e].kind \in {"file", "dir", "special"}
  BY DiskFacts
<1>2. /\ MayMakeDir(entries[e].parent, NoName)
      /\ entries[e].kind = "dir" => MayMakeDir(entries[e].name, entries[e].parent)
  BY NotObstructed
<1> QED
  BY <1>1, <1>2 DEF MakeDirs, Goes

(* A task that ends removes its temporary file, also that of an earlier run.*)
LEMMA TaskKeepsLeft ==
  ASSUME NamesAreDistinct, ParentsAreWritable, TaskInv, DiskInv, DirsInv, LeftInv,
         NEW e \in 1..N, Task(e)
  PROVE  Left(e)'
<1> DEFINE n == entries[e].name
<1>0. /\ wpc \in [1..N -> WorkerPc] /\ n \in Name /\ N' = N /\ UNCHANGED <<entries, runs>>
      /\ tmp \in [Name -> 0..N] /\ entries[e].kind \in {"file", "dir", "special"}
      /\ Unobstructed(e)' = Unobstructed(e)
  <2>1. FilesAreDistinct
    BY NamesDistinct
  <2>2. N' = N /\ UNCHANGED <<entries, runs>>
    BY <2>1, TaskTouches
  <2> QED
    BY <2>2, DiskFacts DEF Unobstructed
<1>1. Left(e) /\ (wpc[e] \in Extracting => entries[e].kind = "file") /\ Named(n) /\ OwnFile(e)
  BY <1>0 DEF LeftInv, DiskInv, TaskInv, StageInv
<1>2. wpc[e] = "make" => entries[e].kind = "special"
  BY DEF TaskInv, StageInv
<1> HIDE DEF n
<1>3. CASE MakeDirs(e)
  <2>1. UNCHANGED tmp /\ wpc[e] = "dirs" /\ wpc'[e] \in {"failed", "perms", "check", "make"}
    BY <1>0, <1>3 DEF MakeDirs, Goes
  <2>2. entries[e].flaw = "type" => tmp[n] = 0
    <3>1. tmp[n] # 0 => \E o \in 1..N : entries[o].name = n /\ entries[o].flaw # "type"
      <4>1. ASSUME tmp[n] # 0 PROVE tmp[n] \in 1..N
        BY <1>0, <4>1
      <4> QED
        BY <1>0, <1>1, <4>1 DEF Named
    <3> QED
      BY <3>1, NamesDistinct DEF n
  <2>3. wpc'[e] = "failed" /\ Unobstructed(e) => entries[e].flaw = "type"
    BY <1>3, MakeDirsSucceeds
  <2> QED
    BY <1>0, <1>1, <2>1, <2>2, <2>3 DEF Left, n
<1>4. CASE CheckTarget(e)
  <2>1. UNCHANGED tmp /\ wpc[e] = "check" /\ wpc'[e] \in {"failed", "open"}
        /\ entries[e].kind = "file"
    <3>1. PICK found \in MayBeFound(n) : Goes(e, IF found THEN "failed" ELSE "open")
      BY <1>4 DEF CheckTarget, n
    <3> QED
      BY <1>0, <1>1, <1>4, <3>1 DEF CheckTarget, Goes, diskVars, Extracting
  <2>2. wpc'[e] = "failed" => n \in dirs \/ final[n] # 0
    <3>1. PICK found \in MayBeFound(n) : Goes(e, IF found THEN "failed" ELSE "open")
      BY <1>4 DEF CheckTarget, n
    <3>2. wpc'[e] = "failed" => found
      BY <1>0, <1>4, <3>1 DEF CheckTarget, Goes
    <3> QED
      BY <3>1, <3>2 DEF MayBeFound
  <2>3. Unobstructed(e) => n \notin dirs
    BY <2>1, NotObstructed DEF n
  <2>4. final[n] # 0 => tmp[n] = 0
    BY <1>1 DEF Named
  <2> QED
    BY <1>0, <1>1, <2>1, <2>2, <2>3, <2>4 DEF Left, n
<1>5. CASE OpenTmp(e)
  <2>1. \/ wpc'[e] = "write"
        \/ wpc'[e] = "failed" /\ tmp[n] = 0 /\ UNCHANGED tmp
    BY <1>0, <1>5 DEF OpenTmp, Goes, n
  <2>2. entries[e].kind = "file"
    BY <1>1, <1>5 DEF OpenTmp, Extracting
  <2> QED
    BY <1>0, <2>1, <2>2 DEF Left, n
<1>6. CASE WriteChunk(e) \/ WriteStops(e) \/ Verify(e) \/ Close(e)
  <2>1. wpc'[e] \in {"write", "verify", "unlink", "close", "rename"} /\ UNCHANGED tmp
    BY <1>0, <1>6 DEF WriteChunk, WriteStops, Verify, Close, Goes, diskVars
  <2> QED
    BY <1>0, <1>1, <2>1 DEF Left, n
<1>7. CASE Unlink(e)
  <2>1. tmp'[n] = 0
    BY <1>0, <1>7, ParentWritable DEF Unlink, n
  <2> QED
    BY <1>0, <2>1 DEF Left, n
<1>8. CASE Rename(e)
  <2>1. wpc'[e] \in {"perms", "unlink"} /\ entries[e].kind = "file"
    BY <1>0, <1>1, <1>8 DEF Rename, Goes, Extracting
  <2> QED
    BY <1>0, <2>1 DEF Left, n
<1>9. CASE MakeSpecial(e)
  <2>1. /\ wpc'[e] \in {"perms", "failed"} /\ UNCHANGED tmp
        /\ entries[e].kind # "file"
    BY <1>0, <1>2, <1>9 DEF MakeSpecial, Goes
  <2> QED
    BY <1>0, <1>1, <2>1 DEF Left, n
<1>10. CASE SetPermissions(e)
  <2>1. wpc[e] = "perms" /\ wpc'[e] \in {"ok", "failed"} /\ UNCHANGED tmp
    BY <1>0, <1>10 DEF SetPermissions, Goes
  <2>2. tmp[n] = 0
    <3>1. CASE entries[e].kind = "file"
      <4>1. final[n] = e /\ e # 0
        BY <1>1, <2>1, <3>1, DiskFacts DEF OwnFile, n
      <4> QED
        BY <1>1, <4>1 DEF Named
    <3>2. CASE entries[e].kind # "file"
      BY <1>1, <3>2 DEF Left, n
    <3> QED
      BY <3>1, <3>2
  <2> QED
    BY <1>0, <1>1, <2>1, <2>2 DEF Left, n
<1> QED
  BY <1>3, <1>4, <1>5, <1>6, <1>7, <1>8, <1>9, <1>10 DEF Task

(* Who may leave a temporary file is inductive: a task that ends has       *)
(* removed or renamed its own, and only a kill leaves one to a later run.  *)
LEMMA LeftInvNext ==
  ASSUME NamesAreDistinct, ParentsAreWritable
  PROVE  TaskInv /\ DiskInv /\ DirsInv /\ LeftInv /\ [Next]_vars => LeftInv'
<1> SUFFICES ASSUME TaskInv, DiskInv, DirsInv, LeftInv, [Next]_vars PROVE LeftInv'
  OBVIOUS
<1>1. ASSUME NEW e \in 1..N, Task(e) PROVE LeftInv'
  <2>1. /\ N' = N /\ UNCHANGED <<entries, runs>>
        /\ \A o \in 1..N \ {e} : wpc'[o] = wpc[o]
        /\ \A n \in Name \ {entries[e].name} : tmp'[n] = tmp[n]
    BY <1>1, NamesDistinct, TaskTouches
  <2>2. ASSUME NEW o \in 1..N PROVE Left(o)'
    <3>1. CASE o = e
      BY <1>1, <3>1, TaskKeepsLeft
    <3>2. CASE o # e
      <4>1. wpc'[o] = wpc[o] /\ tmp'[entries[o].name] = tmp[entries[o].name]
        BY <2>1, <3>2, NamesDistinct, DiskFacts
      <4>2. Unobstructed(o)' = Unobstructed(o)
        BY <2>1 DEF Unobstructed
      <4>3. Left(o)
        BY DEF LeftInv
      <4> QED
        BY <2>1, <4>1, <4>2, <4>3 DEF Left
    <3> QED
      BY <3>1, <3>2
  <2> QED
    BY <2>1, <2>2 DEF LeftInv
<1>2. ASSUME ~\E e \in 1..N : Task(e) PROVE LeftInv'
  <2>1. /\ N' = N /\ UNCHANGED <<entries, tmp>>
        /\ \A e \in 1..N : wpc'[e] \in {"idle", "dirs"} \/ wpc'[e] = wpc[e]
        /\ runs' = runs \/ FreshZipFile
    BY <1>2, OtherSteps
  <2>2. CASE runs' = runs
    <3>1. ~FreshZipFile
      BY <2>2 DEF FreshZipFile, TaskInv, TypeOK
    <3>3. \A e \in 1..N : wpc'[e] = wpc[e] \/ (wpc[e] = "idle" /\ wpc'[e] = "dirs")
      BY <1>2, <3>1, OtherSteps
    <3>2. ASSUME NEW e \in 1..N PROVE Left(e)'
      <4>1. Left(e) /\ Unobstructed(e)' = Unobstructed(e)
        BY <2>1 DEF LeftInv, Unobstructed
      <4> QED
        BY <2>1, <2>2, <3>3, <4>1 DEF Left
    <3> QED
      BY <2>1, <3>2 DEF LeftInv
  <2>3. CASE runs' # runs
    <3>1. FreshZipFile /\ runs' # 1
      BY <2>1, <2>3, UnzipAssumption DEF FreshZipFile, TaskInv, TypeOK
    <3>2. \A e \in 1..N : wpc'[e] = "idle"
      BY <3>1 DEF FreshZipFile
    <3> QED
      BY <2>1, <3>1, <3>2 DEF LeftInv, Left
  <2> QED
    BY <2>2, <2>3
<1> QED
  BY <1>1, <1>2

(* If nothing is in its way, no write fails and nobody stops the work, a   *)
(* good entry fails only if it is in its place, since an earlier run or    *)
(* because its permissions could not be set.                               *)
LEMMA TaskStaysGood ==
  ASSUME FilesAreDistinct, ParentsAreWritable, TaskInv, DiskInv, DirsInv,
         NEW e \in 1..N, Task(e), Good(e), "write" \notin failing, ~tc.stopped
  PROVE  Good(e)'
<1> DEFINE n == entries[e].name
<1>0. /\ wpc \in [1..N -> WorkerPc] /\ n \in Name /\ N' = N /\ UNCHANGED entries
      /\ entries[e].kind \in {"file", "dir", "special"} /\ final \in [Name -> 0..N]
      /\ Unobstructed(e)' = Unobstructed(e) /\ dirs \subseteq dirs'
  <2>1. N' = N /\ UNCHANGED entries /\ dirs \subseteq dirs'
    BY TaskTouches
  <2> QED
    BY <2>1, DiskFacts DEF Unobstructed
<1> SUFFICES ASSUME entries[e].flaw = "none", Unobstructed(e)
             PROVE  wpc'[e] # "unlink" /\ (wpc'[e] = "failed" => InPlace(e)')
  BY <1>0 DEF Good
<1>1. /\ wpc[e] # "unlink" /\ (wpc[e] = "failed" => InPlace(e))
      /\ wpc[e] \in Extracting => entries[e].kind = "file"
      /\ wpc[e] = "make" => entries[e].kind = "special"
      /\ Named(n) /\ OwnFile(e)
  BY <1>0 DEF Good, TaskInv, StageInv, DiskInv
<1>f. ASSUME final[n] # 0, entries[e].kind # "dir" PROVE final[n] = e
  <2>1. PICK i \in 0..N : i = final[n]
    BY <1>0
  <2>2. i \in 1..N /\ entries[i].kind # "dir" /\ entries[i].name = n
    BY <1>1, <1>f, <2>1 DEF Named
  <2> QED
    BY <1>f, <2>1, <2>2, SameFile
<1>2. entries[e].kind # "dir" => n \notin dirs
  BY NotObstructed
<1>3. MayWrite(entries[e].parent)
  BY ParentWritable
<1> HIDE DEF n
<1>4. CASE MakeDirs(e)
  <2>1. wpc'[e] # "failed"
    BY <1>4, MakeDirsSucceeds
  <2>2. wpc'[e] \in {"failed", "perms", "check", "make"}
    BY <1>0, <1>4 DEF MakeDirs, Goes
  <2> QED
    BY <2>1, <2>2
<1>5. CASE CheckTarget(e)
  <2>1. PICK found \in MayBeFound(n) : Goes(e, IF found THEN "failed" ELSE "open")
    BY <1>5 DEF CheckTarget, n
  <2>2. UNCHANGED final /\ entries[e].kind = "file"
    BY <1>1, <1>5 DEF CheckTarget, diskVars, Extracting
  <2>3. found => final[n] = e
    BY <1>2, <1>f, <2>1, <2>2 DEF MayBeFound
  <2>4. wpc'[e] = IF found THEN "failed" ELSE "open"
    BY <1>0, <1>5, <2>1 DEF CheckTarget, Goes
  <2> QED
    BY <1>0, <2>2, <2>3, <2>4 DEF InPlace, n
<1>6. CASE OpenTmp(e) \/ WriteChunk(e) \/ Verify(e) \/ Close(e)
  <2>1. wpc'[e] \in {"write", "verify", "close", "rename"}
    BY <1>0, <1>3, <1>6 DEF OpenTmp, WriteChunk, Verify, Close, Goes
  <2> QED
    BY <2>1
<1>7. CASE WriteStops(e) \/ Unlink(e)
  BY <1>1, <1>7 DEF WriteStops, Unlink
<1>8. CASE Rename(e)
  <2>1. MayRename(e)
    BY <1>0, <1>1, <1>2, <1>3, <1>8 DEF Rename, MayRename, OwnFile, Holding, Extracting, n
  <2> QED
    BY <1>0, <1>8, <2>1 DEF Rename, Goes
<1>9. CASE MakeSpecial(e)
  <2>1. \/ wpc'[e] = "perms"
        \/ wpc'[e] = "failed" /\ UNCHANGED final /\ final[n] # 0
    BY <1>0, <1>1, <1>2, <1>3, <1>9 DEF MakeSpecial, Goes, n
  <2>2. entries[e].kind = "special"
    BY <1>1, <1>9 DEF MakeSpecial
  <2> QED
    BY <1>0, <1>f, <2>1, <2>2 DEF InPlace, n
<1>10. CASE SetPermissions(e)
  <2>1. wpc[e] = "perms" /\ wpc'[e] \in {"ok", "failed"} /\ UNCHANGED <<dirs, final>>
    BY <1>0, <1>10 DEF SetPermissions, Goes
  <2>2. InPlace(e)
    BY <1>1, <2>1 DEF InPlace, OwnFile, TaskInv, StageInv
  <2> QED
    BY <1>0, <2>1, <2>2 DEF InPlace
<1> QED
  BY <1>4, <1>5, <1>6, <1>7, <1>8, <1>9, <1>10 DEF Task

(* A stop is only forgotten with the run that was stopped. *)
LEMMA StopStays ==
  ASSUME TaskInv, [Next]_vars, tc.stopped
  PROVE  tc'.stopped \/ FreshZipFile
<1>1. tc \in Control(1..N) /\ N \in Nat
  BY DiskFacts DEF TaskInv, TypeOK
<1>2. tc' = tc \/ FreshZipFile \/ (\E s \in TaskState : tc' = [tc EXCEPT !.state = s])
      \/ (\E total \in Nat : tc' = [tc EXCEPT !.total = total, !.state = "RUNNING"])
      \/ tc' = [tc EXCEPT !.stopped = TRUE]
      \/ (\E i \in 1..Len(futures) : tc' = Report(futures[i]))
  <2>1. Main => \/ tc' = tc \/ (\E s \in TaskState : tc' = [tc EXCEPT !.state = s])
                \/ (\E i \in 1..Len(futures) : tc' = Report(futures[i]))
    <3>1. ScanFutures => tc' = tc \/ \E i \in 1..Len(futures) : tc' = Report(futures[i])
      <4>1. Len(futures) \in Nat /\ at \in 1..(NumThreads + 1) /\ NumThreads \in Nat
        BY LenProperties, UnzipAssumption DEF TaskInv, TypeOK
      <4> QED
        BY <4>1 DEF ScanFutures
    <3>2. CollectResult => \E i \in 1..Len(futures) : tc' = Report(futures[i])
      <4> SUFFICES ASSUME CollectResult PROVE \E i \in 1..Len(futures) : tc' = Report(futures[i])
        OBVIOUS
      <4>1. futures \in Seq(1..N) /\ futures # << >> /\ Distinct(futures)
        BY DEF CollectResult, TaskInv, TypeOK, VectorInv
      <4>2. 1 \in 1..Len(futures) /\ Head(futures) = futures[1]
        BY <4>1, TailDistinct
      <4> QED
        BY <4>2 DEF CollectResult
    <3>3. SetFinished => \E s \in TaskState : tc' = [tc EXCEPT !.state = s]
      BY DEF SetFinished, SetState, TaskState
    <3> QED
      BY <3>1, <3>2, <3>3 DEF Main, MapArchive, WaitForSlot, CheckStop, LaunchTask
  <2>2. (\E e \in 1..N : Task(e)) => tc' = tc
    BY DEF Task, MakeDirs, CheckTarget, OpenTmp, WriteChunk, WriteStops, Verify, Unlink, Close,
           Rename, MakeSpecial, SetPermissions
  <2>3. User \/ Menu \/ UserStop \/ Kill =>
          \/ tc' = tc \/ FreshZipFile \/ tc' = [tc EXCEPT !.stopped = TRUE]
          \/ tc' = [tc EXCEPT !.total = N, !.state = "RUNNING"]
    BY <1>1 DEF User, Menu, UserStop, Kill, Unzip, WaitIsOver, Join, Quit, OpenFile, Reserve,
                SetState, Stop
  <2> QED
    BY <1>1, <2>1, <2>2, <2>3 DEF Next, Over, vars
<1>3. \A i \in 1..Len(futures) : Report(futures[i]).stopped = tc.stopped
  BY <1>1 DEF Report, AddSuccess, AddFailure, Control
<1> QED
  BY <1>1, <1>2, <1>3 DEF Control

(* What a good entry may fail of is inductive: all that stops it is that   *)
(* it is in place already.                                                 *)
LEMMA GoodInvNext ==
  ASSUME FilesAreDistinct, ParentsAreWritable
  PROVE  TaskInv /\ DiskInv /\ DirsInv /\ GoodInv /\ [Next]_vars => GoodInv'
<1> SUFFICES ASSUME TaskInv, DiskInv, DirsInv, GoodInv, [Next]_vars,
                    "write" \notin failing', ~tc'.stopped
             PROVE  (\A e \in 1..N : Good(e))'
  BY DEF GoodInv
<1>1. ASSUME NEW e \in 1..N, Task(e) PROVE (\A o \in 1..N : Good(o))'
  <2>1. /\ N' = N /\ UNCHANGED <<entries, failing, tc>> /\ dirs \subseteq dirs'
        /\ \A o \in 1..N \ {e} : wpc'[o] = wpc[o]
        /\ \A n \in Name \ {entries[e].name} : final'[n] = final[n]
        /\ entries[e].kind = "dir" => UNCHANGED final
    BY <1>1, TaskTouches
  <2>2. \A o \in 1..N : Good(o)
    BY <2>1 DEF GoodInv
  <2>3. ASSUME NEW o \in 1..N PROVE Good(o)'
    <3>1. CASE o = e
      BY <1>1, <2>1, <2>2, <3>1, TaskStaysGood
    <3>2. CASE o # e
      <4>1. entries[o].kind # "dir" => final'[entries[o].name] = final[entries[o].name]
        <5>1. CASE entries[e].kind = "dir"
          BY <2>1, <5>1
        <5>2. CASE entries[e].kind # "dir"
          <6>1. entries[o].kind # "dir" => entries[o].name # entries[e].name
            BY <3>2, <5>2, SameFile
          <6>2. entries[o].name \in Name
            BY DiskFacts
          <6> QED
            BY <2>1, <6>1, <6>2
        <5> QED
          BY <5>1, <5>2
      <4>2. wpc'[o] = wpc[o] /\ Unobstructed(o)' = Unobstructed(o)
        BY <2>1, <3>2 DEF Unobstructed
      <4> QED
        BY <2>1, <2>2, <4>1, <4>2 DEF Good, InPlace
    <3> QED
      BY <3>1, <3>2
  <2> QED
    BY <2>1, <2>3
<1>2. ASSUME ~\E e \in 1..N : Task(e) PROVE (\A o \in 1..N : Good(o))'
  <2>1. /\ N' = N /\ UNCHANGED <<entries, failing, final, dirs>>
        /\ \A e \in 1..N : \/ wpc'[e] = wpc[e]
                           \/ wpc[e] = "idle" /\ wpc'[e] = "dirs"
                           \/ wpc'[e] = "idle"
    BY <1>2, OtherSteps
  <2>2. CASE FreshZipFile
    <3>1. \A e \in 1..N : wpc'[e] = "idle"
      BY <2>2 DEF FreshZipFile
    <3> QED
      BY <2>1, <3>1 DEF Good
  <2>3. CASE ~FreshZipFile
    <3>1. ~tc.stopped
      BY <2>3, StopStays
    <3>2. \A e \in 1..N : Good(e)
      BY <2>1, <3>1 DEF GoodInv
    <3>3. \A e \in 1..N : Good(e)'
      <4> SUFFICES ASSUME NEW e \in 1..N PROVE Good(e)'
        OBVIOUS
      <4>1. Unobstructed(e)' = Unobstructed(e) /\ Good(e)
        BY <2>1, <3>2 DEF Unobstructed
      <4> QED
        BY <2>1, <4>1 DEF Good, InPlace
    <3> QED
      BY <2>1, <3>3
  <2> QED
    BY <2>2, <2>3
<1> QED
  BY <1>1, <1>2

(* The remaining invariants hold before the first run. *)
LEMMA RestInvInit == Init => DirsInv /\ LeftInv /\ GoodInv
<1> SUFFICES ASSUME Init PROVE DirsInv /\ LeftInv /\ GoodInv
  OBVIOUS
<1>1. \A e \in 1..N : wpc[e] = "idle" /\ tmp[entries[e].name] = 0
  BY TaskInvInit, DiskFacts DEF Init
<1>2. DirsInv
  BY DEF Init, DirsInv
<1> QED
  BY <1>1, <1>2 DEF LeftInv, Left, GoodInv, Good

-----------------------------------------------------------------------------
(* No task leaves its temporary file behind, not even that of a run that   *)
(* was killed: the next run removes it, whether or not it succeeds.        *)
THEOREM TasksLeaveNothing ==
  ASSUME NamesAreDistinct, ParentsAreWritable
  PROVE  Spec => []NoLeftovers
<1>0. FilesAreDistinct
  BY NamesDistinct
<1> DEFINE I == TaskInv /\ DiskInv /\ DirsInv /\ LeftInv
<1>1. Init => I
  BY TaskInvInit, DiskInvInit, RestInvInit
<1>2. I /\ [Next]_vars => I'
  BY <1>0, TaskInvNext, DiskInvNext, DirsInvNext, LeftInvNext
<1>3. I => NoLeftovers
  <2> SUFFICES ASSUME I, NEW e \in 1..N, Ready(e), runs = 1 \/ Unobstructed(e)
               PROVE  tmp[entries[e].name] = 0
    BY DEF NoLeftovers
  <2>0. entries[e].name \in Name /\ e # 0
    BY DiskFacts
  <2>1. /\ Left(e) /\ OwnFile(e) /\ Named(entries[e].name)
        /\ wpc[e] \in {"ok", "failed"}
    BY <2>0 DEF LeftInv, DiskInv, Ready
  <2> QED
    BY <2>0, <2>1 DEF Left, OwnFile, Named
<1> QED
  BY <1>1, <1>2, <1>3, PTL DEF Spec

(* A run that ends by itself completes what others have left: each good    *)
(* entry with nothing in its way is in its place, extracted or found there.*)
THEOREM RerunsComplete ==
  ASSUME FilesAreDistinct, ParentsAreWritable
  PROVE  Spec => []RerunCompletes
<1> DEFINE I == TaskInv /\ DiskInv /\ DirsInv /\ GoodInv
<1>1. Init => I
  BY TaskInvInit, DiskInvInit, RestInvInit
<1>2. I /\ [Next]_vars => I'
  BY TaskInvNext, DiskInvNext, DirsInvNext, GoodInvNext
<1>3. I => RerunCompletes
  <2> SUFFICES ASSUME I, tc.state = "FINISHED", ~tc.stopped, "write" \notin failing,
                      NEW e \in 1..N, entries[e].flaw = "none", Unobstructed(e)
               PROVE  InPlace(e)
    BY DEF RerunCompletes, InPlace
  <2>1. /\ pc = "returned" /\ futures = << >> /\ next = N + 1 /\ N \in Nat
    BY DiskFacts DEF TaskInv, PhaseInv, VectorInv
  <2>2. e \in ReportedIn(tc)
    <3>1. ToSet(futures) = {}
      BY <2>1 DEF ToSet
    <3>2. 1..(next - 1) = 1..N
      BY <2>1
    <3> QED
      BY <3>1, <3>2 DEF TaskInv, ReportInv
  <2>3. wpc[e] \in {"ok", "failed"}
    BY <2>2 DEF TaskInv, ReportInv, ReportedIn
  <2>4. wpc[e] = "failed" => InPlace(e)
    BY DEF GoodInv, Good
  <2>5. wpc[e] = "ok" => InPlace(e)
    BY DEF DiskInv, OwnFile, InPlace, TaskInv, StageInv
  <2> QED
    BY <2>3, <2>4, <2>5
<1> QED
  BY <1>1, <1>2, <1>3, PTL DEF Spec

-----------------------------------------------------------------------------
(* ImplementsUnpacking: what each step means to who counts whole files.    *)

(* What is under a name is whole, so that it is found there.               *)
LEMMA WholeFound ==
  ASSUME NEW n \in Name, TaskInv, DiskInv, ContentInv
  PROVE  Found(n) = final[n]
<1>1. CASE final[n] = 0
  BY <1>1 DEF Found
<1>2. CASE final[n] # 0
  <2>1. PICK e \in 1..N : e = final[n]
    BY <1>2, DiskFacts
  <2>2. entries[e].name = n
    BY <1>2, <2>1 DEF DiskInv, Named
  <2>3. entries[e].kind = "file" => content[e] = Whole(e)
    BY <2>1, <2>2 DEF ContentInv, Written
  <2> QED
    BY <1>2, <2>1, <2>3 DEF Found
<1> QED
  BY <1>1, <1>2

TargetIsFinal == [n \in Name |-> Found(n)] = final

(* What a reader of the disk finds under a name, a whole file or nothing,  *)
(* is what the name refers to.                                             *)
LEMMA FilesAreFound == TaskInv /\ DiskInv /\ ContentInv => TargetIsFinal
BY WholeFound, DiskFacts DEF TargetIsFinal

(* A step of a task: its file appears, or it succeeds, or it fails, or     *)
(* nothing can be seen.                                                    *)
LEMMA TaskUnpacks ==
  ASSUME FilesAreDistinct, TaskInv, DiskInv, TargetIsFinal, TargetIsFinal',
         NEW e \in 1..N, Task(e)
  PROVE  [Unpack!UnpackNext]_(Unpack!unpackVars)
<1> DEFINE n == entries[e].name
           named == [o \in NonDirs |-> entries[o].name]
           fate == [o \in NonDirs |-> Fate(o)]
<1>1. /\ N' = N /\ UNCHANGED <<entries, tc>> /\ NonDirs' = NonDirs
      /\ \A o \in 1..N \ {e} : wpc'[o] = wpc[o]
      /\ entries[e].kind = "dir" => UNCHANGED final
  <2>1. N' = N /\ UNCHANGED <<entries, tc>>
    BY TaskTouches
  <2> QED
    BY <2>1, TaskTouches DEF NonDirs
<1>2. /\ wpc \in [1..N -> WorkerPc] /\ n \in Name /\ final \in [Name -> 0..N]
      /\ tmp \in [Name -> 0..N]
  BY DiskFacts
<1>3. tc.state # "FINISHED"
  <2>1. wpc[e] \notin {"idle", "ok", "failed"}
    BY DEF Task, MakeDirs, CheckTarget, OpenTmp, WriteChunk, WriteStops, Verify, Unlink, Close,
           Rename, MakeSpecial, SetPermissions
  <2> QED
    BY <2>1, FinishedQuietly DEF QuietWhenFinished
<1>4. UNCHANGED named
  BY <1>1
<1>5. \A o \in NonDirs \ {e} : Fate(o)' = Fate(o)
  BY <1>1 DEF NonDirs, Fate, Ready
<1>6. CASE entries[e].kind = "dir"
  <2>1. UNCHANGED fate
    <3>1. e \notin NonDirs
      BY <1>6 DEF NonDirs
    <3> QED
      BY <1>1, <1>5, <3>1
  <2> QED
    BY <1>1, <1>4, <1>6, <2>1 DEF Unpack!unpackVars, TargetIsFinal
<1>7. CASE entries[e].kind # "dir"
  <2>0. e \in NonDirs /\ e # 0
    BY <1>7, DiskFacts DEF NonDirs
  <2>1. ASSUME NEW f, Fate(e)' = f
        PROVE  fate' = [fate EXCEPT ![e] = f]
    BY <1>1, <1>5, <2>0, <2>1
  <2>2. CASE UNCHANGED final /\ Fate(e)' = Fate(e)
    <3>1. UNCHANGED fate
      BY <1>1, <1>5, <2>2
    <3> QED
      BY <1>1, <1>4, <2>2, <3>1 DEF Unpack!unpackVars, TargetIsFinal
  <2>3. CASE /\ Fate(e) = "waiting" /\ Fate(e)' = "extracted"
             /\ final[n] = 0 /\ final' = [final EXCEPT ![n] = e]
    <3>1. Unpack!Extract(e)
      BY <1>1, <1>3, <1>4, <2>0, <2>1, <2>3 DEF Unpack!Extract, TargetIsFinal
    <3> QED
      BY <2>0, <3>1 DEF Unpack!UnpackNext, Unpack!Entries
  <2>4. CASE Fate(e) \in {"waiting", "extracted"} /\ Fate(e)' = "failed" /\ UNCHANGED final
    <3>1. Unpack!Fail(e)
      BY <1>1, <1>3, <1>4, <2>0, <2>1, <2>4 DEF Unpack!Fail, TargetIsFinal
    <3> QED
      BY <2>0, <3>1 DEF Unpack!UnpackNext, Unpack!Entries
  <2>5. CASE Fate(e) = "extracted" /\ Fate(e)' = "ok" /\ UNCHANGED final
    <3>1. Unpack!Succeed(e)
      BY <1>1, <1>3, <1>4, <2>0, <2>1, <2>5 DEF Unpack!Succeed, TargetIsFinal
    <3> QED
      BY <2>0, <3>1 DEF Unpack!UnpackNext, Unpack!Entries
  <2>6. CASE Rename(e)
    <3>1. wpc[e] = "rename" /\ tmp[n] = e /\ final[n] = 0
      BY <2>6 DEF Rename, DiskInv, OwnFile, Extracting, Holding
    <3>2. \/ wpc'[e] = "perms" /\ final' = [final EXCEPT ![n] = e]
          \/ wpc'[e] = "unlink" /\ UNCHANGED final
      BY <1>2, <2>6, <3>1 DEF Rename, Goes
    <3> QED
      BY <2>2, <2>3, <3>1, <3>2 DEF Fate, Ready
  <2>7. CASE MakeSpecial(e)
    <3>1. \/ wpc'[e] = "perms" /\ final' = [final EXCEPT ![n] = e] /\ final[n] = 0
          \/ wpc'[e] = "failed" /\ UNCHANGED final
      BY <1>2, <2>7 DEF MakeSpecial, Goes
    <3>2. wpc[e] = "make"
      BY <2>7 DEF MakeSpecial
    <3> QED
      BY <2>3, <2>4, <3>1, <3>2 DEF Fate, Ready
  <2>8. CASE SetPermissions(e)
    <3>1. wpc[e] = "perms" /\ wpc'[e] \in {"ok", "failed"} /\ UNCHANGED final
      BY <1>2, <2>8 DEF SetPermissions, Goes
    <3> QED
      BY <2>4, <2>5, <3>1 DEF Fate, Ready
  <2>9. CASE CheckTarget(e)
    <3>1. PICK found \in MayBeFound(n) : Goes(e, IF found THEN "failed" ELSE "open")
      BY <2>9 DEF CheckTarget
    <3>2. wpc[e] = "check" /\ wpc'[e] \in {"failed", "open"} /\ UNCHANGED final
      BY <1>2, <2>9, <3>1 DEF CheckTarget, Goes, diskVars
    <3> QED
      BY <2>2, <2>4, <3>2 DEF Fate, Ready
  <2>10. CASE \/ MakeDirs(e) \/ OpenTmp(e) \/ WriteChunk(e) \/ WriteStops(e) \/ Verify(e)
              \/ Unlink(e) \/ Close(e)
    <3>1. wpc[e] \in {"dirs", "open", "write", "verify", "unlink", "close"} /\ UNCHANGED final
      BY <2>10 DEF MakeDirs, OpenTmp, WriteChunk, WriteStops, Verify, Unlink, Close, diskVars
    <3>2. ~(MakeDirs(e) /\ wpc'[e] = "perms")
      BY <1>2, <1>7 DEF MakeDirs, Goes
    <3>3. wpc'[e] \in {"failed", "check", "make", "write", "verify", "unlink", "close", "rename"}
      BY <1>2, <2>10, <3>2
         DEF MakeDirs, OpenTmp, WriteChunk, WriteStops, Verify, Unlink, Close, Goes
    <3> QED
      BY <2>2, <2>4, <3>1, <3>3 DEF Fate, Ready
  <2> QED
    BY <2>6, <2>7, <2>8, <2>9, <2>10 DEF Task
<1> QED
  BY <1>6, <1>7

(* Any other step: the run ends, or another begins, or nothing can be seen.*)
LEMMA OthersUnpack ==
  ASSUME TaskInv, TaskInv', TargetIsFinal, TargetIsFinal', [Next]_vars, ~\E e \in 1..N : Task(e)
  PROVE  [Unpack!UnpackNext]_(Unpack!unpackVars)
<1> DEFINE named == [o \in NonDirs |-> entries[o].name]
           fate == [o \in NonDirs |-> Fate(o)]
<1>1. /\ N' = N /\ UNCHANGED <<entries, final>> /\ NonDirs' = NonDirs
  <2>1. N' = N /\ UNCHANGED <<entries, final>>
    BY OtherSteps
  <2> QED
    BY <2>1 DEF NonDirs
<1>2. UNCHANGED named
  BY <1>1
<1>3. CASE FreshZipFile
  <2>1. tc'.state # "FINISHED" /\ \A o \in 1..N : wpc'[o] = "idle"
    BY <1>3 DEF FreshZipFile, NewControl
  <2>2. \A o \in NonDirs : Fate(o)' = "waiting"
    BY <2>1 DEF NonDirs, Fate, Ready
  <2>3. Unpack!Again
    BY <1>1, <1>2, <2>1, <2>2 DEF Unpack!Again, Unpack!Entries, TargetIsFinal
  <2> QED
    BY <2>3 DEF Unpack!UnpackNext
<1>4. CASE ~FreshZipFile
  <2>1. \A o \in NonDirs : Fate(o)' = Fate(o)
    <3>1. \A o \in 1..N : wpc'[o] = wpc[o] \/ (wpc[o] = "idle" /\ wpc'[o] = "dirs")
      BY <1>4, OtherSteps
    <3> QED
      BY <3>1 DEF NonDirs, Fate, Ready
  <2>2. UNCHANGED fate
    BY <1>1, <2>1
  <2>3. CASE SetFinished
    <3>1. pc = "collect" /\ pc' = "returned"
      BY <2>3 DEF SetFinished
    <3>2. tc.state # "FINISHED" /\ tc'.state = "FINISHED"
      BY <3>1 DEF TaskInv, PhaseInv
    <3>3. Unpack!Finish
      BY <1>1, <1>2, <2>2, <3>2 DEF Unpack!Finish, TargetIsFinal
    <3> QED
      BY <3>3 DEF Unpack!UnpackNext
  <2>4. CASE ~SetFinished
    <3>1. pc = "returned" <=> pc' = "returned"
      <4>1. MayReserve(tc) => pc = "idle"
        BY DEF MayReserve, TaskInv, PhaseInv
      <4> QED
        BY <1>4, <2>4, <4>1
           DEF Next, User, Menu, Main, Kill, UserStop, Over, Unzip, WaitIsOver, Join, Quit,
               OpenFile, MapArchive, WaitForSlot, ScanFutures, CheckStop, LaunchTask,
               CollectResult, vars
    <3>2. (tc.state = "FINISHED") = (tc'.state = "FINISHED")
      BY <3>1 DEF TaskInv, PhaseInv
    <3> QED
      BY <1>1, <1>2, <2>2, <3>2 DEF Unpack!unpackVars, TargetIsFinal
  <2> QED
    BY <2>3, <2>4
<1> QED
  BY <1>3, <1>4

(* Refinement: the system calls of all tasks, in any order, and over runs  *)
(* that are killed, stopped or repeated, make whole files appear, each in  *)
(* one step, and nothing after the end.                                    *)
THEOREM UnpackingIsImplemented ==
  ASSUME FilesAreDistinct, "flush" \notin Faults
  PROVE  Spec => ImplementsUnpacking
<1> DEFINE I == TaskInv /\ DiskInv /\ ContentInv /\ TargetIsFinal
<1>1. Init => I
  BY TaskInvInit, DiskInvInit, ContentInvInit, FilesAreFound
<1>2. I /\ [Next]_vars => I'
  <2>1. TaskInv /\ DiskInv /\ ContentInv /\ [Next]_vars => TaskInv' /\ DiskInv' /\ ContentInv'
    BY TaskInvNext, DiskInvNext, ContentInvNext
  <2> QED
    BY <2>1, FilesAreFound, PTL
<1>3. Init => Unpack!UnpackInit
  <2> SUFFICES ASSUME Init PROVE Unpack!UnpackInit
    OBVIOUS
  <2>1. \A n \in Name : Found(n) = 0
    BY DEF Init, Found
  <2>2. \A o \in NonDirs : Fate(o) = "waiting"
    BY DEF Init, Fate, Ready, NonDirs
  <2>3. tc.state # "FINISHED"
    BY DEF Init, NewControl
  <2> QED
    BY <2>1, <2>2, <2>3 DEF Unpack!UnpackInit, Unpack!Entries
<1>4. I /\ I' /\ [Next]_vars => [Unpack!UnpackNext]_(Unpack!unpackVars)
  BY TaskUnpacks, OthersUnpack
<1> QED
  BY <1>1, <1>2, <1>3, <1>4, PTL DEF Spec, ImplementsUnpacking, Unpack!UnpackSpec
=============================================================================
