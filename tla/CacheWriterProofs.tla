------------------------- MODULE CacheWriterProofs -------------------------
(***************************************************************************)
(* Proofs about CacheWriter, for any jobs, callers, files and queue bound. *)
(* The inductive invariant says where jobs are (Places), that PENDING      *)
(* counts them, what their steps leave on disk (OnDisk), and that jobs     *)
(* that met no full channel end in the order they were sent (Ordered).     *)
(***************************************************************************)
EXTENDS CacheWriter, FiniteSetTheorems, TLAPS

\* The channel holds each of its jobs once, and only jobs that wait in it.
QueuedOnce ==
  /\ \A i \in DOMAIN channel : place[channel[i]] = "queued"
  /\ \A i, k \in DOMAIN channel : channel[i] = channel[k] => i = k

OneWorker == \A j, k \in Job : place[j] = "worker" /\ place[k] = "worker" => j = k

PoolOverflowed == \A j \in Job : place[j] = "pool" => j \in overflowed

\* A job goes through its files from the first to the last.
FilesInOrder == \A j \in Job :
  /\ filesDone[j] <= Len(Files[j])
  /\ place[j] = "done" => JobEnded(j)
  /\ j \in opened => place[j] \in {"worker", "pool"} /\ ~JobEnded(j)

Places == TypeOK /\ QueuedOnce /\ OneWorker /\ PoolOverflowed /\ FilesInOrder

\* Nothing went wrong with p so far: no writer of p failed, and those that
\* ran in the pool have no other beside them.
Clean(p) == \A k \in Writers(p) :
  k \notin broken /\ (k \in overflowed => Writers(p) = {k})

BeingWritten(p) == \E k \in Job : Writing(k) /\ FileOf(k) = p

Truncated == \A j \in Job : Writing(j) /\ Clean(FileOf(j)) => disk[FileOf(j)] = "empty"

Written == \A j \in Job : \A i \in DOMAIN Files[j] :
  Clean(Files[j][i]) /\ filesDone[j] >= i =>
    disk[Files[j][i]] \in Writers(Files[j][i]) \/ BeingWritten(Files[j][i])

TornInWriting == \A p \in Path :
  Clean(p) /\ disk[p] \in {"empty", "torn"} => BeingWritten(p)

DrainedAll == drained => \A j \in Job : place[j] \in {"new", "done"} \/ j \in late

OnDisk == Truncated /\ Written /\ TornInWriting

IInv == Places /\ PendingExact /\ OnDisk /\ DrainedAll

-----------------------------------------------------------------------------
(* Where jobs are                                                          *)

LEMMA FilesType ==
  ASSUME NEW j \in Job, NEW i \in 1 .. Len(Files[j])
  PROVE  /\ Len(Files[j]) \in Nat
         /\ DOMAIN Files[j] = 1 .. Len(Files[j])
         /\ Files[j][i] \in Path
         /\ j \in Writers(Files[j][i])
BY JobAssumption DEF Writers

LEMMA CurrentFile ==
  ASSUME Places, NEW j \in Job, Running(j), ~JobEnded(j)
  PROVE  /\ filesDone[j] + 1 \in 1 .. Len(Files[j])
         /\ FileOf(j) \in Path
         /\ j \in Writers(FileOf(j))
<1>1. /\ filesDone[j] \in Nat
      /\ filesDone[j] <= Len(Files[j])
      /\ filesDone[j] # Len(Files[j])
  BY DEF Places, TypeOK, FilesInOrder, JobEnded
<1>2. Files[j] \in Seq(Path)
  BY JobAssumption
<1>3. filesDone[j] + 1 \in 1 .. Len(Files[j])
  BY <1>1, <1>2
<1> QED BY <1>3, FilesType DEF FileOf

LEMMA ScriptType ==
  ASSUME NEW c \in Caller, NEW i \in DOMAIN Script[c]
  PROVE  Script[c][i] \in Job
BY CallerAssumption

LEMMA PlacesInit == Init => Places
<1> SUFFICES ASSUME Init PROVE Places
  OBVIOUS
<1>1. TypeOK
  <2>1. /\ pending \in Int
        /\ channel \in Seq(Job) /\ sent \in Seq(Job) /\ Len(channel) <= QueueCap
        /\ filesDone \in [Job -> Nat]
    BY QueueAssumption DEF Init
  <2>2. place \in [Job -> Place] /\ disk \in [Path -> Content]
    BY DEF Init, Place, Content
  <2>3. deadline \in BOOLEAN /\ drained \in BOOLEAN
    BY DEF Init
  <2>4. /\ flush \in {"before", "waiting", "returned"}
        /\ opened \in SUBSET Job
        /\ overflowed \in SUBSET Job /\ broken \in SUBSET Job /\ late \in SUBSET Job
    BY DEF Init
  <2> QED BY <2>1, <2>2, <2>3, <2>4 DEF TypeOK
<1>2. QueuedOnce /\ OneWorker /\ PoolOverflowed
  BY DEF Init, QueuedOnce, OneWorker, PoolOverflowed
<1>3. FilesInOrder
  BY JobAssumption DEF Init, FilesInOrder
<1> QED BY <1>1, <1>2, <1>3 DEF Places

LEMMA PlacesCount ==
  ASSUME Places, NEW c \in Caller, Count(c)
  PROVE  Places'
<1>1. PICK i \in DOMAIN Script[c] :
        /\ IsNext(c, i)
        /\ place' = [place EXCEPT ![Script[c][i]] = "counted"]
        /\ late' = IF drained THEN late \cup {Script[c][i]} ELSE late
  BY DEF Count
<1> DEFINE j == Script[c][i]
<1>2. j \in Job /\ place[j] = "new"
  BY <1>1, ScriptType DEF IsNext
<1> HIDE DEF j
<1>3. place' = [place EXCEPT ![j] = "counted"] /\ late' \in {late, late \cup {j}}
  BY <1>1 DEF j
<1>4. UNCHANGED <<channel, filesDone, opened, disk, deadline, flush, sent,
                  overflowed, broken, drained>> /\ pending' = pending + 1
  BY DEF Count
<1>5. TypeOK'
  BY <1>2, <1>3, <1>4 DEF Places, TypeOK, Place
<1>6. QueuedOnce'
  BY <1>2, <1>3, <1>4 DEF Places, TypeOK, QueuedOnce
<1>7. OneWorker' /\ PoolOverflowed'
  BY <1>2, <1>3, <1>4 DEF Places, TypeOK, OneWorker, PoolOverflowed
<1>8. FilesInOrder'
  BY <1>2, <1>3, <1>4 DEF Places, TypeOK, FilesInOrder, JobEnded
<1> QED BY <1>5, <1>6, <1>7, <1>8 DEF Places

LEMMA PlacesSendOk ==
  ASSUME Places, NEW j \in Job, SendOk(j)
  PROVE  Places'
<1> USE DEF SendOk, Enqueued
<1>1. TypeOK'
  BY QueueAssumption DEF Places, TypeOK, Place, Full
<1>2. QueuedOnce'
  <2>1. \A i \in DOMAIN channel : channel[i] \in Job /\ channel[i] # j
    BY DEF Places, TypeOK, QueuedOnce
  <2>2. /\ DOMAIN channel' = 1 .. Len(channel) + 1
        /\ DOMAIN channel = 1 .. Len(channel)
        /\ Len(channel) \in Nat
        /\ \A i \in 1 .. Len(channel) : channel'[i] = channel[i]
        /\ channel'[Len(channel) + 1] = j
    BY DEF Places, TypeOK
  <2> QED BY <2>1, <2>2 DEF Places, TypeOK, QueuedOnce
<1>3. OneWorker' /\ PoolOverflowed'
  BY DEF Places, TypeOK, OneWorker, PoolOverflowed
<1>4. FilesInOrder'
  BY DEF Places, TypeOK, FilesInOrder, JobEnded
<1> QED BY <1>1, <1>2, <1>3, <1>4 DEF Places

LEMMA PlacesSendFull ==
  ASSUME Places, NEW j \in Job, SendFull(j)
  PROVE  Places'
<1> USE DEF SendFull
<1>1. TypeOK'
  BY DEF Places, TypeOK, Place
<1>2. QueuedOnce'
  BY DEF Places, TypeOK, QueuedOnce
<1>3. OneWorker' /\ PoolOverflowed'
  BY DEF Places, TypeOK, OneWorker, PoolOverflowed
<1>4. FilesInOrder'
  BY DEF Places, TypeOK, FilesInOrder, JobEnded
<1> QED BY <1>1, <1>2, <1>3, <1>4 DEF Places

LEMMA HeadQueued ==
  ASSUME Places, channel # <<>>
  PROVE  /\ Head(channel) \in Job
         /\ place[Head(channel)] = "queued"
         /\ \A i \in DOMAIN Tail(channel) :
              /\ i + 1 \in DOMAIN channel
              /\ Tail(channel)[i] = channel[i + 1]
              /\ Tail(channel)[i] \in Job
              /\ Tail(channel)[i] # Head(channel)
BY DEF Places, TypeOK, QueuedOnce

LEMMA PlacesWorkerTake ==
  ASSUME Places, WorkerTake
  PROVE  Places'
<1> DEFINE j == Head(channel)
<1>1. /\ j \in Job
      /\ place[j] = "queued"
      /\ \A i \in DOMAIN Tail(channel) :
           /\ i + 1 \in DOMAIN channel
           /\ Tail(channel)[i] = channel[i + 1]
           /\ Tail(channel)[i] \in Job
           /\ Tail(channel)[i] # j
  BY HeadQueued DEF WorkerTake
<1>2. /\ channel' = Tail(channel)
      /\ place' = [place EXCEPT ![j] = "worker"]
      /\ \A k \in Job : place[k] # "worker"
      /\ UNCHANGED <<pending, filesDone, opened, disk, deadline, flush, hist>>
  BY DEF WorkerTake
<1>3. Tail(channel) \in Seq(Job) /\ Len(Tail(channel)) <= QueueCap
  BY QueueAssumption DEF Places, TypeOK, WorkerTake
<1> HIDE DEF j
<1>4. TypeOK'
  BY <1>1, <1>2, <1>3 DEF Places, TypeOK, Place, hist
<1>5. QueuedOnce'
  <2>1. \A i \in DOMAIN channel' : place'[channel'[i]] = "queued"
    BY <1>1, <1>2 DEF Places, TypeOK, QueuedOnce
  <2>2. ASSUME NEW a \in DOMAIN channel', NEW b \in DOMAIN channel', channel'[a] = channel'[b]
        PROVE  a = b
    <3>1. a \in Nat /\ b \in Nat
      BY <1>2, <1>3
    <3>2. channel[a + 1] = channel[b + 1] /\ a + 1 \in DOMAIN channel /\ b + 1 \in DOMAIN channel
      BY <1>1, <1>2, <2>2
    <3>3. a + 1 = b + 1
      BY <3>2 DEF Places, QueuedOnce
    <3> QED BY <3>1, <3>3
  <2> QED BY <2>1, <2>2 DEF QueuedOnce
<1>6. OneWorker' /\ PoolOverflowed'
  BY <1>1, <1>2 DEF Places, TypeOK, OneWorker, PoolOverflowed, hist
<1>7. FilesInOrder'
  BY <1>1, <1>2 DEF Places, TypeOK, FilesInOrder, JobEnded
<1> QED BY <1>4, <1>5, <1>6, <1>7 DEF Places

LEMMA PlacesFileStep ==
  ASSUME Places, NEW j \in Job, FileStep(j)
  PROVE  /\ Places'
         /\ UNCHANGED <<pending, channel, place, overflowed, drained, late>>
<1>1. /\ UNCHANGED <<pending, channel, place, deadline, flush, sent, overflowed, drained, late>>
      /\ filesDone' \in {filesDone, [filesDone EXCEPT ![j] = @ + 1]}
      /\ opened' \in {opened, opened \cup {j}, opened \ {j}}
      /\ broken' \in {broken, broken \cup {j}}
      /\ Running(j) /\ ~JobEnded(j)
  BY DEF FileStep, OpenFile, OpenFails, WriteFile, WriteFails, Opening, Writing,
         FileClosed, hist
<1>2. filesDone[j] + 1 \in 1 .. Len(Files[j])
  BY <1>1, CurrentFile
<1>3. \E c \in Content : disk' = [disk EXCEPT ![FileOf(j)] = c] \/ disk' = disk
  BY DEF FileStep, OpenFile, OpenFails, WriteFile, WriteFails, Content
<1>4. disk' \in [Path -> Content]
  BY <1>3 DEF Places, TypeOK
<1>5. TypeOK'
  <2>1. filesDone' \in [Job -> Nat]
    <3>1. filesDone \in [Job -> Nat]
      BY DEF Places, TypeOK
    <3> QED BY <1>1, <3>1
  <2>2. opened' \in SUBSET Job /\ broken' \in SUBSET Job
    <3>1. opened \in SUBSET Job /\ broken \in SUBSET Job
      BY DEF Places, TypeOK
    <3> QED BY <1>1, <3>1
  <2>3. deadline' \in BOOLEAN /\ drained' \in BOOLEAN
    BY <1>1 DEF Places, TypeOK
  <2> QED BY <1>1, <1>4, <2>1, <2>2, <2>3 DEF Places, TypeOK
<1>6. QueuedOnce' /\ OneWorker' /\ PoolOverflowed'
  BY <1>1 DEF Places, QueuedOnce, OneWorker, PoolOverflowed
<1>7. FilesInOrder'
  <2>1. \/ filesDone' = filesDone /\ opened' = opened \cup {j}
        \/ filesDone' = [filesDone EXCEPT ![j] = @ + 1] /\ j \notin opened' /\ opened' \subseteq opened
    BY DEF FileStep, OpenFile, OpenFails, WriteFile, WriteFails, Opening, FileClosed
  <2> QED BY <1>1, <1>2, <2>1 DEF Places, TypeOK, FilesInOrder, JobEnded, Running
<1> QED BY <1>1, <1>5, <1>6, <1>7 DEF Places

LEMMA PlacesFinish ==
  ASSUME Places, NEW j \in Job, FinishJob(j)
  PROVE  Places'
<1> USE DEF FinishJob, Running, hist
<1>1. TypeOK'
  BY DEF Places, TypeOK, Place
<1>2. QueuedOnce'
  BY DEF Places, TypeOK, QueuedOnce
<1>3. OneWorker' /\ PoolOverflowed'
  BY DEF Places, TypeOK, OneWorker, PoolOverflowed
<1>4. FilesInOrder'
  BY DEF Places, TypeOK, FilesInOrder, JobEnded
<1> QED BY <1>1, <1>2, <1>3, <1>4 DEF Places

LEMMA PlacesFlush ==
  ASSUME Places, Flush \/ UNCHANGED vars
  PROVE  /\ Places'
         /\ UNCHANGED <<pending, channel, place, filesDone, opened, disk, overflowed, broken, late>>
BY DEF Flush, FlushStart, DeadlinePasses, FlushReturn, vars, hist, Places, TypeOK, QueuedOnce,
       OneWorker, PoolOverflowed, FilesInOrder, JobEnded

LEMMA PlacesStep == Places /\ [Next]_vars => Places'
BY PlacesCount, PlacesSendOk, PlacesSendFull, PlacesWorkerTake, PlacesFileStep,
   PlacesFinish, PlacesFlush DEF Next, Send, RunJob

\* Every variable keeps its type and the channel its bound, whatever the jobs,
\* the callers and the bound are.
THEOREM WriterTypeOK == Spec => []TypeOK
<1>1. Init => Places
  BY PlacesInit
<1>2. Places /\ [Next]_vars => Places'
  BY PlacesStep
<1>3. Places => TypeOK
  BY DEF Places
<1> QED BY <1>1, <1>2, <1>3, PTL DEF Spec

-----------------------------------------------------------------------------
(* PENDING                                                                 *)

LEMMA OutstandingFinite == IsFiniteSet(Outstanding)
BY JobAssumption, FS_Subset DEF Outstanding

LEMMA PendingStep == Places /\ PendingExact /\ [Next]_vars => PendingExact'
<1> SUFFICES ASSUME Places, PendingExact, [Next]_vars PROVE PendingExact'
  OBVIOUS
<1>1. ASSUME NEW c \in Caller, Count(c) PROVE PendingExact'
  <2>1. PICK i \in DOMAIN Script[c] :
          place[Script[c][i]] = "new" /\ place' = [place EXCEPT ![Script[c][i]] = "counted"]
    BY <1>1 DEF Count, IsNext
  <2> DEFINE j == Script[c][i]
  <2>2. j \in Job
    BY ScriptType
  <2> HIDE DEF j
  <2>3. Outstanding' = Outstanding \cup {j} /\ j \notin Outstanding
    BY <2>1, <2>2 DEF Outstanding, Places, TypeOK, j
  <2>4. Cardinality(Outstanding') = Cardinality(Outstanding) + 1
    BY <2>3, OutstandingFinite, FS_AddElement
  <2> QED BY <1>1, <2>4 DEF PendingExact, Count
<1>2. ASSUME NEW j \in Job, Send(j) PROVE PendingExact'
  <2>1. Outstanding' = Outstanding /\ pending' = pending
    BY <1>2 DEF Outstanding, Places, TypeOK, Send, SendOk, SendFull
  <2> QED BY <2>1 DEF PendingExact
<1>3. ASSUME WorkerTake PROVE PendingExact'
  <2>1. Head(channel) \in Job /\ place[Head(channel)] = "queued"
    BY <1>3, HeadQueued DEF WorkerTake
  <2>2. Outstanding' = Outstanding /\ pending' = pending
    BY <1>3, <2>1 DEF Outstanding, Places, TypeOK, WorkerTake
  <2> QED BY <2>2 DEF PendingExact
<1>4. ASSUME NEW j \in Job, FileStep(j) PROVE PendingExact'
  BY <1>4, PlacesFileStep DEF PendingExact, Outstanding
<1>5. ASSUME NEW j \in Job, FinishJob(j) PROVE PendingExact'
  <2>1. Outstanding' = Outstanding \ {j} /\ j \in Outstanding
    BY <1>5 DEF Outstanding, Places, TypeOK, FinishJob, Running
  <2>2. Cardinality(Outstanding') = Cardinality(Outstanding) - 1
    BY <2>1, OutstandingFinite, FS_RemoveElement
  <2> QED BY <1>5, <2>2 DEF PendingExact, FinishJob
<1>6. ASSUME Flush \/ UNCHANGED vars PROVE PendingExact'
  BY <1>6, PlacesFlush DEF PendingExact, Outstanding
<1> QED BY <1>1, <1>2, <1>3, <1>4, <1>5, <1>6 DEF Next, RunJob

LEMMA PendingInit == Init => PendingExact
<1> SUFFICES ASSUME Init PROVE PendingExact
  OBVIOUS
<1>1. Outstanding = {}
  BY DEF Init, Outstanding
<1> QED BY <1>1, FS_EmptySet DEF Init, PendingExact

\* PENDING counts the unfinished writes exactly: flush waits for neither more
\* nor less than what was deferred.
THEOREM WriterPendingExact == Spec => []PendingExact
<1>1. Init => Places /\ PendingExact
  BY PlacesInit, PendingInit
<1>2. Places /\ PendingExact /\ [Next]_vars => Places' /\ PendingExact'
  BY PlacesStep, PendingStep
<1> QED BY <1>1, <1>2, PTL DEF Spec

-----------------------------------------------------------------------------
(* What the files hold                                                     *)

\* Steps that touch no file leave open files open and files as they are.
LEMMA OtherSteps ==
  ASSUME Places, [Next]_vars, ~ \E j \in Job : FileStep(j)
  PROVE  /\ UNCHANGED <<filesDone, opened, disk, broken>>
         /\ overflowed \subseteq overflowed'
         /\ \A j \in Job : Writing(j)' <=> Writing(j)
<1>1. ASSUME NEW c \in Caller, Count(c)
      PROVE  /\ UNCHANGED <<filesDone, opened, disk, broken>>
             /\ overflowed \subseteq overflowed'
             /\ \A j \in Job : place'[j] = place[j] \/ (place[j] = "new" /\ place'[j] = "counted")
  BY <1>1, ScriptType DEF Count, IsNext, Places, TypeOK
<1>2. ASSUME NEW k \in Job, Send(k)
      PROVE  /\ UNCHANGED <<filesDone, opened, disk, broken>>
             /\ overflowed \subseteq overflowed'
             /\ \A j \in Job : place'[j] = place[j] \/ place[j] = "counted"
  BY <1>2 DEF Send, SendOk, SendFull, Places, TypeOK
<1>3. ASSUME WorkerTake
      PROVE  /\ UNCHANGED <<filesDone, opened, disk, broken>>
             /\ overflowed \subseteq overflowed'
             /\ \A j \in Job : place'[j] = place[j] \/ place[j] = "queued"
  BY <1>3, HeadQueued DEF WorkerTake, Places, TypeOK, hist
<1>4. ASSUME NEW k \in Job, FinishJob(k)
      PROVE  /\ UNCHANGED <<filesDone, opened, disk, broken>>
             /\ overflowed \subseteq overflowed'
             /\ \A j \in Job : place'[j] = place[j] \/ (JobEnded(j) /\ place'[j] = "done")
  BY <1>4 DEF FinishJob, Places, TypeOK, hist
<1>5. ASSUME Flush \/ UNCHANGED vars
      PROVE  /\ UNCHANGED <<filesDone, opened, disk, broken>>
             /\ overflowed \subseteq overflowed'
             /\ \A j \in Job : place'[j] = place[j]
  BY <1>5, PlacesFlush
<1>6. /\ UNCHANGED <<filesDone, opened, disk, broken>>
      /\ overflowed \subseteq overflowed'
      /\ \A j \in Job : \/ place'[j] = place[j]
                        \/ place[j] \in {"new", "counted", "queued"}
                        \/ JobEnded(j)
  BY <1>1, <1>2, <1>3, <1>4, <1>5 DEF Next, RunJob
<1>7. ASSUME NEW j \in Job PROVE Writing(j)' <=> Writing(j)
  <2>1. j \in opened => place[j] \in {"worker", "pool"} /\ ~JobEnded(j)
    BY DEF Places, FilesInOrder
  <2>2. j \in opened => place'[j] = place[j]
    BY <1>6, <2>1
  <2> QED BY <1>6, <2>2 DEF Writing, Running, JobEnded
<1> QED BY <1>6, <1>7

\* What is clean after a step was clean before.
LEMMA CleanBefore ==
  ASSUME broken \subseteq broken', overflowed \subseteq overflowed', NEW p, Clean(p)'
  PROVE  Clean(p)
BY DEF Clean, Writers

LEMMA OnDiskOther ==
  ASSUME Places, OnDisk, [Next]_vars, ~ \E j \in Job : FileStep(j)
  PROVE  OnDisk'
<1>1. /\ UNCHANGED <<filesDone, opened, disk, broken>>
      /\ overflowed \subseteq overflowed'
      /\ \A j \in Job : Writing(j)' <=> Writing(j)
  BY OtherSteps
<1>2. \A p : Clean(p)' => Clean(p)
  BY <1>1, CleanBefore
<1>3. \A j \in Job : FileOf(j)' = FileOf(j)
  BY <1>1 DEF FileOf
<1>4. \A p : BeingWritten(p)' <=> BeingWritten(p)
  BY <1>1, <1>3 DEF BeingWritten
<1>5. Truncated'
  BY <1>1, <1>2, <1>3 DEF OnDisk, Truncated
<1>6. Written'
  BY <1>1, <1>2, <1>4 DEF OnDisk, Written, Writers
<1>7. TornInWriting'
  BY <1>1, <1>2, <1>4 DEF OnDisk, TornInWriting
<1> QED BY <1>5, <1>6, <1>7 DEF OnDisk

\* Two jobs never have the same clean file in hand.
LEMMA OneAtAFile ==
  ASSUME Places, NEW j \in Job, NEW k \in Job,
         Running(j), ~JobEnded(j), Running(k), ~JobEnded(k),
         FileOf(j) = FileOf(k), Clean(FileOf(j))
  PROVE  j = k
<1>1. j \in Writers(FileOf(j)) /\ k \in Writers(FileOf(j))
  BY CurrentFile
<1>2. CASE j \in overflowed \/ k \in overflowed
  BY <1>1, <1>2 DEF Clean
<1>3. CASE j \notin overflowed /\ k \notin overflowed
  <2>1. place[j] = "worker" /\ place[k] = "worker"
    BY <1>3 DEF Running, Places, PoolOverflowed
  <2> QED BY <2>1 DEF Places, OneWorker
<1> QED BY <1>2, <1>3

\* The effect of a file step of k: on the file it has in hand, and no other.
LEMMA FileStepEffect ==
  ASSUME Places, NEW k \in Job, FileStep(k)
  PROVE  /\ Running(k) /\ ~JobEnded(k)
         /\ overflowed' = overflowed /\ broken \subseteq broken'
         /\ \A q \in Path : q # FileOf(k) => disk'[q] = disk[q]
         /\ \A j \in Job : j # k =>
              /\ Writing(j)' <=> Writing(j)
              /\ FileOf(j)' = FileOf(j)
              /\ filesDone'[j] = filesDone[j]
         /\ \/ /\ Writing(k)' /\ FileOf(k)' = FileOf(k)
               /\ filesDone'[k] = filesDone[k]
               /\ disk'[FileOf(k)] = "empty"
            \/ /\ k \in broken' /\ ~Writing(k)'
               /\ filesDone'[k] = filesDone[k] + 1
            \/ /\ Writing(k) /\ ~Writing(k)'
               /\ filesDone'[k] = filesDone[k] + 1
               /\ disk[FileOf(k)] = "empty" => disk'[FileOf(k)] = k
<1> DEFINE p == FileOf(k)
<1>1. Running(k) /\ ~JobEnded(k)
  BY DEF FileStep, OpenFile, OpenFails, WriteFile, WriteFails, Opening, Writing
<1>2. p \in Path /\ disk \in [Path -> Content] /\ filesDone \in [Job -> Nat]
  BY <1>1, CurrentFile DEF Places, TypeOK
<1>3. UNCHANGED <<place, overflowed>> /\ broken \subseteq broken'
  BY DEF FileStep, OpenFile, OpenFails, WriteFile, WriteFails, hist
<1>4. \A q \in Path : q # p => disk'[q] = disk[q]
  BY <1>2 DEF FileStep, OpenFile, OpenFails, WriteFile, WriteFails
<1>5. ASSUME NEW j \in Job, j # k
      PROVE  filesDone'[j] = filesDone[j] /\ (j \in opened' <=> j \in opened)
  BY <1>2, <1>5 DEF FileStep, OpenFile, OpenFails, WriteFile, WriteFails, FileClosed
<1>6. ASSUME NEW j \in Job, j # k
      PROVE  (Writing(j)' <=> Writing(j)) /\ FileOf(j)' = FileOf(j)
  BY <1>3, <1>5, <1>6 DEF Writing, Running, JobEnded, FileOf
<1>7. CASE OpenFile(k)
  <2>1. filesDone' = filesDone /\ k \in opened' /\ place' = place
    BY <1>7 DEF OpenFile
  <2>2. Writing(k)' /\ FileOf(k)' = p
    BY <1>1, <2>1 DEF Writing, Running, JobEnded, FileOf
  <2>3. disk'[p] = "empty"
    BY <1>2, <1>7 DEF OpenFile
  <2> QED BY <1>1, <1>3, <1>4, <1>5, <1>6, <2>1, <2>2, <2>3
<1>8. CASE OpenFails(k) \/ WriteFails(k)
  <2>1. k \in broken' /\ k \notin opened' /\ filesDone'[k] = filesDone[k] + 1
    BY <1>2, <1>8 DEF OpenFails, WriteFails, Opening, FileClosed
  <2>2. ~Writing(k)'
    BY <2>1 DEF Writing
  <2> QED BY <1>1, <1>3, <1>4, <1>5, <1>6, <2>1, <2>2
<1>9. CASE WriteFile(k)
  <2>1. Writing(k) /\ k \notin opened' /\ filesDone'[k] = filesDone[k] + 1
    BY <1>2, <1>9 DEF WriteFile, FileClosed
  <2>2. disk[p] = "empty" => disk'[p] = k
    BY <1>2, <1>9 DEF WriteFile
  <2>3. ~Writing(k)'
    BY <2>1 DEF Writing
  <2> QED BY <1>1, <1>3, <1>4, <1>5, <1>6, <2>1, <2>2, <2>3
<1> QED BY <1>7, <1>8, <1>9 DEF FileStep

LEMMA OnDiskFileStep ==
  ASSUME Places, OnDisk, NEW k \in Job, FileStep(k)
  PROVE  OnDisk'
<1>0. PICK p : p = FileOf(k)
  OBVIOUS
<1> DEFINE Opened == /\ Writing(k)' /\ FileOf(k)' = p
                     /\ filesDone'[k] = filesDone[k]
                     /\ disk'[p] = "empty"
           Failed == k \in broken' /\ ~Writing(k)' /\ filesDone'[k] = filesDone[k] + 1
           Wrote == /\ Writing(k) /\ ~Writing(k)'
                    /\ filesDone'[k] = filesDone[k] + 1
                    /\ disk[p] = "empty" => disk'[p] = k
<1>1. /\ Running(k) /\ ~JobEnded(k)
      /\ overflowed' = overflowed /\ broken \subseteq broken'
      /\ \A q \in Path : q # p => disk'[q] = disk[q]
      /\ \A j \in Job : j # k =>
           /\ Writing(j)' <=> Writing(j)
           /\ FileOf(j)' = FileOf(j)
           /\ filesDone'[j] = filesDone[j]
      /\ Opened \/ Failed \/ Wrote
  BY <1>0, FileStepEffect
<1>2. p \in Path /\ k \in Writers(p) /\ filesDone[k] \in Nat
  BY <1>0, <1>1, CurrentFile DEF Places, TypeOK
<1>3. \A q : Clean(q)' => Clean(q)
  BY <1>1, CleanBefore
<1>4. Failed => ~Clean(p)'
  BY <1>2 DEF Clean, Writers
<1>5. Wrote /\ Clean(p)' => disk'[p] = k
  BY <1>0, <1>3 DEF OnDisk, Truncated
<1>6. \A q \in Path : q # p => (BeingWritten(q) => BeingWritten(q)')
  BY <1>0, <1>1 DEF BeingWritten
<1>7. Opened => BeingWritten(p)'
  BY DEF BeingWritten
<1> HIDE DEF Opened, Failed, Wrote
<1>8. Truncated'
  <2> SUFFICES ASSUME NEW j \in Job, (Writing(j) /\ Clean(FileOf(j)))'
               PROVE  (disk[FileOf(j)] = "empty")'
    BY DEF Truncated
  <2>1. CASE j = k
    BY <1>1, <2>1 DEF Opened, Failed, Wrote
  <2>2. CASE j # k
    <3>1. Writing(j) /\ FileOf(j)' = FileOf(j) /\ Clean(FileOf(j))
      BY <1>1, <1>3, <2>2
    <3>2. disk[FileOf(j)] = "empty" /\ FileOf(j) \in Path
      BY <3>1, CurrentFile DEF OnDisk, Truncated, Writing
    <3>3. FileOf(j) # p
      BY <1>0, <1>1, <2>2, <3>1, OneAtAFile DEF Writing
    <3> QED BY <1>1, <3>1, <3>2, <3>3
  <2> QED BY <2>1, <2>2
<1>9. Written'
  <2> SUFFICES ASSUME NEW j \in Job, NEW i \in DOMAIN Files[j],
                      Clean(Files[j][i])', filesDone'[j] >= i
               PROVE  disk'[Files[j][i]] \in Writers(Files[j][i]) \/ BeingWritten(Files[j][i])'
    BY DEF Written, Writers
  <2>1. Files[j][i] \in Path /\ i \in Nat
    BY FilesType, JobAssumption
  <2>2. CASE Files[j][i] = p
    BY <1>1, <1>2, <1>4, <1>5, <1>7, <2>2
  <2>3. CASE Files[j][i] # p
    <3>1. filesDone[j] >= i
      <4>1. CASE j = k
        <5>1. filesDone[k] + 1 # i
          BY <1>0, <2>3, <4>1 DEF FileOf
        <5>2. filesDone'[k] \in {filesDone[k], filesDone[k] + 1}
          BY <1>1 DEF Opened, Failed, Wrote
        <5> QED BY <1>2, <2>1, <4>1, <5>1, <5>2
      <4>2. CASE j # k
        BY <1>1, <4>2
      <4> QED BY <4>1, <4>2
    <3>2. disk[Files[j][i]] \in Writers(Files[j][i]) \/ BeingWritten(Files[j][i])
      BY <1>3, <3>1 DEF OnDisk, Written
    <3> QED BY <1>1, <1>6, <2>1, <2>3, <3>2
  <2> QED BY <2>2, <2>3
<1>10. TornInWriting'
  <2> SUFFICES ASSUME NEW q \in Path, Clean(q)', disk'[q] \in {"empty", "torn"}
               PROVE  BeingWritten(q)'
    BY DEF TornInWriting
  <2>1. CASE q = p
    BY <1>1, <1>4, <1>5, <1>7, <2>1, JobAssumption
  <2>2. CASE q # p
    BY <1>1, <1>3, <1>6, <2>2 DEF OnDisk, TornInWriting
  <2> QED BY <2>1, <2>2
<1> QED BY <1>8, <1>9, <1>10 DEF OnDisk

LEMMA OnDiskInit == Init => OnDisk
<1> SUFFICES ASSUME Init PROVE OnDisk
  OBVIOUS
<1>1. \A j \in Job : ~Writing(j)
  BY DEF Init, Writing
<1>2. ASSUME NEW j \in Job, NEW i \in DOMAIN Files[j] PROVE ~(filesDone[j] >= i)
  BY FilesType, JobAssumption DEF Init
<1>3. \A p \in Path : disk[p] = "none"
  BY DEF Init
<1> QED BY <1>1, <1>2, <1>3 DEF OnDisk, Truncated, Written, TornInWriting

LEMMA OnDiskStep == Places /\ OnDisk /\ [Next]_vars => OnDisk'
BY OnDiskFileStep, OnDiskOther

-----------------------------------------------------------------------------
(* flush                                                                   *)

LEMMA DrainedStep == Places /\ PendingExact /\ DrainedAll /\ [Next]_vars => DrainedAll'
<1> SUFFICES ASSUME Places, PendingExact, DrainedAll, [Next]_vars PROVE DrainedAll'
  OBVIOUS
<1>1. ASSUME NEW c \in Caller, Count(c) PROVE DrainedAll'
  BY <1>1, ScriptType DEF Count, DrainedAll, Places, TypeOK
<1>2. ASSUME NEW j \in Job, Send(j) PROVE DrainedAll'
  BY <1>2 DEF Send, SendOk, SendFull, DrainedAll, Places, TypeOK
<1>3. ASSUME WorkerTake PROVE DrainedAll'
  BY <1>3, HeadQueued DEF WorkerTake, DrainedAll, Places, TypeOK, hist
<1>4. ASSUME NEW j \in Job, FileStep(j) PROVE DrainedAll'
  BY <1>4, PlacesFileStep DEF DrainedAll
<1>5. ASSUME NEW j \in Job, FinishJob(j) PROVE DrainedAll'
  BY <1>5 DEF FinishJob, DrainedAll, Places, TypeOK, hist
<1>6. ASSUME FlushReturn PROVE DrainedAll'
  <2>1. drained' => Outstanding = {}
    BY <1>6, OutstandingFinite, FS_EmptySet DEF FlushReturn, PendingExact
  <2> QED BY <1>6, <2>1 DEF FlushReturn, DrainedAll, Outstanding
<1>7. ASSUME FlushStart \/ DeadlinePasses \/ UNCHANGED vars PROVE DrainedAll'
  BY <1>7 DEF FlushStart, DeadlinePasses, vars, hist, DrainedAll
<1> QED BY <1>1, <1>2, <1>3, <1>4, <1>5, <1>6, <1>7 DEF Next, RunJob, Flush

LEMMA Inductive == Spec => []IInv
<1>1. Init => IInv
  BY PlacesInit, PendingInit, OnDiskInit DEF IInv, Init, DrainedAll
<1>2. IInv /\ [Next]_vars => IInv'
  BY PlacesStep, PendingStep, OnDiskStep, DrainedStep DEF IInv
<1> QED BY <1>1, <1>2, PTL DEF Spec

LEMMA CleanWriters ==
  ASSUME NEW p, Writers(p) \cap (broken \cup overflowed) = {}
  PROVE  Clean(p)
BY DEF Clean

\* A flush that drained has made every write deferred before it durable,
\* with the exceptions DrainedIsDurable names.
THEOREM WriterDrainedIsDurable == Spec => []DrainedIsDurable
<1>1. IInv => DrainedIsDurable
  <2> SUFFICES ASSUME IInv, drained, NEW j \in Job, NEW i \in DOMAIN Files[j],
                      j \notin late, place[j] # "new",
                      Writers(Files[j][i]) \cap (broken \cup late \cup overflowed) = {}
               PROVE  disk[Files[j][i]] \in Writers(Files[j][i])
    BY DEF DrainedIsDurable
  <2>1. i \in 1 .. Len(Files[j])
    BY FilesType, JobAssumption
  <2>2. place[j] = "done" /\ JobEnded(j)
    BY DEF IInv, DrainedAll, Places, FilesInOrder
  <2>3. filesDone[j] >= i
    BY <2>1, <2>2, FilesType DEF JobEnded
  <2>4. Clean(Files[j][i])
    BY CleanWriters
  <2>5. ~BeingWritten(Files[j][i])
    <3> SUFFICES ASSUME NEW k \in Job, Writing(k), FileOf(k) = Files[j][i] PROVE FALSE
      BY DEF BeingWritten
    <3>1. k \in Writers(Files[j][i])
      BY CurrentFile DEF Writing, IInv
    <3>2. place[k] \in {"worker", "pool"}
      BY DEF Writing, Running
    <3>3. k \in late
      BY <3>2 DEF IInv, DrainedAll
    <3> QED BY <3>1, <3>3
  <2> QED BY <2>3, <2>4, <2>5 DEF IInv, OnDisk, Written
<1> QED BY <1>1, Inductive, PTL

\* What was cached is lost only for the causes TornHasCause names.
THEOREM WriterTornHasCause == Spec => []TornHasCause
<1>1. IInv => TornHasCause
  <2> SUFFICES ASSUME IInv, NEW p \in Path, disk[p] \in {"empty", "torn"}
               PROVE  \E j \in Writers(p) :
                        \/ Writing(j) /\ FileOf(j) = p
                        \/ j \in broken
                        \/ j \in overflowed /\ Writers(p) # {j}
    BY DEF TornHasCause
  <2>1. CASE Clean(p)
    <3>1. PICK k \in Job : Writing(k) /\ FileOf(k) = p
      BY <2>1 DEF IInv, OnDisk, TornInWriting, BeingWritten
    <3>2. k \in Writers(p)
      BY <3>1, CurrentFile DEF Writing, IInv
    <3> QED BY <3>1, <3>2
  <2>2. CASE ~Clean(p)
    BY <2>2 DEF Clean
  <2> QED BY <2>1, <2>2
<1> QED BY <1>1, Inductive, PTL

-----------------------------------------------------------------------------
(* The order of two writes                                                 *)

\* Jobs are sent once, and each that waits is in the channel.
SentOnce ==
  /\ \A i \in DOMAIN sent : place[sent[i]] \notin {"new", "counted"}
  /\ \A i, k \in DOMAIN sent : sent[i] = sent[k] => i = k

AllQueued == \A j \in Job : place[j] = "queued" => \E i \in DOMAIN channel : channel[i] = j

NotStarted == \A j \in Job :
  place[j] \in {"new", "counted", "queued"} => filesDone[j] = 0

\* Jobs that met no full channel leave it, and end, in the order of their try_send.
InOrder == \A j, k \in Job \ overflowed : SentBefore(j, k) =>
  /\ \A a, b \in DOMAIN channel : channel[a] = j /\ channel[b] = k => a < b
  /\ place[k] \in {"worker", "done"} => place[j] = "done"

Ordered == SentOnce /\ AllQueued /\ NotStarted /\ InOrder

LEMMA SentType ==
  ASSUME Places, SentOnce, NEW j, NEW k, SentBefore(j, k)
  PROVE  /\ j \in Job /\ k \in Job /\ j # k
         /\ place[j] \notin {"new", "counted"} /\ place[k] \notin {"new", "counted"}
<1>1. PICK a \in DOMAIN sent, b \in DOMAIN sent : a < b /\ sent[a] = j /\ sent[b] = k
  BY DEF SentBefore
<1>2. sent \in Seq(Job)
  BY DEF Places, TypeOK
<1>3. a \in Nat /\ b \in Nat /\ sent[a] \in Job /\ sent[b] \in Job
  BY <1>2
<1>4. a # b
  BY <1>1, <1>3
<1> QED BY <1>1, <1>3, <1>4 DEF SentOnce

LEMMA OrderedInit == Init => Ordered
BY DEF Init, Ordered, SentOnce, AllQueued, NotStarted, InOrder, SentBefore

\* A job that is sent goes behind those sent before it.
LEMMA SentAppend ==
  ASSUME Places, SentOnce, NEW m \in Job, place[m] = "counted", sent' = Append(sent, m),
         place' \in [Job -> Place], place'[m] \notin {"new", "counted"},
         \A j \in Job \ {m} : place'[j] = place[j]
  PROVE  /\ SentOnce'
         /\ \A j, k : SentBefore(j, k)' => SentBefore(j, k) \/ (k = m /\ j # m)
<1>1. sent \in Seq(Job)
  BY DEF Places, TypeOK
<1>2. /\ Len(sent) \in Nat
      /\ DOMAIN sent = 1 .. Len(sent) /\ DOMAIN sent' = 1 .. Len(sent) + 1
      /\ \A i \in 1 .. Len(sent) : sent'[i] = sent[i] /\ sent[i] \in Job
      /\ sent'[Len(sent) + 1] = m
  BY <1>1
<1>3. \A i \in 1 .. Len(sent) : sent[i] # m
  BY <1>2 DEF SentOnce
<1>4. SentOnce'
  BY <1>2, <1>3 DEF SentOnce
<1>5. ASSUME NEW j, NEW k, SentBefore(j, k)' PROVE SentBefore(j, k) \/ (k = m /\ j # m)
  <2>1. PICK a \in DOMAIN sent', b \in DOMAIN sent' : a < b /\ sent'[a] = j /\ sent'[b] = k
    BY <1>5 DEF SentBefore
  <2>2. a \in 1 .. Len(sent) /\ sent[a] = j /\ j # m
    BY <1>2, <1>3, <2>1
  <2>3. CASE b = Len(sent) + 1
    BY <1>2, <2>1, <2>2, <2>3
  <2>4. CASE b # Len(sent) + 1
    <3>1. b \in 1 .. Len(sent) /\ sent[b] = k
      BY <1>2, <2>1, <2>4
    <3> QED BY <1>2, <2>1, <2>2, <3>1 DEF SentBefore
  <2> QED BY <2>3, <2>4
<1> QED BY <1>4, <1>5

LEMMA OrderedSendOk ==
  ASSUME Places, Ordered, NEW m \in Job, SendOk(m)
  PROVE  Ordered'
<1>1. /\ place[m] = "counted" /\ place' = [place EXCEPT ![m] = "queued"]
      /\ channel' = Append(channel, m) /\ sent' = Append(sent, m)
      /\ UNCHANGED <<filesDone, overflowed>>
  BY DEF SendOk, Enqueued
<1>2. place \in [Job -> Place] /\ channel \in Seq(Job)
  BY DEF Places, TypeOK
<1>3. /\ place' \in [Job -> Place] /\ place'[m] = "queued"
      /\ \A j \in Job \ {m} : place'[j] = place[j]
  BY <1>1, <1>2 DEF Place
<1>4. SentOnce' /\ \A j, k : SentBefore(j, k)' => SentBefore(j, k) \/ (k = m /\ j # m)
  BY <1>1, <1>3, SentAppend DEF Ordered
<1>5. /\ Len(channel) \in Nat
      /\ DOMAIN channel = 1 .. Len(channel) /\ DOMAIN channel' = 1 .. Len(channel) + 1
      /\ \A i \in 1 .. Len(channel) : channel'[i] = channel[i]
      /\ channel'[Len(channel) + 1] = m
  BY <1>1, <1>2
<1>6. \A i \in 1 .. Len(channel) : channel[i] # m
  BY <1>1, <1>5 DEF Places, QueuedOnce
<1>7. AllQueued'
  <2> SUFFICES ASSUME NEW j \in Job, place'[j] = "queued"
               PROVE  \E i \in DOMAIN channel' : channel'[i] = j
    BY DEF AllQueued
  <2>1. CASE j = m
    BY <1>5, <2>1
  <2>2. CASE j # m
    <3>1. PICK i \in DOMAIN channel : channel[i] = j
      BY <1>3, <2>2 DEF Ordered, AllQueued
    <3> QED BY <1>5, <3>1
  <2> QED BY <2>1, <2>2
<1>8. NotStarted'
  BY <1>1, <1>3 DEF Ordered, NotStarted
<1>9. InOrder'
  <2> SUFFICES ASSUME NEW j \in Job \ overflowed, NEW k \in Job \ overflowed, SentBefore(j, k)'
               PROVE  /\ \A a, b \in DOMAIN channel' : channel'[a] = j /\ channel'[b] = k => a < b
                      /\ place'[k] \in {"worker", "done"} => place'[j] = "done"
    BY <1>1 DEF InOrder
  <2>1. j # k
    BY <1>4, SentType DEF Ordered
  <2>2. CASE k = m
    BY <1>3, <1>5, <1>6, <2>1, <2>2
  <2>3. CASE k # m
    <3>1. SentBefore(j, k)
      BY <1>4, <2>3
    <3>2. j # m
      BY <1>1, <3>1, SentType DEF Ordered
    <3> QED BY <1>3, <1>5, <1>6, <2>3, <3>1, <3>2 DEF Ordered, InOrder
  <2> QED BY <2>2, <2>3
<1> QED BY <1>4, <1>7, <1>8, <1>9 DEF Ordered

LEMMA OrderedSendFull ==
  ASSUME Places, Ordered, NEW m \in Job, SendFull(m)
  PROVE  Ordered'
<1>1. /\ place[m] = "counted" /\ place' = [place EXCEPT ![m] = "pool"]
      /\ sent' = Append(sent, m) /\ overflowed' = overflowed \cup {m}
      /\ UNCHANGED <<channel, filesDone>>
  BY DEF SendFull
<1>2. place \in [Job -> Place] /\ channel \in Seq(Job)
  BY DEF Places, TypeOK
<1>3. /\ place' \in [Job -> Place] /\ place'[m] = "pool"
      /\ \A j \in Job \ {m} : place'[j] = place[j]
  BY <1>1, <1>2 DEF Place
<1>4. SentOnce' /\ \A j, k : SentBefore(j, k)' => SentBefore(j, k) \/ (k = m /\ j # m)
  BY <1>1, <1>3, SentAppend DEF Ordered
<1>5. AllQueued' /\ NotStarted'
  BY <1>1, <1>3 DEF Ordered, AllQueued, NotStarted
<1>6. InOrder'
  BY <1>1, <1>3, <1>4 DEF Ordered, InOrder
<1> QED BY <1>4, <1>5, <1>6 DEF Ordered

LEMMA OrderedWorkerTake ==
  ASSUME Places, Ordered, WorkerTake
  PROVE  Ordered'
<1>0. PICK h : h = Head(channel)
  OBVIOUS
<1>1. /\ channel # <<>> /\ channel' = Tail(channel)
      /\ place' = [place EXCEPT ![h] = "worker"]
      /\ \A k \in Job : place[k] # "worker"
      /\ UNCHANGED <<filesDone, sent, overflowed>>
  BY <1>0 DEF WorkerTake, hist
<1>2. /\ h \in Job /\ place[h] = "queued"
      /\ \A i \in DOMAIN channel' :
           i + 1 \in DOMAIN channel /\ channel'[i] = channel[i + 1] /\ channel'[i] # h
  BY <1>0, <1>1, HeadQueued
<1>3. channel \in Seq(Job) /\ place \in [Job -> Place]
  BY DEF Places, TypeOK
<1>4. /\ Len(channel) \in Nat \ {0}
      /\ DOMAIN channel = 1 .. Len(channel) /\ channel[1] = h
      /\ DOMAIN channel' = 1 .. Len(channel) - 1
  BY <1>0, <1>1, <1>3
<1>5. \A j \in Job : (j = h /\ place'[j] = "worker") \/ (j # h /\ place'[j] = place[j])
  BY <1>1, <1>3
<1>6. SentOnce'
  <2>1. \A i \in DOMAIN sent : sent[i] \in Job
    BY DEF Places, TypeOK
  <2> QED BY <1>1, <1>5, <2>1 DEF Ordered, SentOnce
<1>7. AllQueued'
  <2> SUFFICES ASSUME NEW j \in Job, place'[j] = "queued"
               PROVE  \E i \in DOMAIN channel' : channel'[i] = j
    BY DEF AllQueued
  <2>1. j # h /\ place[j] = "queued"
    BY <1>5
  <2>2. PICK i \in DOMAIN channel : channel[i] = j
    BY <2>1 DEF Ordered, AllQueued
  <2>3. i - 1 \in DOMAIN channel' /\ i \in Nat /\ (i - 1) + 1 = i
    BY <1>4, <2>1, <2>2
  <2>4. channel'[i - 1] = channel[i]
    BY <1>2, <2>3
  <2> QED BY <2>2, <2>3, <2>4
<1>8. NotStarted'
  BY <1>1, <1>5 DEF Ordered, NotStarted
<1>9. InOrder'
  <2> SUFFICES ASSUME NEW j \in Job \ overflowed, NEW k \in Job \ overflowed, SentBefore(j, k)
               PROVE  /\ \A a, b \in DOMAIN channel' : channel'[a] = j /\ channel'[b] = k => a < b
                      /\ place'[k] \in {"worker", "done"} => place'[j] = "done"
    BY <1>1 DEF InOrder, SentBefore
  <2>0. /\ \A a, b \in DOMAIN channel : channel[a] = j /\ channel[b] = k => a < b
        /\ place[k] \in {"worker", "done"} => place[j] = "done"
    BY DEF Ordered, InOrder
  <2>1. ASSUME NEW a \in DOMAIN channel', NEW b \in DOMAIN channel',
               channel'[a] = j, channel'[b] = k
        PROVE  a < b
    <3>1. /\ a + 1 \in DOMAIN channel /\ b + 1 \in DOMAIN channel
          /\ channel[a + 1] = j /\ channel[b + 1] = k
      BY <1>2, <2>1
    <3>2. a + 1 < b + 1
      BY <2>0, <3>1
    <3>3. a \in Nat /\ b \in Nat
      BY <1>4
    <3> QED BY <3>2, <3>3
  <2>2. ASSUME place'[k] \in {"worker", "done"} PROVE place'[j] = "done"
    <3>1. CASE k = h
      <4>1. j # h /\ place[j] \notin {"new", "counted"}
        BY <3>1, SentType DEF Ordered
      <4>2. place[j] # "queued"
        <5> SUFFICES ASSUME place[j] = "queued" PROVE FALSE
          OBVIOUS
        <5>1. PICK a \in DOMAIN channel : channel[a] = j
          BY DEF Ordered, AllQueued
        <5>2. a < 1
          BY <1>4, <2>0, <3>1, <5>1
        <5> QED BY <1>4, <5>2
      <4>3. place[j] # "pool" /\ place[j] # "worker"
        BY <1>1 DEF Places, PoolOverflowed
      <4>4. place[j] = "done"
        BY <1>3, <4>1, <4>2, <4>3 DEF Place
      <4> QED BY <1>5, <4>1, <4>4
    <3>2. CASE k # h
      <4>1. place[j] = "done"
        BY <1>5, <2>0, <2>2, <3>2
      <4> QED BY <1>2, <1>5, <4>1
    <3> QED BY <3>1, <3>2
  <2> QED BY <2>1, <2>2
<1> QED BY <1>6, <1>7, <1>8, <1>9 DEF Ordered

LEMMA OrderedCount ==
  ASSUME Places, Ordered, NEW c \in Caller, Count(c)
  PROVE  Ordered'
<1>1. PICK m \in Job : place[m] = "new" /\ place' = [place EXCEPT ![m] = "counted"]
  BY ScriptType DEF Count, IsNext
<1>2. UNCHANGED <<channel, filesDone, sent, overflowed>>
  BY DEF Count
<1>3. place \in [Job -> Place] /\ sent \in Seq(Job)
  BY DEF Places, TypeOK
<1>4. \A j \in Job : (j = m /\ place'[j] = "counted") \/ (j # m /\ place'[j] = place[j])
  BY <1>1, <1>3
<1>5. SentOnce'
  <2>1. \A i \in DOMAIN sent : sent[i] \in Job
    BY <1>3
  <2> QED BY <1>1, <1>2, <1>4, <2>1 DEF Ordered, SentOnce
<1>6. AllQueued' /\ NotStarted'
  BY <1>1, <1>2, <1>4 DEF Ordered, AllQueued, NotStarted
<1>7. InOrder'
  <2> SUFFICES ASSUME NEW j \in Job \ overflowed, NEW k \in Job \ overflowed, SentBefore(j, k)
               PROVE  /\ \A a, b \in DOMAIN channel : channel[a] = j /\ channel[b] = k => a < b
                      /\ place'[k] \in {"worker", "done"} => place'[j] = "done"
    BY <1>2 DEF InOrder, SentBefore
  <2>1. place'[k] = place[k] /\ place'[j] = place[j]
    BY <1>1, <1>4, SentType DEF Ordered
  <2> QED BY <2>1 DEF Ordered, InOrder
<1> QED BY <1>5, <1>6, <1>7 DEF Ordered

LEMMA OrderedFinish ==
  ASSUME Places, Ordered, NEW m \in Job, FinishJob(m)
  PROVE  Ordered'
<1>1. Running(m) /\ place' = [place EXCEPT ![m] = "done"]
  BY DEF FinishJob
<1>2. UNCHANGED <<channel, filesDone, sent, overflowed>>
  BY DEF FinishJob, hist
<1>3. place \in [Job -> Place] /\ sent \in Seq(Job)
  BY DEF Places, TypeOK
<1>4. \A j \in Job : (j = m /\ place'[j] = "done") \/ (j # m /\ place'[j] = place[j])
  BY <1>1, <1>3
<1>5. SentOnce'
  <2>1. \A i \in DOMAIN sent : sent[i] \in Job
    BY <1>3
  <2> QED BY <1>2, <1>4, <2>1 DEF Ordered, SentOnce
<1>6. AllQueued' /\ NotStarted'
  BY <1>2, <1>4 DEF Ordered, AllQueued, NotStarted
<1>7. InOrder'
  <2> SUFFICES ASSUME NEW j \in Job \ overflowed, NEW k \in Job \ overflowed, SentBefore(j, k)
               PROVE  /\ \A a, b \in DOMAIN channel : channel[a] = j /\ channel[b] = k => a < b
                      /\ place'[k] \in {"worker", "done"} => place'[j] = "done"
    BY <1>2 DEF InOrder, SentBefore
  <2>1. place'[k] \in {"worker", "done"} => place[k] \in {"worker", "done"}
    BY <1>1, <1>4 DEF Places, PoolOverflowed, Running
  <2>2. place[j] = "done" => place'[j] = "done"
    BY <1>4
  <2> QED BY <2>1, <2>2 DEF Ordered, InOrder
<1> QED BY <1>5, <1>6, <1>7 DEF Ordered

LEMMA OrderedFileStep ==
  ASSUME Places, Ordered, NEW m \in Job, FileStep(m)
  PROVE  Ordered'
<1>1. UNCHANGED <<channel, place, overflowed, sent>> /\ Running(m)
  BY PlacesFileStep, FileStepEffect DEF FileStep, OpenFile, OpenFails, WriteFile, WriteFails, hist
<1>2. \A j \in Job : j # m => filesDone'[j] = filesDone[j]
  BY FileStepEffect
<1>3. NotStarted'
  BY <1>1, <1>2 DEF Ordered, NotStarted, Running
<1> QED BY <1>1, <1>3 DEF Ordered, SentOnce, AllQueued, InOrder, SentBefore

LEMMA OrderedStep == Places /\ Ordered /\ [Next]_vars => Ordered'
<1> SUFFICES ASSUME Places, Ordered, [Next]_vars PROVE Ordered'
  OBVIOUS
<1>1. ASSUME Flush \/ UNCHANGED vars PROVE Ordered'
  <2>1. UNCHANGED <<channel, place, filesDone, overflowed, sent>>
    BY <1>1 DEF Flush, FlushStart, DeadlinePasses, FlushReturn, vars, hist
  <2> QED BY <2>1 DEF Ordered, SentOnce, AllQueued, NotStarted, InOrder, SentBefore
<1> QED BY <1>1, OrderedCount, OrderedSendOk, OrderedSendFull, OrderedWorkerTake,
           OrderedFileStep, OrderedFinish DEF Next, Send, RunJob

\* Job k has opened its i-th file, or is past it.
Reached(k, i) == filesDone[k] >= i \/ (filesDone[k] = i - 1 /\ k \in opened)

LEMMA NewerStaysOther ==
  ASSUME Places, Ordered, NewerStays, [Next]_vars, ~ \E j \in Job : FileStep(j)
  PROVE  NewerStays'
<1>1. UNCHANGED <<filesDone, opened, disk, broken>> /\ overflowed \subseteq overflowed'
  BY OtherSteps
<1>2. ASSUME NEW j, NEW k, SentBefore(j, k)', ~SentBefore(j, k)
      PROVE  k \in Job /\ place[k] = "counted"
  <2>1. PICK m \in Job : Send(m)
    BY <1>2 DEF Next, RunJob, Count, WorkerTake, FinishJob, Flush, FlushStart, DeadlinePasses,
                FlushReturn, vars, hist, SentBefore
  <2>2. /\ place[m] = "counted" /\ sent' = Append(sent, m)
        /\ place' \in {[place EXCEPT ![m] = "queued"], [place EXCEPT ![m] = "pool"]}
    BY <2>1 DEF Send, SendOk, SendFull
  <2>3. place \in [Job -> Place]
    BY DEF Places, TypeOK
  <2>4. /\ place' \in [Job -> Place] /\ place'[m] \notin {"new", "counted"}
        /\ \A i \in Job \ {m} : place'[i] = place[i]
    BY <2>2, <2>3 DEF Place
  <2> QED BY <1>2, <2>2, <2>4, SentAppend DEF Ordered
<1> SUFFICES ASSUME NEW p \in Path, NEW j \in Writers(p), NEW k \in Writers(p),
                    SentBefore(j, k)', {j, k} \cap (overflowed' \cup broken') = {},
                    NEW i \in DOMAIN Files[k], Files[k][i] = p, Reached(k, i)'
             PROVE  disk'[p] # j
  BY DEF NewerStays, Reached, Writers
<1>3. Reached(k, i)
  BY <1>1 DEF Reached
<1>4. SentBefore(j, k)
  <2> SUFFICES ASSUME ~SentBefore(j, k) PROVE FALSE
    OBVIOUS
  <2>1. k \in Job /\ place[k] = "counted"
    BY <1>2
  <2>2. filesDone[k] = 0 /\ k \notin opened
    BY <2>1 DEF Ordered, NotStarted, Places, FilesInOrder
  <2>3. i \in Nat \ {0}
    BY <2>1, FilesType, JobAssumption
  <2> QED BY <1>3, <2>2, <2>3 DEF Reached
<1> QED BY <1>1, <1>3, <1>4 DEF NewerStays, Reached

LEMMA NewerStaysFileStep ==
  ASSUME Places, Ordered, NewerStays, NEW m \in Job, FileStep(m)
  PROVE  NewerStays'
<1>1. /\ Running(m) /\ ~JobEnded(m)
      /\ overflowed' = overflowed /\ broken \subseteq broken' /\ sent' = sent
      /\ \A q \in Path : q # FileOf(m) => disk'[q] = disk[q]
  BY FileStepEffect DEF FileStep, OpenFile, OpenFails, WriteFile, WriteFails, hist
<1>2. \A q \in Path : disk'[q] \in {disk[q], "empty", "torn", m}
  BY <1>1, CurrentFile DEF Places, TypeOK, FileStep, OpenFile, OpenFails, WriteFile, WriteFails
<1>3. ASSUME NEW k \in Job, k # m
      PROVE  filesDone'[k] = filesDone[k] /\ (k \in opened' <=> k \in opened)
  BY <1>3 DEF Places, TypeOK, FileStep, OpenFile, OpenFails, WriteFile, WriteFails, FileClosed
<1> SUFFICES ASSUME NEW p \in Path, NEW j \in Writers(p), NEW k \in Writers(p),
                    SentBefore(j, k)', {j, k} \cap (overflowed' \cup broken') = {},
                    NEW i \in DOMAIN Files[k], Files[k][i] = p, Reached(k, i)'
             PROVE  disk'[p] # j
  BY DEF NewerStays, Reached, Writers
<1>4. /\ SentBefore(j, k) /\ {j, k} \cap (overflowed \cup broken) = {}
      /\ j \in Job /\ k \in Job /\ j # k /\ place[k] \notin {"new", "counted"}
      /\ i \in Nat \ {0} /\ filesDone[k] \in Nat
  <2>1. SentBefore(j, k) /\ {j, k} \cap (overflowed \cup broken) = {}
    BY <1>1 DEF SentBefore
  <2>2. j \in Job /\ k \in Job /\ j # k /\ place[k] \notin {"new", "counted"}
    BY <2>1, SentType DEF Ordered
  <2>3. DOMAIN Files[k] = 1 .. Len(Files[k]) /\ Len(Files[k]) \in Nat
    BY <2>2, JobAssumption
  <2>4. filesDone[k] \in Nat
    BY <2>2 DEF Places, TypeOK
  <2> QED BY <2>1, <2>2, <2>3, <2>4
<1>5. j \notin {"empty", "torn"}
  BY <1>4, JobAssumption
<1>6. CASE m = j
  <2>1. place[j] # "done" /\ place[k] # "pool" /\ k \in Job \ overflowed /\ j \in Job \ overflowed
    BY <1>1, <1>4, <1>6 DEF Running, Places, PoolOverflowed
  <2>2. place[k] \notin {"worker", "done"}
    BY <1>4, <2>1 DEF Ordered, InOrder
  <2>3. place[k] = "queued"
    BY <1>4, <2>1, <2>2 DEF Places, TypeOK, Place
  <2>4. filesDone'[k] = 0 /\ k \notin opened'
    BY <1>3, <1>4, <1>6, <2>3 DEF Ordered, NotStarted, Places, FilesInOrder
  <2> QED BY <1>4, <2>4 DEF Reached
<1>7. CASE m # j /\ Reached(k, i)
  BY <1>2, <1>4, <1>5, <1>7 DEF NewerStays, Reached
<1>8. CASE m # j /\ ~Reached(k, i)
  <2>1. m = k
    BY <1>3, <1>4, <1>8 DEF Reached
  <2>2. disk'[p] = "empty"
    <3>1. ~(OpenFails(k) \/ WriteFails(k))
      BY <1>4 DEF OpenFails, WriteFails
    <3>2. ~WriteFile(k)
      <4> SUFFICES ASSUME WriteFile(k) PROVE FALSE
        OBVIOUS
      <4>1. k \in opened /\ filesDone'[k] = filesDone[k] + 1 /\ k \notin opened'
        BY DEF WriteFile, Writing, FileClosed, Places, TypeOK
      <4> QED BY <1>4, <1>8, <4>1 DEF Reached
    <3>3. OpenFile(k)
      BY <2>1, <3>1, <3>2 DEF FileStep
    <3>4. filesDone'[k] = filesDone[k]
      BY <3>3 DEF OpenFile
    <3>5. filesDone[k] + 1 = i
      BY <1>4, <1>8, <3>4 DEF Reached
    <3>6. FileOf(k) = p
      BY <3>5 DEF FileOf
    <3> QED BY <3>3, <3>6 DEF OpenFile, Places, TypeOK
  <2> QED BY <1>5, <2>2
<1> QED BY <1>6, <1>7, <1>8

LEMMA NewerStaysInit == Init => NewerStays
BY DEF Init, NewerStays, SentBefore

\* Of two writes to one file that the worker carries out, the one handed over
\* last is the one that stays: try_send, the channel and the single worker
\* keep their order, whatever happens beside them.
THEOREM WriterNewerStays == Spec => []NewerStays
<1>1. Init => Places /\ Ordered /\ NewerStays
  BY PlacesInit, OrderedInit, NewerStaysInit
<1>2. Places /\ Ordered /\ NewerStays /\ [Next]_vars => Places' /\ Ordered' /\ NewerStays'
  BY PlacesStep, OrderedStep, NewerStaysOther, NewerStaysFileStep
<1> QED BY <1>1, <1>2, PTL DEF Spec
=============================================================================
