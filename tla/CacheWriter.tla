---------------------------- MODULE CacheWriter ----------------------------
(***************************************************************************)
(* The deferred cache writes of src/src/runtime/cache_writer.rs and the    *)
(* file writes they make (runtime/cache/mod.rs): callers hand jobs to one  *)
(* worker thread over a bounded channel, a full channel sends the job to   *)
(* the blocking pool instead, PENDING counts what is not finished, and     *)
(* main waits for it to reach zero, for two seconds at most, before it     *)
(* exits with whatever threads still run. The process may also end before: *)
(* rendering fails, the user stops it. Its end is not an action: any state *)
(* may be the last, and the next process finds `disk` as it is there.      *)
(*                                                                         *)
(* Every caller runs inside the tokio runtime and the worker never drops   *)
(* its receiver (a panic aborts the process), so try_send answers Ok or    *)
(* Full and a full channel always means spawn_blocking.                    *)
(***************************************************************************)
EXTENDS Integers, Sequences, FiniteSets

CONSTANTS
  Job,         \* deferred writes
  Path,        \* cache files
  Files,       \* Job -> the files it writes, in order
  Caller,      \* tasks that defer writes: main and background revalidations
  Main,        \* the task that runs the scan, renders and exits
  Script,      \* Caller -> the jobs it defers, in order
  QueueCap,    \* CACHE_WRITE_QUEUE
  Faulty       \* jobs whose file operations may fail

ASSUME JobAssumption ==
  /\ IsFiniteSet(Job)
  /\ Files \in [Job -> Seq(Path)]
  /\ Job \cap {"none", "empty", "torn"} = {}

ASSUME CallerAssumption ==
  /\ Main \in Caller
  /\ Script \in [Caller -> Seq(Job)]
  /\ \A c, d \in Caller : \A i \in DOMAIN Script[c], k \in DOMAIN Script[d] :
       Script[c][i] = Script[d][k] => c = d /\ i = k

ASSUME QueueAssumption == QueueCap \in Nat \ {0} /\ Faulty \subseteq Job

Place == {"new",        \* not deferred yet
          "counted",    \* PENDING counts it, not yet handed over
          "queued",     \* in the channel
          "worker",     \* run by the worker thread
          "pool",       \* run by a thread of the blocking pool
          "done"}

\* A cache file: missing, truncated by an open, the complete bytes of a job,
\* or bytes that decode as nothing (part of a write, or two writes mixed).
Content == Job \cup {"none", "empty", "torn"}

VARIABLES
  pending,     \* PENDING
  channel,     \* the sync_channel
  place,       \* Job -> Place
  filesDone,   \* Job -> how many of its files it has dealt with
  opened,      \* jobs that have their next file open
  disk,        \* Path -> Content
  deadline,    \* the two seconds of flush are over
  flush,       \* "before", "waiting" or "returned"
  \* history
  sent,        \* jobs in the order of their try_send
  overflowed,  \* jobs that met a full channel
  broken,      \* jobs one of whose file operations failed
  drained,     \* flush returned because PENDING was zero
  late         \* jobs deferred after that

hist == <<sent, overflowed, broken, drained, late>>
vars == <<pending, channel, place, filesDone, opened, disk, deadline, flush, hist>>

-----------------------------------------------------------------------------
(* defer                                                                   *)

JobsOf(c) == {Script[c][i] : i \in DOMAIN Script[c]}

\* Caller c goes on to its i-th job when it has handed over those before.
IsNext(c, i) ==
  /\ place[Script[c][i]] = "new"
  /\ \A k \in 1 .. i - 1 : place[Script[c][k]] \notin {"new", "counted"}

HandedAll(c) == \A j \in JobsOf(c) : place[j] \notin {"new", "counted"}

Count(c) ==
  /\ \E i \in DOMAIN Script[c] :
       /\ IsNext(c, i)
       /\ place' = [place EXCEPT ![Script[c][i]] = "counted"]
       /\ late' = IF drained THEN late \cup {Script[c][i]} ELSE late
  /\ pending' = pending + 1
  /\ UNCHANGED <<channel, filesDone, opened, disk, deadline, flush, sent,
                 overflowed, broken, drained>>

Full == Len(channel) >= QueueCap

\* Mutant: the newest job is run first.
Enqueued_Front(j) == <<j>> \o channel

Enqueued(j) == Append(channel, j)

SendOk(j) ==
  /\ place[j] = "counted"
  /\ ~Full
  /\ channel' = Enqueued(j)
  /\ place' = [place EXCEPT ![j] = "queued"]
  /\ sent' = Append(sent, j)
  /\ UNCHANGED <<pending, filesDone, opened, disk, deadline, flush, overflowed,
                 broken, drained, late>>

\* Mutant: a full channel is taken for the end of the job.
SendFull_Uncounts(j) ==
  /\ place[j] = "counted"
  /\ Full
  /\ place' = [place EXCEPT ![j] = "pool"]
  /\ pending' = pending - 1
  /\ sent' = Append(sent, j)
  /\ overflowed' = overflowed \cup {j}
  /\ UNCHANGED <<channel, filesDone, opened, disk, deadline, flush, broken,
                 drained, late>>

\* Mutant: the job that met a full channel is lost.
SendFull_Drops(j) ==
  /\ place[j] = "counted"
  /\ Full
  /\ place' = [place EXCEPT ![j] = "queued"]
  /\ sent' = Append(sent, j)
  /\ overflowed' = overflowed \cup {j}
  /\ UNCHANGED <<pending, channel, filesDone, opened, disk, deadline, flush, broken,
                 drained, late>>

\* defer_overflow: a thread of the pool runs the job, beside the worker.
SendFull(j) ==
  /\ place[j] = "counted"
  /\ Full
  /\ place' = [place EXCEPT ![j] = "pool"]
  /\ sent' = Append(sent, j)
  /\ overflowed' = overflowed \cup {j}
  /\ UNCHANGED <<pending, channel, filesDone, opened, disk, deadline, flush, broken,
                 drained, late>>

-----------------------------------------------------------------------------
(* Running a job                                                           *)

WorkerTake ==
  /\ channel # <<>>
  /\ \A j \in Job : place[j] # "worker"
  /\ place' = [place EXCEPT ![Head(channel)] = "worker"]
  /\ channel' = Tail(channel)
  /\ UNCHANGED <<pending, filesDone, opened, disk, deadline, flush, hist>>

Running(j) == place[j] \in {"worker", "pool"}

\* Mutant: a job ends with its first file.
JobEnded_FirstFile(j) == filesDone[j] >= 1 \/ filesDone[j] = Len(Files[j])

JobEnded(j) == filesDone[j] = Len(Files[j])

FileOf(j) == Files[j][filesDone[j] + 1]

Opening(j) == Running(j) /\ ~JobEnded(j) /\ j \notin opened
Writing(j) == Running(j) /\ ~JobEnded(j) /\ j \in opened

\* Mutant: the file is opened without truncating it.
OpenFile_Keeps(j) ==
  /\ Opening(j)
  /\ opened' = opened \cup {j}
  /\ UNCHANGED <<pending, channel, place, filesDone, disk, deadline, flush, hist>>

\* write_private_file opens with truncate.
OpenFile(j) ==
  /\ Opening(j)
  /\ disk' = [disk EXCEPT ![FileOf(j)] = "empty"]
  /\ opened' = opened \cup {j}
  /\ UNCHANGED <<pending, channel, place, filesDone, deadline, flush, hist>>

\* The directory or the file cannot be created: write_bytes ignores it.
OpenFails(j) ==
  /\ Opening(j)
  /\ j \in Faulty
  /\ filesDone' = [filesDone EXCEPT ![j] = @ + 1]
  /\ broken' = broken \cup {j}
  /\ UNCHANGED <<pending, channel, place, opened, disk, deadline, flush,
                 sent, overflowed, drained, late>>

FileClosed(j) ==
  /\ filesDone' = [filesDone EXCEPT ![j] = @ + 1]
  /\ opened' = opened \ {j}

\* write_all puts the bytes at offset 0. On top of what another open file
\* has written meanwhile, the end of a longer content shows behind them.
WriteFile(j) ==
  /\ Writing(j)
  /\ \E c \in IF disk[FileOf(j)] = "empty" THEN {j} ELSE {j, "torn"} :
       disk' = [disk EXCEPT ![FileOf(j)] = c]
  /\ FileClosed(j)
  /\ UNCHANGED <<pending, channel, place, deadline, flush, hist>>

\* write_all fails half way: ignored too.
WriteFails(j) ==
  /\ Writing(j)
  /\ j \in Faulty
  /\ disk' = [disk EXCEPT ![FileOf(j)] = "torn"]
  /\ FileClosed(j)
  /\ broken' = broken \cup {j}
  /\ UNCHANGED <<pending, channel, place, deadline, flush,
                 sent, overflowed, drained, late>>

\* write() has returned: PENDING goes down.
FinishJob(j) ==
  /\ Running(j)
  /\ JobEnded(j)
  /\ place' = [place EXCEPT ![j] = "done"]
  /\ pending' = pending - 1
  /\ UNCHANGED <<channel, filesDone, opened, disk, deadline, flush, hist>>

-----------------------------------------------------------------------------
(* flush and the end of the process                                        *)

FlushStart ==
  /\ flush = "before"
  /\ HandedAll(Main)
  /\ flush' = "waiting"
  /\ UNCHANGED <<pending, channel, place, filesDone, opened, disk, deadline, hist>>

DeadlinePasses ==
  /\ flush = "waiting"
  /\ ~deadline
  /\ deadline' = TRUE
  /\ UNCHANGED <<pending, channel, place, filesDone, opened, disk, flush, hist>>

\* Mutant: flush waits for the writes, however long.
FlushDone_NoDeadline == pending = 0

FlushDone == ~(pending > 0 /\ ~deadline)

FlushReturn ==
  /\ flush = "waiting"
  /\ FlushDone
  /\ flush' = "returned"
  /\ drained' = (pending = 0)
  /\ UNCHANGED <<pending, channel, place, filesDone, opened, disk, deadline, sent,
                 overflowed, broken, late>>

Init ==
  /\ pending = 0
  /\ channel = <<>>
  /\ place = [j \in Job |-> "new"]
  /\ filesDone = [j \in Job |-> 0]
  /\ opened = {}
  /\ disk = [p \in Path |-> "none"]
  /\ deadline = FALSE
  /\ flush = "before"
  /\ sent = <<>> /\ overflowed = {} /\ broken = {} /\ drained = FALSE /\ late = {}

Send(j) == SendOk(j) \/ SendFull(j)

FileStep(j) == OpenFile(j) \/ OpenFails(j) \/ WriteFile(j) \/ WriteFails(j)

RunJob(j) == FileStep(j) \/ FinishJob(j)

Flush == FlushStart \/ DeadlinePasses \/ FlushReturn

Next ==
  \/ \E c \in Caller : Count(c)
  \/ \E j \in Job : Send(j) \/ RunJob(j)
  \/ WorkerTake
  \/ Flush

\* Time passes and main runs. The disk may hang: this says nothing of jobs.
MainFairness ==
  WF_vars(Flush) /\ WF_vars(Count(Main)) /\ WF_vars(\E j \in JobsOf(Main) : Send(j))

\* Some task, some thread with a job and the worker run when they can, and
\* file operations return. Jobs are finite, so no thread need be singled out.
ThreadFairness ==
  /\ WF_vars(\E c \in Caller : Count(c))
  /\ WF_vars(\E j \in Job : Send(j))
  /\ WF_vars(\E j \in Job : RunJob(j))
  /\ WF_vars(WorkerTake)

Spec == Init /\ [][Next]_vars /\ MainFairness

-----------------------------------------------------------------------------
(* Properties                                                              *)

Outstanding == {j \in Job : place[j] \notin {"new", "done"}}

Writers(p) == {j \in Job : \E i \in DOMAIN Files[j] : Files[j][i] = p}

\* Every variable has its type; the channel never holds more than its bound.
TypeOK ==
  /\ pending \in Int
  /\ channel \in Seq(Job) /\ Len(channel) <= QueueCap
  /\ place \in [Job -> Place]
  /\ filesDone \in [Job -> Nat]
  /\ opened \in SUBSET Job
  /\ disk \in [Path -> Content]
  /\ deadline \in BOOLEAN /\ drained \in BOOLEAN
  /\ flush \in {"before", "waiting", "returned"}
  /\ sent \in Seq(Job)
  /\ overflowed \in SUBSET Job /\ broken \in SUBSET Job /\ late \in SUBSET Job

\* PENDING is exactly the number of writes deferred and not finished, on
\* whichever of the three ways they are: it never wraps below zero and never
\* stays up when the last write is over.
PendingExact == pending = Cardinality(Outstanding)

\* When flush returns because PENDING is zero, every file of every write that
\* was deferred before then is complete on disk and stays so, unless a file
\* operation on it failed, a write deferred later is at it, or one of its
\* writers met a full channel and ran beside the worker.
DrainedIsDurable ==
  drained =>
    \A j \in Job : \A i \in DOMAIN Files[j] :
      LET p == Files[j][i]
      IN  j \notin late /\ place[j] # "new" =>
            \/ disk[p] \in Writers(p)
            \/ Writers(p) \cap (broken \cup late \cup overflowed) # {}

\* A file that decodes as nothing (and so loses what was cached there) is
\* being written at this moment, or was when the process ended, or an
\* operation on it failed, or two writers ran at it side by side, which only
\* a full channel can bring about.
TornHasCause ==
  \A p \in Path : disk[p] \in {"empty", "torn"} =>
    \E j \in Writers(p) :
      \/ Writing(j) /\ FileOf(j) = p
      \/ j \in broken
      \/ j \in overflowed /\ Writers(p) # {j}

SentBefore(j, k) ==
  \E a, b \in DOMAIN sent : a < b /\ sent[a] = j /\ sent[b] = k

\* The caller that hands over its result last is the one whose result stays:
\* once the newer of two writes has opened a file, the older one's bytes are
\* not seen there, unless one of the two met a full channel.
NewerStays ==
  \A p \in Path : \A j, k \in Writers(p) :
    SentBefore(j, k) /\ {j, k} \cap (overflowed \cup broken) = {} =>
      \A i \in DOMAIN Files[k] :
        /\ Files[k][i] = p
        /\ filesDone[k] >= i \/ (filesDone[k] = i - 1 /\ k \in opened)
        => disk[p] # j

\* A scan is never kept from exiting by the cache: flush returns even when no
\* file operation ever does.
FlushReturns == <>(flush = "returned")

\* When threads run and the disk answers, every deferred write is carried out
\* in a process that lives long enough: neither a full channel nor a failed
\* file operation loses a job.
EveryWriteEnds ==
  ThreadFairness => \A j \in Job : place[j] = "counted" ~> place[j] = "done"
=============================================================================
