---------------------------- MODULE UploadQueue ----------------------------
(***************************************************************************)
(* The durable upload queue: the SQLite index (storage/db.py), the worker  *)
(* that drains it into S3 (upload/queue.py, with the error classes of      *)
(* upload/s3_client.py and the attempts of utils/retry.py), the segment    *)
(* watchers that feed it (pipeline/ffmpeg_hls.py) and its life cycle:      *)
(* start, drain, crash, restart.                                           *)
(*                                                                         *)
(* A segment stands for its path, which is the UNIQUE key of the index.    *)
(* Every await is a step boundary, so each action below is what one task   *)
(* does between two awaits.  Which pending row the worker picks is the     *)
(* subject of PriorityScheduler; here it may be any of them.               *)
(***************************************************************************)
EXTENDS Integers, FiniteSets

CONSTANTS
  Segment,      \* the .ts paths that ffmpeg may write
  NoSegment,    \* the worker holds no item
  MaxRetries,   \* aws.upload_max_retries
  S3Results,    \* how an upload attempt may end
  DbErrors,     \* TRUE: a write to SQLite may raise (disk full, I/O error)
  MaxStarts     \* bound on the number of process starts

ASSUME NoSegmentAssumption == NoSegment \notin Segment
ASSUME MaxRetriesAssumption == MaxRetries \in Nat
ASSUME S3ResultsAssumption ==
  S3Results \subseteq {"ok", "transient", "permanent", "unclassified"}
ASSUME DbErrorsAssumption == DbErrors \in BOOLEAN
ASSUME MaxStartsAssumption == MaxStarts \in Nat

VARIABLES
  row,        \* state column of the segment's row, "absent" when it has none
  attempts,   \* attempts column
  lastError,  \* last_error column
  disk,       \* the segment's file
  s3,         \* what S3 holds under the segment's key
  victim,     \* the segment the buffer took out of the index and not yet off the disk
  proc,       \* the process: down after a stop or a crash, or in a life-cycle phase
  starts,     \* number of process starts, bounded by MaxStarts
  watch,      \* how far the watcher took the segment in this process
  wake,       \* the asyncio.Event the idle worker waits for
  pc,         \* where the worker task is
  item,       \* the row the worker claimed
  tries,      \* attempt number inside with_retry
  body,       \* what this attempt read from disk
  request,    \* whether S3 has stored what this attempt sent
  reason      \* the error mark_failed is about to record

index    == <<row, attempts, lastError>>
worker   == <<pc, item, tries, body, request, reason>>
files    == <<disk, s3, victim>>
vars     == <<index, files, proc, starts, watch, wake, worker>>

RowState  == {"absent", "pending", "uploading", "uploaded", "failed"}
FileState == {"unwritten", "writing", "complete", "gone"}
Content   == {"none", "partial", "full"}
Phase     == {"stopped", "crashed", "recovering", "up", "draining"}
WatchStep == {"unseen", "seen", "added", "done"}
Failure   == {"missing", "permanent", "exhausted"}
WorkerPc  == {"off", "select", "mark", "none", "wait", "check", "attempt",
              "put", "record", "backoff", "uploaded", "failed"}

TypeOK ==
  /\ row \in [Segment -> RowState]
  /\ attempts \in [Segment -> Nat]
  /\ lastError \in [Segment -> Failure \cup {"none", "transient"}]
  /\ disk \in [Segment -> FileState]
  /\ s3 \in [Segment -> Content]
  /\ victim \in Segment \cup {NoSegment}
  /\ proc \in Phase
  /\ starts \in 0..MaxStarts
  /\ watch \in [Segment -> WatchStep]
  /\ wake \in {"clear", "set"}
  /\ pc \in WorkerPc
  /\ item \in Segment \cup {NoSegment}
  /\ tries \in 0..MaxRetries
  /\ body \in Content
  /\ request \in {"sent", "stored"}
  /\ reason \in Failure \cup {"none"}

OnDisk(s) == disk[s] \in {"writing", "complete"}

\* The worker goes to that point of its loop with nothing in hand.
WorkerTo(step) ==
  /\ pc' = step /\ item' = NoSegment /\ tries' = 0
  /\ body' = "none" /\ request' = "sent" /\ reason' = "none"

Init ==
  /\ row = [s \in Segment |-> "absent"]
  /\ attempts = [s \in Segment |-> 0]
  /\ lastError = [s \in Segment |-> "none"]
  /\ disk = [s \in Segment |-> "unwritten"]
  /\ s3 = [s \in Segment |-> "none"] /\ victim = NoSegment
  /\ proc = "stopped" /\ starts = 0
  /\ watch = [s \in Segment |-> "unseen"]
  /\ wake = "clear"
  /\ pc = "off" /\ item = NoSegment /\ tries = 0
  /\ body = "none" /\ request = "sent" /\ reason = "none"

-----------------------------------------------------------------------------
(* Life cycle                                                              *)

\* The process ends: known_segments, the wake event and the buffer task go with it.
MemoryLost ==
  /\ watch' = [s \in Segment |-> "unseen"] /\ wake' = "clear"
  /\ victim' = NoSegment /\ UNCHANGED <<disk, s3>>

\* Mutants of Recover: the reset forgets its WHERE state='uploading'; no reset.
RecoverResetsAll ==
  /\ proc \in {"stopped", "crashed"} /\ starts < MaxStarts
  /\ proc' = "recovering" /\ starts' = starts + 1
  /\ row' = [s \in Segment |-> IF row[s] = "absent" THEN "absent" ELSE "pending"]
  /\ UNCHANGED <<attempts, lastError, files, watch, wake, worker>>

RecoverResetsNone ==
  /\ proc \in {"stopped", "crashed"} /\ starts < MaxStarts
  /\ proc' = "recovering" /\ starts' = starts + 1
  /\ UNCHANGED <<index, files, watch, wake, worker>>

\* A new process: UploadQueue.start() resets what the last one left uploading.
Recover ==
  /\ proc \in {"stopped", "crashed"} /\ starts < MaxStarts
  /\ proc' = "recovering" /\ starts' = starts + 1
  /\ row' = [s \in Segment |-> IF row[s] = "uploading" THEN "pending" ELSE row[s]]
  /\ UNCHANGED <<attempts, lastError, files, watch, wake, worker>>

\* Mutant of AddSegment: INSERT OR REPLACE.
AddSegmentReplaces(s) == row' = [row EXCEPT ![s] = "pending"]

\* INSERT ... ON CONFLICT(segment_path) DO NOTHING
AddSegment(s) ==
  row' = [row EXCEPT ![s] = IF @ = "absent" THEN "pending" ELSE @]

\* The orphan scan adds one file that has no row.
ScanOrphan(s) ==
  /\ proc = "recovering" /\ OnDisk(s) /\ row[s] = "absent"
  /\ AddSegment(s)
  /\ UNCHANGED <<attempts, lastError, files, proc, starts, watch, wake, worker>>

\* The scan is over: create_task(worker), then the buffer and the pipelines.
Launch ==
  /\ proc = "recovering" /\ \A s \in Segment : OnDisk(s) => row[s] # "absent"
  /\ proc' = "up" /\ WorkerTo("select")
  /\ UNCHANGED <<index, files, starts, watch, wake>>

\* UploadService.stop(): producers and buffer task first, then UploadQueue.stop()
\* clears _running and sets the wake event.
Stop ==
  /\ proc = "up"
  /\ proc' = "draining" /\ wake' = "set" /\ victim' = NoSegment
  /\ UNCHANGED <<index, disk, s3, starts, watch, worker>>

\* while self._running is false at the head of the loop.
WorkerExits ==
  /\ proc = "draining" /\ pc = "select"
  /\ WorkerTo("off")
  /\ UNCHANGED <<index, files, proc, starts, watch, wake>>

\* wait_for() ran out: the worker is cancelled where it stands.  A write that a
\* thread was already executing counts as done before this step.
DrainTimeout ==
  /\ proc = "draining" /\ pc \notin {"off", "select"}
  /\ WorkerTo("off")
  /\ UNCHANGED <<index, files, proc, starts, watch, wake>>

\* Mutant of Stopped: stop() waits until nothing is pending.
StoppedWhenEmpty ==
  /\ proc = "draining" /\ pc = "off" /\ \A s \in Segment : row[s] # "pending"
  /\ proc' = "stopped" /\ MemoryLost
  /\ UNCHANGED <<index, starts, worker>>

Stopped ==
  /\ proc = "draining" /\ pc = "off"
  /\ proc' = "stopped" /\ MemoryLost
  /\ UNCHANGED <<index, starts, worker>>

\* SIGKILL, OOM kill, watchdog abort, failed start: memory is lost, the index is not.
Crash ==
  /\ proc \in {"recovering", "up", "draining"}
  /\ proc' = "crashed" /\ WorkerTo("off") /\ MemoryLost
  /\ UNCHANGED <<index, starts>>

-----------------------------------------------------------------------------
(* Files: written by ffmpeg, and removed by it too (-hls_flags              *)
(* delete_segments drops what has left the playlist, uploaded or not);     *)
(* modelled from the command line that the pipeline builds.                *)

SegmentOpens(s) ==
  /\ proc = "up" /\ disk[s] = "unwritten"
  /\ disk' = [disk EXCEPT ![s] = "writing"]
  /\ UNCHANGED <<index, s3, victim, proc, starts, watch, wake, worker>>

SegmentCloses(s) ==
  /\ proc = "up" /\ disk[s] = "writing"
  /\ disk' = [disk EXCEPT ![s] = "complete"]
  /\ UNCHANGED <<index, s3, victim, proc, starts, watch, wake, worker>>

LeavesPlaylist(s) ==
  /\ proc = "up" /\ disk[s] = "complete"
  /\ disk' = [disk EXCEPT ![s] = "gone"]
  /\ UNCHANGED <<index, s3, victim, proc, starts, watch, wake, worker>>

-----------------------------------------------------------------------------
(* Producers: _segment_watcher and UploadQueue.enqueue                     *)

\* A directory listing shows a path that is not in known_segments.
Detect(s) ==
  /\ proc = "up" /\ OnDisk(s) /\ watch[s] = "unseen"
  /\ watch' = [watch EXCEPT ![s] = "seen"]
  /\ UNCHANGED <<index, files, proc, starts, wake, worker>>

Enqueue(s) ==
  /\ proc = "up" /\ watch[s] = "seen"
  /\ AddSegment(s) /\ watch' = [watch EXCEPT ![s] = "added"]
  /\ UNCHANGED <<attempts, lastError, files, proc, starts, wake, worker>>

\* The callback raised: logged, and the path stays in known_segments.
EnqueueRaises(s) ==
  /\ DbErrors /\ proc = "up" /\ watch[s] = "seen"
  /\ watch' = [watch EXCEPT ![s] = "done"]
  /\ UNCHANGED <<index, files, proc, starts, wake, worker>>

SetWake(s) ==
  /\ proc = "up" /\ watch[s] = "added"
  /\ watch' = [watch EXCEPT ![s] = "done"] /\ wake' = "set"
  /\ UNCHANGED <<index, files, proc, starts, worker>>

-----------------------------------------------------------------------------
(* The buffer: BufferManager._delete_segment, one segment at a time        *)

Forget(s) ==
  /\ row' = [row EXCEPT ![s] = "absent"]
  /\ attempts' = [attempts EXCEPT ![s] = 0]
  /\ lastError' = [lastError EXCEPT ![s] = "none"]
  /\ victim' = s
  /\ UNCHANGED <<disk, s3, proc, starts, watch, wake, worker>>

\* Mutant of DeleteUploaded: the DELETE loses its AND state='uploaded'.
DeleteAny(s) ==
  /\ proc = "up" /\ victim = NoSegment /\ row[s] # "absent"
  /\ Forget(s)

\* DELETE ... WHERE id=? AND state='uploaded'; the file goes in a later step.
DeleteUploaded(s) ==
  /\ proc = "up" /\ victim = NoSegment /\ row[s] = "uploaded"
  /\ Forget(s)

\* unlink(missing_ok=True), whatever has happened to the index since.
Unlink(s) ==
  /\ proc = "up" /\ victim = s
  /\ victim' = NoSegment
  /\ disk' = [disk EXCEPT ![s] = "gone"]
  /\ UNCHANGED <<index, s3, proc, starts, watch, wake, worker>>

\* The unlink raised: logged, and the file stays without a row.
UnlinkRaises(s) ==
  /\ proc = "up" /\ victim = s
  /\ victim' = NoSegment
  /\ UNCHANGED <<index, disk, s3, proc, starts, watch, wake, worker>>

-----------------------------------------------------------------------------
(* The worker: _worker_loop, _claim_next, _process_item                    *)

Pending == {s \in Segment : row[s] = "pending"}

SelectItem ==
  /\ proc = "up" /\ pc = "select"
  /\ \E s \in Pending : item' = s
  /\ pc' = "mark"
  /\ UNCHANGED <<index, files, proc, starts, watch, wake, tries, body, request, reason>>

\* No camera has pending rows, or a query raised: _claim_next yields no item.
SelectNothing ==
  /\ proc = "up" /\ pc = "select" /\ (Pending = {} \/ DbErrors)
  /\ pc' = "none"
  /\ UNCHANGED <<index, files, proc, starts, watch, wake, item, tries, body, request, reason>>

\* UPDATE ... SET state='uploading' WHERE id=? AND state='pending'
MarkUploading ==
  /\ pc = "mark" /\ row[item] = "pending"
  /\ row' = [row EXCEPT ![item] = "uploading"]
  /\ pc' = "check"
  /\ UNCHANGED <<attempts, lastError, files, proc, starts, watch, wake,
                 item, tries, body, request, reason>>

\* The claim found the row in another state, or SQLite raised: no item.
ClaimFails ==
  /\ pc = "mark" /\ (row[item] # "pending" \/ DbErrors)
  /\ WorkerTo("none")
  /\ UNCHANGED <<index, files, proc, starts, watch, wake>>

\* self._wake.clear(), then wait_for(self._wake.wait(), 1 s)
GoIdle ==
  /\ pc = "none"
  /\ wake' = "clear" /\ pc' = "wait"
  /\ UNCHANGED <<index, files, proc, starts, watch, item, tries, body, request, reason>>

\* Mutant of WakeUp: wait() without the poll interval.
WakeUpOnEvent ==
  /\ pc = "wait" /\ wake = "set"
  /\ pc' = "select"
  /\ UNCHANGED <<index, files, proc, starts, watch, wake, item, tries, body, request, reason>>

\* Woken by the event, or by the poll interval of one second.
WakeUp ==
  /\ pc = "wait"
  /\ pc' = "select"
  /\ UNCHANGED <<index, files, proc, starts, watch, wake, item, tries, body, request, reason>>

CheckFile ==
  /\ pc = "check"
  /\ IF OnDisk(item) THEN pc' = "attempt" /\ UNCHANGED reason
                     ELSE pc' = "failed" /\ reason' = "missing"
  /\ UNCHANGED <<index, files, proc, starts, watch, wake, item, tries, body, request>>

\* upload_segment: stat and read; a file that vanished is a permanent error.
ReadFile ==
  /\ pc = "attempt"
  /\ IF OnDisk(item)
       THEN /\ pc' = "put" /\ UNCHANGED reason
            /\ body' = IF disk[item] = "complete" THEN "full" ELSE "partial"
       ELSE /\ pc' = "failed" /\ reason' = "permanent" /\ UNCHANGED body
  /\ request' = "sent"
  /\ UNCHANGED <<index, files, proc, starts, watch, wake, item, tries>>

\* S3 stores the object; the answer is still on its way.
S3Stores ==
  /\ pc = "put" /\ request = "sent"
  /\ s3' = [s3 EXCEPT ![item] = body] /\ request' = "stored"
  /\ UNCHANGED <<index, disk, victim, proc, starts, watch, wake, pc, item, tries, body, reason>>

\* Mutant of AnswerOk: the upload counts as done before S3 has stored it.
AnswerOkEarly ==
  /\ pc = "put" /\ "ok" \in S3Results
  /\ pc' = "uploaded"
  /\ UNCHANGED <<index, files, proc, starts, watch, wake, item, tries, body, request, reason>>

AnswerOk ==
  /\ pc = "put" /\ request = "stored" /\ "ok" \in S3Results
  /\ pc' = "uploaded"
  /\ UNCHANGED <<index, files, proc, starts, watch, wake, item, tries, body, request, reason>>

\* A timeout or a 5xx may hide that the object was stored.
AnswerTransient ==
  /\ pc = "put" /\ "transient" \in S3Results
  /\ pc' = "record"
  /\ UNCHANGED <<index, files, proc, starts, watch, wake, item, tries, body, request, reason>>

AnswerPermanent ==
  /\ pc = "put" /\ request = "sent" /\ "permanent" \in S3Results
  /\ pc' = "failed" /\ reason' = "permanent"
  /\ UNCHANGED <<index, files, proc, starts, watch, wake, item, tries, body, request>>

\* An exception no handler of _process_item names: the loop logs it and goes on.
AnswerUnclassified ==
  /\ pc = "put" /\ "unclassified" \in S3Results
  /\ WorkerTo("select")
  /\ UNCHANGED <<index, files, proc, starts, watch, wake>>

\* record_attempt adds to the row, then with_retry sleeps or gives up.
Record(count, giveUp) ==
  /\ pc = "record"
  /\ attempts' = [attempts EXCEPT ![item] = @ + count]
  /\ lastError' = [lastError EXCEPT ![item] = "transient"]
  /\ IF giveUp THEN pc' = "failed" /\ reason' = "exhausted"
               ELSE pc' = "backoff" /\ UNCHANGED reason
  /\ UNCHANGED <<row, files, proc, starts, watch, wake, item, tries, body, request>>

\* Mutants of RecordAttempt: one attempt too many; the last one not counted.
RecordAttemptOneMore == Record(1, tries > MaxRetries)
RecordAttemptButLast == Record(IF tries = MaxRetries THEN 0 ELSE 1, tries = MaxRetries)

RecordAttempt == Record(1, tries = MaxRetries)

Retry ==
  /\ pc = "backoff"
  /\ pc' = "attempt" /\ tries' = tries + 1
  /\ UNCHANGED <<index, files, proc, starts, watch, wake, item, body, request, reason>>

MarkUploaded ==
  /\ pc = "uploaded"
  /\ row' = [row EXCEPT ![item] = "uploaded"]
  /\ WorkerTo("select")
  /\ UNCHANGED <<attempts, lastError, files, proc, starts, watch, wake>>

MarkFailed ==
  /\ pc = "failed"
  /\ row' = [row EXCEPT ![item] = "failed"]
  /\ lastError' = [lastError EXCEPT ![item] = reason]
  /\ WorkerTo("select")
  /\ UNCHANGED <<attempts, files, proc, starts, watch, wake>>

\* A write raised sqlite3.OperationalError: the item is dropped where it stands.
WriteRaises ==
  /\ DbErrors /\ pc \in {"record", "uploaded", "failed"}
  /\ WorkerTo("select")
  /\ UNCHANGED <<index, files, proc, starts, watch, wake>>

-----------------------------------------------------------------------------
WorkerStep ==
  \/ SelectItem \/ SelectNothing \/ MarkUploading \/ ClaimFails \/ GoIdle \/ WakeUp
  \/ CheckFile \/ ReadFile \/ S3Stores
  \/ AnswerOk \/ AnswerTransient \/ AnswerPermanent \/ AnswerUnclassified
  \/ RecordAttempt \/ Retry \/ MarkUploaded \/ MarkFailed \/ WriteRaises

LifeCycle ==
  \/ Recover \/ Launch \/ Stop \/ WorkerExits \/ DrainTimeout \/ Stopped \/ Crash
  \/ \E s \in Segment : ScanOrphan(s)

Environment ==
  \E s \in Segment :
    \/ SegmentOpens(s) \/ SegmentCloses(s) \/ LeavesPlaylist(s)
    \/ Detect(s) \/ Enqueue(s) \/ EnqueueRaises(s) \/ SetWake(s)
    \/ DeleteUploaded(s) \/ Unlink(s) \/ UnlinkRaises(s)

Next == LifeCycle \/ Environment \/ WorkerStep

\* The event loop runs every ready task; a request is answered or times out
\* (WF of the worker's step); start() and stop() run to their end; systemd
\* restarts a process that crashed, not one that was stopped.
Fairness ==
  /\ WF_vars(WorkerStep)
  /\ WF_vars(Launch) /\ \A s \in Segment : WF_vars(ScanOrphan(s))
  /\ WF_vars(WorkerExits) /\ WF_vars(DrainTimeout) /\ WF_vars(Stopped)
  /\ WF_vars(Recover /\ proc = "crashed")
  /\ \A s \in Segment : WF_vars(Enqueue(s) \/ EnqueueRaises(s)) /\ WF_vars(SetWake(s))

Spec     == Init /\ [][Next]_vars
FairSpec == Spec /\ Fairness
-----------------------------------------------------------------------------
(* Properties                                                              *)

\* The points of the loop at which the worker owns a claimed row.
Holding == {"check", "attempt", "put", "record", "backoff", "uploaded", "failed"}

Settled(s) == row[s] \in {"uploaded", "failed"}

\* A row is marked uploaded only after S3 stored an object for that segment,
\* whatever crashed, timed out or was retried in between (mark_uploaded follows
\* a confirmed upload in _process_item).
UploadedIsStored == \A s \in Segment : row[s] = "uploaded" => s3[s] # "none"

\* The index forgets a segment, and the buffer unlinks its file, only when S3
\* has it: also when the watcher put the path back into the index in between, or
\* when a crash separated the two halves of _delete_segment.
RecycledIsStored ==
  [][\A s \in Segment :
       (row[s] # "absent" /\ row'[s] = "absent") \/ Unlink(s) => s3[s] # "none"]_vars

\* mark_uploaded and mark_failed update by id with no state guard, and the
\* restart resets rows in bulk: still no step takes an upload back; an uploaded
\* row can only be recycled.
UploadedIsFinal ==
  [][\A s \in Segment : row[s] = "uploaded" => row'[s] \in {"uploaded", "absent"}]_vars

\* While the service runs, a row in 'uploading' is the one the worker holds:
\* none is left behind by an earlier item, an earlier process or a drain.
UploadingIsOwned ==
  proc = "up" => \A s \in Segment : row[s] = "uploading" => item = s /\ pc \in Holding

\* A segment given up as exhausted has had at least its 1 + MaxRetries attempts
\* counted in the durable attempts column, across restarts.
ExhaustedSpentBudget ==
  \A s \in Segment :
    row[s] = "failed" /\ lastError[s] = "exhausted" => attempts[s] > MaxRetries

\* A row is claimed at most once per process, so its attempts column never
\* exceeds one retry budget per start.
AttemptsWithinBudget ==
  \A s \in Segment : attempts[s] <= starts * (MaxRetries + 1)

\* A pending segment ends up uploaded or failed unless the service is stopped,
\* or has crashed for the last time the bound on starts allows.
EverySegmentSettles ==
  \A s \in Segment :
    row[s] = "pending" ~> \/ Settled(s) \/ proc = "stopped"
                          \/ proc = "crashed" /\ starts = MaxStarts

\* UploadQueue.stop() returns: the worker drains or is cancelled at the timeout.
DrainEnds == proc = "draining" ~> proc \in {"stopped", "crashed"}

\* Every failure of an attempt is one that _process_item has a handler for,
\* and the index can be written.
AllClassified == "unclassified" \notin S3Results /\ ~DbErrors

\* The inductive invariant behind the safety properties above.
WorkerInv ==
  /\ pc \in Holding => item \in Segment /\ row[item] = "uploading"
  /\ pc = "mark" => item \in Segment
  /\ pc \in {"off", "select", "none", "wait"} => item = NoSegment
  /\ pc \notin Holding => tries = 0
  /\ pc = "put" => body # "none"
  /\ request = "stored" => pc \in Holding /\ s3[item] # "none"
  /\ pc = "uploaded" => request = "stored"
  /\ pc = "failed" => reason # "none"

RecycleInv == victim # NoSegment => proc = "up" /\ s3[victim] # "none"

PhaseInv ==
  /\ proc \in {"stopped", "crashed", "recovering"} => pc = "off"
  /\ proc = "up" => pc # "off"

BudgetInv ==
  /\ pc \in Holding => attempts[item] >= tries
  /\ pc = "backoff" => attempts[item] > tries /\ tries < MaxRetries
  /\ pc = "failed" /\ reason = "exhausted" => attempts[item] > MaxRetries
  /\ ExhaustedSpentBudget

IInv == TypeOK /\ WorkerInv /\ RecycleInv /\ PhaseInv /\ BudgetInv /\ UploadedIsStored

\* With every failure classified, no row is uploading between the recovery and
\* the first claim, nor without the worker.
OwnedInv ==
  AllClassified =>
    /\ UploadingIsOwned
    /\ proc = "recovering" => \A s \in Segment : row[s] # "uploading"

-----------------------------------------------------------------------------
(* What the repository's documents say and the code does not do            *)

\* pipeline/buffer.py:10: a segment that is not confirmed uploaded is never deleted.
UnsentIsKept ==
  [][\A s \in Segment : row[s] \in {"pending", "uploading", "failed"} /\ OnDisk(s)
                           => OnDisk(s)']_vars

\* upload/service.py:129-130: un-uploaded segments "remain pending/failed in SQLite
\* and resume on the next start".  When the worker is launched no segment that is
\* still on disk is left as failed.
FailedResumes ==
  [][Launch => \A s \in Segment : row[s] = "failed" => ~OnDisk(s)]_vars

-----------------------------------------------------------------------------
\* The refinement mapping: claiming a row, dropping it and recovering it are
\* invisible to the delivery contract.
DeliveryStatus ==
  [s \in Segment |->
    CASE row[s] = "absent" -> "untracked"
      [] row[s] \in {"pending", "uploading"} -> "queued"
      [] row[s] = "uploaded" -> "delivered"
      [] row[s] = "failed" -> "given_up"]

InS3 == {s \in Segment : s3[s] # "none"}

Delivery == INSTANCE SegmentDelivery WITH status <- DeliveryStatus, remote <- InS3

\* The queue keeps the delivery contract of SegmentDelivery through retries,
\* drains, crashes and restarts.
ImplementsDelivery == Delivery!Spec
=============================================================================
