------------------------- MODULE UploadQueueProofs -------------------------
(***************************************************************************)
(* Proofs about UploadQueue for every set of segments, retry budget, set   *)
(* of S3 results and number of restarts.                                   *)
(***************************************************************************)
EXTENDS UploadQueue, TLAPS

\* The inductive invariant holds initially: an empty index and no process.
LEMMA InitIInv == Init => IInv
  <1> SUFFICES ASSUME Init PROVE IInv
    OBVIOUS
  <1> USE MaxRetriesAssumption, MaxStartsAssumption DEF Init
  <1>1. TypeOK
    BY DEF TypeOK, RowState, FileState, Content, Phase, WatchStep, Failure, WorkerPc
  <1>2. WorkerInv /\ RecycleInv /\ PhaseInv /\ BudgetInv /\ UploadedIsStored
    BY DEF WorkerInv, RecycleInv, PhaseInv, BudgetInv, UploadedIsStored, ExhaustedSpentBudget, Holding
  <1>3. QED
    BY <1>1, <1>2 DEF IInv

\* The steps of start(), stop() and of the crashes keep the invariant.
LEMMA LifeCycleIInv == IInv /\ LifeCycle => IInv'
  <1> SUFFICES ASSUME IInv, LifeCycle PROVE IInv'
    OBVIOUS
  <1> USE MaxRetriesAssumption, MaxStartsAssumption, NoSegmentAssumption
      DEF IInv, TypeOK, WorkerInv, RecycleInv, PhaseInv, BudgetInv, UploadedIsStored, ExhaustedSpentBudget,
          Holding, RowState, FileState, Content, Phase, WatchStep, Failure, WorkerPc,
          index, files, worker, WorkerTo, MemoryLost
  <1>1. CASE Recover
    BY <1>1 DEF Recover
  <1>2. CASE Launch
    BY <1>2 DEF Launch
  <1>3. CASE Stop
    BY <1>3 DEF Stop
  <1>4. CASE WorkerExits
    BY <1>4 DEF WorkerExits
  <1>5. CASE DrainTimeout
    BY <1>5 DEF DrainTimeout
  <1>6. CASE Stopped
    BY <1>6 DEF Stopped
  <1>7. CASE Crash
    BY <1>7 DEF Crash
  <1>8. ASSUME NEW s \in Segment, ScanOrphan(s) PROVE IInv'
    BY <1>8 DEF ScanOrphan, AddSegment
  <1>9. QED
    BY <1>1, <1>2, <1>3, <1>4, <1>5, <1>6, <1>7, <1>8 DEF LifeCycle

\* The steps of ffmpeg, the watchers, enqueue and the buffer keep the invariant.
LEMMA EnvironmentIInv == IInv /\ Environment => IInv'
  <1> SUFFICES ASSUME IInv, Environment PROVE IInv'
    OBVIOUS
  <1> USE MaxRetriesAssumption, MaxStartsAssumption, NoSegmentAssumption
      DEF IInv, TypeOK, WorkerInv, RecycleInv, PhaseInv, BudgetInv, UploadedIsStored, ExhaustedSpentBudget,
          Holding, RowState, FileState, Content, Phase, WatchStep, Failure, WorkerPc,
          index, files, worker
  <1>1. ASSUME NEW s \in Segment, SegmentOpens(s) PROVE IInv'
    BY <1>1 DEF SegmentOpens
  <1>2. ASSUME NEW s \in Segment, SegmentCloses(s) PROVE IInv'
    BY <1>2 DEF SegmentCloses
  <1>3. ASSUME NEW s \in Segment, LeavesPlaylist(s) PROVE IInv'
    BY <1>3 DEF LeavesPlaylist
  <1>4. ASSUME NEW s \in Segment, Detect(s) PROVE IInv'
    BY <1>4 DEF Detect
  <1>5. ASSUME NEW s \in Segment, Enqueue(s) PROVE IInv'
    BY <1>5 DEF Enqueue, AddSegment
  <1>6. ASSUME NEW s \in Segment, EnqueueRaises(s) PROVE IInv'
    BY <1>6 DEF EnqueueRaises
  <1>7. ASSUME NEW s \in Segment, SetWake(s) PROVE IInv'
    BY <1>7 DEF SetWake
  <1>8. ASSUME NEW s \in Segment, DeleteUploaded(s) PROVE IInv'
    BY <1>8 DEF DeleteUploaded, Forget
  <1>9. ASSUME NEW s \in Segment, Unlink(s) \/ UnlinkRaises(s) PROVE IInv'
    BY <1>9 DEF Unlink, UnlinkRaises
  <1>10. QED
    BY <1>1, <1>2, <1>3, <1>4, <1>5, <1>6, <1>7, <1>8, <1>9 DEF Environment

\* The steps of the worker keep the invariant.
LEMMA WorkerIInv == IInv /\ WorkerStep => IInv'
  <1> SUFFICES ASSUME IInv, WorkerStep PROVE IInv'
    OBVIOUS
  <1> USE MaxRetriesAssumption, MaxStartsAssumption, NoSegmentAssumption
      DEF IInv, TypeOK, WorkerInv, RecycleInv, PhaseInv, BudgetInv, UploadedIsStored, ExhaustedSpentBudget,
          Holding, RowState, FileState, Content, Phase, WatchStep, Failure, WorkerPc,
          index, files, worker, WorkerTo
  <1>1. CASE SelectItem
    BY <1>1 DEF SelectItem, Pending
  <1>2. CASE SelectNothing
    BY <1>2 DEF SelectNothing
  <1>3. CASE MarkUploading
    BY <1>3 DEF MarkUploading
  <1>4. CASE ClaimFails
    BY <1>4 DEF ClaimFails
  <1>5. CASE GoIdle
    BY <1>5 DEF GoIdle
  <1>6. CASE WakeUp
    BY <1>6 DEF WakeUp
  <1>7. CASE CheckFile
    BY <1>7 DEF CheckFile
  <1>8. CASE ReadFile
    BY <1>8 DEF ReadFile, OnDisk
  <1>9. CASE S3Stores
    BY <1>9 DEF S3Stores
  <1>10. CASE AnswerOk
    BY <1>10 DEF AnswerOk
  <1>11. CASE AnswerTransient
    BY <1>11 DEF AnswerTransient
  <1>12. CASE AnswerPermanent
    BY <1>12 DEF AnswerPermanent
  <1>13. CASE AnswerUnclassified
    BY <1>13 DEF AnswerUnclassified
  <1>14. CASE RecordAttempt
    BY <1>14 DEF RecordAttempt, Record
  <1>15. CASE Retry
    BY <1>15 DEF Retry
  <1>16. CASE MarkUploaded
    BY <1>16 DEF MarkUploaded
  <1>17. CASE MarkFailed
    BY <1>17 DEF MarkFailed
  <1>18. CASE WriteRaises
    BY <1>18 DEF WriteRaises
  <1>19. QED
    BY <1>1, <1>2, <1>3, <1>4, <1>5, <1>6, <1>7, <1>8, <1>9, <1>10, <1>11, <1>12,
       <1>13, <1>14, <1>15, <1>16, <1>17, <1>18 DEF WorkerStep

LEMMA StutterIInv == IInv /\ UNCHANGED vars => IInv'
  BY DEF IInv, TypeOK, WorkerInv, RecycleInv, PhaseInv, BudgetInv, UploadedIsStored,
         ExhaustedSpentBudget, Holding, vars, index, files, worker

\* IInv is an invariant of the queue.
THEOREM Invariance == Spec => []IInv
  <1>1. IInv /\ [Next]_vars => IInv'
    BY LifeCycleIInv, EnvironmentIInv, WorkerIInv, StutterIInv DEF Next
  <1>2. QED
    BY InitIInv, <1>1, PTL DEF Spec

\* Type correctness of every variable.
THEOREM TypeCorrect == Spec => []TypeOK
  <1>1. IInv => TypeOK
    BY DEF IInv
  <1>2. QED
    BY Invariance, <1>1, PTL

\* A row says 'uploaded' only when S3 stored an object for the segment.
THEOREM UploadedStored == Spec => []UploadedIsStored
  <1>1. IInv => UploadedIsStored
    BY DEF IInv
  <1>2. QED
    BY Invariance, <1>1, PTL

\* 'exhausted' is never recorded before the retry budget is spent.
THEOREM ExhaustedSpent == Spec => []ExhaustedSpentBudget
  <1>1. IInv => ExhaustedSpentBudget
    BY DEF IInv, BudgetInv
  <1>2. QED
    BY Invariance, <1>1, PTL

-----------------------------------------------------------------------------
(* Which steps write the state column, and what they may do to it          *)

\* What one step may do to the row of a segment.
RowStep(s) ==
  \/ row'[s] = row[s]
  \/ row[s] = "absent" /\ row'[s] = "pending"
  \/ row[s] = "pending" /\ row'[s] = "uploading"
  \/ row[s] = "uploading" /\ row'[s] \in {"pending", "uploaded", "failed"}
  \/ row[s] = "uploaded" /\ row'[s] = "absent"

\* Every step of the queue is a step of the row life cycle, although most
\* updates are by id with no guard on the state.
LEMMA RowSteps ==
  ASSUME IInv, [Next]_vars, NEW s \in Segment
  PROVE  RowStep(s)
  <1> USE DEF RowStep, IInv, TypeOK, RowState
  <1>1. CASE WorkerStep
    <2>1. CASE row' = row
      BY <2>1
    <2>2. CASE MarkUploading
      BY <2>2 DEF MarkUploading
    <2>3. CASE MarkUploaded
      BY <2>3 DEF MarkUploaded, WorkerInv, Holding
    <2>4. CASE MarkFailed
      BY <2>4 DEF MarkFailed, WorkerInv, Holding
    <2>5. QED
      BY <1>1, <2>1, <2>2, <2>3, <2>4
         DEF WorkerStep, SelectItem, SelectNothing, ClaimFails, GoIdle, WakeUp, CheckFile,
             ReadFile, S3Stores, AnswerOk, AnswerTransient, AnswerPermanent,
             AnswerUnclassified, RecordAttempt, Record, Retry, WriteRaises, index
  <1>2. CASE LifeCycle
    <2>1. CASE Recover
      BY <2>1 DEF Recover
    <2>2. ASSUME NEW q \in Segment, ScanOrphan(q) PROVE RowStep(s)
      BY <2>2 DEF ScanOrphan, AddSegment
    <2>3. CASE row' = row
      BY <2>3
    <2>4. QED
      BY <1>2, <2>1, <2>2, <2>3
         DEF LifeCycle, Launch, Stop, WorkerExits, DrainTimeout, Stopped, Crash, index
  <1>3. CASE Environment
    <2>1. ASSUME NEW q \in Segment, Enqueue(q) PROVE RowStep(s)
      BY <2>1 DEF Enqueue, AddSegment
    <2>2. ASSUME NEW q \in Segment, DeleteUploaded(q) PROVE RowStep(s)
      BY <2>2 DEF DeleteUploaded, Forget
    <2>3. CASE row' = row
      BY <2>3
    <2>4. QED
      BY <1>3, <2>1, <2>2, <2>3
         DEF Environment, SegmentOpens, SegmentCloses, LeavesPlaylist, Detect, EnqueueRaises,
             SetWake, Unlink, UnlinkRaises, index
  <1>4. CASE UNCHANGED vars
    BY <1>4 DEF vars, index
  <1>5. QED
    BY <1>1, <1>2, <1>3, <1>4 DEF Next

\* No update by id and no restart takes an upload back (UploadedIsFinal).
THEOREM UploadedFinal == Spec => UploadedIsFinal
  <1>1. IInv /\ [Next]_vars =>
          [\A s \in Segment : row[s] = "uploaded" => row'[s] \in {"uploaded", "absent"}]_vars
    BY RowSteps DEF RowStep
  <1>2. QED
    BY Invariance, <1>1, PTL DEF Spec, UploadedIsFinal

\* What the buffer forgets or unlinks is in S3 (RecycledIsStored).
THEOREM RecyclesOnlyStored == Spec => RecycledIsStored
  <1>1. ASSUME IInv, [Next]_vars, NEW s \in Segment,
               (row[s] # "absent" /\ row'[s] = "absent") \/ Unlink(s)
        PROVE  s3[s] # "none"
    <2>1. CASE Unlink(s)
      BY <1>1, <2>1, NoSegmentAssumption DEF Unlink, IInv, RecycleInv
    <2>2. CASE row[s] # "absent" /\ row'[s] = "absent"
      BY <1>1, <2>2, RowSteps DEF RowStep, IInv, UploadedIsStored
    <2>3. QED
      BY <1>1, <2>1, <2>2
  <1>2. IInv /\ [Next]_vars =>
          [\A s \in Segment :
             (row[s] # "absent" /\ row'[s] = "absent") \/ Unlink(s) => s3[s] # "none"]_vars
    BY <1>1
  <1>3. QED
    BY Invariance, <1>2, PTL DEF Spec, RecycledIsStored

-----------------------------------------------------------------------------
(* Ownership of the row in flight                                          *)

\* OwnedInv is preserved: a row becomes uploading only in the worker's hands,
\* and leaves its hands settled when every failure is classified.
LEMMA OwnedStep == IInv /\ OwnedInv /\ [Next]_vars => OwnedInv'
  <1> SUFFICES ASSUME IInv, OwnedInv, [Next]_vars, AllClassified PROVE OwnedInv'
    BY DEF OwnedInv, AllClassified
  <1> USE DEF OwnedInv, UploadingIsOwned, AllClassified, IInv, TypeOK, WorkerInv, RecycleInv, PhaseInv, Holding,
              RowState, index, files, worker, WorkerTo, MemoryLost
  <1>1. CASE LifeCycle
    BY <1>1 DEF LifeCycle, Recover, ScanOrphan, AddSegment, Launch, Stop, WorkerExits,
                DrainTimeout, Stopped, Crash
  <1>2. CASE Environment
    BY <1>2 DEF Environment, SegmentOpens, SegmentCloses, LeavesPlaylist, Detect, Enqueue,
                AddSegment, EnqueueRaises, SetWake, DeleteUploaded, Forget, Unlink, UnlinkRaises
  <1>3. CASE WorkerStep
    <2>1. CASE SelectItem \/ SelectNothing \/ MarkUploading \/ ClaimFails \/ GoIdle \/ WakeUp
      BY <2>1 DEF SelectItem, SelectNothing, MarkUploading, ClaimFails, GoIdle, WakeUp
    <2>2. CASE CheckFile \/ ReadFile \/ S3Stores \/ AnswerOk \/ AnswerTransient \/ AnswerPermanent
      BY <2>2 DEF CheckFile, ReadFile, S3Stores, AnswerOk, AnswerTransient, AnswerPermanent
    <2>3. CASE RecordAttempt \/ Retry
      BY <2>3 DEF RecordAttempt, Record, Retry
    <2>4. CASE MarkUploaded \/ MarkFailed
      BY <2>4 DEF MarkUploaded, MarkFailed
    <2>5. CASE AnswerUnclassified \/ WriteRaises
      BY <2>5 DEF AnswerUnclassified, WriteRaises
    <2>6. QED
      BY <1>3, <2>1, <2>2, <2>3, <2>4, <2>5 DEF WorkerStep
  <1>4. CASE UNCHANGED vars
    BY <1>4 DEF vars
  <1>5. QED
    BY <1>1, <1>2, <1>3, <1>4 DEF Next

\* With every failure classified and a writable index, a row in 'uploading' is
\* always the one in the worker's hands.
THEOREM UploadingOwned ==
  ASSUME AllClassified
  PROVE  Spec => []UploadingIsOwned
  <1>1. Init => OwnedInv
    BY DEF Init, OwnedInv, UploadingIsOwned
  <1>2. OwnedInv => UploadingIsOwned
    BY DEF OwnedInv
  <1>3. QED
    BY Invariance, OwnedStep, <1>1, <1>2, PTL DEF Spec

-----------------------------------------------------------------------------
(* The attempts column across restarts                                     *)

\* The attempts that a number of starts may count for one row.
Spent(n) == n * (MaxRetries + 1)

\* What this process has counted for the row in its hands.
Counted ==
  IF pc = "backoff" \/ (pc = "failed" /\ reason = "exhausted") THEN tries + 1 ELSE tries

\* A row that this process has not claimed has at most what the earlier ones
\* spent; the one it holds has what it counted on top.
AttemptsInv ==
  /\ proc \in {"recovering", "up", "draining"} =>
       /\ starts > 0
       /\ \A s \in Segment : row[s] \in {"absent", "pending"} => attempts[s] <= Spent(starts - 1)
  /\ pc \in Holding => attempts[item] <= Spent(starts - 1) + Counted
  /\ \A s \in Segment : attempts[s] <= Spent(starts)
  /\ \A s \in Segment : row[s] = "absent" => attempts[s] = 0

LEMMA SpentGrows ==
  ASSUME NEW n \in Nat
  PROVE  /\ Spent(n) \in Nat
         /\ n > 0 => n - 1 \in Nat /\ Spent(n - 1) \in Nat /\ Spent(n) = Spent(n - 1) + MaxRetries + 1
<1> n * (MaxRetries + 1) \in Nat
  BY MaxRetriesAssumption
<1> (n - 1) * (MaxRetries + 1) + (MaxRetries + 1) = n * (MaxRetries + 1)
  BY MaxRetriesAssumption
<1> n > 0 => n - 1 \in Nat /\ (n - 1) * (MaxRetries + 1) \in Nat
  BY MaxRetriesAssumption
<1> QED
  BY MaxRetriesAssumption DEF Spent

\* The worker's steps count what it tries.
LEMMA WorkerAttempts ==
  ASSUME IInv, AttemptsInv, WorkerStep
  PROVE  AttemptsInv'
<1>1. /\ starts \in Nat /\ Spent(starts) \in Nat /\ starts' = starts /\ proc' = proc
      /\ starts > 0 =>
           Spent(starts - 1) \in Nat /\ Spent(starts) = Spent(starts - 1) + MaxRetries + 1
  BY SpentGrows, MaxStartsAssumption
     DEF IInv, TypeOK, WorkerStep, SelectItem, SelectNothing, MarkUploading, ClaimFails, GoIdle,
         WakeUp, CheckFile, ReadFile, S3Stores, AnswerOk, AnswerTransient, AnswerPermanent,
         AnswerUnclassified, RecordAttempt, Record, Retry, MarkUploaded, MarkFailed, WriteRaises
<1>2. proc \in {"up", "draining"}
  BY DEF IInv, TypeOK, PhaseInv, Phase, WorkerStep, SelectItem, SelectNothing, MarkUploading, ClaimFails,
         GoIdle, WakeUp, CheckFile, ReadFile, S3Stores, AnswerOk, AnswerTransient, AnswerPermanent,
         AnswerUnclassified, RecordAttempt, Record, Retry, MarkUploaded, MarkFailed, WriteRaises
<1> USE MaxRetriesAssumption, NoSegmentAssumption, <1>1, <1>2
    DEF AttemptsInv, Counted, Holding, IInv, TypeOK, WorkerInv, index, files, WorkerTo, RowState
<1>3. CASE SelectItem \/ SelectNothing \/ ClaimFails \/ GoIdle \/ WakeUp
  BY <1>3 DEF SelectItem, SelectNothing, ClaimFails, GoIdle, WakeUp
<1>4. CASE MarkUploading
  BY <1>4 DEF MarkUploading
<1>5. CASE CheckFile \/ ReadFile \/ S3Stores
  BY <1>5 DEF CheckFile, ReadFile, S3Stores
<1>6. CASE AnswerOk \/ AnswerTransient \/ AnswerPermanent \/ AnswerUnclassified
  BY <1>6 DEF AnswerOk, AnswerTransient, AnswerPermanent, AnswerUnclassified
<1>7. CASE RecordAttempt
  <2>1. attempts' = [attempts EXCEPT ![item] = @ + 1] /\ row' = row
    BY <1>7 DEF RecordAttempt, Record
  <2>2. /\ pc = "record" /\ item' = item /\ tries' = tries
        /\ (pc' = "failed" /\ reason' = "exhausted") \/ pc' = "backoff"
    BY <1>7 DEF RecordAttempt, Record
  <2>3. item \in Segment /\ row[item] = "uploading" /\ attempts[item] <= Spent(starts - 1) + tries
    BY <2>2
  <2>4. attempts'[item] <= Spent(starts - 1) + tries + 1 /\ Counted' = tries + 1
    BY <2>1, <2>2, <2>3
  <2>5. attempts'[item] <= Spent(starts)
    BY <2>1, <2>3, <2>4
  <2> QED
    BY <2>1, <2>2, <2>3, <2>4, <2>5
<1>8. CASE Retry
  BY <1>8 DEF Retry
<1>9. CASE MarkUploaded \/ MarkFailed \/ WriteRaises
  BY <1>9 DEF MarkUploaded, MarkFailed, WriteRaises
<1> QED
  BY <1>3, <1>4, <1>5, <1>6, <1>7, <1>8, <1>9 DEF WorkerStep

\* A new process finds everything within the budget of the earlier ones.
LEMMA OtherAttempts ==
  ASSUME IInv, AttemptsInv, LifeCycle \/ Environment \/ UNCHANGED vars
  PROVE  AttemptsInv'
<1>1. /\ starts \in Nat /\ Spent(starts) \in Nat
      /\ starts > 0 =>
           Spent(starts - 1) \in Nat /\ Spent(starts) = Spent(starts - 1) + MaxRetries + 1
  BY SpentGrows, MaxStartsAssumption DEF IInv, TypeOK
<1> USE MaxRetriesAssumption, NoSegmentAssumption, <1>1
    DEF AttemptsInv, Counted, Holding, IInv, TypeOK, PhaseInv, index, files, worker, WorkerTo, MemoryLost,
        RowState
<1>2. CASE Recover
  <2>1. starts' = starts + 1 /\ starts' - 1 = starts /\ starts' \in Nat
    BY <1>2 DEF Recover
  <2>2. Spent(starts') = Spent(starts) + MaxRetries + 1
    BY <2>1, SpentGrows
  <2>3. attempts' = attempts /\ \A s \in Segment : row'[s] = "absent" => row[s] = "absent"
    BY <1>2 DEF Recover
  <2>4. pc' = "off"
    BY <1>2 DEF Recover
  <2> QED
    BY <2>1, <2>2, <2>3, <2>4
<1>3. ASSUME NEW s \in Segment,
             AddSegment(s), UNCHANGED <<attempts, starts, proc, pc, tries, reason, item>>
      PROVE  AttemptsInv'
  BY <1>3 DEF AddSegment
<1>4. CASE \E s \in Segment : ScanOrphan(s) \/ Enqueue(s)
  BY <1>3, <1>4 DEF ScanOrphan, Enqueue
<1>5. CASE Launch \/ Stop \/ WorkerExits \/ DrainTimeout \/ Stopped \/ Crash
  BY <1>5 DEF Launch, Stop, WorkerExits, DrainTimeout, Stopped, Crash
<1>6. CASE \E s \in Segment : DeleteUploaded(s)
  <2>1. PICK s \in Segment : DeleteUploaded(s)
    BY <1>6
  <2> QED
    BY <2>1 DEF DeleteUploaded, Forget, WorkerInv
<1>7. CASE UNCHANGED <<row, attempts, starts, proc, pc, tries, reason, item>>
  BY <1>7
<1> QED
  BY <1>2, <1>4, <1>5, <1>6, <1>7
     DEF LifeCycle, Environment, SegmentOpens, SegmentCloses, LeavesPlaylist, Detect, EnqueueRaises,
         SetWake, Unlink, UnlinkRaises, vars

\* No row counts more attempts than one retry budget per start, whatever the
\* restarts interrupted (AttemptsWithinBudget).
THEOREM AttemptsBounded == Spec => []AttemptsWithinBudget
<1>1. Init => AttemptsInv
  BY SpentGrows DEF Init, AttemptsInv, Holding
<1>2. IInv /\ AttemptsInv /\ [Next]_vars => AttemptsInv'
  BY WorkerAttempts, OtherAttempts DEF Next
<1>3. AttemptsInv => AttemptsWithinBudget
  BY DEF AttemptsInv, AttemptsWithinBudget, Spent
<1> QED
  BY <1>1, <1>2, <1>3, Invariance, PTL DEF Spec

-----------------------------------------------------------------------------
(* What S3 holds, and what happens to the files                            *)

\* A full object comes from a file that ffmpeg has closed, and no attempt that
\* read an open file is in flight for a segment S3 already has in full.
ContentInv ==
  /\ \A s \in Segment : s3[s] = "full" => disk[s] \in {"complete", "gone"}
  /\ pc = "put" /\ body = "full" => disk[item] \in {"complete", "gone"}
  /\ pc = "put" /\ body = "partial" => s3[item] # "full"

\* A file moves only forward: unwritten, writing, complete, gone.
LEMMA FilesMoveForward ==
  ASSUME IInv, [Next]_vars, NEW s \in Segment
  PROVE  disk[s] \in {"complete", "gone"} => disk'[s] \in {"complete", "gone"}
<1> USE DEF IInv, TypeOK
<1>1. CASE disk' = disk
  BY <1>1
<1>2. ASSUME NEW q \in Segment,
             SegmentOpens(q) \/ SegmentCloses(q) \/ LeavesPlaylist(q) \/ Unlink(q)
      PROVE  disk[s] \in {"complete", "gone"} => disk'[s] \in {"complete", "gone"}
  BY <1>2 DEF SegmentOpens, SegmentCloses, LeavesPlaylist, Unlink
<1> QED
  BY <1>1, <1>2
     DEF Next, LifeCycle, Environment, WorkerStep, Recover, ScanOrphan, Launch, Stop, WorkerExits,
         DrainTimeout, Stopped, Crash, MemoryLost, Detect, Enqueue, EnqueueRaises, SetWake,
         DeleteUploaded, Forget, UnlinkRaises, SelectItem, SelectNothing, MarkUploading, ClaimFails,
         GoIdle, WakeUp, CheckFile, ReadFile, S3Stores, AnswerOk, AnswerTransient, AnswerPermanent,
         AnswerUnclassified, RecordAttempt, Record, Retry, MarkUploaded, MarkFailed, WriteRaises,
         files, vars

LEMMA ContentStep == IInv /\ ContentInv /\ [Next]_vars => ContentInv'
<1> SUFFICES ASSUME IInv, ContentInv, [Next]_vars PROVE ContentInv'
  OBVIOUS
<1>1. \A s \in Segment : disk[s] \in {"complete", "gone"} => disk'[s] \in {"complete", "gone"}
  BY FilesMoveForward
<1> USE <1>1 DEF ContentInv, IInv, TypeOK, WorkerInv, Holding, Content
<1>2. CASE S3Stores
  BY <1>2 DEF S3Stores
<1>3. CASE ReadFile
  BY <1>3 DEF ReadFile, OnDisk, FileState, files
<1>4. CASE s3' = s3 /\ pc' # "put"
  BY <1>4
<1>5. CASE s3' = s3 /\ UNCHANGED <<pc, item, body>>
  BY <1>5
<1> QED
  BY <1>2, <1>3, <1>4, <1>5
     DEF Next, LifeCycle, Environment, WorkerStep, Recover, ScanOrphan, Launch, Stop, WorkerExits,
         DrainTimeout, Stopped, Crash, MemoryLost, SegmentOpens, SegmentCloses, LeavesPlaylist,
         Detect, Enqueue, EnqueueRaises, SetWake, DeleteUploaded, Forget, Unlink, UnlinkRaises,
         SelectItem, SelectNothing, MarkUploading, ClaimFails, GoIdle, WakeUp, CheckFile,
         AnswerOk, AnswerTransient, AnswerPermanent, AnswerUnclassified, RecordAttempt, Record,
         Retry, MarkUploaded, MarkFailed, WriteRaises, WorkerTo, worker, files, vars

LEMMA InitContent == Init => ContentInv
  BY DEF Init, ContentInv

\* Once S3 holds a whole segment, no later attempt, in this process or after
\* any restart, replaces it by a shorter one.
StoredStaysWhole == [][\A s \in Segment : s3[s] = "full" => s3'[s] = "full"]_vars

\* Retries, recovered rows and paths the watcher offers again upload a segment
\* once more under the same key, and what they store is never less.
THEOREM StoredNeverShrinks == Spec => StoredStaysWhole
<1>1. ASSUME IInv, ContentInv, [Next]_vars, NEW s \in Segment, s3[s] = "full"
      PROVE  s3'[s] = "full"
  <2>1. CASE S3Stores
    BY <1>1, <2>1 DEF S3Stores, ContentInv, IInv, TypeOK, WorkerInv, Content
  <2>2. CASE s3' = s3
    BY <1>1, <2>2
  <2> QED
    BY <1>1, <2>1, <2>2
       DEF Next, LifeCycle, Environment, WorkerStep, Recover, ScanOrphan, Launch, Stop, WorkerExits,
           DrainTimeout, Stopped, Crash, MemoryLost, SegmentOpens, SegmentCloses, LeavesPlaylist,
           Detect, Enqueue, EnqueueRaises, SetWake, DeleteUploaded, Forget, Unlink, UnlinkRaises,
           SelectItem, SelectNothing, MarkUploading, ClaimFails, GoIdle, WakeUp, CheckFile, ReadFile,
           AnswerOk, AnswerTransient, AnswerPermanent, AnswerUnclassified, RecordAttempt, Record,
           Retry, MarkUploaded, MarkFailed, WriteRaises, files, vars
<1>2. IInv /\ ContentInv /\ [Next]_vars =>
        [\A s \in Segment : s3[s] = "full" => s3'[s] = "full"]_vars
  BY <1>1
<1> QED
  BY Invariance, InitContent, ContentStep, <1>2, PTL DEF Spec, StoredStaysWhole

\* A file that S3 does not have leaves the disk only when ffmpeg deletes it.
OnlyFfmpegLosesFiles ==
  [][\A s \in Segment : OnDisk(s) /\ ~OnDisk(s)' => LeavesPlaylist(s) \/ s3[s] # "none"]_vars

\* The queue, the buffer and the restarts lose no video: every file that goes
\* while S3 has nothing of it is dropped by ffmpeg's own delete_segments.
THEOREM OnlyFfmpegLoses == Spec => OnlyFfmpegLosesFiles
<1>1. ASSUME IInv, [Next]_vars, NEW s \in Segment, OnDisk(s), ~OnDisk(s)'
      PROVE  LeavesPlaylist(s) \/ s3[s] # "none"
  <2> USE <1>1 DEF OnDisk, IInv, TypeOK
  <2>1. CASE disk' = disk
    BY <2>1
  <2>2. ASSUME NEW q \in Segment, SegmentOpens(q) \/ SegmentCloses(q) PROVE FALSE
    BY <2>2 DEF SegmentOpens, SegmentCloses
  <2>3. ASSUME NEW q \in Segment, LeavesPlaylist(q) PROVE q = s
    BY <2>3 DEF LeavesPlaylist
  <2>4. ASSUME NEW q \in Segment, Unlink(q) PROVE q = s /\ s3[s] # "none"
    BY <2>4, NoSegmentAssumption DEF Unlink, RecycleInv
  <2> QED
    BY <2>1, <2>2, <2>3, <2>4
       DEF Next, LifeCycle, Environment, WorkerStep, Recover, ScanOrphan, Launch, Stop, WorkerExits,
           DrainTimeout, Stopped, Crash, MemoryLost, Detect, Enqueue, EnqueueRaises, SetWake,
           DeleteUploaded, Forget, UnlinkRaises, SelectItem, SelectNothing, MarkUploading, ClaimFails,
           GoIdle, WakeUp, CheckFile, ReadFile, S3Stores, AnswerOk, AnswerTransient, AnswerPermanent,
           AnswerUnclassified, RecordAttempt, Record, Retry, MarkUploaded, MarkFailed, WriteRaises,
           files, vars
<1>2. IInv /\ [Next]_vars =>
        [\A s \in Segment : OnDisk(s) /\ ~OnDisk(s)' => LeavesPlaylist(s) \/ s3[s] # "none"]_vars
  BY <1>1
<1> QED
  BY Invariance, <1>2, PTL DEF Spec, OnlyFfmpegLosesFiles

-----------------------------------------------------------------------------
(* Refinement                                                              *)

\* One row moving along its life cycle while S3 is unchanged moves the status
\* of that segment along the contract.
LEMMA RowMoves ==
  ASSUME IInv, NEW s \in Segment, NEW st \in RowState, row' = [row EXCEPT ![s] = st], s3' = s3,
         \/ row[s] = "absent" /\ st = "pending"
         \/ row[s] = "pending" /\ st = "uploading"
         \/ row[s] = "uploading" /\ st = "failed"
         \/ row[s] = "uploading" /\ st = "uploaded" /\ s3[s] # "none"
         \/ row[s] = "uploaded" /\ st = "absent"
  PROVE  [Delivery!Next]_<<DeliveryStatus, InS3>>
  <1> USE DEF DeliveryStatus, InS3, RowState, IInv, TypeOK
  <1>1. InS3' = InS3
    OBVIOUS
  <1>2. CASE row[s] = "absent" /\ st = "pending"
    <2>1. Delivery!Accept(s)
      BY <1>1, <1>2 DEF Delivery!Accept, Delivery!Move
    <2>2. QED
      BY <2>1 DEF Delivery!Next
  <1>3. CASE row[s] = "pending" /\ st = "uploading"
    BY <1>1, <1>3
  <1>4. CASE row[s] = "uploading" /\ st = "failed"
    <2>1. Delivery!GiveUp(s)
      BY <1>1, <1>4 DEF Delivery!GiveUp, Delivery!Move
    <2>2. QED
      BY <2>1 DEF Delivery!Next
  <1>5. CASE row[s] = "uploading" /\ st = "uploaded" /\ s3[s] # "none"
    <2>1. Delivery!Confirm(s)
      BY <1>1, <1>5 DEF Delivery!Confirm, Delivery!Move
    <2>2. QED
      BY <2>1 DEF Delivery!Next
  <1>6. CASE row[s] = "uploaded" /\ st = "absent"
    <2>1. Delivery!Recycle(s)
      BY <1>1, <1>6 DEF Delivery!Recycle, Delivery!Move
    <2>2. QED
      BY <2>1 DEF Delivery!Next
  <1>7. QED
    BY <1>2, <1>3, <1>4, <1>5, <1>6

\* A step that leaves the rows and S3 alone is a stutter of the contract.
LEMMA RowsRest ==
  ASSUME row' = row, s3' = s3
  PROVE  [Delivery!Next]_<<DeliveryStatus, InS3>>
  BY DEF DeliveryStatus, InS3

\* Every step of the queue is a step of the delivery contract or a stutter.
LEMMA DeliveryStep ==
  ASSUME IInv, [Next]_vars
  PROVE  [Delivery!Next]_<<DeliveryStatus, InS3>>
  <1> USE DEF IInv, TypeOK
  <1>1. CASE row' = row /\ s3' = s3
    BY <1>1, RowsRest
  <1>2. CASE Recover
    BY <1>2 DEF Recover, files, DeliveryStatus, InS3, RowState
  <1>3. ASSUME NEW s \in Segment, ScanOrphan(s) \/ Enqueue(s)
        PROVE  [Delivery!Next]_<<DeliveryStatus, InS3>>
    <2>1. row[s] # "absent" => row' = row /\ s3' = s3
      BY <1>3 DEF ScanOrphan, Enqueue, AddSegment, files
    <2>2. row[s] = "absent" => row' = [row EXCEPT ![s] = "pending"] /\ s3' = s3
      BY <1>3 DEF ScanOrphan, Enqueue, AddSegment, files
    <2>3. "pending" \in RowState
      BY DEF RowState
    <2>4. QED
      BY <2>1, <2>2, <2>3, RowMoves, RowsRest
  <1>4. ASSUME NEW s \in Segment, DeleteUploaded(s)
        PROVE  [Delivery!Next]_<<DeliveryStatus, InS3>>
    <2>1. row' = [row EXCEPT ![s] = "absent"] /\ s3' = s3 /\ row[s] = "uploaded"
      BY <1>4 DEF DeleteUploaded, Forget
    <2>2. "absent" \in RowState
      BY DEF RowState
    <2>3. QED
      BY <2>1, <2>2, RowMoves
  <1>5. CASE MarkUploading
    <2>1. row' = [row EXCEPT ![item] = "uploading"] /\ s3' = s3 /\ row[item] = "pending"
          /\ item \in Segment
      BY <1>5 DEF MarkUploading, files, WorkerInv
    <2>2. "uploading" \in RowState
      BY DEF RowState
    <2>3. QED
      BY <2>1, <2>2, RowMoves
  <1>6. CASE MarkUploaded
    <2>1. row' = [row EXCEPT ![item] = "uploaded"] /\ s3' = s3 /\ row[item] = "uploading"
          /\ item \in Segment /\ s3[item] # "none"
      BY <1>6 DEF MarkUploaded, files, WorkerInv, Holding
    <2>2. "uploaded" \in RowState
      BY DEF RowState
    <2>3. QED
      BY <2>1, <2>2, RowMoves
  <1>7. CASE MarkFailed
    <2>1. row' = [row EXCEPT ![item] = "failed"] /\ s3' = s3 /\ row[item] = "uploading"
          /\ item \in Segment
      BY <1>7 DEF MarkFailed, files, WorkerInv, Holding
    <2>2. "failed" \in RowState
      BY DEF RowState
    <2>3. QED
      BY <2>1, <2>2, RowMoves
  <1>8. CASE S3Stores
    <2>1. item \in Segment /\ row[item] = "uploading" /\ row' = row
          /\ s3' = [s3 EXCEPT ![item] = body] /\ body # "none"
      BY <1>8 DEF S3Stores, WorkerInv, Holding, index
    <2>2. DeliveryStatus' = DeliveryStatus /\ DeliveryStatus[item] = "queued"
      BY <2>1 DEF DeliveryStatus
    <2>3. InS3' = InS3 \cup {item}
      BY <2>1 DEF InS3
    <2>4. Delivery!Store(item)
      BY <2>2, <2>3 DEF Delivery!Store
    <2>5. QED
      BY <2>1, <2>4 DEF Delivery!Next
  <1>9. QED
    BY <1>1, <1>2, <1>3, <1>4, <1>5, <1>6, <1>7, <1>8
       DEF Next, LifeCycle, Environment, WorkerStep, Launch, Stop, WorkerExits, DrainTimeout,
           Stopped, Crash, SegmentOpens, SegmentCloses, LeavesPlaylist, Detect, EnqueueRaises,
           SetWake, Unlink, UnlinkRaises, SelectItem, SelectNothing, ClaimFails, GoIdle, WakeUp, CheckFile, ReadFile,
           AnswerOk, AnswerTransient, AnswerPermanent, AnswerUnclassified, RecordAttempt, Record, Retry,
           WriteRaises, MemoryLost, vars, index, files

\* The queue implements the delivery contract (ImplementsDelivery).
THEOREM Refinement == Spec => ImplementsDelivery
  <1>1. Init => Delivery!Init
    BY DEF Init, DeliveryStatus, InS3, Delivery!Init
  <1>2. QED
    BY Invariance, <1>1, DeliveryStep, PTL DEF Spec, ImplementsDelivery, Delivery!Spec
=============================================================================
