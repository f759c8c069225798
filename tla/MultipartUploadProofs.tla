----------------------- MODULE MultipartUploadProofs -----------------------
(***************************************************************************)
(* One call of upload_segment, for every part size and every size the file *)
(* reaches: no upload is forgotten open, and the call is an UploadAttempt. *)
(***************************************************************************)
EXTENDS MultipartUpload, TLAPS

USE ChunkAssumption, MaxSizeAssumption

\* A multiple of the part size and one more full part.
LEMMA FullPartsGrow ==
  ASSUME NEW a \in Nat, FullParts(a)
  PROVE  FullParts(a + Chunk)
<1> DEFINE q == a \div Chunk
          d == (a + Chunk) \div Chunk
          r == (a + Chunk) % Chunk
<1>1. a = Chunk * q /\ a + Chunk = Chunk * d + r
  BY DEF FullParts
<1>2. q \in Int /\ d \in Int /\ r \in 0..(Chunk - 1)
  OBVIOUS
<1> HIDE DEF q, d, r
<1>3. Chunk * (q + 1 - d) = r
  BY <1>1, <1>2
<1>4. q + 1 - d = 0
  BY <1>2, <1>3
<1> QED
  BY <1>2, <1>3, <1>4 DEF r, FullParts

LEMMA NothingIsFullParts == FullParts(0)
  BY DEF FullParts

LEMMA Absent == Gone \notin Nat /\ NoObject \notin Nat
  BY DEF Gone, NoObject

USE Absent

-----------------------------------------------------------------------------
(* The invariant                                                           *)

\* The call ends once, and no request is executed where none is under way.
PhaseInv ==
  /\ pc = "done" <=> outcome # "none"
  /\ pc \notin Request \cup {"done"} => request = "sent"
  /\ pc = "abort" => error \in Failure

\* While the call runs an open upload is one that a later step closes or aborts.
OpenInv ==
  /\ open = TRUE =>
       \/ pc \in {"create", "abort"}
       \/ pc \in {"stat_again", "read", "part", "complete"}
       \/ pc = "done" /\ excuse # "none"
  /\ open = TRUE /\ pc = "create" => request = "executed"
  /\ open = TRUE /\ pc \in {"complete", "abort"} => request = "sent"

\* The file only grows, so that both stats are lower bounds of it.
FileInv ==
  /\ file = Gone \/ (measured <= file /\ goal <= file)
  /\ pc = "stat" => measured = 0
  /\ pc \in {"read", "part", "complete"} => measured <= goal

\* S3 has the parts that were answered, and the one that is under way.
PartsInv ==
  /\ sound = TRUE
  /\ pc \in {"stat", "read_all", "put", "create", "stat_again"} => offset = 0 /\ stored = 0
  /\ pc \in {"read", "complete"} => stored = offset
  /\ pc = "part" => stored = IF request = "sent" THEN offset ELSE offset + chunk

\* Only the last part, which reaches the goal, is not of full size.
SizeInv ==
  /\ pc = "read" => offset >= goal \/ FullParts(offset)
  /\ pc = "part" => FullParts(offset) /\ (chunk = Chunk \/ offset + chunk >= goal)
  /\ pc = "complete" => offset >= goal
  /\ pc = "put" => chunk >= measured

\* The object appears in the request that stores it, and no permanent failure
\* follows.
ObjectInv ==
  /\ object # NoObject =>
       \/ pc \in {"put", "complete"} /\ request = "executed"
       \/ pc = "abort" /\ error # "permanent"
       \/ pc = "done" /\ outcome # "permanent"
  /\ pc \in {"put", "complete"} /\ request = "executed" => object \in Nat

IInv == /\ TypeOK /\ PhaseInv /\ OpenInv /\ FileInv
        /\ PartsInv /\ SizeInv /\ ObjectInv

LEMMA Initially == Init => IInv
<1> SUFFICES ASSUME Init PROVE IInv
  OBVIOUS
<1> USE DEF Init, Request, Failure
<1>1. file \in Nat \cup {Gone}
  OBVIOUS
<1>2. TypeOK
  BY <1>1 DEF TypeOK
<1> QED
  BY <1>1, <1>2 DEF IInv, PhaseInv, OpenInv, FileInv, PartsInv, SizeInv, ObjectInv

\* ffmpeg under the call.
LEMMA FileIInv == IInv /\ (FileGrows \/ LeavesPlaylist) => IInv'
<1> SUFFICES ASSUME IInv, FileGrows \/ LeavesPlaylist PROVE IInv'
  OBVIOUS
<1>1. file' \in Nat \cup {Gone} /\ (file' = Gone \/ (file \in Nat /\ file <= file'))
  BY DEF FileGrows, LeavesPlaylist
<1>2. UNCHANGED <<measured, goal, offset, chunk, pc, request, error, outcome, open, stored,
                  sound, object, excuse>>
  BY DEF FileGrows, LeavesPlaylist, local, remote
<1>3. FileInv'
  BY <1>1, <1>2 DEF IInv, TypeOK, FileInv
<1> QED
  BY <1>1, <1>2, <1>3 DEF IInv, TypeOK, PhaseInv, OpenInv, PartsInv, SizeInv, ObjectInv

\* The stats and the reads.
LEMMA LocalIInv == IInv /\ (Stat \/ ReadAll \/ StatAgain \/ ReadChunk) => IInv'
<1> SUFFICES ASSUME IInv, Stat \/ ReadAll \/ StatAgain \/ ReadChunk
             PROVE  IInv'
  OBVIOUS
<1> USE DEF IInv, TypeOK, PhaseInv, OpenInv, FileInv, PartsInv, SizeInv, ObjectInv,
            Request, Failure, remote, Goto, Return, Abort
<1>1. CASE Stat
  BY <1>1 DEF Stat
<1>2. CASE ReadAll
  BY <1>2 DEF ReadAll
<1>3. CASE StatAgain
  BY <1>3, NothingIsFullParts DEF StatAgain
<1>4. CASE ReadChunk
  BY <1>4 DEF ReadChunk
<1> QED
  BY <1>1, <1>2, <1>3, <1>4

\* What S3 executes.
LEMMA RemoteIInv ==
  IInv /\ (S3Puts \/ S3Creates \/ S3TakesPart \/ S3Completes \/ S3Aborts) => IInv'
<1> SUFFICES ASSUME IInv, S3Puts \/ S3Creates \/ S3TakesPart \/ S3Completes \/ S3Aborts
             PROVE  IInv'
  OBVIOUS
<1> USE DEF IInv, TypeOK, PhaseInv, OpenInv, FileInv, PartsInv, SizeInv, ObjectInv,
            Request, Failure, local, Executes
<1>1. CASE S3Puts
  BY <1>1 DEF S3Puts
<1>2. CASE S3Creates
  BY <1>2 DEF S3Creates
<1>3. CASE S3TakesPart
  <2> USE <1>3 DEF S3TakesPart
  <2>1. PartsInv'
    OBVIOUS
  <2>2. TypeOK' /\ PhaseInv' /\ OpenInv' /\ FileInv' /\ SizeInv' /\ ObjectInv'
    OBVIOUS
  <2> QED
    BY <2>1, <2>2
<1>4. CASE S3Completes
  BY <1>4 DEF S3Completes
<1>5. CASE S3Aborts
  BY <1>5 DEF S3Aborts
<1> QED
  BY <1>1, <1>2, <1>3, <1>4, <1>5

\* Answers, failures and the cancellation.
LEMMA AnswerIInv == IInv /\ Answered => IInv'
<1> SUFFICES ASSUME IInv, Answered PROVE IInv'
  OBVIOUS
<1> USE DEF IInv, TypeOK, PhaseInv, OpenInv, FileInv, PartsInv, SizeInv, ObjectInv,
            Request, Failure, Goto, Return, remote, Answered
<1>1. CASE pc = "part"
  <2>1. chunk = Chunk => FullParts(offset + chunk)
    BY <1>1, FullPartsGrow
  <2> QED
    BY <1>1, <2>1
<1>2. CASE pc # "part"
  BY <1>2
<1> QED
  BY <1>1, <1>2

LEMMA FailureIInv ==
  ASSUME IInv, NEW why \in Failure,
         FailsOutsideTry(why) \/ FailsInTry(why) \/ AbortFails \/ Cancelled
  PROVE  IInv'
<1> USE DEF IInv, TypeOK, PhaseInv, OpenInv, FileInv, PartsInv, SizeInv, ObjectInv,
            Request, Failure, local, remote, Return, Abort, Fails
<1>1. CASE FailsOutsideTry(why)
  BY <1>1 DEF FailsOutsideTry
<1>2. CASE FailsInTry(why)
  BY <1>2 DEF FailsInTry
<1>3. CASE AbortFails
  BY <1>3 DEF AbortFails
<1>4. CASE Cancelled
  BY <1>4 DEF Cancelled
<1> QED
  BY <1>1, <1>2, <1>3, <1>4

LEMMA Inductive == IInv /\ [Next]_vars => IInv'
<1> SUFFICES ASSUME IInv, [Next]_vars PROVE IInv'
  OBVIOUS
<1>1. CASE UNCHANGED vars
  BY <1>1 DEF vars, local, remote, IInv, TypeOK, PhaseInv, OpenInv, FileInv, PartsInv,
              SizeInv, ObjectInv
<1>2. ASSUME NEW why \in Failure, FailsOutsideTry(why) \/ FailsInTry(why) PROVE IInv'
  BY <1>2, FailureIInv
<1>3. CASE AbortFails \/ Cancelled
  BY <1>3, FailureIInv, "transient" \in Failure DEF Failure
<1> QED
  BY <1>1, <1>2, <1>3, FileIInv, LocalIInv, RemoteIInv, AnswerIInv DEF Next

LEMMA Invariance == Spec => []IInv
  BY Initially, Inductive, PTL DEF Spec

\* Type correctness of the call.
THEOREM TypeCorrect == Spec => []TypeOK
  BY Invariance, PTL DEF IInv

\* An upload that stays open was cancelled, or a request about it unanswered:
\* whatever the sizes and however often the file grows.
THEOREM DanglingIsExcused == Spec => []DanglingHasAReason
<1>1. IInv => DanglingHasAReason
  BY DEF IInv, PhaseInv, OpenInv, DanglingHasAReason, Request
<1> QED
  BY <1>1, Invariance, PTL
-----------------------------------------------------------------------------
(* A file that ffmpeg has closed                                           *)

\* ffmpeg has closed the file: it may still delete it, not write to it.
FileIsClosed == [][~FileGrows]_vars

\* With a closed file both stats agree, and the parts add up to them.
ClosedInv ==
  /\ pc \notin {"stat", "done"} => file \in {Gone, measured}
  /\ pc \in {"read", "part", "complete"} => goal = measured /\ offset <= goal
  /\ pc = "put" => chunk = measured
  /\ pc = "part" => offset + chunk <= goal
  /\ object # NoObject => object = measured

LEMMA ClosedStep == IInv /\ ClosedInv /\ [Next]_vars /\ [~FileGrows]_vars => ClosedInv'
<1> SUFFICES ASSUME IInv, ClosedInv, [Next]_vars, [~FileGrows]_vars PROVE ClosedInv'
  OBVIOUS
<1> USE DEF ClosedInv, IInv, TypeOK, PhaseInv, ObjectInv, PartsInv, SizeInv, Request, Failure,
            Goto, Return, Abort
<1>1. CASE UNCHANGED vars
  BY <1>1 DEF vars, local, remote
<1>2. CASE FileGrows
  BY <1>1, <1>2
<1>3. CASE LeavesPlaylist
  BY <1>3 DEF LeavesPlaylist, local, remote
<1>4. CASE Stat \/ ReadAll \/ StatAgain
  <2>1. CASE Stat
    BY <2>1 DEF Stat, remote
  <2>2. CASE ReadAll
    BY <2>2 DEF ReadAll, remote
  <2>3. CASE StatAgain
    BY <2>3 DEF StatAgain, remote
  <2> QED
    BY <1>4, <2>1, <2>2, <2>3
<1>5. CASE ReadChunk
  BY <1>5 DEF ReadChunk, remote
<1>6. CASE S3Puts \/ S3Creates \/ S3TakesPart \/ S3Completes \/ S3Aborts
  <2>1. UNCHANGED <<file, measured, goal, offset, chunk, pc>>
    BY <1>6 DEF S3Puts, S3Creates, S3TakesPart, S3Completes, S3Aborts, Executes, local
  <2>2. \/ object' = object
        \/ pc = "put" /\ object' = chunk
        \/ pc = "complete" /\ request = "sent" /\ object' = stored
    BY <1>6 DEF S3Puts, S3Creates, S3TakesPart, S3Completes, S3Aborts, Executes
  <2>3. pc = "complete" => stored = measured
    OBVIOUS
  <2> QED
    BY <2>1, <2>2, <2>3
<1>7. CASE Answered
  BY <1>7 DEF Answered, remote
<1>8. ASSUME NEW why \in Failure, FailsOutsideTry(why) \/ FailsInTry(why) PROVE ClosedInv'
  BY <1>8 DEF FailsOutsideTry, FailsInTry, local, remote
<1>9. CASE AbortFails \/ Cancelled
  BY <1>9 DEF AbortFails, Cancelled, local, remote
<1> QED
  BY <1>1, <1>2, <1>3, <1>4, <1>5, <1>6, <1>7, <1>8, <1>9 DEF Next

\* What S3 has of the call is nothing, or a sound object of the size of the file.
WholeOrNothing == object # NoObject => sound = TRUE /\ object = measured

\* A closed file is stored whole or not at all, in one request or in any number
\* of parts, also when it is deleted under the reads: only growth makes the
\* object differ from what the stat measured.
THEOREM ClosedFileStoredWhole == Spec /\ FileIsClosed => []WholeOrNothing
<1>1. Init => ClosedInv
  BY DEF Init, ClosedInv
<1>2. IInv /\ ClosedInv => WholeOrNothing
  BY DEF IInv, PartsInv, ClosedInv, WholeOrNothing
<1> QED
  BY <1>1, <1>2, ClosedStep, Invariance, PTL DEF Spec, FileIsClosed
-----------------------------------------------------------------------------
(* The call is an UploadAttempt                                            *)

\* The object that UploadAttempt sees.
Seen == IF sound \/ object = NoObject THEN object ELSE Torn

\* What the caller sees of a step is a step of UploadAttempt, or nothing.
LEMMA StepIsAttempt ==
  ASSUME IInv, IInv', [Next]_vars
  PROVE  [Attempt!Next]_<<measured, Seen, outcome>>
<1>1. Seen = object /\ Seen' = object'
  BY DEF IInv, PartsInv, Seen
<1> USE DEF Attempt!Next, Attempt!Measure, Attempt!Store, Attempt!Succeed,
            Attempt!FailForGood, Attempt!FailForNow, Attempt!FailUnforeseen,
            Attempt!Cancel, Attempt!End, Attempt!NoObject, NoObject
<1> USE <1>1 DEF Seen, IInv, TypeOK, PhaseInv, Request, Failure
<1>2. CASE FileGrows \/ LeavesPlaylist
  BY <1>2 DEF FileGrows, LeavesPlaylist, local, remote
<1>3. CASE Stat
  BY <1>3 DEF Stat, FileInv, ObjectInv, Goto, Return, remote
<1>4. CASE ReadAll
  BY <1>4 DEF ReadAll, ObjectInv, Goto, Return, remote
<1>5. CASE StatAgain \/ ReadChunk
  BY <1>5 DEF StatAgain, ReadChunk, Goto, Abort, remote
<1>6. CASE S3Puts
  BY <1>6 DEF S3Puts, Executes, ObjectInv, SizeInv, local
<1>7. CASE S3Completes
  BY <1>7 DEF S3Completes, Executes, ObjectInv, SizeInv, PartsInv, FileInv, local
<1>8. CASE S3Creates \/ S3TakesPart \/ S3Aborts
  BY <1>8 DEF S3Creates, S3TakesPart, S3Aborts, Executes, local
<1>9. CASE Answered
  BY <1>9 DEF Answered, ObjectInv, Goto, Return, remote
<1>10. ASSUME NEW why \in Failure, FailsOutsideTry(why) \/ FailsInTry(why)
       PROVE  [Attempt!Next]_<<measured, Seen, outcome>>
  BY <1>10 DEF FailsOutsideTry, FailsInTry, Fails, ObjectInv, Return, Abort, local, remote
<1>11. CASE AbortFails \/ Cancelled
  BY <1>11 DEF AbortFails, Cancelled, ObjectInv, Return, local, remote
<1>12. CASE UNCHANGED vars
  BY <1>12 DEF vars, local, remote
<1> QED
  BY <1>2, <1>3, <1>4, <1>5, <1>6, <1>7, <1>8, <1>9, <1>10, <1>11, <1>12 DEF Next

\* Refinement: every call does what UploadQueue's one-step attempts promise, for
\* every part size, every file size and every order of growth, loss and failure.
THEOREM Implements == Spec => ImplementsAttempt
<1>1. Init => Attempt!Init
  BY DEF Init, Attempt!Init, Attempt!NoObject, NoObject
<1>2. IInv /\ IInv' /\ [Next]_vars => [Attempt!Next]_<<measured, Seen, outcome>>
  BY StepIsAttempt
<1> QED
  BY <1>1, <1>2, Invariance, PTL DEF Spec, ImplementsAttempt, Attempt!Spec, Seen
=============================================================================
