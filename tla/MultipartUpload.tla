--------------------------- MODULE MultipartUpload ---------------------------
(***************************************************************************)
(* One call of S3Uploader.upload_segment (upload/s3_client.py) on a file   *)
(* that ffmpeg may still be writing, or removes: one PUT up to the         *)
(* threshold, a multipart upload above it, aborted when a step raises.     *)
(* A request is executed by S3 or not, and answered or not: a call may     *)
(* fail although S3 did what it asked.                                     *)
(***************************************************************************)
EXTENDS Integers

CONSTANTS
  Chunk,     \* _MULTIPART_CHUNK_BYTES, which is the threshold as well
  MaxSize    \* bound on the file's size

ASSUME ChunkAssumption == Chunk \in Nat \ {0}
ASSUME MaxSizeAssumption == MaxSize \in Nat

Gone     == -1   \* the size of a file that is not there
NoObject == -1   \* the size of an object that is not there
Torn     == -2   \* the size of one with a gap or a short part inside

VARIABLES
  file,       \* the size of the file now
  measured,   \* what upload_segment's stat said
  goal,       \* file_size: what _upload_multipart's own stat said
  offset,     \* bytes of the parts that were answered
  chunk,      \* size of the body of the current request
  pc,         \* where the call is
  request,    \* whether S3 has executed the request under way
  error,      \* the exception that made the call abort the upload
  outcome,    \* how the call ended
  open,       \* S3: whether the multipart upload is open
  stored,     \* S3: bytes of its parts
  sound,      \* S3: whether they follow one another, all but the last of full size
  object,     \* S3: the size of the object that this call put
  excuse      \* history: why the client could not close the upload

local  == <<measured, goal, offset, chunk>>
remote == <<open, stored, sound, object>>
vars   == <<file, local, pc, request, error, outcome, remote, excuse>>

Failure == {"transient", "permanent", "unclassified"}
Request == {"put", "create", "part", "complete", "abort"}

TypeOK ==
  /\ file \in Nat \cup {Gone}
  /\ measured \in Nat /\ goal \in Nat /\ offset \in Nat /\ chunk \in Nat
  /\ pc \in Request \cup {"stat", "read_all", "stat_again", "read", "done"}
  /\ request \in {"sent", "executed"}
  /\ error \in Failure \cup {"none"}
  /\ outcome \in Failure \cup {"none", "ok", "cancelled"}
  /\ open \in BOOLEAN /\ stored \in Nat /\ sound \in BOOLEAN
  /\ object \in Nat \cup {NoObject}
  /\ excuse \in {"none", "cancelled", "create_unanswered", "abort_unanswered"}

Init ==
  /\ file \in 0..MaxSize \cup {Gone}
  /\ measured = 0 /\ goal = 0 /\ offset = 0 /\ chunk = 0
  /\ pc = "stat" /\ request = "sent" /\ error = "none" /\ outcome = "none"
  /\ open = FALSE /\ stored = 0 /\ sound = TRUE /\ object = NoObject
  /\ excuse = "none"

-----------------------------------------------------------------------------
(* ffmpeg                                                                  *)

FileGrows ==
  /\ file \in 0..(MaxSize - 1) /\ file' = file + 1
  /\ UNCHANGED <<local, pc, request, error, outcome, remote, excuse>>

LeavesPlaylist ==
  /\ file # Gone /\ file' = Gone
  /\ UNCHANGED <<local, pc, request, error, outcome, remote, excuse>>

-----------------------------------------------------------------------------
(* The call                                                                *)

\* Steps that go on, and steps that leave upload_segment.
Goto(step) == pc' = step /\ request' = "sent" /\ UNCHANGED <<error, outcome>>

Return(how) ==
  /\ pc' = "done" /\ outcome' = how
  /\ UNCHANGED <<request, error>>

\* Inside the try of _upload_multipart: abort first, then re-raise.
Abort(why) ==
  /\ pc' = "abort" /\ request' = "sent" /\ error' = why
  /\ UNCHANGED outcome

Stat ==
  /\ pc = "stat"
  /\ IF file = Gone THEN Return("permanent") /\ UNCHANGED measured
     ELSE /\ measured' = file
          /\ Goto(IF file > Chunk THEN "create" ELSE "read_all")
  /\ UNCHANGED <<file, goal, offset, chunk, remote, excuse>>

ReadAll ==
  /\ pc = "read_all"
  /\ IF file = Gone THEN Return("permanent") /\ UNCHANGED chunk
     ELSE chunk' = file /\ Goto("put")
  /\ UNCHANGED <<file, measured, goal, offset, remote, excuse>>

\* Mutant of StatAgain: the second stat stands before the try.
StatAgainUnguarded ==
  /\ pc = "stat_again"
  /\ IF file = Gone THEN Return("permanent") /\ UNCHANGED goal
     ELSE goal' = file /\ Goto("read")
  /\ UNCHANGED <<file, measured, offset, chunk, remote, excuse>>

StatAgain ==
  /\ pc = "stat_again"
  /\ IF file = Gone THEN Abort("permanent") /\ UNCHANGED goal
     ELSE goal' = file /\ Goto("read")
  /\ UNCHANGED <<file, measured, offset, chunk, remote, excuse>>

\* Mutant of ReadChunk: while offset < path.stat().st_size.
ReadChunkToTheEnd ==
  /\ pc = "read"
  /\ \/ offset >= file /\ file # Gone /\ Goto("complete") /\ UNCHANGED chunk
     \/ file = Gone /\ Abort("permanent") /\ UNCHANGED chunk
     \/ /\ offset < file /\ Goto("part")
        /\ chunk' = IF file - offset > Chunk THEN Chunk ELSE file - offset
  /\ UNCHANGED <<file, measured, goal, offset, remote, excuse>>

\* The loop goes by the stat, each read by what is there now.  (The break on an
\* empty chunk needs a file that has shrunk.)
ReadChunk ==
  /\ pc = "read"
  /\ \/ offset >= goal /\ Goto("complete") /\ UNCHANGED chunk
     \/ offset < goal /\ file = Gone /\ Abort("permanent") /\ UNCHANGED chunk
     \/ /\ offset < goal /\ file # Gone
        /\ chunk' = IF file - offset > Chunk THEN Chunk ELSE file - offset
        /\ Goto(IF chunk' > 0 THEN "part" ELSE "complete")
  /\ UNCHANGED <<file, measured, goal, offset, remote, excuse>>

-----------------------------------------------------------------------------
(* Requests and their answers                                              *)

Executes ==
  /\ pc \in Request /\ request = "sent" /\ request' = "executed"
  /\ UNCHANGED <<file, local, pc, error, outcome, excuse>>

S3Puts ==
  /\ pc = "put" /\ Executes
  /\ object' = chunk /\ UNCHANGED <<open, stored, sound>>

S3Creates ==
  /\ pc = "create" /\ Executes
  /\ open' = TRUE /\ UNCHANGED <<stored, sound, object>>

\* Nothing but parts of full size.
FullParts(bytes) == bytes % Chunk = 0

S3TakesPart ==
  /\ pc = "part" /\ Executes
  /\ stored' = stored + chunk
  /\ sound' = (sound /\ offset = stored /\ FullParts(stored))
  /\ UNCHANGED <<open, object>>

S3Completes ==
  /\ pc = "complete" /\ Executes
  /\ object' = stored /\ open' = FALSE /\ UNCHANGED <<stored, sound>>

S3Aborts ==
  /\ pc = "abort" /\ Executes
  /\ open' = FALSE /\ UNCHANGED <<stored, sound, object>>

Answered ==
  /\ request = "executed"
  /\ \/ pc = "create" /\ Goto("stat_again") /\ UNCHANGED offset
     \/ pc = "part" /\ offset' = offset + chunk /\ Goto("read")
     \/ pc \in {"put", "complete"} /\ Return("ok") /\ UNCHANGED offset
     \/ pc = "abort" /\ Return(error) /\ UNCHANGED offset
  /\ UNCHANGED <<file, measured, goal, chunk, remote, excuse>>

\* What a request may fail with: S3 refuses only what it has not executed.
Fails(why) == why = "permanent" => request = "sent"

\* create_multipart_upload stands before the try, as put_object does.
FailsOutsideTry(why) ==
  /\ pc \in {"put", "create"} /\ Fails(why) /\ Return(why)
  /\ excuse' = IF pc = "create" /\ request = "executed"
               THEN "create_unanswered" ELSE excuse
  /\ UNCHANGED <<file, local, remote>>

FailsInTry(why) ==
  /\ pc \in {"part", "complete"} /\ Fails(why) /\ Abort(why)
  /\ UNCHANGED <<file, local, remote, excuse>>

\* except Exception: pass, and the first exception is raised again.
AbortFails ==
  /\ pc = "abort" /\ Return(error)
  /\ excuse' = IF request = "executed" THEN excuse ELSE "abort_unanswered"
  /\ UNCHANGED <<file, local, remote>>

\* The drain timeout cancels the worker: except Exception does not see it.
Cancelled ==
  /\ pc # "done" /\ Return("cancelled")
  /\ excuse' = "cancelled"
  /\ UNCHANGED <<file, local, remote>>

-----------------------------------------------------------------------------
Next ==
  \/ FileGrows \/ LeavesPlaylist
  \/ Stat \/ ReadAll \/ StatAgain \/ ReadChunk
  \/ S3Puts \/ S3Creates \/ S3TakesPart \/ S3Completes \/ S3Aborts
  \/ Answered
  \/ \E why \in Failure : FailsOutsideTry(why) \/ FailsInTry(why)
  \/ AbortFails \/ Cancelled

Spec == Init /\ [][Next]_vars
-----------------------------------------------------------------------------
(* Properties                                                              *)

\* An ended call leaves no multipart upload open in S3, unless it was cancelled,
\* or S3 did not answer the request that opened it or the one that was to close
\* it: no failure in between, of S3 or of the file, is forgotten.
DanglingHasAReason == outcome # "none" /\ open => excuse # "none"

\* The object as the queue sees it: a torn one is no size at all.
Attempt == INSTANCE UploadAttempt WITH
  object <- IF sound \/ object = NoObject THEN object ELSE Torn

\* A call is what UploadQueue takes it for: the object is whole, contiguous and
\* no shorter than the file was, and never there after a permanent failure, with
\* the file growing or vanishing under the reads and answers lost.
ImplementsAttempt == Attempt!Spec
=============================================================================
