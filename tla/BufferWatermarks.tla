-------------------------- MODULE BufferWatermarks --------------------------
(***************************************************************************)
(* pipeline/buffer.py's enforce(), as UploadService._buffer_loop runs it:  *)
(* over the cleanup mark, recycle uploaded segments, oldest first, down to *)
(* the alert mark.  A round reads the disk usage once and the index once   *)
(* and then does its own accounting, with the sizes that the index         *)
(* recorded when the segments were enqueued, that is while they were still *)
(* being written, and whether or not ffmpeg has removed the file since.    *)
(* The life of a row before it is uploaded is in UploadQueue.              *)
(***************************************************************************)
EXTENDS Integers

CONSTANTS
  Segments,   \* number of segments, in the order of created_at and then id
  Sizes,      \* what a segment may take on disk
  Other,      \* what else is on the filesystem
  Alert,      \* alert_threshold_percent of the filesystem
  Cleanup,    \* cleanup_threshold_percent of the filesystem
  MaxErrors   \* bound on the rounds that an exception ends

ASSUME SegmentsAssumption == Segments \in Nat
ASSUME SizesAssumption == Sizes \subseteq Nat \ {0}
ASSUME MarksAssumption == Other \in Nat /\ Alert \in Nat /\ Cleanup \in Nat
ASSUME MaxErrorsAssumption == MaxErrors \in Nat

Segment == 1..Segments

VARIABLES
  state,      \* the segment's row: not there yet, not uploaded, uploaded, deleted
  recorded,   \* size_bytes of the row
  file,       \* what the segment takes on disk, 0 when there is no file
  used,       \* disk usage
  pc,         \* where the round is, "idle" between rounds
  left,       \* the round's own account of the usage
  listed,     \* the rows that oldest_uploaded() returned
  rest,       \* those of them the round has not come to
  victim,     \* the segment whose row it has just deleted, or 0
  errors      \* rounds ended by an exception

disk  == <<file, used>>
rows  == <<state, recorded>>
round == <<pc, left, listed, rest, victim>>
vars  == <<disk, rows, round, errors>>

TypeOK ==
  /\ state \in [Segment -> {"none", "unsent", "uploaded", "recycled"}]
  /\ recorded \in [Segment -> Nat] /\ file \in [Segment -> Nat]
  /\ used \in Int /\ left \in Int
  /\ pc \in {"idle", "list", "loop", "unlink"}
  /\ listed \in SUBSET Segment /\ rest \in SUBSET Segment
  /\ victim \in 0..Segments
  /\ errors \in 0..MaxErrors

Init ==
  /\ state = [s \in Segment |-> "none"]
  /\ recorded = [s \in Segment |-> 0] /\ file = [s \in Segment |-> 0]
  /\ used = Other
  /\ pc = "idle" /\ left = 0 /\ listed = {} /\ rest = {} /\ victim = 0
  /\ errors = 0

-----------------------------------------------------------------------------
(* The disk and the index change under the round                           *)

\* The next segment: enqueued when first seen, with the size it has by then.
Recorded(s) ==
  /\ state[s] = "none" /\ \A t \in 1..(s - 1) : state[t] # "none"
  /\ \E size \in Sizes : \E seen \in 0..size :
       /\ file' = [file EXCEPT ![s] = size] /\ used' = used + size
       /\ recorded' = [recorded EXCEPT ![s] = seen]
  /\ state' = [state EXCEPT ![s] = "unsent"]
  /\ UNCHANGED <<round, errors>>

Uploaded(s) ==
  /\ state[s] = "unsent"
  /\ state' = [state EXCEPT ![s] = "uploaded"]
  /\ UNCHANGED <<recorded, disk, round, errors>>

RemoveFile(s) ==
  file' = [file EXCEPT ![s] = 0] /\ used' = used - file[s]

\* ffmpeg's -hls_flags delete_segments
LeavesPlaylist(s) ==
  /\ file[s] # 0 /\ RemoveFile(s)
  /\ UNCHANGED <<rows, round, errors>>

-----------------------------------------------------------------------------
(* A round of enforce()                                                    *)

\* The round is over; what it kept in its locals is gone.
Back == pc' = "idle" /\ left' = 0 /\ listed' = {} /\ rest' = {} /\ victim' = 0

\* shutil.disk_usage: under the cleanup mark the round ends here.
ReadUsage ==
  /\ pc = "idle" /\ used >= Cleanup
  /\ pc' = "list" /\ left' = used
  /\ UNCHANGED <<disk, rows, listed, rest, victim, errors>>

\* With nothing listed the result says backpressure, which nobody reads.
ListUploaded ==
  /\ pc = "list"
  /\ listed' = {s \in Segment : state[s] = "uploaded"} /\ rest' = listed'
  /\ pc' = "loop"
  /\ UNCHANGED <<disk, rows, left, victim, errors>>

RoundEnds ==
  /\ pc = "loop" /\ (rest = {} \/ left <= Alert)
  /\ Back /\ UNCHANGED <<disk, rows, errors>>

\* DELETE ... WHERE state='uploaded': a row in another state is passed over.
DeleteRow(s) ==
  /\ IF state[s] = "uploaded"
     THEN /\ state' = [state EXCEPT ![s] = "recycled"]
          /\ victim' = s /\ pc' = "unlink"
     ELSE UNCHANGED <<state, victim, pc>>
  /\ rest' = rest \ {s}
  /\ UNCHANGED <<disk, recorded, left, listed, errors>>

\* Mutant of NextCandidate: ORDER BY ... DESC.
NextCandidateNewest ==
  /\ pc = "loop" /\ left > Alert
  /\ \E s \in rest : (\A t \in rest : s >= t) /\ DeleteRow(s)

NextCandidate ==
  /\ pc = "loop" /\ left > Alert
  /\ \E s \in rest : (\A t \in rest : s <= t) /\ DeleteRow(s)

\* The accounting takes off what the row says, not what the file was.
Unlink ==
  /\ pc = "unlink" /\ RemoveFile(victim)
  /\ left' = left - recorded[victim]
  /\ victim' = 0 /\ pc' = "loop"
  /\ UNCHANGED <<rows, listed, rest, errors>>

\* Mutant of UnlinkRaises: the row is put back, so that the file is not lost.
UnlinkRaisesKeepsRow ==
  /\ pc = "unlink"
  /\ state' = [state EXCEPT ![victim] = "uploaded"]
  /\ Back /\ UNCHANGED <<disk, recorded, errors>>

\* The file stays without a row, and nothing is taken off.
UnlinkRaises ==
  /\ pc = "unlink"
  /\ victim' = 0 /\ pc' = "loop"
  /\ UNCHANGED <<disk, rows, left, listed, rest, errors>>

\* SQLite or the filesystem raises: _buffer_loop logs it and sleeps.
RoundBreaks ==
  /\ pc \in {"list", "loop"} /\ errors < MaxErrors
  /\ errors' = errors + 1
  /\ Back /\ UNCHANGED <<disk, rows>>

-----------------------------------------------------------------------------
RoundStep ==
  \/ ReadUsage \/ ListUploaded \/ RoundEnds
  \/ NextCandidate \/ Unlink \/ UnlinkRaises

Next ==
  \/ RoundStep \/ RoundBreaks
  \/ \E s \in Segment : Recorded(s) \/ Uploaded(s) \/ LeavesPlaylist(s)

\* The loop starts a round every _BUFFER_ENFORCE_INTERVAL seconds, and its calls
\* return.  Files may stay undeletable for ever.
Spec == Init /\ [][Next]_vars /\ WF_vars(RoundStep)
-----------------------------------------------------------------------------
(* Properties                                                              *)

\* A round takes the uploaded segments in their order whatever raised, grew,
\* was uploaded or vanished since it listed them: none goes while an older one of
\* its list is still uploaded.
OldestGoesFirst ==
  [][\A s \in Segment :
       state[s] = "uploaded" /\ state'[s] = "recycled" =>
         \A t \in listed : t < s => state[t] # "uploaded"]_vars

\* No uploaded segment is kept on a disk that stays too full: rounds that break,
\* files that cannot be deleted and an account that takes off what was never freed
\* do not keep the buffer from getting to it.
OverfullIsRelieved ==
  \A s \in Segment :
    state[s] = "uploaded" /\ used >= Cleanup /\ used > Alert ~>
      state[s] = "recycled" \/ used < Cleanup \/ used <= Alert

\* The round's list and its position in it.
RoundInv ==
  /\ rest \subseteq listed
  /\ \A s \in listed : state[s] \in {"uploaded", "recycled"}
  /\ pc \in {"loop", "unlink"} =>
       \A s \in listed \ rest : state[s] = "recycled"
  /\ pc \in {"loop", "unlink"} =>
       \A s \in listed \ rest, t \in rest : s < t
  /\ pc = "unlink" => victim \in Segment

IInv == TypeOK /\ RoundInv
=============================================================================
