-------------------------- MODULE SegmentDelivery --------------------------
(***************************************************************************)
(* What the upload queue promises about each segment, without worker,      *)
(* retries or restarts: a tracked segment is queued until it is confirmed  *)
(* or given up; it is confirmed only once the remote store has it, and     *)
(* only a confirmed segment may be forgotten.  Given up is for good: that  *)
(* is what the code does, although docs/2-2:16 says that a failed segment  *)
(* is recovered at a restart (FailedResumes in UploadQueue).               *)
(***************************************************************************)
CONSTANT Segment

VARIABLES status, remote

Init ==
  /\ status = [s \in Segment |-> "untracked"]
  /\ remote = {}

Move(s, from, to) ==
  /\ status[s] = from
  /\ status' = [status EXCEPT ![s] = to]
  /\ UNCHANGED remote

Accept(s)  == Move(s, "untracked", "queued")
Confirm(s) == s \in remote /\ Move(s, "queued", "delivered")
GiveUp(s)  == Move(s, "queued", "given_up")
Recycle(s) == Move(s, "delivered", "untracked")

Store(s) ==
  /\ status[s] = "queued"
  /\ remote' = remote \cup {s}
  /\ UNCHANGED status

Next ==
  \E s \in Segment : Accept(s) \/ Store(s) \/ Confirm(s) \/ GiveUp(s) \/ Recycle(s)

Spec == Init /\ [][Next]_<<status, remote>>
=============================================================================
