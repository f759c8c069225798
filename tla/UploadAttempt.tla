---------------------------- MODULE UploadAttempt ----------------------------
(***************************************************************************)
(* What the queue counts on when it calls upload_segment once: the object  *)
(* appears in S3 in one piece or not at all, holding the file's bytes from *)
(* the first one to some point past what the file had when the call began; *)
(* a success is reported after that, a permanent failure only without it.  *)
(* UploadQueue's ReadFile, S3Stores and Answer* are these steps.           *)
(***************************************************************************)
EXTENDS Integers

VARIABLES
  measured,   \* the file's size when the call began, 0 before that
  object,     \* how much of the file this call has put into S3, or NoObject
  outcome     \* how the call ended, "none" while it runs

NoObject == -1

Init == measured = 0 /\ object = NoObject /\ outcome = "none"

Measure ==
  /\ outcome = "none" /\ measured = 0 /\ measured' \in Nat
  /\ UNCHANGED <<object, outcome>>

Store ==
  /\ outcome = "none" /\ object = NoObject
  /\ object' \in Nat /\ object' >= measured
  /\ UNCHANGED <<measured, outcome>>

End(how) ==
  /\ outcome = "none" /\ outcome' = how
  /\ UNCHANGED <<measured, object>>

Succeed         == object # NoObject /\ End("ok")
FailForGood     == object = NoObject /\ End("permanent")
FailForNow      == End("transient")
FailUnforeseen  == End("unclassified")
Cancel          == End("cancelled")

Next ==
  \/ Measure \/ Store
  \/ Succeed \/ FailForGood \/ FailForNow \/ FailUnforeseen \/ Cancel

Spec == Init /\ [][Next]_<<measured, object, outcome>>
=============================================================================
