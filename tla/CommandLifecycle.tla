-------------------------- MODULE CommandLifecycle --------------------------
(***************************************************************************)
(* What the PTZ service promises about each command in the cloud's table,  *)
(* without paths, answers, tasks or restarts: a pending command is either  *)
(* taken or refused, a taken one is started at most once, an outcome is    *)
(* written only for a command that was started, and no outcome is taken    *)
(* back except completed, which an error while it is written can still     *)
(* turn into failed.                                                       *)
(***************************************************************************)
EXTENDS Naturals

CONSTANT Command

VARIABLES
  status,   \* of the command's row
  starts    \* how often the command was started

Init ==
  /\ status = [c \in Command |-> "unissued"]
  /\ starts = [c \in Command |-> 0]

Move(c, from, to) ==
  /\ status[c] = from
  /\ status' = [status EXCEPT ![c] = to]
  /\ UNCHANGED starts

Issue(c)  == Move(c, "unissued", "pending")
Take(c)   == Move(c, "pending", "processing")
Refuse(c) == Move(c, "pending", "rejected")

Start(c) ==
  /\ status[c] = "processing" /\ starts[c] = 0
  /\ starts' = [starts EXCEPT ![c] = 1]
  /\ UNCHANGED status

Finish(c) ==
  /\ starts[c] = 1
  /\ Move(c, "processing", "completed") \/ Move(c, "processing", "failed")

Revoke(c) == starts[c] = 1 /\ Move(c, "completed", "failed")

Next == \E c \in Command : Issue(c) \/ Take(c) \/ Refuse(c) \/ Start(c) \/ Finish(c) \/ Revoke(c)

Spec == Init /\ [][Next]_<<status, starts>>
=============================================================================
