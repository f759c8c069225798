------------------------- MODULE PriorityScheduler -------------------------
(***************************************************************************)
(* Which pending segment the upload worker takes next: UploadQueue's       *)
(* _choose_class and _claim_next over the per-class queries of             *)
(* storage/db.py.                                                          *)
(*                                                                         *)
(* Within a camera and a class the oldest row goes first, so the rows are  *)
(* counted, not named.  cutoff_iso is taken once per claim: the class of a *)
(* row cannot change inside one, and a claim is one step.                  *)
(***************************************************************************)
EXTENDS Integers, FiniteSets

CONSTANTS
  Cameras,      \* number of cameras; a camera is its rank in camera_id order
  Ratio,        \* upload.priority_ratio
  MaxPending,   \* bound on the pending rows of one camera in one class
  Turns         \* where the round-robin index wraps: a bound on an unbounded integer

Class  == {"realtime", "backlog"}
Camera == 1..Cameras

ASSUME CamerasAssumption == Cameras \in Nat \ {0}
ASSUME RatioAssumption == Ratio \in Nat \ {0}
ASSUME MaxPendingAssumption == MaxPending \in Nat \ {0}
\* A common multiple of the lengths a list of cameras may have, so that wrapping
\* never changes the camera the index points at (WrappingIsExact).
ASSUME TurnsAssumption == Turns \in Nat \ {0} /\ \A n \in Camera : Turns % n = 0

VARIABLES
  pending,    \* pending rows per class and camera
  rtServed,   \* _rt_served, which is only compared with Ratio: kept up to Ratio
  rrIndex,    \* _rr_index, which is only used modulo a list length: kept modulo Turns
  streak,     \* history: realtime claims in a row while backlog was waiting, up to Ratio + 1
  since       \* history: realtime claims since the last backlog claim, up to Ratio

vars == <<pending, rtServed, rrIndex, streak, since>>

TypeOK ==
  /\ pending \in [Class -> [Camera -> 0..MaxPending]]
  /\ rtServed \in 0..Ratio
  /\ rrIndex \in [Class -> 0..(Turns - 1)]
  /\ streak \in 0..(Ratio + 1)
  /\ since \in 0..Ratio

\* In memory the counters start at zero; the index may hold anything.
Init ==
  /\ pending \in [Class -> [Camera -> 0..MaxPending]]
  /\ rtServed = 0
  /\ rrIndex = [k \in Class |-> 0]
  /\ streak = 0 /\ since = 0

UpToRatio(n) == IF n < Ratio THEN n ELSE Ratio

-----------------------------------------------------------------------------
\* pending_cameras_for_class
Waiting(k) == {c \in Camera : pending[k][c] > 0}

Contended == \A k \in Class : Waiting(k) # {}

\* Mutant of Chosen: realtime first whenever there is some.
ChosenGreedy(k) ==
  Waiting(k) # {} /\ (k = "realtime" \/ Waiting("realtime") = {})

\* _choose_class
Chosen(k) ==
  /\ Waiting(k) # {}
  /\ Contended => (k = "realtime" <=> rtServed < Ratio)

\* Mutant of InTurn: the index is taken modulo the number of cameras configured.
InTurnOfAll(k, c) ==
  /\ c \in Waiting(k)
  /\ Cardinality({d \in Waiting(k) : d < c}) = rrIndex[k] % Cameras

\* Mutant of InTurn: the camera list loses its WHERE state='pending'.
InTurnOfKnown(k, c) == c - 1 = rrIndex[k] % Cameras

\* cameras[rr_index % len(cameras)], the cameras in camera_id order
InTurn(k, c) ==
  /\ c \in Waiting(k)
  /\ Cardinality({d \in Waiting(k) : d < c}) = rrIndex[k] % Cardinality(Waiting(k))

\* Mutant of Advance: the pointer stays on the camera.
AdvanceNever(k) == UNCHANGED rrIndex

Advance(k) == rrIndex' = [rrIndex EXCEPT ![k] = (@ + 1) % Turns]

Served(k) == rtServed' = IF k = "realtime" THEN UpToRatio(rtServed + 1) ELSE 0

\* _claim_next returns an item of that class and camera.
Claim(k, c) ==
  /\ Chosen(k) /\ InTurn(k, c)
  /\ Advance(k) /\ Served(k)
  /\ pending' = [pending EXCEPT ![k][c] = @ - 1]
  /\ streak' = IF k = "realtime" /\ Contended
               THEN IF streak <= Ratio THEN streak + 1 ELSE streak
               ELSE 0
  /\ since' = IF k = "realtime" THEN UpToRatio(since + 1) ELSE 0

\* Mutant of ClaimLost: the ratio counts the turn before the claim succeeds.
ClaimLostCounted(k, c) ==
  /\ Chosen(k) /\ InTurn(k, c)
  /\ Advance(k) /\ Served(k)
  /\ UNCHANGED <<pending, streak, since>>

\* The query or the claim raised: the camera's turn is gone, the class's is not.
ClaimLost(k, c) ==
  /\ Chosen(k) /\ InTurn(k, c)
  /\ Advance(k)
  /\ UNCHANGED <<pending, rtServed, streak, since>>

\* enqueue: a fresh segment is realtime.
Arrive(c) ==
  /\ pending["realtime"][c] < MaxPending
  /\ pending' = [pending EXCEPT !["realtime"][c] = @ + 1]
  /\ UNCHANGED <<rtServed, rrIndex, streak, since>>

\* The oldest realtime row falls behind the cutoff.
Age(c) ==
  /\ pending["realtime"][c] > 0 /\ pending["backlog"][c] < MaxPending
  /\ pending' = [pending EXCEPT !["realtime"][c] = @ - 1, !["backlog"][c] = @ + 1]
  /\ UNCHANGED <<rtServed, rrIndex, streak, since>>

Next ==
  \/ \E k \in Class, c \in Camera : Claim(k, c) \/ ClaimLost(k, c)
  \/ \E c \in Camera : Arrive(c) \/ Age(c)

\* The worker keeps claiming, and time passes.
Fairness ==
  /\ WF_vars(\E k \in Class, c \in Camera : Claim(k, c))
  /\ \A c \in Camera : WF_vars(Age(c))

Spec == Init /\ [][Next]_vars /\ Fairness
-----------------------------------------------------------------------------
(* Properties                                                              *)

\* Backlog that waits is passed over by at most Ratio realtime claims in a row,
\* also when claims are lost in between (_choose_class with _rt_served).
AtMostRatioBeforeBacklog == streak <= Ratio

\* While realtime segments wait, a backlog claim comes only after Ratio realtime
\* claims: a lost claim does not use up the share of the live video.
BacklogWaitsItsTurn ==
  [][\A c \in Camera : Claim("backlog", c) /\ Contended => since = Ratio]_vars

\* Whenever a row is pending, one claim is possible: an empty class or a camera
\* that drained never leaves the worker idle.
WorkIsFound ==
  (\E k \in Class : Waiting(k) # {}) => \E k \in Class, c \in Camera : Chosen(k) /\ InTurn(k, c)

\* Backlog does not starve under an endless flow of live video.
BacklogServed ==
  (<>[](Waiting("backlog") # {})) => []<><<\E c \in Camera : Claim("backlog", c)>>_vars

\* Once claims are no longer lost, a camera that always has pending segments is
\* served again and again (the round robin of _claim_next).
EveryCameraServed ==
  (<>[][\A k \in Class, c \in Camera : ~ClaimLost(k, c)]_vars) =>
    \A c \in Camera : (<>[](\E k \in Class : pending[k][c] > 0))
                        => []<><<\E k \in Class : Claim(k, c)>>_vars
=============================================================================
