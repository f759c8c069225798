------------------------- MODULE PtzCommandsProofs -------------------------
(***************************************************************************)
(* The delivery of PTZ commands, for any number of commands, over one path *)
(* or two, with and without outages.                                       *)
(***************************************************************************)
EXTENDS PtzCommands, TLAPS

USE CommandsAssumption, PathsAssumption

LEMMA Initially == Init => IInv
  BY DEF Init, IInv, TypeOK, ClaimInv, RunInv, OutcomeInv, DispatchedOnce, LiveMoveIsKnown, Live,
         Command, NoCommand, Moves

\* A command number is never NoCommand.
LEMMA CommandsAreNumbered == NoCommand \notin Command
  BY DEF Command, NoCommand

LEMMA Typing == IInv /\ [Next]_vars => TypeOK'
<1> SUFFICES ASSUME IInv, [Next]_vars
             PROVE  TypeOK'
  OBVIOUS
<1> USE CommandsAreNumbered
    DEF IInv, TypeOK, ClaimInv, cloudVars, receiver, executor
<1>1. ASSUME NEW c \in Command, Issue(c)
      PROVE  TypeOK'
  BY <1>1 DEF Issue
<1>2. ASSUME NEW c \in Command, Expire(c)
      PROVE  TypeOK'
  BY <1>2 DEF Expire
<1>3. CASE RealtimeDrops
  BY <1>3 DEF RealtimeDrops
<1>4. CASE GoDown
  BY <1>4 DEF GoDown
<1>5. CASE ComeUp
  BY <1>5 DEF ComeUp
<1>6. CASE Sweep
  BY <1>6 DEF Sweep
<1>7. ASSUME NEW p \in Paths, NEW c \in Command, SkipSeen(p, c)
      PROVE  TypeOK'
  BY <1>7 DEF SkipSeen, NextRow
<1>8. ASSUME NEW p \in Paths, NEW c \in Command, Accept(p, c)
      PROVE  TypeOK'
  BY <1>8 DEF Accept, NextRow, PathTo
<1>9. ASSUME NEW p \in Paths, NEW c \in Command, Reject(p, c)
      PROVE  TypeOK'
  BY <1>9 DEF Reject, NextRow, PathTo
<1>10. ASSUME NEW p \in Paths, RejectLands(p)
      PROVE  TypeOK'
  BY <1>10 DEF RejectLands, PathTo
<1>11. ASSUME NEW p \in Paths, ClaimLands(p)
      PROVE  TypeOK'
  BY <1>11 DEF ClaimLands
<1>12. ASSUME NEW p \in Paths, ClaimAnswerLost(p)
      PROVE  TypeOK'
  BY <1>12 DEF ClaimAnswerLost
<1>13. ASSUME NEW p \in Paths, ClaimTaken(p)
      PROVE  TypeOK'
  BY <1>13 DEF ClaimTaken, PathTo
<1>14. ASSUME NEW p \in Paths, GiveUp(p)
      PROVE  TypeOK'
  BY <1>14 DEF GiveUp, PathTo
<1>15. ASSUME NEW p \in Paths, ClaimWon(p)
      PROVE  TypeOK'
  BY <1>15 DEF ClaimWon, PathTo, Preempted
<1>16. ASSUME NEW c \in Command, CallStarts(c)
      PROVE  TypeOK'
  BY <1>16 DEF CallStarts
<1>17. ASSUME NEW c \in Command, CallReturns(c)
      PROVE  TypeOK'
  BY <1>17 DEF CallReturns
<1>18. ASSUME NEW c \in Command, NextCall(c)
      PROVE  TypeOK'
  BY <1>18 DEF NextCall
<1>19. ASSUME NEW c \in Command, ExecutionFails(c)
      PROVE  TypeOK'
  BY <1>19 DEF ExecutionFails
<1>20. ASSUME NEW c \in Command, FeedbackLands(c)
      PROVE  TypeOK'
  BY <1>20 DEF FeedbackLands
<1>21. ASSUME NEW c \in Command, FeedbackBuffered(c)
      PROVE  TypeOK'
  BY <1>21 DEF FeedbackBuffered
<1>22. CASE UNCHANGED vars
  BY <1>22 DEF vars, cloudVars, receiver, executor
<1>23. CASE Stop
  BY <1>23 DEF Stop
<1>24. ASSUME NEW p \in Paths, PathRaises(p)
      PROVE  TypeOK'
  BY <1>24 DEF PathRaises, PathTo
<1>25. ASSUME NEW c \in Command, FeedbackRaises(c)
      PROVE  TypeOK'
  BY <1>25 DEF FeedbackRaises
<1> QED
  BY <1>1, <1>2, <1>3, <1>4, <1>5, <1>6, <1>7, <1>8, <1>9, <1>10, <1>11, <1>12,
     <1>13, <1>14, <1>15, <1>16, <1>17, <1>18, <1>19, <1>20, <1>21, <1>22,
     <1>23, <1>24, <1>25 DEF Next, Outside, PathStep, Answer, Feedback

\* What a path, a row and a task say of each other survives every step.
LEMMA Inductive == IInv /\ [Next]_vars => IInv'
<1> SUFFICES ASSUME IInv, [Next]_vars
             PROVE  (ClaimInv /\ RunInv /\ OutcomeInv /\ DispatchedOnce /\ LiveMoveIsKnown)'
  BY Typing DEF IInv
<1> USE CommandsAreNumbered
    DEF IInv, TypeOK, ClaimInv, RunInv, OutcomeInv, DispatchedOnce, LiveMoveIsKnown, Live, Moves,
        cloudVars, receiver, executor
<1>1. ASSUME NEW c \in Command, Issue(c)
      PROVE  (ClaimInv /\ RunInv /\ OutcomeInv /\ DispatchedOnce /\ LiveMoveIsKnown)'
  BY <1>1 DEF Issue
<1>2. ASSUME NEW c \in Command, Expire(c)
      PROVE  (ClaimInv /\ RunInv /\ OutcomeInv /\ DispatchedOnce /\ LiveMoveIsKnown)'
  BY <1>2 DEF Expire
<1>3. CASE RealtimeDrops
  BY <1>3 DEF RealtimeDrops
<1>4. CASE GoDown
  BY <1>4 DEF GoDown
<1>5. CASE ComeUp
  BY <1>5 DEF ComeUp
<1>6. CASE Sweep
  BY <1>6 DEF Sweep
<1>7. ASSUME NEW p \in Paths, NEW c \in Command, SkipSeen(p, c)
      PROVE  (ClaimInv /\ RunInv /\ OutcomeInv /\ DispatchedOnce /\ LiveMoveIsKnown)'
  BY <1>7 DEF SkipSeen, NextRow
<1>8. ASSUME NEW p \in Paths, NEW c \in Command, Accept(p, c)
      PROVE  (ClaimInv /\ RunInv /\ OutcomeInv /\ DispatchedOnce /\ LiveMoveIsKnown)'
  BY <1>8 DEF Accept, NextRow, PathTo
<1>9. ASSUME NEW p \in Paths, NEW c \in Command, Reject(p, c)
      PROVE  (ClaimInv /\ RunInv /\ OutcomeInv /\ DispatchedOnce /\ LiveMoveIsKnown)'
  BY <1>9 DEF Reject, NextRow, PathTo
<1>10. ASSUME NEW p \in Paths, RejectLands(p)
      PROVE  (ClaimInv /\ RunInv /\ OutcomeInv /\ DispatchedOnce /\ LiveMoveIsKnown)'
  BY <1>10 DEF RejectLands, PathTo
<1>11. ASSUME NEW p \in Paths, ClaimLands(p)
      PROVE  (ClaimInv /\ RunInv /\ OutcomeInv /\ DispatchedOnce /\ LiveMoveIsKnown)'
  BY <1>11 DEF ClaimLands
<1>12. ASSUME NEW p \in Paths, ClaimAnswerLost(p)
      PROVE  (ClaimInv /\ RunInv /\ OutcomeInv /\ DispatchedOnce /\ LiveMoveIsKnown)'
  BY <1>12 DEF ClaimAnswerLost
<1>13. ASSUME NEW p \in Paths, ClaimTaken(p)
      PROVE  (ClaimInv /\ RunInv /\ OutcomeInv /\ DispatchedOnce /\ LiveMoveIsKnown)'
  BY <1>13 DEF ClaimTaken, PathTo
<1>14. ASSUME NEW p \in Paths, GiveUp(p)
      PROVE  (ClaimInv /\ RunInv /\ OutcomeInv /\ DispatchedOnce /\ LiveMoveIsKnown)'
  BY <1>14 DEF GiveUp, PathTo
<1>15. ASSUME NEW p \in Paths, ClaimWon(p)
      PROVE  (ClaimInv /\ RunInv /\ OutcomeInv /\ DispatchedOnce /\ LiveMoveIsKnown)'
  <2> DEFINE c == hand[p]
  <2>1. c \in Command /\ cloud[c] = "processing" /\ runs[c] = 0
    BY <1>15 DEF ClaimWon
  <2>2. /\ at' = [at EXCEPT ![p] = "idle"] /\ hand' = [hand EXCEPT ![p] = NoCommand]
        /\ runs' = [runs EXCEPT ![c] = @ + 1]
        /\ UNCHANGED <<kind, cloud>>
    BY <1>15 DEF ClaimWon, PathTo
  <2>3. \A d \in Command \ {c} : task'[d] = task[d] \/ task[d] # "none"
    BY <1>15, <2>1 DEF ClaimWon, Preempted
  <2>4. ClaimInv'
    BY <1>15, <2>1, <2>2 DEF ClaimWon
  <2>5. RunInv' /\ DispatchedOnce'
    BY <2>1, <2>2, <2>3
  <2>7. \A d \in Command \ {c} : Live(d)' => Live(d) /\ task'[d] = task[d]
    BY <1>15, <2>1 DEF ClaimWon
  <2>8. OutcomeInv'
    BY <2>1, <2>2, <2>7
  <2>6. LiveMoveIsKnown'
    <3>1. CASE kind[c] = "read"
      BY <1>15, <2>1, <3>1 DEF ClaimWon
    <3>2. CASE kind[c] # "read"
      BY <1>15, <2>1, <3>2 DEF ClaimWon, Preempted, Stops
    <3> QED
      BY <3>1, <3>2
  <2> QED
    BY <2>4, <2>5, <2>6, <2>8
<1>16. ASSUME NEW c \in Command, CallStarts(c)
      PROVE  (ClaimInv /\ RunInv /\ OutcomeInv /\ DispatchedOnce /\ LiveMoveIsKnown)'
  BY <1>16 DEF CallStarts
<1>17. ASSUME NEW c \in Command, CallReturns(c)
      PROVE  (ClaimInv /\ RunInv /\ OutcomeInv /\ DispatchedOnce /\ LiveMoveIsKnown)'
  BY <1>17 DEF CallReturns
<1>18. ASSUME NEW c \in Command, NextCall(c)
      PROVE  (ClaimInv /\ RunInv /\ OutcomeInv /\ DispatchedOnce /\ LiveMoveIsKnown)'
  BY <1>18 DEF NextCall
<1>19. ASSUME NEW c \in Command, ExecutionFails(c)
      PROVE  (ClaimInv /\ RunInv /\ OutcomeInv /\ DispatchedOnce /\ LiveMoveIsKnown)'
  BY <1>19 DEF ExecutionFails
<1>20. ASSUME NEW c \in Command, FeedbackLands(c)
      PROVE  (ClaimInv /\ RunInv /\ OutcomeInv /\ DispatchedOnce /\ LiveMoveIsKnown)'
  BY <1>20 DEF FeedbackLands
<1>21. ASSUME NEW c \in Command, FeedbackBuffered(c)
      PROVE  (ClaimInv /\ RunInv /\ OutcomeInv /\ DispatchedOnce /\ LiveMoveIsKnown)'
  BY <1>21 DEF FeedbackBuffered
<1>22. CASE UNCHANGED vars
  BY <1>22 DEF vars, cloudVars, receiver, executor
<1>23. CASE Stop
  BY <1>23 DEF Stop
<1>24. ASSUME NEW p \in Paths, PathRaises(p)
      PROVE  (ClaimInv /\ RunInv /\ OutcomeInv /\ DispatchedOnce /\ LiveMoveIsKnown)'
  BY <1>24 DEF PathRaises, PathTo
<1>25. ASSUME NEW c \in Command, FeedbackRaises(c)
      PROVE  (ClaimInv /\ RunInv /\ OutcomeInv /\ DispatchedOnce /\ LiveMoveIsKnown)'
  BY <1>25 DEF FeedbackRaises
<1> QED
  BY <1>1, <1>2, <1>3, <1>4, <1>5, <1>6, <1>7, <1>8, <1>9, <1>10, <1>11, <1>12,
     <1>13, <1>14, <1>15, <1>16, <1>17, <1>18, <1>19, <1>20, <1>21, <1>22,
     <1>23, <1>24, <1>25 DEF Next, Outside, PathStep, Answer, Feedback

LEMMA Invariance == Spec => []IInv
  BY Initially, Inductive, PTL DEF Spec

\* Type correctness of the two paths, the executor and the cloud's rows.
THEOREM TypeCorrect == Spec => []TypeOK
  BY Invariance, PTL DEF IInv

\* No command is dispatched twice, over two paths, lost answers and restarts.
THEOREM AtMostOneDispatch == Spec => []DispatchedOnce
  BY Invariance, PTL DEF IInv

\* A command closed as rejected was never dispatched.
THEOREM RejectionIsSafe == Spec => []RejectedNeverRuns
<1>1. IInv => RejectedNeverRuns
  BY DEF IInv, TypeOK, RunInv, RejectedNeverRuns
<1> QED
  BY <1>1, Invariance, PTL

\* At most one movement of the camera is executing, and _inflight knows it.
THEOREM OneLiveMove == Spec => []LiveMoveIsKnown
  BY Invariance, PTL DEF IInv

\* No step takes a dispatched stop from its task, except its own end or the service's.
THEOREM StopSurvives == Spec => StopIsNotPreempted
<1>1. IInv /\ [Next]_vars
        => [\A c \in Stops : Live(c) => Live(c)' \/ task'[c] = "over" \/ service' # service]_vars
  <2> SUFFICES ASSUME IInv, [Next]_vars, NEW s \in Stops, Live(s)
               PROVE  Live(s)' \/ task'[s] = "over" \/ service' # service
    OBVIOUS
  <2> USE CommandsAreNumbered
      DEF IInv, TypeOK, ClaimInv, Live, Stops, cloudVars, receiver, executor
  <2>1. ASSUME NEW c \in Command, Issue(c)
        PROVE  Live(s)' \/ task'[s] = "over" \/ service' # service
    BY <2>1 DEF Issue
  <2>2. ASSUME NEW c \in Command, Expire(c)
        PROVE  Live(s)' \/ task'[s] = "over" \/ service' # service
    BY <2>2 DEF Expire
  <2>3. CASE RealtimeDrops
    BY <2>3 DEF RealtimeDrops
  <2>4. CASE GoDown
    BY <2>4 DEF GoDown
  <2>5. CASE ComeUp
    BY <2>5 DEF ComeUp
  <2>6. CASE Sweep
    BY <2>6 DEF Sweep
  <2>7. ASSUME NEW p \in Paths, NEW c \in Command, SkipSeen(p, c)
        PROVE  Live(s)' \/ task'[s] = "over" \/ service' # service
    BY <2>7 DEF SkipSeen, NextRow
  <2>8. ASSUME NEW p \in Paths, NEW c \in Command, Accept(p, c)
        PROVE  Live(s)' \/ task'[s] = "over" \/ service' # service
    BY <2>8 DEF Accept, NextRow, PathTo
  <2>9. ASSUME NEW p \in Paths, NEW c \in Command, Reject(p, c)
        PROVE  Live(s)' \/ task'[s] = "over" \/ service' # service
    BY <2>9 DEF Reject, NextRow, PathTo
  <2>10. ASSUME NEW p \in Paths, RejectLands(p)
        PROVE  Live(s)' \/ task'[s] = "over" \/ service' # service
    BY <2>10 DEF RejectLands, PathTo
  <2>11. ASSUME NEW p \in Paths, ClaimLands(p)
        PROVE  Live(s)' \/ task'[s] = "over" \/ service' # service
    BY <2>11 DEF ClaimLands
  <2>12. ASSUME NEW p \in Paths, ClaimAnswerLost(p)
        PROVE  Live(s)' \/ task'[s] = "over" \/ service' # service
    BY <2>12 DEF ClaimAnswerLost
  <2>13. ASSUME NEW p \in Paths, ClaimTaken(p)
        PROVE  Live(s)' \/ task'[s] = "over" \/ service' # service
    BY <2>13 DEF ClaimTaken, PathTo
  <2>14. ASSUME NEW p \in Paths, GiveUp(p)
        PROVE  Live(s)' \/ task'[s] = "over" \/ service' # service
    BY <2>14 DEF GiveUp, PathTo
  <2>15. ASSUME NEW p \in Paths, ClaimWon(p)
        PROVE  Live(s)' \/ task'[s] = "over" \/ service' # service
    BY <2>15 DEF ClaimWon, PathTo, Preempted
  <2>16. ASSUME NEW c \in Command, CallStarts(c)
        PROVE  Live(s)' \/ task'[s] = "over" \/ service' # service
    BY <2>16 DEF CallStarts
  <2>17. ASSUME NEW c \in Command, CallReturns(c)
        PROVE  Live(s)' \/ task'[s] = "over" \/ service' # service
    BY <2>17 DEF CallReturns
  <2>18. ASSUME NEW c \in Command, NextCall(c)
        PROVE  Live(s)' \/ task'[s] = "over" \/ service' # service
    BY <2>18 DEF NextCall
  <2>19. ASSUME NEW c \in Command, ExecutionFails(c)
        PROVE  Live(s)' \/ task'[s] = "over" \/ service' # service
    BY <2>19 DEF ExecutionFails
  <2>20. ASSUME NEW c \in Command, FeedbackLands(c)
        PROVE  Live(s)' \/ task'[s] = "over" \/ service' # service
    BY <2>20 DEF FeedbackLands
  <2>21. ASSUME NEW c \in Command, FeedbackBuffered(c)
        PROVE  Live(s)' \/ task'[s] = "over" \/ service' # service
    BY <2>21 DEF FeedbackBuffered
  <2>22. CASE UNCHANGED vars
    BY <2>22 DEF vars, cloudVars, receiver, executor
  <2>23. CASE Stop
    BY <2>23 DEF Stop
  <2>24. ASSUME NEW p \in Paths, PathRaises(p)
        PROVE  Live(s)' \/ task'[s] = "over" \/ service' # service
    BY <2>24 DEF PathRaises, PathTo
  <2>25. ASSUME NEW c \in Command, FeedbackRaises(c)
        PROVE  Live(s)' \/ task'[s] = "over" \/ service' # service
    BY <2>25 DEF FeedbackRaises
  <2> QED
    BY <2>1, <2>2, <2>3, <2>4, <2>5, <2>6, <2>7, <2>8, <2>9, <2>10, <2>11, <2>12,
       <2>13, <2>14, <2>15, <2>16, <2>17, <2>18, <2>19, <2>20, <2>21, <2>22,
       <2>23, <2>24, <2>25 DEF Next, Outside, PathStep, Answer, Feedback
<1> QED
  BY <1>1, Invariance, PTL DEF Spec, StopIsNotPreempted

-----------------------------------------------------------------------------
(* Refinement                                                              *)

\* A step that leaves the rows and the dispatches alone is a stutter.
LEMMA RowsRest ==
  ASSUME cloud' = cloud, runs' = runs
  PROVE  [Lifecycle!Next]_<<cloud, runs>>
  OBVIOUS

\* Every step of the receiver, the executor and the process is a step of the
\* command's life cycle or a stutter.
LEMMA LifecycleStep ==
  ASSUME IInv, [Next]_vars
  PROVE  [Lifecycle!Next]_<<cloud, runs>>
<1> USE DEF IInv, TypeOK, Lifecycle!Move
<1>1. CASE cloud' = cloud /\ runs' = runs
  BY <1>1, RowsRest
<1>2. ASSUME NEW c \in Command, Issue(c)
      PROVE  Lifecycle!Next
  <2>1. Lifecycle!Issue(c)
    BY <1>2 DEF Issue, executor, Lifecycle!Issue
  <2> QED
    BY <2>1 DEF Lifecycle!Next
<1>3. ASSUME NEW p \in Paths, RejectLands(p), cloud' # cloud
      PROVE  Lifecycle!Next
  <2>1. hand[p] \in Command
    BY <1>3 DEF RejectLands, ClaimInv
  <2>2. cloud[hand[p]] = "pending"
    BY <1>3, <2>1 DEF RejectLands
  <2>3. Lifecycle!Refuse(hand[p])
    BY <1>3, <2>1, <2>2 DEF RejectLands, executor, Lifecycle!Refuse
  <2> QED
    BY <2>1, <2>3 DEF Lifecycle!Next
<1>4. ASSUME NEW p \in Paths, ClaimLands(p), cloud' # cloud
      PROVE  Lifecycle!Next
  <2>1. hand[p] \in Command
    BY <1>4 DEF ClaimLands, ClaimInv
  <2>2. Lifecycle!Take(hand[p])
    BY <1>4 DEF ClaimLands, executor, Lifecycle!Take
  <2> QED
    BY <2>1, <2>2 DEF Lifecycle!Next
<1>5. ASSUME NEW p \in Paths, ClaimWon(p)
      PROVE  Lifecycle!Next
  <2>1. hand[p] \in Command /\ cloud[hand[p]] = "processing" /\ runs[hand[p]] = 0
    BY <1>5 DEF ClaimWon, ClaimInv
  <2>2. Lifecycle!Start(hand[p])
    BY <1>5, <2>1 DEF ClaimWon, cloudVars, Lifecycle!Start
  <2> QED
    BY <2>1, <2>2 DEF Lifecycle!Next
<1>6. ASSUME NEW c \in Command, FeedbackLands(c)
      PROVE  Lifecycle!Next
  <2>1. runs[c] = 1
    BY <1>6 DEF FeedbackLands, RunInv, DispatchedOnce
  <2>2. CASE cloud[c] = "processing"
    <3>1. Lifecycle!Finish(c)
      BY <1>6, <2>1, <2>2 DEF FeedbackLands, Lifecycle!Finish
    <3> QED
      BY <3>1 DEF Lifecycle!Next
  <2>3. CASE task[c] = "failing" /\ cloud[c] = "completed"
    <3>1. Lifecycle!Revoke(c)
      BY <1>6, <2>1, <2>3 DEF FeedbackLands, Lifecycle!Revoke
    <3> QED
      BY <3>1 DEF Lifecycle!Next
  <2> QED
    BY <1>6, <2>2, <2>3 DEF FeedbackLands, OutcomeInv, Live
<1>7. ASSUME NEW c \in Command, FeedbackRaises(c), cloud' # cloud
      PROVE  Lifecycle!Next
  <2>1. cloud[c] = "processing" /\ runs[c] = 1
    BY <1>7 DEF FeedbackRaises, OutcomeInv, Live, RunInv, DispatchedOnce
  <2>2. Lifecycle!Finish(c)
    BY <1>7, <2>1 DEF FeedbackRaises, Lifecycle!Finish
  <2> QED
    BY <2>2 DEF Lifecycle!Next
<1> QED
  BY <1>1, <1>2, <1>3, <1>4, <1>5, <1>6, <1>7
     DEF Next, Outside, PathStep, Answer, Feedback, Expire, RealtimeDrops, Stop, GoDown, ComeUp, Sweep,
         SkipSeen, Accept, Reject, RejectLands, ClaimLands, ClaimAnswerLost, ClaimTaken, GiveUp, PathRaises,
         CallStarts, CallReturns, NextCall, ExecutionFails, FeedbackBuffered, FeedbackRaises,
         vars, cloudVars, executor

\* The PTZ service implements the life cycle of a command (ImplementsLifecycle).
THEOREM CommandsKeepLifecycle == Spec => ImplementsLifecycle
<1>1. Init => Lifecycle!Init
  BY DEF Init, Lifecycle!Init
<1> QED
  BY <1>1, Invariance, LifecycleStep, PTL DEF Spec, ImplementsLifecycle, Lifecycle!Spec
=============================================================================
