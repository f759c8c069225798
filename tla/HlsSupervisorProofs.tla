------------------------ MODULE HlsSupervisorProofs ------------------------
(***************************************************************************)
(* The safety of one camera's pipeline for every rtsp_max_failures.        *)
(***************************************************************************)
EXTENDS HlsSupervisor, TLAPS

\* The inductive invariant: what the three properties say, and what ties the
\* tasks, the process and the phase of stop() together.
IInv ==
  /\ TypeOK /\ PhaseInv
  /\ NoStrayFfmpeg /\ StoppedIsQuiet /\ HealthFollowsProcess

USE MaxFailuresAssumption

LEMMA Initially == Init => IInv
  BY DEF Init, IInv, TypeOK, PhaseInv, NoStrayFfmpeg, StoppedIsQuiet,
         HealthFollowsProcess, Flag

LEMMA Inductive == IInv /\ [Next]_vars => IInv'
<1> SUFFICES ASSUME IInv, [Next]_vars
             PROVE  IInv'
  OBVIOUS
<1> USE DEF IInv, TypeOK, PhaseInv, NoStrayFfmpeg, StoppedIsQuiet,
            HealthFollowsProcess, Flag, Runs, health
<1>1. CASE FfmpegExits
  BY <1>1 DEF FfmpegExits
<1>2. CASE FfmpegWrites
  BY <1>2 DEF FfmpegWrites
<1>3. CASE TimerExpires
  BY <1>3 DEF TimerExpires
<1>4. CASE Launched
  BY <1>4 DEF Launched, OnConnected
<1>5. CASE LaunchFails
  BY <1>5 DEF LaunchFails, RetryOrMark, Count
<1>6. CASE ExitNoticed
  BY <1>6 DEF ExitNoticed, DropProcess, OnFailure, RetryOrMark, Count
<1>7. CASE StallNoticed
  BY <1>7 DEF StallNoticed
<1>8. CASE Reconnect
  BY <1>8 DEF Reconnect
<1>9. CASE SegmentSeen
  BY <1>9 DEF SegmentSeen
<1>10. CASE Stop
  BY <1>10 DEF Stop
<1>11. CASE SupervisorCancelled
  BY <1>11 DEF SupervisorCancelled
<1>12. CASE WatcherCancelled
  BY <1>12 DEF WatcherCancelled
<1>13. CASE Terminate
  BY <1>13 DEF Terminate, DropProcess
<1>14. CASE Kill
  BY <1>14 DEF Kill
<1>15. CASE ExitedInGrace
  BY <1>15 DEF ExitedInGrace, DropProcess
<1>16. CASE Publish
  BY <1>16 DEF Publish
<1>17. CASE UNCHANGED vars
  BY <1>17 DEF vars
<1> QED
  BY <1>1, <1>2, <1>3, <1>4, <1>5, <1>6, <1>7, <1>8, <1>9, <1>10, <1>11, <1>12,
     <1>13, <1>14, <1>15, <1>16, <1>17 DEF Next, Supervise, StopStep

LEMMA Invariance == Spec => []IInv
  BY Initially, Inductive, PTL DEF Spec

\* Type correctness of the pipeline and its tasks.
THEOREM TypeCorrect == Spec => []TypeOK
  BY Invariance, PTL DEF IInv

\* An ffmpeg is never left running without the pipeline holding it.
THEOREM NoStray == Spec => []NoStrayFfmpeg
  BY Invariance, PTL DEF IInv

\* After stop() no task, no process and no "connected" is left.
THEOREM StopIsFinal == Spec => []StoppedIsQuiet
  BY Invariance, PTL DEF IInv

\* The health block says connected exactly while an ffmpeg is supervised.
THEOREM HealthIsTrue == Spec => []HealthFollowsProcess
  BY Invariance, PTL DEF IInv
=============================================================================
